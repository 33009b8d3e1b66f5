----------------------------- MODULE SourceText -----------------------------
(***************************************************************************)
(* The texts a compile reads (engine/passes/source_text_cache.py), shared  *)
(* by all passes of engine/build.py compile_codemap and kept from one      *)
(* compile to the next, while files are edited.                            *)
(*                                                                         *)
(* The cache has two levels.  A text is kept under the path of its file.   *)
(* Its mask, the text without comments and strings, is kept under the      *)
(* object id of the text and under the path.  In CPython an id is an       *)
(* address: it names a text only as long as something refers to the text,  *)
(* and is given to another text after that.  So whether a mask is found    *)
(* under the right id depends on who still holds what.                     *)
(*                                                                         *)
(* A compile runs analyze passes (early), the passes before                *)
(* host_tiling_key (source), that pass (key), those after it (late) and    *)
(* one more analyze pass (refresh).  The key pass also masks texts of its  *)
(* own, made by expanding the macros of a file, and keeps where lines and  *)
(* functions begin in a text under the id of the text, in module state     *)
(* that outlives the pass.  A step is one lock section or what runs        *)
(* between two; masked_text is one step.                                   *)
(***************************************************************************)
EXTENDS Integers

CONSTANTS
    Builders,    \* threads that compile; of different operators, by the gate
    Files,       \* source files
    Addrs,       \* addresses for texts: bounds the texts alive at one time
    Nowhere,     \* no address
    NoText,      \* nothing was ever made at an address; nothing kept
    Expanding,   \* files with macros that expand to something else
    MaxVer       \* bound: versions of a file

ASSUME SourceTextAssumption ==
    /\ Nowhere \notin Addrs
    /\ Expanding \subseteq Files
    /\ MaxVer \in Nat \ {0}

Texts == [file : Files, ver : 1 .. MaxVer, expanded : BOOLEAN]

ASSUME NoTextAssumption == NoText \notin Texts

VARIABLES
    disk,      \* the version of each file
    heap,      \* the text made last at each address, alive or not
    text,      \* _TEXT
    masked,    \* _MASKED; a mask is given by the text it was made of
    byId,      \* _MASKED_BY_ID
    places,    \* _LINE_CACHE and _FUNC_CACHE of host_tiling_key, by id
    pc,        \* where each compile is
    hold,      \* the texts a pass refers to from its locals
    pending,   \* a text read outside the lock and not yet kept
    began,     \* the versions when the compile began
    seen,      \* the last text read_text returned to the pass
    given,     \* the last mask a pass was given, and of what it wanted it
    placed     \* the last places a pass was given, and in what it wanted them

vars == <<disk, heap, text, masked, byId, places, pc, hold, pending, began, seen, given,
          placed>>

NoMask == [wanted |-> NoText, got |-> NoText]

Pinned == {text[f] : f \in Files} \ {Nowhere}

\* What something refers to; any other address may be given to a new text.
Live == Pinned \cup (UNION {hold[b] : b \in Builders})
               \cup ({pending[b] : b \in Builders} \ {Nowhere})

-----------------------------------------------------------------------------
Init ==
    /\ disk = [f \in Files |-> 1]
    /\ heap = [a \in Addrs |-> NoText]
    /\ text = [f \in Files |-> Nowhere]
    /\ masked = [f \in Files |-> NoText]
    /\ byId = [a \in Addrs |-> NoText]
    /\ places = [a \in Addrs |-> NoText]
    /\ pc = [b \in Builders |-> "idle"]
    /\ hold = [b \in Builders |-> {}]
    /\ pending = [b \in Builders |-> Nowhere]
    /\ began = [b \in Builders |-> disk]
    /\ seen = [b \in Builders |-> NoText]
    /\ given = [b \in Builders |-> NoMask]
    /\ placed = [b \in Builders |-> NoMask]

\* The user saves a file.
Edit(f) ==
    /\ disk[f] < MaxVer
    /\ disk' = [disk EXCEPT ![f] = @ + 1]
    /\ UNCHANGED <<heap, text, masked, byId, places, pc, hold, pending, began, seen, given, placed>>

\* Mutant: clear() does not know of the masks under ids.
ClearTexts ==
    /\ text' = [f \in Files |-> Nowhere]
    /\ masked' = [f \in Files |-> NoText]
    /\ UNCHANGED byId

\* clear(): the texts that nobody else refers to die with it.
Clear ==
    /\ text' = [f \in Files |-> Nowhere]
    /\ masked' = [f \in Files |-> NoText]
    /\ byId' = [a \in Addrs |-> NoText]

Keep == UNCHANGED <<text, masked, byId>>

\* compile_codemap is entered; it clears nothing before its analyze passes.
Begin(b) ==
    /\ pc[b] = "idle"
    /\ pc' = [pc EXCEPT ![b] = "early"]
    /\ began' = [began EXCEPT ![b] = disk]
    /\ Keep
    /\ UNCHANGED <<disk, heap, places, hold, pending, seen, given, placed>>

Reading(b) == pc[b] # "idle" /\ pending[b] = Nowhere

\* read_text: the file has been read before.
Hit(b, f) ==
    /\ Reading(b)
    /\ text[f] # Nowhere
    /\ hold' = [hold EXCEPT ![b] = @ \cup {text[f]}]
    /\ seen' = [seen EXCEPT ![b] = heap[text[f]]]
    /\ UNCHANGED <<disk, heap, text, masked, byId, places, pc, pending, began, given, placed>>

\* read_text: it has not, so it is read, outside the lock.
Miss(b, f, a) ==
    /\ Reading(b)
    /\ text[f] = Nowhere
    /\ a \in Addrs \ Live
    /\ heap' = [heap EXCEPT ![a] = [file |-> f, ver |-> disk[f], expanded |-> FALSE]]
    /\ pending' = [pending EXCEPT ![b] = a]
    /\ UNCHANGED <<disk, text, masked, byId, places, pc, hold, began, seen, given, placed>>

\* read_text: what another thread has kept meanwhile wins.
Store(b) ==
    /\ pending[b] # Nowhere
    /\ LET f == heap[pending[b]].file
           a == IF text[f] = Nowhere THEN pending[b] ELSE text[f]
       IN  /\ text' = [text EXCEPT ![f] = a]
           /\ hold' = [hold EXCEPT ![b] = @ \cup {a}]
           /\ seen' = [seen EXCEPT ![b] = heap[a]]
    /\ pending' = [pending EXCEPT ![b] = Nowhere]
    /\ UNCHANGED <<disk, heap, masked, byId, places, pc, began, given, placed>>

\* expand_tpl_source: a text of the pass's own, if there is something to expand.
Expand(b, a, new) ==
    /\ pc[b] = "key" /\ Reading(b)
    /\ a \in hold[b]
    /\ heap[a].file \in Expanding /\ ~heap[a].expanded
    /\ new \in Addrs \ Live
    /\ heap' = [heap EXCEPT ![new] = [heap[a] EXCEPT !.expanded = TRUE]]
    /\ hold' = [hold EXCEPT ![b] = @ \cup {new}]
    /\ UNCHANGED <<disk, text, masked, byId, places, pc, pending, began, seen, given, placed>>

\* mask_cached of the text at address a: what is kept under its id, or else its mask.
MaskOf(a) == IF byId[a] # NoText THEN byId[a] ELSE heap[a]

\* mask_cached(text) from a pass.
MaskCached(b, a) ==
    /\ pc[b] \in {"key", "late"} /\ Reading(b)
    /\ a \in hold[b]
    /\ byId' = [byId EXCEPT ![a] = MaskOf(a)]
    /\ given' = [given EXCEPT ![b] = [wanted |-> heap[a], got |-> MaskOf(a)]]
    /\ UNCHANGED <<disk, heap, text, masked, places, pc, hold, pending, began, seen, placed>>

\* masked_text(path), after its read_text: by path first, then by id.
MaskedText(b, f) ==
    /\ pc[b] = "late" /\ Reading(b)
    /\ text[f] # Nowhere
    /\ LET a == text[f]
           got == IF masked[f] # NoText THEN masked[f] ELSE MaskOf(a)
       IN  /\ masked' = [masked EXCEPT ![f] = got]
           /\ byId' = IF masked[f] # NoText THEN byId ELSE [byId EXCEPT ![a] = got]
           /\ given' = [given EXCEPT ![b] = [wanted |-> heap[a], got |-> got]]
           /\ hold' = [hold EXCEPT ![b] = @ \cup {a}]
    /\ UNCHANGED <<disk, heap, text, places, pc, pending, began, seen, placed>>

\* _line and _funcs of host_tiling_key: where lines and functions begin in the text at
\* address a, by id.  Functions are looked for in the text's mask, which MaskCached has.
Locate(b, a) ==
    /\ pc[b] = "key" /\ Reading(b)
    /\ a \in hold[b]
    /\ LET got == IF places[a] # NoText THEN places[a] ELSE heap[a]
       IN  /\ places' = [places EXCEPT ![a] = got]
           /\ placed' = [placed EXCEPT ![b] = [wanted |-> heap[a], got |-> got]]
    /\ UNCHANGED <<disk, heap, text, masked, byId, pc, hold, pending, began, seen, given>>

After == [early |-> "source", source |-> "key", key |-> "late", late |-> "refresh",
          refresh |-> "idle"]

\* Mutant: what the analyze passes have read is taken over.
ClearsAfterLate == {"late"}

\* The phases compile_codemap clears the cache after.
ClearsAfter == {"early", "late"}

\* A pass returns, its locals die.
Leave(b) ==
    /\ hold' = [hold EXCEPT ![b] = {}]
    /\ seen' = [seen EXCEPT ![b] = NoText]
    /\ given' = [given EXCEPT ![b] = NoMask]
    /\ placed' = [placed EXCEPT ![b] = NoMask]
    /\ UNCHANGED <<disk, heap, pending, began>>

\* Another pass of the same phase follows; key and refresh are one pass.
NextPass(b) ==
    /\ pc[b] \in {"early", "source", "late"} /\ Reading(b)
    /\ Leave(b)
    /\ UNCHANGED <<text, masked, byId, places, pc>>

\* Mutant: the places of the last host_tiling_key pass are kept.
PlacesKept(b) == places

\* The key pass begins with no places.
PlacesFor(b) == IF pc[b] = "source" THEN [a \in Addrs |-> NoText] ELSE places

\* The last pass of the phase: refresh ends the compile and clears nothing.
NextPhase(b) ==
    /\ Reading(b)
    /\ Leave(b)
    /\ pc' = [pc EXCEPT ![b] = After[pc[b]]]
    /\ places' = PlacesFor(b)
    /\ IF pc[b] \in ClearsAfter THEN Clear ELSE Keep

\* A pass raises: analyze catches it and calls end_session.
Fail(b) ==
    /\ Reading(b)
    /\ Leave(b)
    /\ pc' = [pc EXCEPT ![b] = "idle"]
    /\ Clear
    /\ UNCHANGED places

Compile(b) ==
    \/ Begin(b)
    \/ \E f \in Files : Hit(b, f) \/ MaskedText(b, f)
    \/ \E f \in Files, a \in Addrs : Miss(b, f, a)
    \/ Store(b)
    \/ \E a, new \in Addrs : Expand(b, a, new)
    \/ \E a \in Addrs : MaskCached(b, a) \/ Locate(b, a)
    \/ NextPass(b)
    \/ NextPhase(b)
    \/ Fail(b)

Next ==
    \/ \E b \in Builders : Compile(b)
    \/ \E f \in Files : Edit(f)

Spec == Init /\ [][Next]_vars

-----------------------------------------------------------------------------
TypeOK ==
    /\ disk \in [Files -> 1 .. MaxVer]
    /\ heap \in [Addrs -> Texts \cup {NoText}]
    /\ text \in [Files -> Addrs \cup {Nowhere}]
    /\ masked \in [Files -> Texts \cup {NoText}]
    /\ byId \in [Addrs -> Texts \cup {NoText}]
    /\ places \in [Addrs -> Texts \cup {NoText}]
    /\ pc \in [Builders -> {"idle", "early", "source", "key", "late", "refresh"}]
    /\ hold \in [Builders -> SUBSET Addrs]
    /\ pending \in [Builders -> Addrs \cup {Nowhere}]
    /\ began \in [Builders -> [Files -> 1 .. MaxVer]]
    /\ seen \in [Builders -> Texts \cup {NoText}]
    /\ given \in [Builders -> [wanted : Texts \cup {NoText}, got : Texts \cup {NoText}]]
    /\ placed \in [Builders -> [wanted : Texts \cup {NoText}, got : Texts \cup {NoText}]]

\* The mask a pass is given is of the text it wanted it of, never of a dead text
\* whose address this one has (mask_cached, masked_text).
MaskExact == \A b \in Builders : given[b].got = given[b].wanted

\* The same as long as no pass has returned that made texts of its own: up to the end
\* of host_tiling_key, which holds all of its expanded texts until it returns.
MaskExactToKey ==
    \A b \in Builders : pc[b] # "late" => given[b].got = given[b].wanted

\* The lines and functions host_tiling_key gives its expressions are those of the text
\* they stand in, though the texts of its last pass are dead and their places are
\* still there when it begins (host_tiling_key.py, the two clear() and _line, _funcs).
PlacesExact == \A b \in Builders : placed[b].got = placed[b].wanted

NotOlder(b) == seen[b] # NoText => seen[b].ver >= began[b][seen[b].file]

\* What the passes behind the first clear read is no older than the compile: the
\* texts an earlier compile has left are gone (build.py, the clear before the
\* source passes and the one before the refresh).
SourcePassesCurrent ==
    \A b \in Builders : pc[b] \in {"source", "key", "late", "refresh"} => NotOlder(b)

\* The same of every pass: a compile is of the current sources.
AllReadsCurrent == \A b \in Builders : NotOlder(b)
=============================================================================
