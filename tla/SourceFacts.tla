----------------------------- MODULE SourceFacts -----------------------------
(***************************************************************************)
(* The lexical facts of kernel sources (engine/source_index/), which the   *)
(* root trace of a compile takes call sites, aliases and members from.     *)
(* They are kept by path while a compile runs, and on disk by the hash of  *)
(* a file's bytes, for every later compile and process.                    *)
(*                                                                         *)
(* The hash is taken of the file; the facts are made of its text in the    *)
(* cache of SourceText, read some passes earlier.  They name the file they *)
(* were made of, while the key does not.  Here a content stands for the    *)
(* bytes of a file and for their hash, and facts are given by the content  *)
(* and the file they were made of.  Names differ from those of SourceText, *)
(* so that one module of proofs can extend both.                           *)
(***************************************************************************)
EXTENDS Naturals

CONSTANTS
    Kernels,       \* kernel source files
    Contents,      \* what a file may have in it
    ContentsOf,    \* for each file, the contents that users write into it
    Name,          \* for each file, its name without directories
    Absent,        \* there is no such file; the content of empty facts
    Nothing,       \* nothing kept, nothing asked, nothing given
    EditsDuring,   \* whether files are edited while a compile runs
    Deadlines      \* whether the time budget of the root trace may run out

ASSUME SourceFactsAssumption ==
    /\ ContentsOf \in [Kernels -> SUBSET Contents]
    /\ Absent \notin Contents
    /\ EditsDuring \in BOOLEAN /\ Deadlines \in BOOLEAN

Facts == [of : Contents \cup {Absent}, file : Kernels]

ASSUME NothingAssumption == Nothing \notin Contents \cup {Absent} \cup Facts

VARIABLES
    src,       \* the content of each file
    cached,    \* _TEXT of source_text_cache
    index,     \* _INDEX: facts by path
    store,     \* the pickles in cache/source_facts, by key
    phase,     \* where the compile is; "lookup" and "scan" are in get_or_build
    looked,    \* files get_or_build has looked up
    missing,   \* the key of each file it has to scan
    byFile,    \* by_file of the index it is going to return
    taken      \* the facts the root trace was given for each file

fvars == <<src, cached, index, store, phase, looked, missing, byFile, taken>>

None == [f \in Kernels |-> Nothing]

FactsInit ==
    /\ src \in {s \in [Kernels -> Contents] : \A f \in Kernels : s[f] \in ContentsOf[f]}
    /\ cached = None
    /\ index = None
    /\ store = [c \in Contents |-> Nothing]
    /\ phase = "idle"
    /\ looked = {}
    /\ missing = None
    /\ byFile = None
    /\ taken = None

-----------------------------------------------------------------------------
\* The user saves, removes or brings back a file.
Save(f) ==
    /\ phase = "idle" \/ EditsDuring
    /\ \E c \in (ContentsOf[f] \cup {Absent}) \ {src[f]} : src' = [src EXCEPT ![f] = c]
    /\ UNCHANGED <<cached, index, store, phase, looked, missing, byFile, taken>>

\* compile_codemap is entered.
Start ==
    /\ phase = "idle"
    /\ phase' = "early"
    /\ UNCHANGED <<src, cached, index, store, looked, missing, byFile, taken>>

\* Mutant: a file that is not there is read too.
ReadAnyText(f) ==
    /\ phase \in {"early", "source", "refresh"}
    /\ cached[f] = Nothing
    /\ cached' = [cached EXCEPT ![f] = src[f]]
    /\ UNCHANGED <<src, index, store, phase, looked, missing, byFile, taken>>

\* read_text by some other pass.
ReadText(f) ==
    /\ phase \in {"early", "source", "refresh"}
    /\ cached[f] = Nothing /\ src[f] # Absent
    /\ cached' = [cached EXCEPT ![f] = src[f]]
    /\ UNCHANGED <<src, index, store, phase, looked, missing, byFile, taken>>

-----------------------------------------------------------------------------
\* get_or_build is called.
Ask ==
    /\ phase = "source"
    /\ phase' = "lookup"
    /\ looked' = {}
    /\ byFile' = None
    /\ UNCHANGED <<src, cached, index, store, missing, taken>>

\* Mutant: the bytes of the file are left out of the key.
KeyOfNothing(f) == CHOOSE c \in Contents : TRUE

\* facts_cache_key of the file as it is now.
Key(f) == src[f]

Looking(f) ==
    /\ phase = "lookup" /\ f \notin looked
    /\ looked' = looked \cup {f}
    /\ UNCHANGED <<src, cached, store, phase, taken>>

\* One round of the loop: by path ...
Indexed(f) ==
    /\ Looking(f)
    /\ index[f] # Nothing
    /\ byFile' = [byFile EXCEPT ![f] = index[f]]
    /\ UNCHANGED <<index, missing>>

\* ... or there is no file ...
Gone(f) ==
    /\ Looking(f)
    /\ index[f] = Nothing /\ src[f] = Absent
    /\ UNCHANGED <<index, missing, byFile>>

\* ... or by key, or else it has to be scanned.
Hashed(f) ==
    /\ Looking(f)
    /\ index[f] = Nothing /\ src[f] # Absent
    /\ LET kept == store[Key(f)]
       IN  /\ index' = [index EXCEPT ![f] = kept]
           /\ byFile' = [byFile EXCEPT ![f] = kept]
           /\ missing' = [missing EXCEPT ![f] = IF kept = Nothing THEN Key(f) ELSE Nothing]

\* The loop ends, or breaks at the deadline.
EndLookup ==
    /\ phase = "lookup"
    /\ looked = Kernels \/ Deadlines
    /\ phase' = "scan"
    /\ UNCHANGED <<src, cached, index, store, looked, missing, byFile, taken>>

\* _scan_missing_item: the text is the one read before, if any; a file that is gone by now
\* gives empty facts.  In a process of its own the text read does not come back; the write
\* of the pickle may fail, which is swallowed.
Scan(f) ==
    /\ phase = "scan" /\ missing[f] # Nothing
    /\ LET c == IF cached[f] # Nothing THEN cached[f] ELSE src[f]
           facts == [of |-> c, file |-> f]
       IN  /\ store' \in {store, [store EXCEPT ![missing[f]] = facts]}
           /\ index' = [index EXCEPT ![f] = facts]
           /\ byFile' = [byFile EXCEPT ![f] = facts]
           /\ \/ UNCHANGED cached
              \/ c # Absent /\ cached' = [cached EXCEPT ![f] = c]
    /\ missing' = [missing EXCEPT ![f] = Nothing]
    /\ UNCHANGED <<src, phase, looked, taken>>

\* facts_for: f itself, or a file of the same name if f is not in the index.
StandsFor(g, f) ==
    IF byFile[f] = Nothing /\ \E h \in Kernels : Name[h] = Name[f] /\ byFile[h] # Nothing
    THEN Name[g] = Name[f] /\ byFile[g] # Nothing
    ELSE g = f

\* get_or_build returns, and the root trace takes what it has for its files.
Answer ==
    /\ phase = "scan" /\ missing = None
    /\ phase' = "source"
    /\ \E g \in [Kernels -> Kernels] :
           /\ \A f \in Kernels : StandsFor(g[f], f)
           /\ taken' = [f \in Kernels |-> byFile[g[f]]]
    /\ UNCHANGED <<src, cached, index, store, looked, missing, byFile>>

-----------------------------------------------------------------------------
Following == [early |-> "source", source |-> "refresh", refresh |-> "idle"]

\* Mutant: nothing is cleared.
ResetsAfterNone == {}

\* The phases after which compile_codemap clears texts and index.
ResetsAfter == {"early", "source"}

Reset == cached' = None /\ index' = None

EndPhase ==
    /\ phase \in DOMAIN Following
    /\ phase' = Following[phase]
    /\ IF phase \in ResetsAfter THEN Reset ELSE UNCHANGED <<cached, index>>
    /\ taken' = None
    /\ UNCHANGED <<src, store, looked, missing, byFile>>

\* A pass raises and analyze calls end_session; or the process dies.
Stop ==
    /\ phase # "idle"
    /\ phase' = "idle"
    /\ Reset
    /\ missing' = None
    /\ taken' = None
    /\ UNCHANGED <<src, store, looked, byFile>>

FactsNext ==
    \/ \E f \in Kernels : Save(f) \/ ReadText(f) \/ Scan(f)
    \/ \E f \in Kernels : Indexed(f) \/ Gone(f) \/ Hashed(f)
    \/ Start \/ Ask \/ EndLookup \/ Answer \/ EndPhase \/ Stop

FactsSpec == FactsInit /\ [][FactsNext]_fvars

-----------------------------------------------------------------------------
MaybeFacts == Facts \cup {Nothing}

FactsTypeOK ==
    /\ src \in [Kernels -> Contents \cup {Absent}]
    /\ cached \in [Kernels -> Contents \cup {Nothing}]
    /\ index \in [Kernels -> MaybeFacts] /\ byFile \in [Kernels -> MaybeFacts]
    /\ taken \in [Kernels -> MaybeFacts]
    /\ store \in [Contents -> MaybeFacts]
    /\ missing \in [Kernels -> Contents \cup {Nothing}]
    /\ looked \subseteq Kernels
    /\ phase \in {"idle", "lookup", "scan"} \cup DOMAIN Following

\* The facts a compile takes for a file are of the bytes the file has, whatever compiles,
\* edits, failures and restarts came before (get_or_build, cache.py, the clears of build.py).
FactsCurrent == \A f \in Kernels : taken[f] # Nothing => taken[f].of = src[f]

\* ... and they name that file, not one they were once made of: call sites, members and
\* aliases become entities at the file and line in them (builder.py, model.py).
FactsOfOwnFile == \A f \in Kernels : taken[f] # Nothing => taken[f].file = f

\* What is on disk under the hash of some bytes was made of these bytes (cache.py:4).
KeyNamesContent == \A c \in Contents : store[c] # Nothing => store[c].of = c
=============================================================================
