--------------------------- MODULE BuildPipeline ---------------------------
(***************************************************************************)
(* What a product is built from: the engine steps that an index or an      *)
(* update runs on one operator (engine/codemap_engines.py,                 *)
(* pilot_engines.py, build.py, extract_cache.py, update/), with everything *)
(* they keep between calls.  Calls come one at a time here; the gate that  *)
(* makes them so is in CodemapService.                                     *)
(*                                                                         *)
(* A content stands for the bytes of all confirmed sources, and for the    *)
(* fingerprint made of them.  An IR is the content it was extracted from,  *)
(* a graph the contents its IR and its source passes saw, those whose      *)
(* kernel walks it took its call sites and types from, and its own mark    *)
(* that there may be more of them.                                         *)
(***************************************************************************)
EXTENDS Naturals, Sequences, FiniteSets

CONSTANTS Contents,  \* what the confirmed sources may hold
          None,      \* no content
          MaxRevs,   \* bound: revisions in the repository
          WalkLimit, \* _WALK_CACHE_LIMIT, walks a pass reads
          Hazards    \* what may happen besides calls and checkouts

Kinds == {"dirty",    \* sources are edited without a git commit
          "during",   \* the work tree changes while a call runs
          "cancel",   \* the client cancels
          "crash",    \* the server dies
          "fail",     \* an engine step fails
          "persist",  \* a cache file cannot be written
          "unread",   \* a confirmed source cannot be read for a moment
          "slow"}     \* UO_KERNEL_ROOT_TRACE_BUDGET_S is set, and is used up

ASSUME ContentAssumption == None \notin Contents /\ Contents # {} /\ IsFiniteSet(Contents)
ASSUME BoundAssumption == /\ MaxRevs \in Nat \ {0} /\ WalkLimit \in Nat \ {0}
                          /\ Hazards \subseteq Kinds

VARIABLES
  src, head, commits,                      \* the work tree, HEAD, the revisions' contents
  product,                                 \* the .uo file
  hostIr, fp, cache, manifest, changes,    \* what calls leave in .ascendc-codemap
  walks,                                   \* the contents whose walks are in cache/tu
  store, mem,                              \* _STORE["bundle"], _COMPILE_MEM
  pc, op, ir, key, failed, outcome,        \* the call under way
  steady,                                  \* history: the tree stood still since it began
  neat,                                    \* history: every edit so far was a commit
  known                                    \* history: no key of an analyze was a guess

tree == <<src, head, commits>>
files == <<hostIr, fp, cache, manifest, changes, walks>>
process == <<store, mem>>
locals == <<op, ir, key, failed>>
history == <<steady, neat, known>>
vars == <<tree, product, files, process, pc, locals, outcome, history>>

Maybe == Contents \cup {None}
Revisions == 1..MaxRevs

NoProduct == [ir |-> None, src |-> None, walked |-> {}, partial |-> FALSE, rev |-> 0]
NoBundle  == [ir |-> None, key |-> None]
NoCache   == [ir |-> None, src |-> None, walked |-> {}, partial |-> FALSE, key |-> None]
NoChanges == [base |-> 0, head |-> 0, src |-> None, changed |-> FALSE]

Locations == {"idle", "prepare", "extract", "persist", "stamp", "inputs", "compile",
              "commit", "done", "fresh", "detect", "answered"}
Outcomes == {"none", "updated", "noop", "failed", "cancelled"}

TypeOK ==
  /\ src \in Contents
  /\ commits \in Seq(Contents) /\ Len(commits) <= MaxRevs
  /\ head \in 1..Len(commits)
  /\ product \in [ir : Maybe, src : Maybe, walked : SUBSET Contents, partial : BOOLEAN,
                  rev : Revisions \cup {0}]
  /\ hostIr \in Maybe /\ fp \in Maybe
  /\ {cache, mem} \subseteq [ir : Maybe, src : Maybe, walked : SUBSET Contents,
                            partial : BOOLEAN, key : Maybe]
  /\ store \in [ir : Maybe, key : Maybe]
  /\ manifest \in Revisions \cup {0} /\ walks \subseteq Contents
  /\ changes \in [base : Revisions \cup {0}, head : Revisions \cup {0},
                  src : Maybe, changed : BOOLEAN]
  /\ pc \in Locations
  /\ op \in {"index", "update"}
  /\ ir \in Maybe /\ key \in Maybe
  /\ failed \in BOOLEAN
  /\ outcome \in Outcomes
  /\ {steady, neat, known} \subseteq BOOLEAN

Init ==
  /\ src \in Contents /\ head = 1 /\ commits = <<src>>
  /\ product = NoProduct
  /\ hostIr = None /\ fp = None /\ cache = NoCache /\ manifest = 0 /\ changes = NoChanges
  /\ walks = {}
  /\ store = NoBundle /\ mem = NoCache
  /\ pc = "idle" /\ op = "index" /\ ir = None /\ key = None /\ failed = FALSE
  /\ outcome = "none" /\ steady = TRUE /\ neat = TRUE /\ known = TRUE

-----------------------------------------------------------------------------
(* The work tree.                                                          *)
TreeMoves ==
  /\ pc = "idle" \/ "during" \in Hazards
  /\ steady' = (pc = "idle")
  /\ UNCHANGED <<product, files, process, pc, locals, outcome, known>>

Edit(c) == /\ "dirty" \in Hazards
           /\ c # src /\ src' = c
           /\ neat' = FALSE
           /\ UNCHANGED <<head, commits>>
           /\ TreeMoves

\* git commit of what is in the tree, or a pull of somebody else's revision
NewRevision(c) == /\ c = src \/ src = commits[head]
                  /\ Len(commits) < MaxRevs
                  /\ commits' = Append(commits, c)
                  /\ head' = Len(commits) + 1
                  /\ src' = c
                  /\ UNCHANGED neat
                  /\ TreeMoves

Checkout(r) == /\ head' = r /\ src' = commits[r]
               /\ <<head', src'>> # <<head, src>>
               /\ UNCHANGED <<commits, neat>>
               /\ TreeMoves

-----------------------------------------------------------------------------
(* Calls.                                                                  *)
Goto(l) == pc' = l /\ UNCHANGED outcome

Answer(o) == pc' = "answered" /\ outcome' = o

Call(o) ==
  /\ pc = "idle"
  /\ IF o = "index" THEN product = NoProduct ELSE product # NoProduct
  /\ op' = o /\ failed' = FALSE /\ ir' = None /\ key' = None /\ steady' = TRUE
  /\ outcome' = "none"
  /\ pc' = IF o = "index" THEN "prepare" ELSE "fresh"
  /\ UNCHANGED <<tree, product, files, process, neat, known>>

\* No call is under way.
Rest == /\ pc' = "idle" /\ outcome' = "none" /\ steady' = TRUE
        /\ op' = "index" /\ ir' = None /\ key' = None /\ failed' = FALSE

Return == /\ pc = "answered" /\ Rest
          /\ UNCHANGED <<tree, product, files, process, neat, known>>

(* should_stop is looked at between steps and between an update's phases.  *)
Cancel ==
  /\ "cancel" \in Hazards
  /\ pc \in {"prepare", "extract", "inputs", "commit", "detect"} \/ (pc = "done" /\ op = "update")
  /\ Answer("cancelled")
  /\ UNCHANGED <<tree, product, files, process, locals, history>>

(* A failed step ends an index; an update goes on to its next action.      *)
Failed(next) == \/ op = "index" /\ Answer("failed") /\ UNCHANGED failed
                \/ op = "update" /\ failed' = TRUE /\ Goto(next)

Fails(next) == "fail" \in Hazards /\ Failed(next)

(* compute_extract_fingerprint hashes every confirmed source whose time or *)
(* size is not the stored one.  It raises if one of these cannot be read.  *)
Raises == {r \in BOOLEAN : r => "unread" \in Hazards}

(* engine/runtime.py end_session: the process forgets its caches.          *)
EndSession == store' = NoBundle /\ mem' = NoCache

-----------------------------------------------------------------------------
(* prepare: the working tree is scrubbed but for the product, what is      *)
(* under cache/ and the summaries.                                         *)
Scrub == /\ hostIr' = None /\ cache' = NoCache /\ changes' = NoChanges
         /\ manifest' = head

Prepare ==
  /\ pc = "prepare"
  /\ \/ Scrub /\ Goto("extract") /\ UNCHANGED failed
     \/ (Scrub \/ UNCHANGED <<hostIr, cache, changes, manifest>>) /\ Fails("extract")
  /\ UNCHANGED <<tree, product, fp, walks, process, op, ir, key, history>>

(* An extraction keeps the walk of each unit under a key of its content,   *)
(* beside those of its former contents, which nobody deletes.              *)
Walk == walks' = walks \cup {src} \/ ("persist" \in Hazards /\ UNCHANGED walks)

\* Mutant: any pickle will do, whatever it was extracted from.
SkipIfKept == hostIr # None

(* skip_reextract: the stored fingerprint is that of the sources now, and  *)
(* the pickle of its IR is there.                                          *)
SkipReextract == fp = src /\ hostIr # None

Extract ==
  /\ pc = "extract"
  /\ \/ /\ TRUE \in Raises /\ Failed("inputs")
        /\ UNCHANGED <<walks, ir, process>>
     \/ /\ SkipReextract
        /\ ir' = hostIr /\ Goto("persist")
        /\ UNCHANGED <<walks, failed, process>>
     \/ /\ ~SkipReextract
        /\ Walk /\ ir' = src /\ Goto("persist")
        /\ UNCHANGED <<failed, process>>
     \/ /\ ~SkipReextract
        /\ Walk \/ UNCHANGED walks
        /\ EndSession /\ Fails("inputs") /\ UNCHANGED ir
  /\ UNCHANGED <<tree, product, hostIr, fp, cache, manifest, changes, op, key, history>>

(* The pickle is written, a failure to do so is swallowed.                 *)
Persist ==
  /\ pc = "persist"
  /\ \/ hostIr' = ir
     \/ "persist" \in Hazards /\ UNCHANGED hostIr
  /\ store' = [ir |-> ir, key |-> None]
  /\ Goto("stamp")
  /\ UNCHANGED <<tree, product, fp, cache, manifest, changes, walks, mem, locals, history>>

(* The fingerprint is computed afresh and stored, and two receipts beside  *)
(* it.  Where one of them cannot be written, or the fingerprint not be     *)
(* computed, the step fails, with what it has left so far.                 *)
StampFingerprint ==
  /\ pc = "stamp"
  /\ \/ /\ fp' = src /\ store' = [ir |-> ir, key |-> src]
        /\ Goto("inputs") /\ UNCHANGED failed
     \/ /\ Fails("inputs")
        /\ fp' \in {fp, None, src} /\ UNCHANGED store
     \/ /\ TRUE \in Raises /\ Failed("inputs")
        /\ UNCHANGED <<fp, store>>
  /\ UNCHANGED <<tree, product, hostIr, cache, manifest, changes, walks, mem,
                 op, ir, key, history>>

-----------------------------------------------------------------------------
\* Mutant: the stored fingerprint first, one of the sources only where there is none.
StoredFingerprint(raised) == IF fp # None THEN fp ELSE src

\* Where it cannot be computed the stored one will do, or else the empty one (None).
CurrentFingerprint(raised) == IF raised THEN fp ELSE src

(* _ensure_bundle: the process's bundle if it is of these sources (only an *)
(* update asks for it under the name it was stored with), else the pickle  *)
(* as it is, else a new extraction.                                        *)
BundleFits(raised) ==
  /\ op = "update" /\ store # NoBundle
  /\ store.key = None \/ CurrentFingerprint(raised) \in {None, store.key}

EnsureBundle(raised) ==
  \/ /\ BundleFits(raised)
     /\ ir' = store.ir /\ UNCHANGED <<store, hostIr, walks>>
  \/ /\ ~BundleFits(raised) /\ hostIr # None
     /\ ir' = hostIr /\ store' = [ir |-> hostIr, key |-> None]
     /\ UNCHANGED <<hostIr, walks>>
  \/ /\ ~BundleFits(raised) /\ hostIr = None
     /\ \/ /\ Walk /\ ir' = src /\ store' = [ir |-> src, key |-> None]
           /\ hostIr' = src \/ ("persist" \in Hazards /\ hostIr' = None)
        \/ /\ "fail" \in Hazards
           /\ Walk \/ UNCHANGED walks
           /\ ir' = None /\ UNCHANGED <<hostIr, store>>

\* load_compile_cache: memory first, then the pickle, which goes to memory.
Loaded == IF mem # NoCache THEN mem ELSE cache

\* Mutant: a compiled graph is reused whatever it was compiled from.
AnyCompiled(k) == Loaded # NoCache

FreshlyCompiled(k) == k # None /\ Loaded # NoCache /\ Loaded.key = k

(* analyze, first half: inputs, fingerprint, and the compile cache.        *)
Inputs ==
  /\ pc = "inputs"
  /\ \E raised \in Raises : EnsureBundle(raised)
  /\ \E raised \in Raises :
       /\ key' = CurrentFingerprint(raised)
       /\ known' = (known /\ (raised => key' \in {src, None}))
  /\ mem' = Loaded
  /\ Goto(IF FreshlyCompiled(key') THEN "commit" ELSE "compile")
  /\ UNCHANGED <<tree, product, fp, cache, manifest, changes, op, failed, steady, neat>>

\* Mutant: off by one, a list cut at the limit does not reach it.
PartialPastLimit(w) == Cardinality(w) > WalkLimit

\* The list read may have been cut: "clang_walk_cache_partial".
Partial(w) == Cardinality(w) >= WalkLimit

(* iter_cached_walks: of the kernel walks in cache/tu, whatever content    *)
(* their keys are of, the first few in the order of their file names,      *)
(* which are hashes: any of them.                                          *)
Listed == {w \in SUBSET walks : /\ Cardinality(w) <= WalkLimit
                                /\ w = walks \/ Cardinality(w) = WalkLimit}

(* collect_call_sites_from_walks: all on the list, or up to the deadline,  *)
(* which is left on the graph as budget_expired.                           *)
LoadWalks == {[walked |-> w, partial |-> Partial(w)] : w \in Listed}
        \cup {[walked |-> w, partial |-> TRUE] :
                w \in {v \in SUBSET walks : "slow" \in Hazards /\ \E l \in Listed : v \subseteq l}}

(* analyze, second half: compile from the IR, the sources and the walks,   *)
(* and keep the graph.                                                     *)
Compile ==
  /\ pc = "compile"
  /\ \/ /\ \E w \in LoadWalks :
             mem' = [ir |-> ir, src |-> src, walked |-> w.walked, partial |-> w.partial,
                     key |-> key]
        /\ cache' = mem' \/ ("persist" \in Hazards /\ UNCHANGED cache)
        /\ Goto("commit")
        /\ UNCHANGED <<store, failed>>
     \/ EndSession /\ Fails("commit") /\ UNCHANGED cache
  /\ UNCHANGED <<tree, product, hostIr, fp, manifest, changes, walks, op, ir, key, history>>

(* commit: what was compiled last, of whatever sources, or else a graph    *)
(* compiled on the spot; its revision is HEAD now.  A failed one may have  *)
(* taken the old file away, and extracted and kept an IR before it failed. *)
Commit ==
  /\ pc = "commit"
  /\ \/ /\ \E raised \in Raises : EnsureBundle(raised)
        /\ \/ /\ Loaded # NoCache
              /\ product' = [ir |-> Loaded.ir, src |-> Loaded.src, walked |-> Loaded.walked,
                             partial |-> Loaded.partial, rev |-> head]
           \/ /\ Loaded = NoCache
              /\ \E w \in LoadWalks' :
                   product' = [ir |-> ir', src |-> src, walked |-> w.walked,
                               partial |-> w.partial, rev |-> head]
        /\ mem' = NoCache
        /\ Goto("done")
        /\ UNCHANGED failed
     \/ /\ Fails("done")
        /\ product' \in {product, NoProduct}
        /\ \/ UNCHANGED <<hostIr, walks>>
           \/ /\ hostIr = None /\ \E raised \in Raises : ~BundleFits(raised)
              /\ Walk /\ hostIr' \in {None, src}
        /\ store' = NoBundle /\ mem' = Loaded
        /\ UNCHANGED ir
  /\ UNCHANGED <<tree, fp, cache, manifest, changes, op, key, history>>

Done ==
  /\ pc = "done"
  /\ \/ failed /\ Answer("failed") /\ UNCHANGED manifest
     \/ /\ ~failed /\ Answer("updated")
        /\ manifest' = IF op = "update" THEN changes.head ELSE manifest
  /\ UNCHANGED <<tree, product, hostIr, fp, cache, changes, walks, process, locals, history>>

-----------------------------------------------------------------------------
(* update: nothing to do when the freshness is fresh; else the change set, *)
(* the one on disk if it is still of this base, HEAD and work tree.        *)
Fresh == product.rev = head /\ src = commits[head]

CheckFresh ==
  /\ pc = "fresh"
  /\ IF Fresh THEN Answer("noop") ELSE Goto("detect")
  /\ UNCHANGED <<tree, product, files, process, locals, history>>

\* What git says when there is no earlier fingerprint to compare with, or none now.
GitChanged == commits[manifest] # commits[head] \/ src # commits[head]

ChangeSet(raised) ==
  IF changes # NoChanges /\ changes.base = manifest /\ changes.head = head /\ changes.src = src
  THEN changes
  ELSE [base |-> manifest, head |-> head, src |-> src,
             changed |-> IF raised \/ fp = None THEN GitChanged ELSE fp # src]

Detect ==
  /\ pc = "detect"
  /\ \E raised \in Raises : changes' = ChangeSet(raised)
  /\ IF changes'.changed
     THEN Goto("extract") /\ UNCHANGED manifest
     ELSE Answer("noop") /\ manifest' = changes'.head
  /\ UNCHANGED <<tree, product, hostIr, fp, cache, walks, process, locals, history>>

-----------------------------------------------------------------------------
(* The server dies and restarts.  A death inside the commit may take the   *)
(* product with it (CodemapService), one in the middle of writing the      *)
(* fingerprint or the compile cache leaves a file that cannot be read, one *)
(* in an extraction the walks so far.                                      *)
Crash ==
  /\ "crash" \in Hazards
  /\ product' = product \/ (pc = "commit" /\ product' = NoProduct)
  /\ fp' = fp \/ (pc = "stamp" /\ fp' = None)
  /\ cache' = cache \/ (pc = "compile" /\ cache' = NoCache)
  /\ EndSession /\ Rest
  /\ \/ UNCHANGED walks
     \/ pc \in {"extract", "inputs", "commit"} /\ walks' = walks \cup {src}
  /\ UNCHANGED <<tree, hostIr, manifest, changes, neat, known>>

World == \/ \E c \in Contents : Edit(c) \/ NewRevision(c)
         \/ \E r \in 1..Len(commits) : Checkout(r)
         \/ Crash

Engine == \/ Prepare \/ Extract \/ Persist \/ StampFingerprint
          \/ Inputs \/ Compile \/ Commit \/ Done

Next == \/ World \/ Engine
        \/ Call("index") \/ Call("update") \/ CheckFresh \/ Detect \/ Cancel \/ Return

Spec == Init /\ [][Next]_vars

-----------------------------------------------------------------------------
Current == product.ir = src /\ product.src = src

Answered(o) == pc = "answered" /\ outcome = o /\ steady

(* An index or update that reports updated=true on a tree that stood still *)
(* leaves a product whose IR and source passes saw nothing but these       *)
(* sources, with HEAD as its revision, whatever is in the caches.          *)
CompletedIsCurrent == Answered("updated") => Current /\ product.rev = head

(* build.py:139, "only when extract identity still matches": updated=true  *)
(* means that the source passes saw these sources.  It does not, once a    *)
(* graph was kept under a stored fingerprint for want of a computed one.   *)
UpdatedIsOfSources == Answered("updated") => product.src = src

(* Even when steps fail and caches cannot be written, updated=true means   *)
(* that the source passes saw exactly these sources, and HEAD is recorded; *)
(* only the IR may then be older, or missing.  It does so unless an        *)
(* analyze before could not read what it had to hash (pilot_engines.py     *)
(* _current_extract_fingerprint) and kept its graph under a foreign key.   *)
PassesCurrent == known => UpdatedIsOfSources /\ (Answered("updated") => product.rev = head)

(* A product never mixes an IR of one version of the sources with source   *)
(* passes over another.                                                    *)
WholeGraph == product.ir = product.src

(* A product has the kernel walks of the sources its IR was extracted from *)
(* (kernel_scan.py:299, "the TU Clang actually saw").  It may not, once    *)
(* there are more walks than a pass reads.                                 *)
WalksThere == product.ir # None => product.ir \in product.walked

(* A product that does not say of its kernel facts that walks may be       *)
(* missing (kernel_scan.py:735, clang_walk_cache_partial, and              *)
(* budget_expired) has those of the sources its IR was extracted from.     *)
WalksComplete == ~product.partial => WalksThere

(* build.py:213: what is compiled is "deterministic facts + current        *)
(* source": a product just made has no kernel facts of former sources.     *)
NoOldWalks == Answered("updated") => product.walked \subseteq {src}

(* A compiled graph is kept under the fingerprint of the sources it was    *)
(* compiled from, or under none and never reused, unless an analyze could  *)
(* not read what it had to hash and took the stored fingerprint for it.    *)
CachesHonest == known => \A g \in {cache, mem} : g.key \in {g.src, None}

(* README.md:103: freshness is about the current sources.  A product that  *)
(* is reported fresh is made of them.                                      *)
FreshIsCurrent == product # NoProduct /\ pc = "idle" /\ Fresh => Current

(* As long as every edit is a commit, a product reported fresh is made of  *)
(* the current sources, whatever cancelled and crashed calls left behind.  *)
CommittedFreshIsCurrent == neat => FreshIsCurrent

(* skills/update-operator/SKILL.md:27: a noop says that the graph already  *)
(* matches the sources.                                                    *)
NoopIsCurrent == Answered("noop") => Current
=============================================================================
