------------------------ MODULE BuildPipeline_proofs ------------------------
(***************************************************************************)
(* What TLAPS proves of BuildPipeline, for any contents and any number of  *)
(* revisions: the types under every hazard, the honesty of the compile     *)
(* caches and the currency of the passes while the tree stands still       *)
(* during calls and no key is a guess, that builds are current and graphs  *)
(* whole when, besides, nothing fails, and that missing walks are marked.  *)
(***************************************************************************)
EXTENDS BuildPipeline, TLAPS

USE ContentAssumption, BoundAssumption

Caches == [ir : Maybe, src : Maybe, walked : SUBSET Contents, partial : BOOLEAN, key : Maybe]
Products == [ir : Maybe, src : Maybe, walked : SUBSET Contents, partial : BOOLEAN,
             rev : Revisions \cup {0}]
Bundles == [ir : Maybe, key : Maybe]

LEMMA Empties == /\ None \in Maybe /\ Contents \subseteq Maybe
                 /\ NoCache \in Caches /\ NoBundle \in Bundles
                 /\ NoProduct \in Products
                 /\ NoChanges \in [base : Revisions \cup {0}, head : Revisions \cup {0},
                                   src : Maybe, changed : BOOLEAN]
                 /\ NoCache.ir = None /\ NoCache.src = None /\ NoCache.key = None
                 /\ NoBundle.ir = None /\ NoBundle.key = None
                 /\ NoChanges.changed = FALSE
BY DEF Maybe, NoCache, NoBundle, NoProduct, NoChanges, Caches, Bundles, Products

LEMMA LoadedType == TypeOK => Loaded \in Caches
BY DEF TypeOK, Loaded, Caches

\* What the passes get of the walks that are there: all, or a mark.
GoodWalks(w) == /\ w.walked \subseteq walks /\ w.partial \in BOOLEAN
                /\ ~w.partial => w.walked = walks

LEMMA LoadWalksGood == /\ \A w \in LoadWalks : GoodWalks(w)
                       /\ (\A w \in LoadWalks : GoodWalks(w))'
<1>1. \A w \in Listed : w \subseteq walks /\ (Partial(w) \/ w = walks) /\ Partial(w) \in BOOLEAN
  BY DEF Listed, Partial
<1>2. (\A w \in Listed : w \subseteq walks /\ (Partial(w) \/ w = walks) /\ Partial(w) \in BOOLEAN)'
  BY DEF Listed, Partial
<1>3. ASSUME NEW w \in LoadWalks PROVE GoodWalks(w)
  <2>1. CASE \E l \in Listed : w = [walked |-> l, partial |-> Partial(l)]
    BY <1>1, <2>1 DEF GoodWalks
  <2>2. CASE \E v \in SUBSET walks : w = [walked |-> v, partial |-> TRUE]
    BY <2>2 DEF GoodWalks
  <2> QED BY <1>3, <2>1, <2>2 DEF LoadWalks
<1>4. ASSUME NEW w \in LoadWalks' PROVE GoodWalks(w)'
  <2>1. CASE \E l \in Listed' : w = [walked |-> l, partial |-> Partial(l)]
    BY <1>2, <2>1 DEF GoodWalks
  <2>2. CASE \E v \in SUBSET (walks') : w = [walked |-> v, partial |-> TRUE]
    BY <2>2 DEF GoodWalks
  <2> QED BY <1>4, <2>1, <2>2 DEF LoadWalks
<1> QED BY <1>3, <1>4

\* Where no source is unreadable, no computation of a fingerprint fails.
LEMMA RaisesType == /\ Raises \subseteq BOOLEAN
                    /\ "unread" \notin Hazards => Raises = {FALSE}
BY DEF Raises

LEMMA WalkType == TypeOK /\ (Walk \/ UNCHANGED walks) => walks' \subseteq Contents
BY DEF TypeOK, Walk

(* The bundle that an analyze or a commit gets is of the right type.       *)
LEMMA EnsureType == TypeOK /\ (\E raised \in Raises : EnsureBundle(raised)) =>
                      /\ ir' \in Maybe /\ hostIr' \in Maybe /\ store' \in Bundles
                      /\ walks' \subseteq Contents
BY Empties DEF TypeOK, EnsureBundle, Walk, Bundles, Maybe

LEMMA TreeType ==
  ASSUME TypeOK, \/ \E c \in Contents : Edit(c) \/ NewRevision(c)
                 \/ \E r \in 1..Len(commits) : Checkout(r)
  PROVE  TypeOK'
<1>1. ASSUME NEW c \in Contents, Edit(c) PROVE TypeOK'
  <2>1. src' \in Contents /\ neat' \in BOOLEAN /\ steady' \in BOOLEAN
    BY <1>1 DEF Edit, TreeMoves
  <2>2. UNCHANGED <<head, commits, product, files, process, pc, locals, outcome, known>>
    BY <1>1 DEF Edit, TreeMoves
  <2> QED BY <2>1, <2>2 DEF TypeOK, files, process, locals
<1>2. ASSUME NEW c \in Contents, NewRevision(c) PROVE TypeOK'
  <2>1. /\ commits' \in Seq(Contents) /\ Len(commits') <= MaxRevs
        /\ head' \in 1..Len(commits') /\ src' \in Contents
    BY <1>2 DEF TypeOK, NewRevision
  <2> QED
    BY <1>2, <2>1 DEF TypeOK, NewRevision, TreeMoves, files, process, locals, history, Maybe, Revisions, Locations, Outcomes
<1>3. ASSUME NEW r \in 1..Len(commits), Checkout(r) PROVE TypeOK'
  BY <1>3 DEF TypeOK, Checkout, TreeMoves, files, process, locals, history, Maybe, Revisions, Locations, Outcomes
<1> QED BY <1>1, <1>2, <1>3

\* The two ways a commit ends.
CommitDone ==
  /\ \E raised \in Raises : EnsureBundle(raised)
  /\ \/ /\ Loaded # NoCache
        /\ product' = [ir |-> Loaded.ir, src |-> Loaded.src, walked |-> Loaded.walked,
                       partial |-> Loaded.partial, rev |-> head]
     \/ /\ Loaded = NoCache
        /\ \E w \in LoadWalks' :
             product' = [ir |-> ir', src |-> src, walked |-> w.walked,
                         partial |-> w.partial, rev |-> head]
  /\ mem' = NoCache
  /\ Goto("done")
  /\ UNCHANGED failed

CommitFails ==
  /\ Fails("done")
  /\ product' \in {product, NoProduct}
  /\ UNCHANGED <<hostIr, walks>> \/ (Walk /\ hostIr = None /\ hostIr' \in {None, src})
  /\ store' = NoBundle /\ mem' = Loaded
  /\ UNCHANGED ir

LEMMA CommitCases == Commit => /\ CommitDone \/ CommitFails
                               /\ UNCHANGED <<tree, fp, cache, manifest, changes, op, key, history>>
BY DEF Commit, CommitDone, CommitFails

LEMMA HeadType == TypeOK => head \in Revisions /\ head # 0
BY DEF TypeOK, Revisions

LEMMA ChangeSetType ==
  ASSUME TypeOK, NEW raised \in BOOLEAN
  PROVE  ChangeSet(raised) \in [base : Revisions \cup {0}, head : Revisions \cup {0},
                                src : Maybe, changed : BOOLEAN]
<1>1. (IF raised \/ fp = None THEN GitChanged ELSE fp # src) \in BOOLEAN
  BY DEF GitChanged
<1> QED BY <1>1, HeadType DEF TypeOK, ChangeSet, Maybe

LEMMA EngineType == TypeOK /\ (Engine \/ Call("index") \/ Call("update") \/ CheckFresh
                               \/ Detect \/ Cancel \/ Return \/ Crash) => TypeOK'
<1> SUFFICES ASSUME TypeOK, Engine \/ Call("index") \/ Call("update") \/ CheckFresh
                            \/ Detect \/ Cancel \/ Return \/ Crash
             PROVE  TypeOK'
  OBVIOUS
<1> USE Empties, HeadType DEF tree, files, process, locals, history, Goto, Answer, Locations, Outcomes
<1>1. CASE Prepare
  <2>1. /\ hostIr' \in Maybe /\ cache' \in Caches
        /\ changes' = NoChanges \/ changes' = changes
        /\ manifest' = head \/ manifest' = manifest
    BY <1>1 DEF TypeOK, Prepare, Scrub, Caches
  <2>2. pc' \in Locations /\ failed' \in BOOLEAN /\ outcome' \in Outcomes
    BY <1>1 DEF TypeOK, Prepare, Fails, Failed
  <2>3. UNCHANGED <<tree, product, fp, walks, process, op, ir, key, history>>
    BY <1>1 DEF Prepare
  <2> QED BY <2>1, <2>2, <2>3 DEF TypeOK, Caches
<1>2. CASE Extract
  <2>1. ir' \in Maybe /\ store' \in Bundles /\ mem' \in Caches
    BY <1>2 DEF TypeOK, Extract, EndSession, Bundles, Caches, Maybe
  <2>2. pc' \in Locations /\ failed' \in BOOLEAN /\ outcome' \in Outcomes
    BY <1>2 DEF TypeOK, Extract, Fails, Failed
  <2>3. UNCHANGED <<tree, product, hostIr, fp, cache, manifest, changes, op, key, history>>
    BY <1>2 DEF Extract
  <2>4. walks' \subseteq Contents
    BY <1>2, WalkType DEF Extract
  <2> QED BY <2>1, <2>2, <2>3, <2>4 DEF TypeOK, Caches, Bundles
<1>3. CASE Persist
  <2>1. store' \in Bundles /\ hostIr' \in Maybe
    BY <1>3 DEF TypeOK, Persist, Bundles
  <2> QED BY <1>3, <2>1 DEF TypeOK, Persist, Bundles
<1>4. CASE StampFingerprint
  <2>1. /\ fp' \in {fp, None, src}
        /\ store' = store \/ store' = [ir |-> ir, key |-> src]
    BY <1>4 DEF StampFingerprint
  <2>a. store' \in Bundles /\ fp' \in Maybe
    BY <2>1 DEF TypeOK, Bundles, Maybe
  <2>2. pc' \in Locations /\ failed' \in BOOLEAN /\ outcome' \in Outcomes
    BY <1>4 DEF TypeOK, StampFingerprint, Fails, Failed
  <2> QED BY <1>4, <2>a, <2>2 DEF TypeOK, StampFingerprint, Bundles
<1>5. CASE Inputs
  <2>1. key' \in Maybe /\ known' \in BOOLEAN
    BY <1>5 DEF TypeOK, Inputs, CurrentFingerprint, Maybe
  <2>2. /\ ir' \in Maybe /\ hostIr' \in Maybe /\ store' \in Bundles
        /\ walks' \subseteq Contents
    BY <1>5, EnsureType DEF Inputs
  <2> QED BY <1>5, <2>1, <2>2, LoadedType DEF TypeOK, Inputs, Caches, Bundles
<1>6. CASE Compile
  <2>1. mem' \in Caches /\ cache' \in Caches /\ store' \in Bundles
    BY <1>6, LoadWalksGood DEF TypeOK, Compile, EndSession, Caches, Bundles, Maybe, GoodWalks
  <2>2. pc' \in Locations /\ failed' \in BOOLEAN /\ outcome' \in Outcomes
    BY <1>6 DEF TypeOK, Compile, Fails, Failed
  <2> QED BY <1>6, <2>1, <2>2 DEF TypeOK, Compile, Caches, Bundles
<1>7. CASE Commit
  <2>1. CASE CommitDone
    <3>1. /\ ir' \in Maybe /\ hostIr' \in Maybe /\ store' \in Bundles
          /\ walks' \subseteq Contents
      BY <2>1, EnsureType DEF CommitDone
    <3>2. Loaded \in Caches /\ src \in Maybe
      BY LoadedType DEF TypeOK, Maybe
    <3>3. \A w \in LoadWalks' : w.walked \subseteq Contents /\ w.partial \in BOOLEAN
      BY <3>1, LoadWalksGood DEF GoodWalks
    <3>4. product' \in Products
      BY <2>1, <3>1, <3>2, <3>3 DEF CommitDone, Caches, Products
    <3> QED BY <1>7, <2>1, <3>1, <3>4 DEF TypeOK, Commit, CommitDone, Bundles, Caches, Products
  <2>2. CASE CommitFails
    <3>1. UNCHANGED <<tree, fp, cache, manifest, changes, op, key, history>>
      BY <1>7 DEF Commit
    <3>2. mem' \in Caches /\ hostIr' \in Maybe /\ store' \in Bundles
      BY <2>2, LoadedType DEF CommitFails, TypeOK, Maybe
    <3>3. product' \in Products
      BY <2>2 DEF CommitFails, TypeOK, Products
    <3>4. walks' \subseteq Contents
      BY <2>2, WalkType DEF CommitFails
    <3> QED BY <2>2, <3>1, <3>2, <3>3, <3>4 DEF CommitFails, TypeOK, Fails, Failed, Bundles, Caches, Products
  <2> QED BY <1>7, <2>1, <2>2, CommitCases
<1>8. CASE Done BY <1>8 DEF TypeOK, Done
<1>9. CASE Call("index") BY <1>9 DEF TypeOK, Call
<1>10. CASE Call("update") BY <1>10 DEF TypeOK, Call
<1>11. CASE CheckFresh BY <1>11 DEF TypeOK, CheckFresh
<1>12. CASE Detect BY <1>12, ChangeSetType, RaisesType DEF TypeOK, Detect
<1>13. CASE Cancel BY <1>13 DEF TypeOK, Cancel
<1>14. CASE Return
  <2>1. /\ pc' = "idle" /\ outcome' = "none" /\ op' = "index" /\ ir' = None /\ key' = None
        /\ UNCHANGED <<tree, product, files, process, neat, known>>
    BY <1>14 DEF Return, Rest
  <2>2. steady' \in BOOLEAN /\ failed' \in BOOLEAN
    BY <1>14 DEF Return, Rest
  <2>3. neat' \in BOOLEAN /\ known' \in BOOLEAN
    BY <2>1 DEF TypeOK
  <2> QED BY <2>1, <2>2, <2>3 DEF TypeOK
<1>15. CASE Crash
  <2>1. walks' \subseteq Contents
    BY <1>15 DEF TypeOK, Crash
  <2>2. product' \in Products /\ fp' \in Maybe /\ cache' \in Caches
    BY <1>15 DEF TypeOK, Crash, Caches, Products
  <2> QED BY <1>15, <2>1, <2>2 DEF TypeOK, Crash, Rest, EndSession, Caches, Bundles, Products
<1> QED BY <1>1, <1>2, <1>3, <1>4, <1>5, <1>6, <1>7, <1>8, <1>9, <1>10, <1>11, <1>12,
           <1>13, <1>14, <1>15 DEF Engine

(* The variables of the build pipeline keep their types under every hazard *)
(* (pilot_engines.py, codemap_engines.py, build.py, update/).              *)
THEOREM TypeCorrect == Spec => []TypeOK
<1>1. Init => TypeOK
  <2> SUFFICES ASSUME Init PROVE TypeOK
    OBVIOUS
  <2>1. commits \in Seq(Contents) /\ Len(commits) = 1 /\ 1 <= MaxRevs
    BY DEF Init
  <2>2. head \in 1..Len(commits)
    BY <2>1 DEF Init
  <2> QED
    BY <2>1, <2>2, Empties DEF Init, TypeOK, Caches, Bundles, Products, Revisions, Locations, Outcomes, Maybe
<1>2. TypeOK /\ [Next]_vars => TypeOK'
  <2>1. TypeOK /\ UNCHANGED vars => TypeOK'
    BY DEF TypeOK, vars, tree, files, process, locals, history, Maybe, Revisions, Locations, Outcomes
  <2> QED BY <2>1, TreeType, EngineType DEF Next, World
<1> QED BY <1>1, <1>2, PTL DEF Spec

-----------------------------------------------------------------------------
(***************************************************************************)
(* The compile caches.  The fingerprint under which analyze keeps a graph  *)
(* is computed before the graph is compiled, so the tree must not move in  *)
(* between.                                                                *)
(***************************************************************************)
CacheInv == CachesHonest /\ (known /\ pc = "compile" => key \in {src, None})

LEMMA CachesStep ==
  ASSUME "during" \notin Hazards, TypeOK, CacheInv, [Next]_vars
  PROVE  CacheInv'
<1> USE Empties DEF tree, files, process, locals, history, Goto, Answer
<1>1. CASE \/ \E c \in Contents : Edit(c) \/ NewRevision(c)
           \/ \E r \in 1..Len(commits) : Checkout(r)
  <2>1. pc = "idle" /\ UNCHANGED <<pc, files, process, known>>
    BY <1>1 DEF Edit, NewRevision, Checkout, TreeMoves
  <2> QED BY <2>1 DEF CacheInv, CachesHonest
<1>2. CASE Crash
  BY <1>2 DEF Crash, Rest, EndSession, CacheInv, CachesHonest
<1>3. CASE Engine
  <2>1. CASE Prepare
    BY <2>1 DEF Prepare, Scrub, Fails, Failed, CacheInv, CachesHonest
  <2>2. CASE Extract
    BY <2>2 DEF Extract, Fails, Failed, EndSession, CacheInv, CachesHonest
  <2>3. CASE Persist \/ StampFingerprint \/ Done
    <3>1. pc' # "compile" /\ UNCHANGED <<src, cache, mem, known>>
      <4>1. CASE Persist BY <4>1 DEF Persist
      <4>2. CASE StampFingerprint BY <4>2 DEF StampFingerprint, Fails, Failed
      <4>3. CASE Done BY <4>3 DEF Done
      <4> QED BY <2>3, <4>1, <4>2, <4>3
    <3> QED BY <3>1 DEF CacheInv, CachesHonest
  <2>4. CASE Inputs
    <3>1. PICK raised \in Raises : /\ key' = CurrentFingerprint(raised)
                                   /\ known' = (known /\ (raised => key' \in {src, None}))
      BY <2>4 DEF Inputs
    <3>2. known' => known /\ key' \in {src, None}
      BY <3>1 DEF CurrentFingerprint
    <3> QED BY <2>4, <3>2 DEF Inputs, Loaded, CacheInv, CachesHonest
  <2>5. CASE Compile
    <3>1. CASE /\ \E w \in LoadWalks :
                     mem' = [ir |-> ir, src |-> src, walked |-> w.walked, partial |-> w.partial,
                             key |-> key]
               /\ cache' \in {cache, mem'} /\ pc' = "commit"
      <4>1. mem'.src = src /\ mem'.key = key
        BY <3>1
      <4> QED BY <2>5, <3>1, <4>1 DEF Compile, CacheInv, CachesHonest
    <3>2. CASE mem' = NoCache /\ cache' = cache /\ pc' # "compile"
      BY <2>5, <3>2, Empties DEF Compile, CacheInv, CachesHonest
    <3> QED BY <2>5, <3>1, <3>2 DEF Compile, EndSession, Fails, Failed
  <2>6. CASE Commit
    <3>1. mem' = NoCache \/ mem' = Loaded
      BY <2>6, CommitCases DEF CommitDone, CommitFails
    <3>2. cache' = cache /\ pc' # "compile"
      BY <2>6, CommitCases DEF CommitDone, CommitFails, Fails, Failed
    <3> QED BY <2>6, <3>1, <3>2, CommitCases, Empties DEF Loaded, CacheInv, CachesHonest
  <2> QED BY <1>3, <2>1, <2>2, <2>3, <2>4, <2>5, <2>6 DEF Engine
<1>4. CASE Call("index") \/ Call("update") \/ CheckFresh \/ Detect \/ Cancel \/ Return
  BY <1>4 DEF Call, CheckFresh, Detect, Cancel, Return, Rest, CacheInv, CachesHonest
<1>5. CASE UNCHANGED vars
  BY <1>5 DEF vars, CacheInv, CachesHonest
<1> QED BY <1>1, <1>2, <1>3, <1>4, <1>5 DEF Next, World

(* Whatever fails, is cancelled or crashes, a compiled graph is kept under *)
(* the fingerprint of the sources it was compiled from, unless an analyze  *)
(* that could not compute it kept a graph under the stored one of other    *)
(* sources (build.py, pilot_engines.py _current_extract_fingerprint).      *)
THEOREM CachesAreHonest == ASSUME "during" \notin Hazards PROVE Spec => []CachesHonest
<1> SUFFICES ASSUME "during" \notin Hazards PROVE Spec => []CachesHonest
  OBVIOUS
<1> USE DEF tree, files, process, locals, history, Goto, Answer
<1>1. Init => CacheInv
  BY Empties DEF Init, CacheInv, CachesHonest
<1>2. TypeOK /\ CacheInv /\ [Next]_vars => CacheInv'
  BY CachesStep
<1>3. CacheInv => CachesHonest
  BY DEF CacheInv
<1> QED BY <1>1, <1>2, <1>3, TypeCorrect, PTL DEF Spec

(* The graph that a call without a failed step is about to commit, and the *)
(* product it then leaves, come from source passes over these sources: its *)
(* stamp was written, so that even the stored fingerprint is of them.      *)
PassInv ==
  /\ CacheInv
  /\ pc = "inputs" /\ ~failed => fp = src
  /\ pc = "commit" /\ ~failed => mem # NoCache /\ (known => mem.src = src)
  /\ (pc = "done" /\ ~failed) \/ (pc = "answered" /\ outcome = "updated")
       => (known => product.src = src) /\ product.rev = head

LEMMA PassStep ==
  ASSUME TypeOK, PassInv, CacheInv', Engine
  PROVE  PassInv'
<1> USE DEF tree, files, process, locals, history, Goto, Answer
<1>1. CASE Prepare \/ Extract \/ Persist
  BY <1>1 DEF Prepare, Extract, Persist, Fails, Failed, PassInv
<1>2. CASE StampFingerprint
  BY <1>2 DEF StampFingerprint, Fails, Failed, PassInv
<1>3. CASE Inputs
  <2>1. key' \in {fp, src}
    BY <1>3 DEF Inputs, CurrentFingerprint
  <2>2. /\ pc = "inputs" /\ pc' \in {"commit", "compile"} /\ (known' => known)
        /\ UNCHANGED <<src, failed>>
    BY <1>3 DEF Inputs
  <2>3. pc' = "commit" => mem' # NoCache /\ mem'.key = key' /\ key' # None
    BY <1>3 DEF Inputs, FreshlyCompiled
  <2>4. pc' = "commit" /\ ~failed' => mem' # NoCache /\ (known' => mem'.src = src)
    BY <2>1, <2>2, <2>3 DEF PassInv, CacheInv, CachesHonest
  <2> QED BY <2>2, <2>4 DEF PassInv
<1>4. CASE Compile
  <2>1. CASE pc' = "commit" /\ UNCHANGED failed
             /\ \E w \in LoadWalks :
                  mem' = [ir |-> ir, src |-> src, walked |-> w.walked, partial |-> w.partial,
                          key |-> key]
    <3>1. mem' # NoCache /\ mem'.src = src
      BY <2>1, Empties DEF TypeOK
    <3> QED BY <1>4, <2>1, <3>1 DEF Compile, PassInv
  <2>2. CASE Failed("commit")
    BY <1>4, <2>2 DEF Compile, Failed, PassInv
  <2> QED BY <1>4, <2>1, <2>2 DEF Compile, Fails
<1>5. CASE Commit
  <2>0. /\ pc = "commit"
        /\ UNCHANGED <<tree, fp, cache, manifest, changes, op, key, history>>
    BY <1>5 DEF Commit
  <2>1. CASE CommitFails
    BY <2>0, <2>1 DEF CommitFails, Fails, Failed, PassInv
  <2>2. CASE CommitDone
    <3>1. ~failed => Loaded = mem /\ Loaded # NoCache
      BY <2>0 DEF PassInv, Loaded
    <3>2. ~failed => product'.src = mem.src /\ product'.rev = head
      BY <2>2, <3>1 DEF CommitDone
    <3>3. pc' = "done" /\ UNCHANGED <<failed, outcome>>
      BY <2>2 DEF CommitDone
    <3> QED BY <2>0, <3>2, <3>3 DEF PassInv
  <2> QED BY <1>5, <2>1, <2>2, CommitCases
<1>6. CASE Done
  BY <1>6 DEF Done, PassInv
<1> QED BY <1>1, <1>2, <1>3, <1>4, <1>5, <1>6 DEF Engine

(* Even when steps fail and caches cannot be written, updated=true means   *)
(* source passes over exactly these sources, recorded as HEAD, unless an   *)
(* analyze before kept a graph under a stored fingerprint of other sources *)
(* (codemap_engines.py, update/apply.py).                                  *)
THEOREM PassesAreCurrent == ASSUME "during" \notin Hazards PROVE Spec => []PassesCurrent
<1> SUFFICES ASSUME "during" \notin Hazards PROVE Spec => []PassesCurrent
  OBVIOUS
<1> USE DEF tree, files, process, locals, history, Goto, Answer
<1>1. Init => PassInv
  BY Empties DEF Init, PassInv, CacheInv, CachesHonest
<1>2. TypeOK /\ PassInv /\ [Next]_vars => PassInv'
  <2> SUFFICES ASSUME TypeOK, PassInv, [Next]_vars PROVE PassInv'
    OBVIOUS
  <2>0. CacheInv'
    BY CachesStep DEF PassInv
  <2>1. CASE \/ \E c \in Contents : Edit(c) \/ NewRevision(c)
             \/ \E r \in 1..Len(commits) : Checkout(r)
    <3>1. pc = "idle" /\ pc' = "idle"
      BY <2>1 DEF Edit, NewRevision, Checkout, TreeMoves
    <3> QED BY <2>0, <3>1 DEF PassInv
  <2>2. CASE Crash
    BY <2>0, <2>2 DEF Crash, Rest, PassInv
  <2>3. CASE Engine
    BY <2>0, <2>3, PassStep
  <2>4. CASE Call("index") \/ Call("update") \/ CheckFresh \/ Detect \/ Cancel \/ Return
    BY <2>0, <2>4 DEF Call, CheckFresh, Detect, Cancel, Return, Rest, PassInv
  <2>5. CASE UNCHANGED vars
    BY <2>0, <2>5 DEF vars, PassInv
  <2> QED BY <2>1, <2>2, <2>3, <2>4, <2>5 DEF Next, World
<1>3. PassInv => PassesCurrent
  BY DEF PassInv, PassesCurrent, UpdatedIsOfSources, Answered
<1> QED BY <1>1, <1>2, <1>3, TypeCorrect, PTL DEF Spec

-----------------------------------------------------------------------------
(***************************************************************************)
(* Builds in which no step, write or read of a source fails, on a tree     *)
(* that stands still while a call runs.  Cancels, crashes, edits without a *)
(* commit and a budget that runs out remain.                               *)
(***************************************************************************)
NothingFails == Hazards \cap {"during", "fail", "persist", "unread"} = {}

\* A compiled graph kept in memory or on disk is whole and rightly named.
KeptInv == /\ cache # NoCache => cache.ir = cache.key /\ cache.src = cache.key
           /\ mem # NoCache => mem.ir = mem.key /\ mem.src = mem.key

\* While a call builds, what it has at hand is of the sources as they are.
StepInv ==
  /\ pc \in {"persist", "stamp"} => ir = src
  /\ pc \in {"stamp", "inputs", "compile", "commit"} => hostIr = src
  /\ pc \in {"inputs", "compile", "commit"} => store.ir = src
  /\ pc = "compile" => ir = src /\ key = src
  /\ pc = "commit" => mem # NoCache /\ mem.key = src
  /\ pc = "done" \/ (pc = "answered" /\ outcome = "updated") =>
       product.ir = src /\ product.src = src /\ product.rev = head
  /\ ~failed

\* An extraction is skipped only where the pickle is of the stored
\* fingerprint: the calls that might find another one do not get there.
SkipInv ==
  /\ pc = "extract" /\ op = "index" => hostIr = None
  /\ pc \in {"extract", "persist", "stamp"} =>
       IF op = "index" THEN ~changes.changed ELSE changes.src = src
  /\ changes.changed => changes.src # None
  /\ changes.changed /\ fp = changes.src => hostIr \in {None, changes.src}
  /\ pc = "extract" /\ op = "update" => changes.changed
  /\ pc \in {"fresh", "detect"} => op = "update"
  /\ pc = "prepare" => op = "index"

BuildInv == KeptInv /\ StepInv /\ SkipInv /\ WholeGraph

LEMMA BuildInit == Init => BuildInv
BY Empties DEF Init, BuildInv, KeptInv, StepInv, SkipInv, WholeGraph, NoProduct, NoChanges

LEMMA TreeKeepsBuild ==
  ASSUME NothingFails, BuildInv,
         \/ \E c \in Contents : Edit(c) \/ NewRevision(c)
         \/ \E r \in 1..Len(commits) : Checkout(r)
  PROVE  BuildInv'
<1>1. pc = "idle" /\ UNCHANGED <<product, files, process, pc, locals, outcome>>
  BY DEF NothingFails, Edit, NewRevision, Checkout, TreeMoves
<1> QED BY <1>1 DEF files, process, locals, BuildInv, KeptInv, StepInv, SkipInv, WholeGraph

(* With the pickle there, the bundle has the IR of the sources.            *)
LEMMA EnsureCurrent ==
  ASSUME TypeOK, \E raised \in Raises : EnsureBundle(raised), hostIr = src, store.ir = src
  PROVE  ir' = src /\ hostIr' = src /\ store'.ir = src
BY DEF TypeOK, EnsureBundle

LEMMA EngineKeepsBuild ==
  ASSUME TypeOK, NothingFails, BuildInv, Engine
  PROVE  BuildInv'
<1> USE Empties DEF tree, files, process, locals, history, Goto, Answer
<1>0. /\ \A l : ~Fails(l)
      /\ "persist" \notin Hazards
      /\ Raises = {FALSE}
  BY RaisesType DEF NothingFails, Fails
<1>1. CASE Prepare
  <2>1. Scrub /\ pc' = "extract" /\ op' = op /\ UNCHANGED <<tree, product, fp, process, failed, outcome>>
    BY <1>0, <1>1 DEF Prepare
  <2>2. KeptInv' BY <2>1 DEF Scrub, BuildInv, KeptInv
  <2>3. StepInv' BY <2>1 DEF BuildInv, StepInv
  <2>4. SkipInv'
    <3>1. op' = "index"
      BY <1>1, <2>1 DEF Prepare, BuildInv, SkipInv
    <3>2. hostIr' = None /\ changes'.changed = FALSE
      BY <2>1 DEF Scrub
    <3> QED BY <2>1, <3>1, <3>2 DEF SkipInv
  <2> QED BY <2>1, <2>2, <2>3, <2>4 DEF BuildInv, WholeGraph
<1>2. CASE Extract
  <2>1. /\ pc = "extract" /\ pc' = "persist"
        /\ ir' = (IF SkipReextract THEN hostIr ELSE src)
        /\ UNCHANGED <<tree, product, hostIr, fp, cache, manifest, changes, process,
                       op, key, failed, outcome>>
    BY <1>0, <1>2 DEF Extract
  <2>2. SkipReextract => hostIr = src
    BY <2>1 DEF SkipReextract, BuildInv, SkipInv, TypeOK
  <2>3. KeptInv' /\ WholeGraph' BY <2>1 DEF BuildInv, KeptInv, WholeGraph
  <2>4. StepInv' BY <2>1, <2>2 DEF BuildInv, StepInv
  <2>5. SkipInv' BY <2>1 DEF BuildInv, SkipInv
  <2> QED BY <2>3, <2>4, <2>5 DEF BuildInv
<1>3. CASE Persist
  <2>1. /\ pc = "persist" /\ pc' = "stamp" /\ hostIr' = ir
        /\ UNCHANGED <<tree, product, fp, cache, manifest, changes, mem, op, ir, key, failed, outcome>>
    BY <1>0, <1>3 DEF Persist
  <2>2. KeptInv' /\ WholeGraph' BY <2>1 DEF BuildInv, KeptInv, WholeGraph
  <2>3. StepInv' BY <2>1 DEF BuildInv, StepInv
  <2>4. SkipInv' BY <2>1 DEF BuildInv, StepInv, SkipInv, TypeOK
  <2> QED BY <2>2, <2>3, <2>4 DEF BuildInv
<1>4. CASE StampFingerprint
  <2>1. /\ pc = "stamp" /\ pc' = "inputs" /\ fp' = src /\ store' = [ir |-> ir, key |-> src]
        /\ UNCHANGED <<tree, product, hostIr, cache, manifest, changes, mem, op, ir, key, failed, outcome>>
    BY <1>0, <1>4 DEF StampFingerprint
  <2>2. KeptInv' /\ WholeGraph' BY <2>1 DEF BuildInv, KeptInv, WholeGraph
  <2>3. StepInv' BY <2>1 DEF BuildInv, StepInv
  <2>4. SkipInv' BY <2>1 DEF BuildInv, StepInv, SkipInv
  <2> QED BY <2>2, <2>3, <2>4 DEF BuildInv
<1>5. CASE Inputs
  <2>1. /\ pc = "inputs" /\ key' = src /\ mem' = Loaded
        /\ pc' = (IF FreshlyCompiled(src) THEN "commit" ELSE "compile")
        /\ UNCHANGED <<tree, product, fp, cache, manifest, changes, op, failed, outcome>>
    BY <1>0, <1>5 DEF Inputs, CurrentFingerprint
  <2>2. ir' = src /\ hostIr' = src /\ store'.ir = src /\ hostIr = src
    BY <1>5, <2>1, EnsureCurrent DEF Inputs, BuildInv, StepInv
  <2>3. KeptInv' /\ WholeGraph' BY <2>1 DEF BuildInv, KeptInv, WholeGraph, Loaded
  <2>4. StepInv'
    <3>1. FreshlyCompiled(src) => mem' # NoCache /\ mem'.key = src
      BY <2>1 DEF FreshlyCompiled
    <3> QED BY <2>1, <2>2, <3>1 DEF BuildInv, StepInv
  <2>5. SkipInv' BY <2>1, <2>2 DEF BuildInv, SkipInv
  <2> QED BY <2>3, <2>4, <2>5 DEF BuildInv
<1>6. CASE Compile
  <2>1. /\ pc = "compile" /\ pc' = "commit" /\ cache' = mem'
        /\ \E w \in LoadWalks :
             mem' = [ir |-> ir, src |-> src, walked |-> w.walked, partial |-> w.partial,
                     key |-> key]
        /\ UNCHANGED <<tree, product, hostIr, fp, manifest, changes, op, ir, key, store, failed, outcome>>
    BY <1>0, <1>6 DEF Compile
  <2>2. ir = src /\ key = src BY <2>1 DEF BuildInv, StepInv
  <2>3. mem'.ir = src /\ mem'.src = src /\ mem'.key = src /\ mem' # NoCache
    BY <2>1, <2>2 DEF TypeOK
  <2>4. KeptInv' /\ WholeGraph' BY <2>1, <2>3 DEF BuildInv, KeptInv, WholeGraph
  <2>5. StepInv' BY <2>1, <2>2, <2>3 DEF BuildInv, StepInv
  <2>6. SkipInv' BY <2>1 DEF BuildInv, SkipInv
  <2> QED BY <2>4, <2>5, <2>6 DEF BuildInv
<1>7. CASE Commit
  <2>1. /\ pc = "commit" /\ CommitDone
        /\ UNCHANGED <<tree, fp, cache, manifest, changes, op>>
    BY <1>0, <1>7, CommitCases DEF Commit, CommitFails
  <2>a. /\ pc' = "done" /\ mem' = NoCache /\ UNCHANGED <<failed, outcome>>
        /\ \E raised \in Raises : EnsureBundle(raised)
    BY <2>1 DEF CommitDone
  <2>2. Loaded # NoCache /\ Loaded.ir = src /\ Loaded.src = src
    BY <2>1 DEF BuildInv, StepInv, KeptInv, Loaded
  <2>3. product'.ir = src /\ product'.src = src /\ product'.rev = head
    BY <2>1, <2>2 DEF CommitDone
  <2>4. hostIr' = src /\ hostIr = src
    BY <2>1, <2>a, EnsureCurrent DEF BuildInv, StepInv
  <2>5. KeptInv' /\ WholeGraph' BY <2>1, <2>a, <2>3 DEF BuildInv, KeptInv, WholeGraph
  <2>6. StepInv' BY <2>1, <2>a, <2>3 DEF BuildInv, StepInv
  <2>7. SkipInv' BY <2>1, <2>a, <2>4 DEF BuildInv, SkipInv
  <2> QED BY <2>5, <2>6, <2>7 DEF BuildInv
<1>8. CASE Done
  <2>1. /\ pc = "done" /\ pc' = "answered"
        /\ UNCHANGED <<tree, product, hostIr, fp, cache, changes, process, locals>>
    BY <1>8 DEF Done
  <2> QED BY <2>1 DEF BuildInv, KeptInv, StepInv, SkipInv, WholeGraph
<1> QED BY <1>1, <1>2, <1>3, <1>4, <1>5, <1>6, <1>7, <1>8 DEF Engine

LEMMA CallKeepsBuild ==
  ASSUME TypeOK, NothingFails, BuildInv,
         Call("index") \/ Call("update") \/ CheckFresh \/ Detect \/ Cancel \/ Return \/ Crash
  PROVE  BuildInv'
<1> USE Empties DEF tree, files, process, locals, history, Goto, Answer
<1>1. ASSUME NEW o \in {"index", "update"}, Call(o) PROVE BuildInv'
  <2>1. /\ IF o = "index" THEN pc' = "prepare" ELSE pc' = "fresh"
        /\ op' = o /\ failed' = FALSE
        /\ UNCHANGED <<tree, product, files, process>>
    BY <1>1 DEF Call
  <2> QED BY <2>1 DEF BuildInv, KeptInv, StepInv, SkipInv, WholeGraph
<1>2. CASE CheckFresh
  BY <1>2 DEF CheckFresh, BuildInv, KeptInv, StepInv, SkipInv, WholeGraph
<1>3. CASE Detect
  <2>0. Raises = {FALSE}
    BY RaisesType DEF NothingFails
  <2>1. /\ pc = "detect"
        /\ IF changes'.changed THEN pc' = "extract" ELSE pc' = "answered" /\ outcome' = "noop"
        /\ UNCHANGED <<tree, product, hostIr, fp, cache, process, locals>>
    BY <1>3 DEF Detect
  <2>2. op = "update"
    BY <2>1 DEF BuildInv, SkipInv
  <2>3. KeptInv' /\ StepInv' /\ WholeGraph'
    BY <2>1 DEF BuildInv, KeptInv, StepInv, WholeGraph
  <2>4. CASE changes' = changes /\ changes.src = src
    <3>1. UNCHANGED changes BY <2>1, <2>4
    <3>2. CASE changes.changed
      BY <2>1, <2>2, <2>3, <2>4, <3>1, <3>2 DEF BuildInv, SkipInv
    <3>3. CASE ~changes.changed
      BY <2>1, <2>2, <2>3, <2>4, <3>1, <3>3 DEF BuildInv, SkipInv
    <3> QED BY <3>2, <3>3
  <2>5. CASE changes' = [base |-> manifest, head |-> head, src |-> src,
                         changed |-> IF fp = None THEN GitChanged ELSE fp # src]
    <3>0. src # None
      BY DEF TypeOK
    <3>1. changes'.src = src /\ src # None
      BY <2>1, <2>5, <3>0
    <3>2. changes'.changed => fp # src
      BY <2>1, <2>5, <3>0
    <3>3. IF changes'.changed THEN pc' = "extract" ELSE pc' = "answered"
      BY <2>1
    <3> QED BY <2>1, <2>2, <2>3, <3>1, <3>2, <3>3 DEF BuildInv, SkipInv
  <2> QED BY <1>3, <2>0, <2>3, <2>4, <2>5 DEF Detect, ChangeSet, BuildInv
<1>4. CASE Cancel
  BY <1>4 DEF Cancel, BuildInv, KeptInv, StepInv, SkipInv, WholeGraph
<1>5. CASE Return
  BY <1>5 DEF Return, Rest, BuildInv, KeptInv, StepInv, SkipInv, WholeGraph
<1>6. CASE Crash
  <2>1. /\ product' \in {product, NoProduct} /\ fp' \in {fp, None} /\ cache' \in {cache, NoCache}
        /\ mem' = NoCache /\ pc' = "idle" /\ failed' = FALSE
        /\ UNCHANGED <<tree, hostIr, manifest, changes>>
    BY <1>6 DEF Crash, Rest, EndSession
  <2>2. KeptInv' /\ StepInv' BY <2>1 DEF BuildInv, KeptInv, StepInv
  <2>3. SkipInv' BY <2>1 DEF BuildInv, SkipInv
  <2>4. WholeGraph' BY <2>1 DEF BuildInv, WholeGraph, NoProduct
  <2> QED BY <2>2, <2>3, <2>4 DEF BuildInv
<1> QED BY <1>1, <1>2, <1>3, <1>4, <1>5, <1>6

\* What the pipeline keeps and holds is of one content (codemap_engines.py).
LEMMA BuildInvariant == ASSUME NothingFails PROVE Spec => []BuildInv
<1>1. TypeOK /\ BuildInv /\ [Next]_vars => BuildInv'
  <2> SUFFICES ASSUME TypeOK, BuildInv, [Next]_vars PROVE BuildInv'
    OBVIOUS
  <2>1. CASE UNCHANGED vars
    BY <2>1 DEF vars, tree, files, process, locals, history, BuildInv, KeptInv, StepInv, SkipInv, WholeGraph
  <2> QED BY <2>1, TreeKeepsBuild, EngineKeepsBuild, CallKeepsBuild DEF Next, World
<1> QED BY <1>1, BuildInit, TypeCorrect, PTL DEF Spec

(* An index or update that answers updated=true left a graph of the        *)
(* sources as they are, whatever cancelled or crashed calls and other      *)
(* revisions left in the caches before (control.py, codemap_engines.py).   *)
THEOREM CompletedCurrent == ASSUME NothingFails PROVE Spec => []CompletedIsCurrent
<1>1. BuildInv => CompletedIsCurrent
  BY DEF BuildInv, StepInv, CompletedIsCurrent, Answered, Current
<1> QED BY <1>1, BuildInvariant, PTL

(* No product mixes the IR of one version of the sources with source       *)
(* passes over another (codemap_engines.py _commit_uo_product).            *)
THEOREM GraphWhole == ASSUME NothingFails PROVE Spec => []WholeGraph
<1>1. BuildInv => WholeGraph
  BY DEF BuildInv
<1> QED BY <1>1, BuildInvariant, PTL

-----------------------------------------------------------------------------
(***************************************************************************)
(* Freshness.  While all edits are committed the revision a product carries *)
(* names the contents it was made of.                                      *)
(***************************************************************************)
FreshInv == neat => /\ src = commits[head]
                    /\ product # NoProduct =>
                         /\ product.rev \in 1..Len(commits)
                         /\ product.src = commits[product.rev]

(* As long as all edits are committed, a product that is reported fresh is *)
(* made of the current sources (service/freshness.py compute).             *)
THEOREM FreshIsTrue == ASSUME NothingFails PROVE Spec => []CommittedFreshIsCurrent
<1> USE DEF tree, files, process, locals, history, Goto, Answer
<1>1. Init => FreshInv
  BY DEF Init, FreshInv
<1>2. TypeOK /\ BuildInv /\ BuildInv' /\ FreshInv /\ [Next]_vars => FreshInv'
  <2> SUFFICES ASSUME TypeOK, BuildInv, BuildInv', FreshInv, [Next]_vars PROVE FreshInv'
    OBVIOUS
  <2>1. CASE \E c \in Contents : Edit(c)
    BY <2>1 DEF Edit, FreshInv
  <2>2. ASSUME NEW c \in Contents, NewRevision(c) PROVE FreshInv'
    <3>1. /\ commits' = Append(commits, c) /\ head' = Len(commits) + 1 /\ src' = c
          /\ product' = product /\ neat' = neat
      BY <2>2 DEF NewRevision, TreeMoves
    <3>2. commits'[head'] = c /\ Len(commits') = Len(commits) + 1
      BY <3>1 DEF TypeOK
    <3>3. \A r \in 1..Len(commits) : r \in 1..Len(commits') /\ commits'[r] = commits[r]
      BY <3>1 DEF TypeOK
    <3> QED BY <3>1, <3>2, <3>3 DEF FreshInv
  <2>3. CASE \E r \in 1..Len(commits) : Checkout(r)
    BY <2>3 DEF Checkout, TreeMoves, FreshInv
  <2>4. CASE Commit
    <3>1. pc' = "done" /\ UNCHANGED <<tree, neat>>
      BY <2>4, CommitCases DEF Commit, CommitDone, CommitFails, Fails, NothingFails
    <3>2. product'.ir = src /\ product'.src = src /\ product'.rev = head
      BY <3>1 DEF BuildInv, StepInv
    <3> QED BY <3>1, <3>2 DEF FreshInv, TypeOK
  <2>5. CASE Crash
    BY <2>5 DEF Crash, Rest, FreshInv
  <2>6. CASE UNCHANGED <<tree, product, neat>>
    BY <2>6 DEF FreshInv
  <2>7. CASE Call("index") \/ Call("update") \/ CheckFresh \/ Detect \/ Cancel \/ Return
             \/ Prepare \/ Extract \/ Persist \/ StampFingerprint \/ Inputs \/ Compile \/ Done
    BY <2>6, <2>7 DEF Call, CheckFresh, Detect, Cancel, Return, Rest, Prepare, Extract, Persist,
                      StampFingerprint, Inputs, Compile, Done
  <2>8. CASE UNCHANGED vars
    BY <2>6, <2>8 DEF vars
  <2> QED BY <2>1, <2>2, <2>3, <2>4, <2>5, <2>7, <2>8 DEF Next, World, Engine
<1>3. BuildInv /\ FreshInv => CommittedFreshIsCurrent
  BY DEF BuildInv, WholeGraph, FreshInv, CommittedFreshIsCurrent, FreshIsCurrent, Fresh, Current
<1> QED BY <1>1, <1>2, <1>3, TypeCorrect, BuildInvariant, PTL DEF Spec
-----------------------------------------------------------------------------
(***************************************************************************)
(* The kernel walks.  Every IR that is kept anywhere was extracted by a    *)
(* call that kept the walk of the same sources, and walks stay; what the   *)
(* passes do not read of them they leave a mark for.                       *)
(***************************************************************************)
Covered(g) == g.ir # None /\ ~g.partial => g.ir \in g.walked

WalkInv ==
  /\ hostIr \in walks \cup {None} /\ store.ir \in walks \cup {None} /\ ir \in walks \cup {None}
  /\ Covered(cache) /\ Covered(mem) /\ Covered(product)

LEMMA LoadedCovered == WalkInv => Covered(Loaded)
BY DEF WalkInv, Loaded

LEMMA EnsureWalks ==
  ASSUME "persist" \notin Hazards, TypeOK, WalkInv, \E raised \in Raises : EnsureBundle(raised)
  PROVE  /\ walks \subseteq walks'
         /\ hostIr' \in walks' \cup {None} /\ store'.ir \in walks' \cup {None}
         /\ ir' \in walks' \cup {None}
<1>1. PICK raised \in Raises : EnsureBundle(raised)
  OBVIOUS
<1>2. CASE BundleFits(raised)
  BY <1>1, <1>2 DEF EnsureBundle, WalkInv
<1>3. CASE ~BundleFits(raised) /\ hostIr # None
  BY <1>1, <1>3 DEF EnsureBundle, WalkInv
<1>4. CASE ~BundleFits(raised) /\ hostIr = None
  BY <1>1, <1>4 DEF EnsureBundle, Walk, WalkInv
<1> QED BY <1>2, <1>3, <1>4

LEMMA EngineKeepsWalks ==
  ASSUME "persist" \notin Hazards, TypeOK, WalkInv, Engine
  PROVE  WalkInv'
<1> USE Empties DEF tree, files, process, locals, history, Goto, Answer
<1>1. CASE Prepare
  BY <1>1 DEF Prepare, Scrub, WalkInv, Covered
<1>2. CASE Extract
  <2>1. walks \subseteq walks' /\ ir' \in walks' \cup {None}
    BY <1>2 DEF Extract, Walk, WalkInv
  <2>2. store' \in {store, NoBundle} /\ mem' \in {mem, NoCache} /\ UNCHANGED <<hostIr, cache, product>>
    BY <1>2 DEF Extract, EndSession
  <2> QED BY <2>1, <2>2 DEF WalkInv, Covered
<1>3. CASE Persist \/ StampFingerprint \/ Done
  <2>1. /\ hostIr' \in {hostIr, ir} /\ store'.ir \in {store.ir, ir}
        /\ UNCHANGED <<ir, cache, mem, walks, product>>
    <3>1. CASE Persist
      <4>1. hostIr' \in {hostIr, ir} /\ store' = [ir |-> ir, key |-> None]
        BY <3>1 DEF Persist
      <4>2. UNCHANGED <<ir, cache, mem, walks, product>>
        BY <3>1 DEF Persist
      <4> QED BY <4>1, <4>2
    <3>2. CASE StampFingerprint
      <4>1. store' = store \/ store' = [ir |-> ir, key |-> src]
        BY <3>2 DEF StampFingerprint
      <4>2. UNCHANGED <<hostIr, ir, cache, mem, walks, product>>
        BY <3>2 DEF StampFingerprint
      <4> QED BY <4>1, <4>2
    <3>3. CASE Done BY <3>3 DEF Done
    <3> QED BY <1>3, <3>1, <3>2, <3>3
  <2> QED BY <2>1 DEF WalkInv, Covered
<1>4. CASE Inputs
  <2>1. /\ mem' = Loaded /\ UNCHANGED <<cache, product>>
        /\ \E raised \in Raises : EnsureBundle(raised)
    BY <1>4 DEF Inputs
  <2> QED BY <2>1, EnsureWalks, LoadedCovered DEF WalkInv, Covered
<1>5. CASE Compile
  <2>1. UNCHANGED <<hostIr, walks, ir, product>> /\ store' \in {store, NoBundle}
    BY <1>5 DEF Compile, EndSession
  <2>2. CASE /\ \E w \in LoadWalks :
                  mem' = [ir |-> ir, src |-> src, walked |-> w.walked, partial |-> w.partial,
                          key |-> key]
             /\ cache' \in {cache, mem'}
    <3>1. Covered(mem')
      BY <2>2, LoadWalksGood DEF WalkInv, Covered, GoodWalks
    <3> QED BY <2>1, <2>2, <3>1 DEF WalkInv, Covered
  <2>3. CASE mem' = NoCache /\ cache' = cache
    BY <2>1, <2>3 DEF WalkInv, Covered
  <2> QED BY <1>5, <2>2, <2>3 DEF Compile, EndSession
<1>6. CASE Commit
  <2>1. UNCHANGED cache
    BY <1>6 DEF Commit
  <2>2. CASE CommitFails
    <3>1. /\ walks \subseteq walks' /\ hostIr' \in walks' \cup {None}
          /\ store' = NoBundle /\ mem' = Loaded /\ ir' = ir /\ product' \in {product, NoProduct}
      BY <2>2 DEF CommitFails, Walk, WalkInv
    <3> QED BY <2>1, <3>1, LoadedCovered DEF WalkInv, Covered, NoProduct
  <2>3. CASE CommitDone
    <3>1. /\ mem' = NoCache
          /\ \E raised \in Raises : EnsureBundle(raised)
      BY <2>3 DEF CommitDone
    <3>2. ASSUME Loaded # NoCache PROVE Covered(product')
      <4>1. product' = [ir |-> Loaded.ir, src |-> Loaded.src, walked |-> Loaded.walked,
                        partial |-> Loaded.partial, rev |-> head]
        BY <2>3, <3>2 DEF CommitDone
      <4>2. /\ product'.ir = Loaded.ir /\ product'.walked = Loaded.walked
            /\ product'.partial = Loaded.partial
        BY <4>1
      <4> QED BY <4>2, LoadedCovered DEF Covered
    <3>3. ASSUME Loaded = NoCache PROVE Covered(product')
      <4>1. PICK w \in LoadWalks' :
              product' = [ir |-> ir', src |-> src, walked |-> w.walked,
                          partial |-> w.partial, rev |-> head]
        BY <2>3, <3>3 DEF CommitDone
      <4>2. ~w.partial => w.walked = walks'
        BY <4>1, LoadWalksGood DEF GoodWalks
      <4>3. /\ product'.ir = ir' /\ product'.walked = w.walked
            /\ product'.partial = w.partial
        BY <4>1
      <4> QED BY <3>1, <4>2, <4>3, EnsureWalks DEF Covered
    <3>4. Covered(product')
      BY <3>2, <3>3
    <3> QED BY <2>1, <3>1, <3>4, EnsureWalks DEF WalkInv, Covered
  <2> QED BY <1>6, <2>2, <2>3, CommitCases
<1> QED BY <1>1, <1>2, <1>3, <1>4, <1>5, <1>6 DEF Engine

(* Whatever fails, is cancelled, crashes or is edited in the middle of a   *)
(* call, if only what is written to the caches arrives there: a product    *)
(* that does not say that walks may be missing has those of the sources    *)
(* that its IR was extracted from (tu_cache.py store_walk and              *)
(* iter_cached_walks, passes/kernel_scan.py).                              *)
THEOREM WalksAreComplete == ASSUME "persist" \notin Hazards PROVE Spec => []WalksComplete
<1> SUFFICES ASSUME "persist" \notin Hazards PROVE Spec => []WalksComplete
  OBVIOUS
<1> USE Empties DEF tree, files, process, locals, history
<1>1. Init => WalkInv
  BY DEF Init, WalkInv, Covered, NoProduct
<1>2. TypeOK /\ WalkInv /\ [Next]_vars => WalkInv'
  <2> SUFFICES ASSUME TypeOK, WalkInv, [Next]_vars PROVE WalkInv'
    OBVIOUS
  <2>1. CASE \/ \E c \in Contents : Edit(c) \/ NewRevision(c)
             \/ \E r \in 1..Len(commits) : Checkout(r)
    <3>1. UNCHANGED <<hostIr, walks, cache, store, mem, ir, product>>
      BY <2>1 DEF Edit, NewRevision, Checkout, TreeMoves
    <3> QED BY <3>1 DEF WalkInv, Covered
  <2>2. CASE Crash
    <3>1. /\ walks \subseteq walks' /\ UNCHANGED hostIr /\ ir' = None
          /\ store' = NoBundle /\ mem' = NoCache
          /\ cache' \in {cache, NoCache} /\ product' \in {product, NoProduct}
      BY <2>2 DEF Crash, Rest, EndSession
    <3> QED BY <3>1 DEF WalkInv, Covered, NoProduct
  <2>3. CASE Engine
    BY <2>3, EngineKeepsWalks
  <2>4. CASE Call("index") \/ Call("update") \/ CheckFresh \/ Detect \/ Cancel \/ Return
    <3>1. UNCHANGED <<hostIr, walks, cache, store, mem, product>> /\ ir' \in {ir, None}
      BY <2>4 DEF Call, CheckFresh, Detect, Cancel, Return, Rest
    <3> QED BY <3>1 DEF WalkInv, Covered
  <2>5. CASE UNCHANGED vars
    BY <2>5 DEF vars, WalkInv, Covered
  <2> QED BY <2>1, <2>2, <2>3, <2>4, <2>5 DEF Next, World
<1>3. WalkInv => WalksComplete
  BY DEF WalkInv, Covered, WalksComplete, WalksThere
<1> QED BY <1>1, <1>2, <1>3, TypeCorrect, PTL DEF Spec
=============================================================================
