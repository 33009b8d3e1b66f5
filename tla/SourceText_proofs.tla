------------------------- MODULE SourceText_proofs --------------------------
(***************************************************************************)
(* Proofs about SourceText and SourceFacts, the two caches of source files *)
(* that passes share.                                                      *)
(*                                                                         *)
(* SourceText: types and what is at an address in use hold for any number  *)
(* of builders; that masks are exact and texts current is proved for one   *)
(* builder at a time, and is false for two.  SourceFacts: types hold with  *)
(* edits at any time; that facts are current needs files to stand still    *)
(* while a compile runs, that they name their file needs files apart.      *)
(***************************************************************************)
EXTENDS SourceText, SourceFacts, TLAPS

(***************************************************************************)
(* What is referred to has been made, and _TEXT has it under its own file. *)
(***************************************************************************)
KeptInv == \A f \in Files : text[f] # Nowhere =>
    /\ heap[text[f]] \in Texts
    /\ heap[text[f]].file = f
    /\ ~heap[text[f]].expanded

PendingInv == \A b \in Builders : pending[b] # Nowhere =>
    /\ heap[pending[b]] \in Texts
    /\ ~heap[pending[b]].expanded

HoldInv == \A b \in Builders : \A a \in hold[b] : heap[a] \in Texts

MadeInv == TypeOK /\ KeptInv /\ PendingInv /\ HoldInv

LEMMA InitMade == Init => MadeInv
  BY SourceTextAssumption DEF Init, MadeInv, TypeOK, KeptInv, PendingInv, HoldInv, NoMask

(***************************************************************************)
(* A step of the compile or of the user, by its action.                    *)
(***************************************************************************)
LEMMA MadeStep == MadeInv /\ [Next]_vars => MadeInv'
<1> SUFFICES ASSUME MadeInv, [Next]_vars PROVE MadeInv'
  OBVIOUS
<1> USE SourceTextAssumption, NoTextAssumption DEF MadeInv
<1>e. ASSUME NEW f \in Files, Edit(f) PROVE MadeInv'
  BY <1>e DEF Edit, TypeOK, KeptInv, PendingInv, HoldInv
<1>b. ASSUME NEW b \in Builders, Begin(b) PROVE MadeInv'
  BY <1>b DEF Begin, Keep, TypeOK, KeptInv, PendingInv, HoldInv
<1>h. ASSUME NEW b \in Builders, NEW f \in Files, Hit(b, f) PROVE MadeInv'
  BY <1>h DEF Hit, TypeOK, KeptInv, PendingInv, HoldInv
<1>m. ASSUME NEW b \in Builders, NEW f \in Files, NEW a \in Addrs, Miss(b, f, a) PROVE MadeInv'
  <2>1. /\ heap'[a] \in Texts /\ ~heap'[a].expanded
        /\ \A c \in Addrs \ {a} : heap'[c] = heap[c]
    BY <1>m DEF Miss, TypeOK, Texts
  <2>2. a \notin Live
    BY <1>m DEF Miss
  <2>3. TypeOK'
    BY <1>m, <2>1 DEF Miss, TypeOK
  <2>4. KeptInv'
    BY <1>m, <2>1, <2>2 DEF Miss, KeptInv, Live, Pinned, TypeOK
  <2>5. PendingInv'
    BY <1>m, <2>1, <2>2 DEF Miss, PendingInv, Live, TypeOK
  <2>6. HoldInv'
    BY <1>m, <2>1, <2>2 DEF Miss, HoldInv, Live, TypeOK
  <2> QED BY <2>3, <2>4, <2>5, <2>6
<1>s. ASSUME NEW b \in Builders, Store(b) PROVE MadeInv'
  <2> DEFINE f == heap[pending[b]].file
             a == IF text[f] = Nowhere THEN pending[b] ELSE text[f]
  <2>1. /\ text' = [text EXCEPT ![f] = a]
        /\ hold' = [hold EXCEPT ![b] = @ \cup {a}]
        /\ seen' = [seen EXCEPT ![b] = heap[a]]
        /\ pending' = [pending EXCEPT ![b] = Nowhere]
        /\ UNCHANGED <<disk, heap, masked, byId, places, pc, began, given, placed>>
    BY <1>s DEF Store
  <2>2. f \in Files /\ pending[b] \in Addrs
    BY <1>s DEF Store, PendingInv, Texts, TypeOK
  <2>3. a \in Addrs /\ heap[a] \in Texts /\ heap[a].file = f /\ ~heap[a].expanded
    BY <1>s, <2>2 DEF Store, PendingInv, KeptInv, TypeOK
  <2> HIDE DEF f, a
  <2>4. TypeOK'
    BY <2>1, <2>2, <2>3 DEF TypeOK
  <2>5. KeptInv' /\ PendingInv' /\ HoldInv'
    BY <2>1, <2>2, <2>3 DEF TypeOK, KeptInv, PendingInv, HoldInv
  <2> QED BY <2>4, <2>5
<1>x. ASSUME NEW b \in Builders, NEW a \in Addrs, NEW new \in Addrs, Expand(b, a, new) PROVE MadeInv'
  <2>1. heap[a] \in Texts
    BY <1>x DEF Expand, HoldInv
  <2>2. /\ heap'[new] \in Texts
        /\ \A c \in Addrs \ {new} : heap'[c] = heap[c]
    BY <1>x, <2>1 DEF Expand, TypeOK, Texts
  <2>3. new \notin Live
    BY <1>x DEF Expand
  <2>4. TypeOK'
    BY <1>x, <2>2 DEF Expand, TypeOK
  <2>5. KeptInv'
    BY <1>x, <2>2, <2>3 DEF Expand, KeptInv, Live, Pinned, TypeOK
  <2>6. PendingInv'
    BY <1>x, <2>2, <2>3 DEF Expand, PendingInv, Live, TypeOK
  <2>7. HoldInv'
    BY <1>x, <2>2, <2>3 DEF Expand, HoldInv, Live, TypeOK
  <2> QED BY <2>4, <2>5, <2>6, <2>7
<1>k. ASSUME NEW b \in Builders, NEW a \in Addrs, MaskCached(b, a) PROVE MadeInv'
  <2>1. MaskOf(a) \in Texts \cup {NoText}
    BY DEF MaskOf, TypeOK
  <2> QED BY <1>k, <2>1 DEF MaskCached, TypeOK, KeptInv, PendingInv, HoldInv
<1>t. ASSUME NEW b \in Builders, NEW f \in Files, MaskedText(b, f) PROVE MadeInv'
  <2> DEFINE a == text[f]
             got == IF masked[f] # NoText THEN masked[f] ELSE MaskOf(a)
  <2>1. /\ masked' = [masked EXCEPT ![f] = got]
        /\ byId' = IF masked[f] # NoText THEN byId ELSE [byId EXCEPT ![a] = got]
        /\ given' = [given EXCEPT ![b] = [wanted |-> heap[a], got |-> got]]
        /\ hold' = [hold EXCEPT ![b] = @ \cup {a}]
        /\ UNCHANGED <<disk, heap, text, places, pc, pending, began, seen, placed>>
    BY <1>t DEF MaskedText
  <2>2. a \in Addrs /\ heap[a] \in Texts
    BY <1>t DEF MaskedText, KeptInv, TypeOK
  <2>3. got \in Texts \cup {NoText}
    BY <2>2 DEF MaskOf, TypeOK
  <2> HIDE DEF a, got
  <2>4. TypeOK'
    BY <2>1, <2>2, <2>3 DEF TypeOK
  <2>5. KeptInv' /\ PendingInv' /\ HoldInv'
    BY <2>1, <2>2 DEF KeptInv, PendingInv, HoldInv, TypeOK
  <2> QED BY <2>4, <2>5
<1>o. ASSUME NEW b \in Builders, NEW a \in Addrs, Locate(b, a) PROVE MadeInv'
  BY <1>o DEF Locate, TypeOK, KeptInv, PendingInv, HoldInv
<1>l. ASSUME NEW b \in Builders, Leave(b), Clear \/ Keep, places' \in {places, PlacesFor(b)},
             pc' = pc \/ \E p \in {"idle", "source", "key", "late", "refresh"} :
                             pc' = [pc EXCEPT ![b] = p]
      PROVE  MadeInv'
  <2>0. places' \in [Addrs -> Texts \cup {NoText}]
    BY <1>l DEF PlacesFor, TypeOK
  <2>1. TypeOK'
    BY <1>l, <2>0 DEF Leave, Clear, Keep, NoMask, TypeOK
  <2>2. KeptInv' /\ PendingInv' /\ HoldInv'
    BY <1>l DEF Leave, Clear, Keep, KeptInv, PendingInv, HoldInv, TypeOK
  <2> QED BY <2>1, <2>2
<1>n. ASSUME NEW b \in Builders, NextPass(b) PROVE MadeInv'
  BY <1>n, <1>l DEF NextPass, Keep
<1>p. ASSUME NEW b \in Builders, NextPhase(b) PROVE MadeInv'
  <2>1. After[pc[b]] \in {"idle", "source", "key", "late", "refresh"}
    BY <1>p DEF NextPhase, Reading, After, TypeOK
  <2>2. Clear \/ Keep
    BY <1>p DEF NextPhase
  <2> QED BY <1>p, <1>l, <2>1, <2>2 DEF NextPhase
<1>f. ASSUME NEW b \in Builders, Fail(b) PROVE MadeInv'
  BY <1>f, <1>l DEF Fail
<1>u. ASSUME UNCHANGED vars PROVE MadeInv'
  BY <1>u DEF vars, TypeOK, KeptInv, PendingInv, HoldInv
<1> QED BY <1>e, <1>b, <1>h, <1>m, <1>s, <1>x, <1>k, <1>t, <1>o, <1>n, <1>p, <1>f, <1>u DEF Next, Compile

LEMMA MadeAlways == Spec => []MadeInv
  BY InitMade, MadeStep, PTL DEF Spec

(***************************************************************************)
(* Every reference of the cache and of the passes is to a text, for any    *)
(* number of builders (source_text_cache.py).                              *)
(***************************************************************************)
THEOREM TypeCorrect == Spec => []TypeOK
  BY MadeAlways, PTL DEF MadeInv

-----------------------------------------------------------------------------
(***************************************************************************)
(* One builder b.  AgeInv says that nothing from before the compile is     *)
(* left once it has been cleared.                                          *)
(***************************************************************************)
Behind == {"source", "key", "late", "refresh"}

AgeInv(b) ==
    /\ \A f \in Files : began[b][f] <= disk[f]
    /\ pc[b] = "idle" => pending[b] = Nowhere
    /\ pending[b] # Nowhere => heap[pending[b]].ver >= began[b][heap[pending[b]].file]
    /\ pc[b] \in Behind =>
           /\ \A f \in Files : text[f] # Nowhere => heap[text[f]].ver >= began[b][f]
           /\ NotOlder(b)

LEMMA InitAge == ASSUME NEW b \in Builders, Init PROVE AgeInv(b)
  BY SourceTextAssumption DEF Init, AgeInv, Behind, NotOlder

LEMMA AgeStep ==
    ASSUME NEW b \in Builders, Builders = {b}, MadeInv, AgeInv(b), [Next]_vars
    PROVE  AgeInv(b)'
<1> USE SourceTextAssumption, NoTextAssumption
<1>e. ASSUME NEW f \in Files, Edit(f) PROVE AgeInv(b)'
  BY <1>e DEF Edit, AgeInv, NotOlder, MadeInv, TypeOK
<1>b. ASSUME Begin(b) PROVE AgeInv(b)'
  BY <1>b DEF Begin, Keep, AgeInv, Behind, MadeInv, TypeOK
<1>h. ASSUME NEW f \in Files, Hit(b, f) PROVE AgeInv(b)'
  <2>1. heap[text[f]] \in Texts /\ heap[text[f]].file = f
    BY <1>h DEF Hit, MadeInv, KeptInv
  <2>2. seen'[b] = heap[text[f]]
    BY <1>h DEF Hit, MadeInv, TypeOK
  <2> QED BY <1>h, <2>1, <2>2 DEF Hit, AgeInv, NotOlder
<1>m. ASSUME NEW f \in Files, NEW a \in Addrs, Miss(b, f, a) PROVE AgeInv(b)'
  <2>1. /\ heap'[a].file = f /\ heap'[a].ver = disk[f]
        /\ \A c \in Addrs \ {a} : heap'[c] = heap[c]
    BY <1>m DEF Miss, MadeInv, TypeOK
  <2>2. \A g \in Files : text[g] # Nowhere => text[g] \in Addrs \ {a}
    BY <1>m DEF Miss, Live, Pinned, MadeInv, TypeOK
  <2>3. pending'[b] = a /\ disk[f] >= began[b][f]
    BY <1>m DEF Miss, AgeInv, MadeInv, TypeOK
  <2> QED BY <1>m, <2>1, <2>2, <2>3 DEF Miss, AgeInv, NotOlder, Reading
<1>s. ASSUME Store(b) PROVE AgeInv(b)'
  <2> DEFINE f == heap[pending[b]].file
             a == IF text[f] = Nowhere THEN pending[b] ELSE text[f]
  <2>1. f \in Files /\ heap[pending[b]] \in Texts
    BY <1>s DEF Store, MadeInv, PendingInv, Texts
  <2>2. /\ text' = [text EXCEPT ![f] = a]
        /\ seen' = [seen EXCEPT ![b] = heap[a]]
        /\ pending' = [pending EXCEPT ![b] = Nowhere]
        /\ UNCHANGED <<disk, heap, masked, byId, pc, began, given>>
    BY <1>s DEF Store
  <2>3. heap[a] \in Texts /\ heap[a].file = f
    BY <1>s, <2>1 DEF Store, MadeInv, KeptInv
  <2>4. pc[b] \in Behind => heap[a].ver >= began[b][f]
    BY <1>s, <2>1 DEF Store, AgeInv
  <2> HIDE DEF f, a
  <2> QED BY <2>1, <2>2, <2>3, <2>4 DEF AgeInv, NotOlder, MadeInv, TypeOK
<1>x. ASSUME NEW a \in Addrs, NEW new \in Addrs, Expand(b, a, new) PROVE AgeInv(b)'
  <2>1. \A c \in Addrs \ {new} : heap'[c] = heap[c]
    BY <1>x DEF Expand, MadeInv, TypeOK
  <2>2. \A g \in Files : text[g] # Nowhere => text[g] \in Addrs \ {new}
    BY <1>x DEF Expand, Live, Pinned, MadeInv, TypeOK
  <2> QED BY <1>x, <2>1, <2>2 DEF Expand, AgeInv, NotOlder, Reading
<1>k. ASSUME NEW a \in Addrs, MaskCached(b, a) PROVE AgeInv(b)'
  BY <1>k DEF MaskCached, AgeInv, NotOlder
<1>t. ASSUME NEW f \in Files, MaskedText(b, f) PROVE AgeInv(b)'
  BY <1>t DEF MaskedText, AgeInv, NotOlder
<1>o. ASSUME NEW a \in Addrs, Locate(b, a) PROVE AgeInv(b)'
  BY <1>o DEF Locate, AgeInv, NotOlder
<1>n. ASSUME NextPass(b) PROVE AgeInv(b)'
  BY <1>n DEF NextPass, Leave, AgeInv, NotOlder, MadeInv, TypeOK
<1>p. ASSUME NextPhase(b) PROVE AgeInv(b)'
  <2>1. CASE pc[b] \in ClearsAfter
    BY <1>p, <2>1 DEF NextPhase, Leave, Clear, Reading, AgeInv, NotOlder, MadeInv, TypeOK
  <2>2. CASE pc[b] \notin ClearsAfter
    <3>1. pc'[b] \in Behind => pc[b] \in Behind
      BY <1>p, <2>2 DEF NextPhase, Reading, After, ClearsAfter, Behind, MadeInv, TypeOK
    <3> QED BY <1>p, <2>2, <3>1 DEF NextPhase, Leave, Keep, Reading, AgeInv, NotOlder, MadeInv, TypeOK
  <2> QED BY <2>1, <2>2
<1>f. ASSUME Fail(b) PROVE AgeInv(b)'
  BY <1>f DEF Fail, Leave, Clear, Reading, AgeInv, Behind, MadeInv, TypeOK
<1>u. ASSUME UNCHANGED vars PROVE AgeInv(b)'
  BY <1>u DEF vars, AgeInv, NotOlder
<1> QED BY <1>e, <1>b, <1>h, <1>m, <1>s, <1>x, <1>k, <1>t, <1>o, <1>n, <1>p, <1>f, <1>u DEF Next, Compile

(***************************************************************************)
(* With one compile at a time, no pass behind the first clear reads a text *)
(* older than the compile, whatever is edited when (build.py).             *)
(***************************************************************************)
THEOREM SourcePassesAreCurrent ==
    ASSUME NEW b \in Builders, Builders = {b}
    PROVE  Spec => []SourcePassesCurrent
<1>1. Init => MadeInv /\ AgeInv(b)
  BY InitMade, InitAge
<1>2. MadeInv /\ AgeInv(b) /\ [Next]_vars => (MadeInv /\ AgeInv(b))'
  BY MadeStep, AgeStep
<1>3. AgeInv(b) => SourcePassesCurrent
  BY DEF AgeInv, SourcePassesCurrent, Behind
<1> QED BY <1>1, <1>2, <1>3, PTL DEF Spec

-----------------------------------------------------------------------------
(***************************************************************************)
(* Masks.  Sound(b) is the part of a compile in which no text of a pass's  *)
(* own has died: then what has a mask under its id is still in use, so     *)
(* that its address cannot have been given to another text.                *)
(***************************************************************************)
Sound(b) == pc[b] # "late" \/ Expanding = {}

MaskInv(b) ==
    /\ \A a \in hold[b] : a \in Pinned \/ (pc[b] = "key" /\ heap[a].expanded)
    /\ \A a \in hold[b] : heap[a].expanded => heap[a].file \in Expanding
    /\ pc[b] \notin {"key", "late"} => \A a \in Addrs : byId[a] = NoText
    /\ pc[b] # "late" => \A f \in Files : masked[f] = NoText
    /\ Sound(b) =>
           /\ \A a \in Addrs : byId[a] # NoText => byId[a] = heap[a] /\ a \in Pinned \cup hold[b]
           /\ \A f \in Files : masked[f] # NoText => text[f] # Nowhere /\ masked[f] = heap[text[f]]
           /\ given[b].got = given[b].wanted

LEMMA InitMask == ASSUME NEW b \in Builders, Init PROVE MaskInv(b)
  BY DEF Init, MaskInv, NoMask

LEMMA MaskStep ==
    ASSUME NEW b \in Builders, Builders = {b}, MadeInv, MaskInv(b), [Next]_vars
    PROVE  MaskInv(b)'
<1> USE SourceTextAssumption, NoTextAssumption
<1>e. ASSUME NEW f \in Files, Edit(f) PROVE MaskInv(b)'
  BY <1>e DEF Edit, MaskInv, Sound, Pinned
<1>b. ASSUME Begin(b) PROVE MaskInv(b)'
  BY <1>b DEF Begin, Keep, MaskInv, Sound, Pinned, MadeInv, TypeOK
<1>h. ASSUME NEW f \in Files, Hit(b, f) PROVE MaskInv(b)'
  <2>1. hold'[b] = hold[b] \cup {text[f]} /\ text[f] \in Pinned /\ ~heap[text[f]].expanded
    BY <1>h DEF Hit, Pinned, MadeInv, TypeOK, KeptInv
  <2> QED BY <1>h, <2>1 DEF Hit, MaskInv, Sound, Pinned
<1>m. ASSUME NEW f \in Files, NEW a \in Addrs, Miss(b, f, a) PROVE MaskInv(b)'
  <2>1. \A c \in Addrs \ {a} : heap'[c] = heap[c]
    BY <1>m DEF Miss, MadeInv, TypeOK
  <2>2. a \notin Pinned \cup hold[b]
    BY <1>m DEF Miss, Live
  <2>3. hold[b] \subseteq Addrs /\ Pinned' = Pinned /\ Pinned \subseteq Addrs
    BY <1>m DEF Miss, Pinned, MadeInv, TypeOK
  <2>4. \A g \in Files : text[g] # Nowhere => text[g] \in Pinned
    BY DEF Pinned
  <2> QED BY <1>m, <2>1, <2>2, <2>3, <2>4 DEF Miss, MaskInv, Sound
<1>s. ASSUME Store(b) PROVE MaskInv(b)'
  <2> DEFINE f == heap[pending[b]].file
             a == IF text[f] = Nowhere THEN pending[b] ELSE text[f]
  <2>1. f \in Files /\ pending[b] \in Addrs /\ pending[b] # Nowhere /\ ~heap[pending[b]].expanded
    BY <1>s DEF Store, MadeInv, PendingInv, Texts, TypeOK
  <2>2. /\ text' = [text EXCEPT ![f] = a]
        /\ hold' = [hold EXCEPT ![b] = @ \cup {a}]
        /\ UNCHANGED <<disk, heap, masked, byId, pc, began, given>>
    BY <1>s DEF Store
  <2>3. a # Nowhere /\ ~heap[a].expanded
    BY <2>1 DEF MadeInv, KeptInv
  <2>4. text[f] # Nowhere => a = text[f]
    OBVIOUS
  <2> HIDE DEF f, a
  <2>5. \A g \in Files : text[g] # Nowhere => text'[g] = text[g]
    BY <2>1, <2>2, <2>4 DEF MadeInv, TypeOK
  <2>6. Pinned \subseteq Pinned' /\ a \in Pinned'
    BY <2>1, <2>2, <2>3, <2>5 DEF Pinned, MadeInv, TypeOK
  <2>7. hold'[b] = hold[b] \cup {a}
    BY <2>2 DEF MadeInv, TypeOK
  <2> QED BY <2>2, <2>3, <2>5, <2>6, <2>7 DEF MaskInv, Sound
<1>x. ASSUME NEW a \in Addrs, NEW new \in Addrs, Expand(b, a, new) PROVE MaskInv(b)'
  <2>1. \A c \in Addrs \ {new} : heap'[c] = heap[c]
    BY <1>x DEF Expand, MadeInv, TypeOK
  <2>2. new \notin Pinned \cup hold[b]
    BY <1>x DEF Expand, Live
  <2>3. hold[b] \subseteq Addrs /\ Pinned' = Pinned /\ Pinned \subseteq Addrs
    BY <1>x DEF Expand, Pinned, MadeInv, TypeOK
  <2>4. \A g \in Files : text[g] # Nowhere => text[g] \in Pinned
    BY DEF Pinned
  <2>5. heap'[new].expanded /\ heap'[new].file \in Expanding
    BY <1>x DEF Expand, MadeInv, TypeOK, HoldInv, Texts
  <2>6. hold'[b] = hold[b] \cup {new}
    BY <1>x DEF Expand, MadeInv, TypeOK
  <2> QED BY <1>x, <2>1, <2>2, <2>3, <2>4, <2>5, <2>6 DEF Expand, MaskInv, Sound
<1>k. ASSUME NEW a \in Addrs, MaskCached(b, a) PROVE MaskInv(b)'
  <2>1. Sound(b) => MaskOf(a) = heap[a]
    BY DEF MaskInv, MaskOf
  <2>2. /\ byId' = [byId EXCEPT ![a] = MaskOf(a)]
        /\ given'[b] = [wanted |-> heap[a], got |-> MaskOf(a)]
        /\ a \in hold[b] /\ pc[b] \in {"key", "late"}
        /\ UNCHANGED <<heap, text, masked, pc, hold>>
    BY <1>k DEF MaskCached, MadeInv, TypeOK
  <2> QED BY <2>1, <2>2 DEF MaskInv, Sound, Pinned, MadeInv, TypeOK
<1>t. ASSUME NEW f \in Files, MaskedText(b, f) PROVE MaskInv(b)'
  <2> DEFINE a == text[f]
             got == IF masked[f] # NoText THEN masked[f] ELSE MaskOf(a)
  <2>1. /\ masked' = [masked EXCEPT ![f] = got]
        /\ byId' = IF masked[f] # NoText THEN byId ELSE [byId EXCEPT ![a] = got]
        /\ given' = [given EXCEPT ![b] = [wanted |-> heap[a], got |-> got]]
        /\ hold' = [hold EXCEPT ![b] = @ \cup {a}]
        /\ pc[b] = "late"
        /\ UNCHANGED <<disk, heap, text, pc, pending, began, seen>>
    BY <1>t DEF MaskedText
  <2>2. a \in Addrs /\ a \in Pinned /\ a = text[f] /\ a # Nowhere /\ ~heap[a].expanded
    BY <1>t DEF MaskedText, Pinned, MadeInv, TypeOK, KeptInv
  <2>3. Sound(b) => got = heap[a]
    BY <2>2 DEF MaskInv, MaskOf
  <2> HIDE DEF a, got
  <2>4. hold'[b] = hold[b] \cup {a} /\ given'[b] = [wanted |-> heap[a], got |-> got] /\ Pinned' = Pinned
    BY <2>1 DEF Pinned, MadeInv, TypeOK
  <2> QED BY <2>1, <2>2, <2>3, <2>4 DEF MaskInv, Sound, MadeInv, TypeOK
<1>o. ASSUME NEW a \in Addrs, Locate(b, a) PROVE MaskInv(b)'
  BY <1>o DEF Locate, MaskInv, Sound, Pinned
<1>l. ASSUME Leave(b) PROVE hold'[b] = {} /\ given'[b] = NoMask /\ heap' = heap
  BY <1>l DEF Leave, MadeInv, TypeOK
<1>c. ASSUME Leave(b), Clear PROVE MaskInv(b)'
  BY <1>l, <1>c DEF Clear, MaskInv, NoMask
<1>n. ASSUME NextPass(b) PROVE MaskInv(b)'
  <2>1. \A a \in hold[b] : a \in Pinned
    BY <1>n DEF NextPass, MaskInv
  <2> QED BY <1>n, <1>l, <2>1 DEF NextPass, MaskInv, Sound, NoMask, Pinned
<1>p. ASSUME NextPhase(b) PROVE MaskInv(b)'
  <2>1. CASE pc[b] \in ClearsAfter
    BY <1>p, <1>c, <2>1 DEF NextPhase
  <2>2. CASE pc[b] \notin ClearsAfter
    <3>1. /\ Leave(b) /\ Keep
          /\ \/ pc[b] = "source" /\ pc'[b] = "key"
             \/ pc[b] = "key" /\ pc'[b] = "late"
             \/ pc[b] = "refresh" /\ pc'[b] = "idle"
      BY <1>p, <2>2 DEF NextPhase, Reading, After, ClearsAfter, MadeInv, TypeOK
    <3>2. Expanding = {} => \A a \in hold[b] : a \in Pinned
      BY DEF MaskInv
    <3> QED BY <1>l, <3>1, <3>2 DEF Keep, MaskInv, Sound, NoMask, Pinned
  <2> QED BY <2>1, <2>2
<1>f. ASSUME Fail(b) PROVE MaskInv(b)'
  BY <1>f, <1>c DEF Fail
<1>u. ASSUME UNCHANGED vars PROVE MaskInv(b)'
  BY <1>u DEF vars, MaskInv, Sound, Pinned
<1> QED BY <1>e, <1>b, <1>h, <1>m, <1>s, <1>x, <1>k, <1>t, <1>o, <1>n, <1>p, <1>f, <1>u DEF Next, Compile

LEMMA MaskAlways == ASSUME NEW b \in Builders, Builders = {b} PROVE Spec => []MaskInv(b)
<1>1. Init => MadeInv /\ MaskInv(b)
  BY InitMade, InitMask
<1>2. MadeInv /\ MaskInv(b) /\ [Next]_vars => (MadeInv /\ MaskInv(b))'
  BY MadeStep, MaskStep
<1> QED BY <1>1, <1>2, PTL DEF Spec

(***************************************************************************)
(* With one compile at a time, host_tiling_key is only given masks of the  *)
(* texts it asks for, of its own ones too.                                 *)
(***************************************************************************)
THEOREM MasksExactToKey ==
    ASSUME NEW b \in Builders, Builders = {b}
    PROVE  Spec => []MaskExactToKey
<1>1. MaskInv(b) => MaskExactToKey
  BY DEF MaskInv, Sound, MaskExactToKey
<1> QED BY <1>1, MaskAlways, PTL

(***************************************************************************)
(* If no file has anything to expand, every pass is: an object id is a     *)
(* good key for what read_text keeps, and only for that (mask_cached).     *)
(***************************************************************************)
THEOREM MasksExact ==
    ASSUME NEW b \in Builders, Builders = {b}, Expanding = {}
    PROVE  Spec => []MaskExact
<1>1. MaskInv(b) => MaskExact
  BY DEF MaskInv, Sound, MaskExact
<1> QED BY <1>1, MaskAlways, PTL

-----------------------------------------------------------------------------
(***************************************************************************)
(* Places.  A key pass begins without any and lets go of no text before it *)
(* returns, so what has places under its id is still in use.               *)
(***************************************************************************)
PlaceInv(b) ==
    /\ placed[b].got = placed[b].wanted
    /\ pc[b] = "key" => \A a \in Addrs :
           places[a] # NoText => places[a] = heap[a] /\ a \in Pinned \cup hold[b]

LEMMA InitPlace == ASSUME NEW b \in Builders, Init PROVE PlaceInv(b)
  BY DEF Init, PlaceInv, NoMask

LEMMA PlaceStep ==
    ASSUME NEW b \in Builders, Builders = {b}, MadeInv, PlaceInv(b), [Next]_vars
    PROVE  PlaceInv(b)'
<1> USE SourceTextAssumption, NoTextAssumption
<1>e. ASSUME NEW f \in Files, Edit(f) PROVE PlaceInv(b)'
  BY <1>e DEF Edit, PlaceInv, Pinned
<1>b. ASSUME Begin(b) PROVE PlaceInv(b)'
  BY <1>b DEF Begin, PlaceInv, MadeInv, TypeOK
<1>h. ASSUME NEW f \in Files, Hit(b, f) PROVE PlaceInv(b)'
  <2>1. hold'[b] = hold[b] \cup {text[f]}
    BY <1>h DEF Hit, MadeInv, TypeOK
  <2> QED BY <1>h, <2>1 DEF Hit, PlaceInv, Pinned
<1>m. ASSUME NEW f \in Files, NEW a \in Addrs, Miss(b, f, a) PROVE PlaceInv(b)'
  <2>1. \A c \in Addrs \ {a} : heap'[c] = heap[c]
    BY <1>m DEF Miss, MadeInv, TypeOK
  <2>2. a \notin Pinned \cup hold[b]
    BY <1>m DEF Miss, Live
  <2> QED BY <1>m, <2>1, <2>2 DEF Miss, PlaceInv, Pinned
<1>s. ASSUME Store(b) PROVE PlaceInv(b)'
  <2> DEFINE f == heap[pending[b]].file
             a == IF text[f] = Nowhere THEN pending[b] ELSE text[f]
  <2>1. /\ text' = [text EXCEPT ![f] = a]
        /\ hold' = [hold EXCEPT ![b] = @ \cup {a}]
        /\ UNCHANGED <<heap, places, pc, placed>>
    BY <1>s DEF Store
  <2>2. text[f] # Nowhere => a = text[f]
    OBVIOUS
  <2> HIDE DEF f, a
  <2>3. \A g \in Files : text[g] # Nowhere => text'[g] = text[g]
    BY <2>1, <2>2 DEF MadeInv, TypeOK
  <2>4. Pinned \subseteq Pinned'
    BY <2>3 DEF Pinned
  <2>5. hold'[b] = hold[b] \cup {a}
    BY <2>1 DEF MadeInv, TypeOK
  <2> QED BY <2>1, <2>4, <2>5 DEF PlaceInv
<1>x. ASSUME NEW a \in Addrs, NEW new \in Addrs, Expand(b, a, new) PROVE PlaceInv(b)'
  <2>1. \A c \in Addrs \ {new} : heap'[c] = heap[c]
    BY <1>x DEF Expand, MadeInv, TypeOK
  <2>2. new \notin Pinned \cup hold[b]
    BY <1>x DEF Expand, Live
  <2>3. hold'[b] = hold[b] \cup {new}
    BY <1>x DEF Expand, MadeInv, TypeOK
  <2> QED BY <1>x, <2>1, <2>2, <2>3 DEF Expand, PlaceInv, Pinned
<1>k. ASSUME NEW a \in Addrs, MaskCached(b, a) PROVE PlaceInv(b)'
  BY <1>k DEF MaskCached, PlaceInv, Pinned
<1>t. ASSUME NEW f \in Files, MaskedText(b, f) PROVE PlaceInv(b)'
  BY <1>t DEF MaskedText, PlaceInv
<1>o. ASSUME NEW a \in Addrs, Locate(b, a) PROVE PlaceInv(b)'
  <2> DEFINE got == IF places[a] # NoText THEN places[a] ELSE heap[a]
  <2>1. got = heap[a] /\ a \in hold[b] /\ pc[b] = "key"
    BY <1>o DEF Locate, PlaceInv
  <2>2. /\ places' = [places EXCEPT ![a] = got]
        /\ placed' = [placed EXCEPT ![b] = [wanted |-> heap[a], got |-> got]]
        /\ UNCHANGED <<heap, text, pc, hold>>
    BY <1>o DEF Locate
  <2> HIDE DEF got
  <2> QED BY <2>1, <2>2 DEF PlaceInv, Pinned, MadeInv, TypeOK
<1>l. ASSUME Leave(b) PROVE placed'[b] = NoMask
  BY <1>l DEF Leave, MadeInv, TypeOK
<1>n. ASSUME NextPass(b) PROVE PlaceInv(b)'
  BY <1>n, <1>l DEF NextPass, PlaceInv, NoMask
<1>p. ASSUME NextPhase(b) PROVE PlaceInv(b)'
  <2>1. pc'[b] = "key" => pc[b] = "source"
    BY <1>p DEF NextPhase, Reading, After, MadeInv, TypeOK
  <2> QED BY <1>p, <1>l, <2>1 DEF NextPhase, PlacesFor, PlaceInv, NoMask
<1>f. ASSUME Fail(b) PROVE PlaceInv(b)'
  BY <1>f, <1>l DEF Fail, PlaceInv, NoMask, MadeInv, TypeOK
<1>u. ASSUME UNCHANGED vars PROVE PlaceInv(b)'
  BY <1>u DEF vars, PlaceInv, Pinned
<1> QED BY <1>e, <1>b, <1>h, <1>m, <1>s, <1>x, <1>k, <1>t, <1>o, <1>n, <1>p, <1>f, <1>u DEF Next, Compile

(***************************************************************************)
(* With one compile at a time, the lines and functions host_tiling_key     *)
(* names are those of the text at hand, whichever files it expands.        *)
(***************************************************************************)
THEOREM PlacesAreExact ==
    ASSUME NEW b \in Builders, Builders = {b}
    PROVE  Spec => []PlacesExact
<1>1. Init => MadeInv /\ PlaceInv(b)
  BY InitMade, InitPlace
<1>2. MadeInv /\ PlaceInv(b) /\ [Next]_vars => (MadeInv /\ PlaceInv(b))'
  BY MadeStep, PlaceStep
<1>3. PlaceInv(b) => PlacesExact
  BY DEF PlaceInv, PlacesExact
<1> QED BY <1>1, <1>2, <1>3, PTL DEF Spec

-----------------------------------------------------------------------------
(***************************************************************************)
(* SourceFacts.  Types, whatever is edited, fails or runs out of time.     *)
(***************************************************************************)
LEMMA PhasesAre == DOMAIN Following = {"early", "source", "refresh"}
  BY DEF Following

LEMMA FactsInitTyped == FactsInit => FactsTypeOK
  BY SourceFactsAssumption DEF FactsInit, FactsTypeOK, None, MaybeFacts

LEMMA FactsTypePreserved == FactsTypeOK /\ [FactsNext]_fvars => FactsTypeOK'
<1> SUFFICES ASSUME FactsTypeOK, [FactsNext]_fvars PROVE FactsTypeOK'
  OBVIOUS
<1> USE SourceFactsAssumption, NothingAssumption, PhasesAre DEF FactsTypeOK
<1>v. ASSUME NEW f \in Kernels, Save(f) PROVE FactsTypeOK'
  BY <1>v DEF Save
<1>r. ASSUME NEW f \in Kernels, ReadText(f) PROVE FactsTypeOK'
  BY <1>r DEF ReadText
<1>b. ASSUME Start PROVE FactsTypeOK'
  BY <1>b DEF Start
<1>a. ASSUME Ask PROVE FactsTypeOK'
  BY <1>a DEF Ask, None, MaybeFacts
<1>i. ASSUME NEW f \in Kernels, Indexed(f) PROVE FactsTypeOK'
  BY <1>i DEF Indexed, Looking
<1>g. ASSUME NEW f \in Kernels, Gone(f) PROVE FactsTypeOK'
  BY <1>g DEF Gone, Looking
<1>h. ASSUME NEW f \in Kernels, Hashed(f) PROVE FactsTypeOK'
  <2>1. src[f] \in Contents /\ store[src[f]] \in MaybeFacts
    BY <1>h DEF Hashed
  <2> QED BY <1>h, <2>1 DEF Hashed, Looking, Key
<1>e. ASSUME EndLookup PROVE FactsTypeOK'
  BY <1>e DEF EndLookup
<1>s. ASSUME NEW f \in Kernels, Scan(f) PROVE FactsTypeOK'
  <2> DEFINE c == IF cached[f] # Nothing THEN cached[f] ELSE src[f]
             facts == [of |-> c, file |-> f]
  <2>1. /\ store' \in {store, [store EXCEPT ![missing[f]] = facts]}
        /\ index' = [index EXCEPT ![f] = facts]
        /\ byFile' = [byFile EXCEPT ![f] = facts]
        /\ cached' = cached \/ (c # Absent /\ cached' = [cached EXCEPT ![f] = c])
        /\ missing' = [missing EXCEPT ![f] = Nothing]
        /\ UNCHANGED <<src, phase, looked, taken>>
    BY <1>s DEF Scan
  <2>2. c \in Contents \cup {Absent}
    OBVIOUS
  <2>3. facts \in MaybeFacts
    BY <2>2 DEF Facts, MaybeFacts
  <2>4. missing[f] \in Contents \cup {Nothing}
    OBVIOUS
  <2> HIDE DEF c, facts
  <2>5. cached' \in [Kernels -> Contents \cup {Nothing}] /\ missing' \in [Kernels -> Contents \cup {Nothing}]
    BY <2>1, <2>2
  <2>6. /\ index' \in [Kernels -> MaybeFacts]
        /\ byFile' \in [Kernels -> MaybeFacts]
        /\ store' \in [Contents -> MaybeFacts]
    BY <2>1, <2>3
  <2> QED BY <2>1, <2>5, <2>6
<1>w. ASSUME Answer PROVE FactsTypeOK'
  <2>1. PICK g \in [Kernels -> Kernels] : taken' = [f \in Kernels |-> byFile[g[f]]]
    BY <1>w DEF Answer
  <2>2. taken' \in [Kernels -> MaybeFacts]
    BY <2>1
  <2> QED BY <1>w, <2>2 DEF Answer
<1>p. ASSUME EndPhase PROVE FactsTypeOK'
  <2>1. phase' \in {"source", "refresh", "idle"}
    BY <1>p DEF EndPhase, Following
  <2> QED BY <1>p, <2>1 DEF EndPhase, Reset, None, MaybeFacts
<1>f. ASSUME Stop PROVE FactsTypeOK'
  BY <1>f DEF Stop, Reset, None, MaybeFacts
<1>u. ASSUME UNCHANGED fvars PROVE FactsTypeOK'
  BY <1>u DEF fvars
<1> QED BY <1>v, <1>r, <1>b, <1>a, <1>i, <1>g, <1>h, <1>e, <1>s, <1>w, <1>p, <1>f, <1>u DEF FactsNext

(***************************************************************************)
(* What is kept, stored, asked for and taken are facts and hashes of       *)
(* files, with edits, deadlines and failures at any time (builder.py).     *)
(***************************************************************************)
THEOREM FactsTypeCorrect == FactsSpec => []FactsTypeOK
  BY FactsInitTyped, FactsTypePreserved, PTL DEF FactsSpec
-----------------------------------------------------------------------------
(***************************************************************************)
(* While no file is edited during a compile, whatever is kept behind the   *)
(* first clear is of the bytes of its file, what is stored is of the bytes *)
(* it is stored under, and what remains to be scanned has the key of them. *)
(***************************************************************************)
Asking == {"lookup", "scan"}

Of(kept, f) == kept[f] # Nothing => kept[f].of = src[f]

TextsNow == phase \in {"source", "refresh"} \cup Asking =>
    \A f \in Kernels : cached[f] # Nothing => cached[f] = src[f]

IndexNow ==
    /\ phase \notin {"source"} \cup Asking => index = None
    /\ \A f \in Kernels : Of(index, f)

AskedNow == phase \in Asking => \A f \in Kernels : Of(byFile, f)

MissingNow == \A f \in Kernels : missing[f] # Nothing => phase \in Asking /\ missing[f] = src[f]

FromNamesakes == \A f \in Kernels : taken[f] # Nothing =>
    \E g \in Kernels : Name[g] = Name[f] /\ taken[f].of = src[g]

TakenNow ==
    /\ phase \notin {"source"} \cup Asking => taken = None
    /\ FromNamesakes

CurrentInv == TextsNow /\ IndexNow /\ AskedNow /\ MissingNow /\ KeyNamesContent /\ TakenNow

LEMMA InitCurrent == FactsInit => CurrentInv
  BY DEF FactsInit, None, CurrentInv, Asking, Of, TextsNow, IndexNow, AskedNow, MissingNow,
         KeyNamesContent, TakenNow, FromNamesakes

(***************************************************************************)
(* A scan takes the cached text, or the file itself; now they agree.       *)
(***************************************************************************)
LEMMA ScanCurrent ==
    ASSUME FactsTypeOK, CurrentInv, NEW f \in Kernels, Scan(f)
    PROVE  CurrentInv'
<1> DEFINE c == IF cached[f] # Nothing THEN cached[f] ELSE src[f]
           facts == [of |-> c, file |-> f]
<1>1. /\ phase = "scan" /\ missing[f] # Nothing
      /\ store' \in {store, [store EXCEPT ![missing[f]] = facts]}
      /\ index' = [index EXCEPT ![f] = facts]
      /\ byFile' = [byFile EXCEPT ![f] = facts]
      /\ cached' = cached \/ cached' = [cached EXCEPT ![f] = c]
      /\ missing' = [missing EXCEPT ![f] = Nothing]
      /\ UNCHANGED <<src, phase, looked, taken>>
  BY DEF Scan
<1>2. c = src[f] /\ missing[f] = src[f] /\ missing[f] \in Contents
  BY <1>1 DEF CurrentInv, TextsNow, MissingNow, Asking, FactsTypeOK
<1>3. facts.of = src[f]
  BY <1>2
<1> HIDE DEF c, facts
<1>4. TextsNow'
  BY <1>1, <1>2 DEF CurrentInv, TextsNow, Asking, FactsTypeOK
<1>5. IndexNow' /\ AskedNow'
  BY <1>1, <1>3 DEF CurrentInv, IndexNow, AskedNow, Of, Asking, FactsTypeOK
<1>6. MissingNow' /\ TakenNow'
  BY <1>1 DEF CurrentInv, MissingNow, TakenNow, FromNamesakes, Asking, FactsTypeOK
<1>7. KeyNamesContent'
  BY <1>1, <1>2, <1>3 DEF CurrentInv, KeyNamesContent, FactsTypeOK
<1> QED BY <1>4, <1>5, <1>6, <1>7 DEF CurrentInv

LEMMA CurrentPreserved ==
    ASSUME ~EditsDuring, FactsTypeOK, CurrentInv, [FactsNext]_fvars
    PROVE  CurrentInv'
<1> USE DEF CurrentInv, TextsNow, IndexNow, AskedNow, MissingNow, KeyNamesContent, TakenNow,
            FromNamesakes, Of, Asking, None
<1>v. ASSUME NEW f \in Kernels, Save(f) PROVE CurrentInv'
  BY <1>v DEF Save
<1>r. ASSUME NEW f \in Kernels, ReadText(f) PROVE CurrentInv'
  BY <1>r DEF ReadText, FactsTypeOK
<1>b. ASSUME Start PROVE CurrentInv'
  BY <1>b DEF Start
<1>a. ASSUME Ask PROVE CurrentInv'
  BY <1>a DEF Ask
<1>i. ASSUME NEW f \in Kernels, Indexed(f) PROVE CurrentInv'
  BY <1>i DEF Indexed, Looking, FactsTypeOK
<1>g. ASSUME NEW f \in Kernels, Gone(f) PROVE CurrentInv'
  BY <1>g DEF Gone, Looking
<1>h. ASSUME NEW f \in Kernels, Hashed(f) PROVE CurrentInv'
  <2> DEFINE kept == store[src[f]]
  <2>1. /\ phase = "lookup"
        /\ index' = [index EXCEPT ![f] = kept]
        /\ byFile' = [byFile EXCEPT ![f] = kept]
        /\ missing' = [missing EXCEPT ![f] = IF kept = Nothing THEN src[f] ELSE Nothing]
        /\ UNCHANGED <<src, cached, store, phase, taken>>
    BY <1>h DEF Hashed, Looking, Key
  <2>2. kept # Nothing => kept.of = src[f]
    BY <1>h DEF Hashed, FactsTypeOK
  <2> HIDE DEF kept
  <2> QED BY <2>1, <2>2 DEF FactsTypeOK
<1>e. ASSUME EndLookup PROVE CurrentInv'
  BY <1>e DEF EndLookup
<1>s. ASSUME NEW f \in Kernels, Scan(f) PROVE CurrentInv'
  BY <1>s, ScanCurrent
<1>w. ASSUME Answer PROVE CurrentInv'
  <2>1. PICK g \in [Kernels -> Kernels] :
             /\ \A f \in Kernels : StandsFor(g[f], f)
             /\ taken' = [f \in Kernels |-> byFile[g[f]]]
    BY <1>w DEF Answer
  <2>2. \A f \in Kernels : Name[g[f]] = Name[f] /\ g[f] \in Kernels
    BY <2>1 DEF StandsFor
  <2>3. FromNamesakes'
    BY <1>w, <2>1, <2>2 DEF Answer
  <2> QED BY <1>w, <2>3 DEF Answer
<1>p. ASSUME EndPhase PROVE CurrentInv'
  BY <1>p DEF EndPhase, Reset, Following, ResetsAfter, FactsTypeOK
<1>f. ASSUME Stop PROVE CurrentInv'
  BY <1>f DEF Stop, Reset
<1>u. ASSUME UNCHANGED fvars PROVE CurrentInv'
  BY <1>u DEF fvars
<1> QED BY <1>v, <1>r, <1>b, <1>a, <1>i, <1>g, <1>h, <1>e, <1>s, <1>w, <1>p, <1>f, <1>u DEF FactsNext

LEMMA CurrentAlways == ASSUME ~EditsDuring PROVE FactsSpec => [](FactsTypeOK /\ CurrentInv)
<1>1. FactsInit => FactsTypeOK /\ CurrentInv
  BY FactsInitTyped, InitCurrent
<1>2. FactsTypeOK /\ CurrentInv /\ [FactsNext]_fvars => (FactsTypeOK /\ CurrentInv)'
  BY FactsTypePreserved, CurrentPreserved
<1> QED BY <1>1, <1>2, PTL DEF FactsSpec

\* No two kernel files have one name, in whatever directories.
NamesApart == \A f, g \in Kernels : Name[f] = Name[g] => f = g

(***************************************************************************)
(* If files stand still during compiles and no two have one name, the root *)
(* trace is given facts of the bytes its files have now, whatever compiles *)
(* failed, died or ran out of time before (get_or_build, build.py 262-330).*)
(***************************************************************************)
THEOREM FactsAreCurrent ==
    ASSUME ~EditsDuring, NamesApart
    PROVE  FactsSpec => []FactsCurrent
<1>1. CurrentInv => FactsCurrent
  BY DEF CurrentInv, TakenNow, FromNamesakes, FactsCurrent, NamesApart
<1> QED BY <1>1, CurrentAlways, PTL

(***************************************************************************)
(* If some files do have one name, what facts_for answers is at least of   *)
(* the present bytes of a file with that name (model.py 26-35).            *)
(***************************************************************************)
THEOREM FactsAreOfNamesakes == ASSUME ~EditsDuring PROVE FactsSpec => []FromNamesakes
  BY CurrentAlways, PTL DEF CurrentInv, TakenNow

(***************************************************************************)
(* If files stand still during compiles, whatever is on disk under the     *)
(* hash of some bytes was made of these bytes, for ever (cache.py 4).      *)
(***************************************************************************)
THEOREM StoreIsHonest == ASSUME ~EditsDuring PROVE FactsSpec => []KeyNamesContent
  BY CurrentAlways, PTL DEF CurrentInv

-----------------------------------------------------------------------------
\* No two kernel files ever have the same bytes.
ContentsApart == \A f, g \in Kernels : ContentsOf[f] \cap ContentsOf[g] # {} => f = g

(***************************************************************************)
(* Everything that is reached by a file, or by the bytes of one, names it. *)
(***************************************************************************)
OwnInv ==
    /\ \A f \in Kernels : src[f] \in ContentsOf[f] \cup {Absent}
    /\ \A f \in Kernels : missing[f] # Nothing => missing[f] \in ContentsOf[f]
    /\ \A f \in Kernels : \A c \in ContentsOf[f] : store[c] # Nothing => store[c].file = f
    /\ \A f \in Kernels : index[f] # Nothing => index[f].file = f
    /\ \A f \in Kernels : byFile[f] # Nothing => byFile[f].file = f
    /\ FactsOfOwnFile

LEMMA InitOwn == FactsInit => OwnInv
  BY SourceFactsAssumption DEF FactsInit, None, OwnInv, FactsOfOwnFile

LEMMA OwnPreserved ==
    ASSUME NamesApart, ContentsApart, FactsTypeOK, OwnInv, [FactsNext]_fvars
    PROVE  OwnInv'
<1> USE SourceFactsAssumption DEF OwnInv, FactsOfOwnFile, None
<1>v. ASSUME NEW f \in Kernels, Save(f) PROVE OwnInv'
  BY <1>v DEF Save, FactsTypeOK
<1>r. ASSUME NEW f \in Kernels, ReadText(f) PROVE OwnInv'
  BY <1>r DEF ReadText
<1>b. ASSUME Start PROVE OwnInv'
  BY <1>b DEF Start
<1>a. ASSUME Ask PROVE OwnInv'
  BY <1>a DEF Ask
<1>i. ASSUME NEW f \in Kernels, Indexed(f) PROVE OwnInv'
  BY <1>i DEF Indexed, Looking, FactsTypeOK
<1>g. ASSUME NEW f \in Kernels, Gone(f) PROVE OwnInv'
  BY <1>g DEF Gone, Looking
<1>h. ASSUME NEW f \in Kernels, Hashed(f) PROVE OwnInv'
  <2> DEFINE kept == store[src[f]]
  <2>1. /\ index' = [index EXCEPT ![f] = kept]
        /\ byFile' = [byFile EXCEPT ![f] = kept]
        /\ missing' = [missing EXCEPT ![f] = IF kept = Nothing THEN src[f] ELSE Nothing]
        /\ UNCHANGED <<src, cached, store, phase, taken>>
        /\ src[f] \in ContentsOf[f]
    BY <1>h DEF Hashed, Looking, Key
  <2>2. kept # Nothing => kept.file = f
    BY <2>1
  <2> HIDE DEF kept
  <2> QED BY <2>1, <2>2 DEF FactsTypeOK
<1>e. ASSUME EndLookup PROVE OwnInv'
  BY <1>e DEF EndLookup
<1>s. ASSUME NEW f \in Kernels, Scan(f) PROVE OwnInv'
  <2> DEFINE facts == [of |-> IF cached[f] # Nothing THEN cached[f] ELSE src[f], file |-> f]
  <2>1. /\ missing[f] # Nothing
        /\ store' \in {store, [store EXCEPT ![missing[f]] = facts]}
        /\ index' = [index EXCEPT ![f] = facts]
        /\ byFile' = [byFile EXCEPT ![f] = facts]
        /\ missing' = [missing EXCEPT ![f] = Nothing]
        /\ UNCHANGED <<src, taken>>
    BY <1>s DEF Scan
  <2>2. facts.file = f
    OBVIOUS
  <2> HIDE DEF facts
  <2>3. \A g \in Kernels : missing[f] \in ContentsOf[g] => g = f
    BY <2>1 DEF ContentsApart
  <2>4. \A g \in Kernels : \A c \in ContentsOf[g] : store'[c] # Nothing => store'[c].file = g
    BY <2>1, <2>2, <2>3 DEF FactsTypeOK
  <2> QED BY <2>1, <2>2, <2>4 DEF FactsTypeOK
<1>w. ASSUME Answer PROVE OwnInv'
  <2>1. PICK g \in [Kernels -> Kernels] :
             /\ \A f \in Kernels : StandsFor(g[f], f)
             /\ taken' = [f \in Kernels |-> byFile[g[f]]]
    BY <1>w DEF Answer
  <2>2. \A f \in Kernels : g[f] = f
    BY <2>1 DEF StandsFor, NamesApart
  <2> QED BY <1>w, <2>1, <2>2 DEF Answer
<1>p. ASSUME EndPhase PROVE OwnInv'
  BY <1>p DEF EndPhase, Reset
<1>f. ASSUME Stop PROVE OwnInv'
  BY <1>f DEF Stop, Reset
<1>u. ASSUME UNCHANGED fvars PROVE OwnInv'
  BY <1>u DEF fvars
<1> QED BY <1>v, <1>r, <1>b, <1>a, <1>i, <1>g, <1>h, <1>e, <1>s, <1>w, <1>p, <1>f, <1>u DEF FactsNext

(***************************************************************************)
(* If no two files have one name or the same bytes, facts name the file    *)
(* they are taken for, even with edits while a compile runs: call sites    *)
(* and members get the path in them (builder.py 694-710, model.py 37-74).  *)
(***************************************************************************)
THEOREM FactsNameTheirFile ==
    ASSUME NamesApart, ContentsApart
    PROVE  FactsSpec => []FactsOfOwnFile
<1>1. FactsInit => FactsTypeOK /\ OwnInv
  BY FactsInitTyped, InitOwn
<1>2. FactsTypeOK /\ OwnInv /\ [FactsNext]_fvars => (FactsTypeOK /\ OwnInv)'
  BY FactsTypePreserved, OwnPreserved
<1>3. OwnInv => FactsOfOwnFile
  BY DEF OwnInv
<1> QED BY <1>1, <1>2, <1>3, PTL DEF FactsSpec
=============================================================================
