------------------------ MODULE SnapshotLocks_proofs ------------------------
(***************************************************************************)
(* The snapshot gate is safe for any set of CodeMaps and any finite set of *)
(* threads.                                                                *)
(***************************************************************************)
EXTENDS SnapshotLocks, FiniteSetTheorems, TLAPS

(* A writer that is in its body has drained the readers. *)
Drained == \A k \in Keys : At("writing", k) # {} => readers[k] = 0

(* The inductive invariant: WriterAlone is not inductive by itself, since  *)
(* the drain loop looks at the counter and the flag, not at the threads.   *)
IInv == TypeOK /\ ReadersCounted /\ FlagOwned /\ Drained

(* Readers inside are finitely many, so they can be counted. *)
LEMMA ReadingFinite ==
  \A k : IsFiniteSet(At("reading", k))
  <1>1. TAKE k
  <1>2. At("reading", k) \subseteq Threads
    BY DEF At
  <1>3. QED
    BY <1>2, ThreadsFinite, FS_Subset

LEMMA InitInv == Init => IInv
  <1> SUFFICES ASSUME Init PROVE IInv
    OBVIOUS
  <1>1. \A loc, k : loc # "idle" => At(loc, k) = {}
    BY DEF Init, At
  <1>2. \A k \in Keys : Cardinality(At("reading", k)) = 0
    BY <1>1, FS_EmptySet
  <1>3. QED
    BY <1>1, <1>2 DEF Init, IInv, TypeOK, ReadersCounted, FlagOwned, Drained, Locations

(* Entering the first loop of acquire_write keeps the types. *)
LEMMA ClaimTyped ==
  ASSUME TypeOK, NEW t \in Threads, NEW k \in Keys, Claim(t, k)
  PROVE  /\ writer' \in [Keys -> BOOLEAN]
         /\ asleep' \in [Keys -> SUBSET Threads]
         /\ pc' \in [Threads -> Locations]
  <1> USE DEF TypeOK, Goto, Sleep
  <1>1. CASE writer[k] /\ Goto(t, "queued") /\ Sleep(t, k) /\ UNCHANGED writer
    <2>1. pc' \in [Threads -> Locations]
      BY <1>1 DEF Locations
    <2>2. QED
      BY <1>1, <2>1
  <1>2. CASE writer' = [writer EXCEPT ![k] = TRUE] /\ Drain(t, k)
    <2>1. writer' \in [Keys -> BOOLEAN]
      BY <1>2
    <2>2. pc' \in [Threads -> Locations]
      BY <1>2 DEF Drain, Locations
    <2>3. asleep' \in [Keys -> SUBSET Threads]
      BY <1>2 DEF Drain
    <2>4. QED
      BY <2>1, <2>2, <2>3
  <1>3. QED
    BY <1>1, <1>2 DEF Claim

LEMMA TypePreserved == TypeOK /\ [Next]_vars => TypeOK'
  <1> SUFFICES ASSUME TypeOK, [Next]_vars PROVE TypeOK'
    OBVIOUS
  <1> USE DEF TypeOK, Locations
  <1>1. ASSUME NEW t \in Threads, NEW k \in Keys, TryRead(t, k) PROVE TypeOK'
    BY <1>1 DEF TryRead, Goto
  <1>2. ASSUME NEW t \in Threads, NEW k \in Keys, AcquireWrite(t, k) PROVE TypeOK'
    BY <1>2, ClaimTyped DEF AcquireWrite
  <1>3. ASSUME NEW t \in Threads, ReleaseRead(t) PROVE TypeOK'
    BY <1>3 DEF ReleaseRead, NotifyAll, Goto
  <1>4. ASSUME NEW t \in Threads, WakeQueued(t) PROVE TypeOK'
    BY <1>4, ClaimTyped DEF WakeQueued
  <1>5. ASSUME NEW t \in Threads, WakeDraining(t) PROVE TypeOK'
    BY <1>5 DEF WakeDraining, Drain, Goto, Sleep
  <1>6. ASSUME NEW t \in Threads, ReleaseWrite(t) PROVE TypeOK'
    BY <1>6 DEF ReleaseWrite, NotifyAll, Goto
  <1>7. CASE UNCHANGED vars
    BY <1>7 DEF vars
  <1>8. QED
    BY <1>1, <1>2, <1>3, <1>4, <1>5, <1>6, <1>7 DEF Next

(* What an entering reader, a leaving reader and a step of anybody else do *)
(* to the readers counted.                                                 *)
LEMMA CountPreserved == IInv /\ [Next]_vars => ReadersCounted'
  <1> SUFFICES ASSUME IInv, [Next]_vars, NEW j \in Keys
               PROVE  readers'[j] = Cardinality(At("reading", j)')
    BY DEF ReadersCounted
  <1> USE DEF IInv, TypeOK, ReadersCounted
  <1>0. readers[j] = Cardinality(At("reading", j)) /\ IsFiniteSet(At("reading", j))
    BY ReadingFinite
  <1>s. ASSUME readers'[j] = readers[j], At("reading", j)' = At("reading", j)
        PROVE  readers'[j] = Cardinality(At("reading", j)')
    BY <1>s, <1>0
  <1>1. ASSUME NEW t \in Threads, NEW k \in Keys, TryRead(t, k)
        PROVE  readers'[j] = Cardinality(At("reading", j)')
    <2>1. CASE j = k
      <3>1. At("reading", j)' = At("reading", j) \cup {t} /\ t \notin At("reading", j)
        BY <1>1, <2>1 DEF TryRead, Goto, At
      <3>2. Cardinality(At("reading", j) \cup {t}) = Cardinality(At("reading", j)) + 1
        BY <3>1, <1>0, FS_AddElement
      <3>3. readers'[j] = readers[j] + 1
        BY <1>1, <2>1 DEF TryRead
      <3>4. QED
        BY <3>1, <3>2, <3>3, <1>0
    <2>2. CASE j # k
      BY <1>1, <2>2, <1>s DEF TryRead, Goto, At
    <2>3. QED
      BY <2>1, <2>2
  <1>2. ASSUME NEW t \in Threads, NEW k \in Keys, AcquireWrite(t, k)
        PROVE  readers'[j] = Cardinality(At("reading", j)')
    BY <1>2, <1>s DEF AcquireWrite, Claim, Drain, Goto, At
  <1>3. ASSUME NEW t \in Threads, ReleaseRead(t)
        PROVE  readers'[j] = Cardinality(At("reading", j)')
    <2>1. CASE j = key[t]
      <3>1. At("reading", j)' = At("reading", j) \ {t} /\ t \in At("reading", j)
        BY <1>3, <2>1 DEF ReleaseRead, Goto, At
      <3>2. Cardinality(At("reading", j) \ {t}) = Cardinality(At("reading", j)) - 1
        BY <3>1, <1>0, FS_RemoveElement
      <3>3. Cardinality(At("reading", j)) # 0
        BY <3>1, <1>0, FS_EmptySet
      <3>4. readers'[j] = readers[j] - 1
        BY <1>3, <2>1, <3>3, <1>0 DEF ReleaseRead
      <3>5. QED
        BY <3>1, <3>2, <3>4, <1>0
    <2>2. CASE j # key[t]
      BY <1>3, <2>2, <1>s DEF ReleaseRead, Goto, At
    <2>3. QED
      BY <2>1, <2>2
  <1>4. ASSUME NEW t \in Threads, WakeQueued(t)
        PROVE  readers'[j] = Cardinality(At("reading", j)')
    BY <1>4, <1>s DEF WakeQueued, Claim, Drain, Goto, At
  <1>5. ASSUME NEW t \in Threads, WakeDraining(t)
        PROVE  readers'[j] = Cardinality(At("reading", j)')
    BY <1>5, <1>s DEF WakeDraining, Drain, Goto, At
  <1>6. ASSUME NEW t \in Threads, ReleaseWrite(t)
        PROVE  readers'[j] = Cardinality(At("reading", j)')
    BY <1>6, <1>s DEF ReleaseWrite, Goto, At
  <1>7. CASE UNCHANGED vars
    BY <1>7, <1>s DEF vars, At
  <1>8. QED
    BY <1>1, <1>2, <1>3, <1>4, <1>5, <1>6, <1>7 DEF Next

(* The flag changes hands only through its owner, and its owner writes     *)
(* only when nobody reads.                                                 *)
LEMMA FlagPreserved == IInv /\ [Next]_vars => FlagOwned' /\ Drained'
  <1> SUFFICES ASSUME IInv, [Next]_vars PROVE FlagOwned' /\ Drained'
    OBVIOUS
  <1> USE DEF IInv, TypeOK, Locations, FlagOwned, Drained, At
  <1>1. ASSUME NEW t \in Threads, NEW k \in Keys, TryRead(t, k)
        PROVE  FlagOwned' /\ Drained'
    BY <1>1 DEF TryRead, Goto
  <1>2. ASSUME NEW t \in Threads, NEW k \in Keys, AcquireWrite(t, k)
        PROVE  FlagOwned' /\ Drained'
    BY <1>2 DEF AcquireWrite, Claim, Drain, Goto
  <1>3. ASSUME NEW t \in Threads, ReleaseRead(t)
        PROVE  FlagOwned' /\ Drained'
    BY <1>3 DEF ReleaseRead, Goto
  <1>4. ASSUME NEW t \in Threads, WakeQueued(t)
        PROVE  FlagOwned' /\ Drained'
    BY <1>4 DEF WakeQueued, Claim, Drain, Goto
  <1>5. ASSUME NEW t \in Threads, WakeDraining(t)
        PROVE  FlagOwned' /\ Drained'
    BY <1>5 DEF WakeDraining, Drain, Goto
  <1>6. ASSUME NEW t \in Threads, ReleaseWrite(t)
        PROVE  FlagOwned' /\ Drained'
    BY <1>6 DEF ReleaseWrite, Goto
  <1>7. CASE UNCHANGED vars
    BY <1>7 DEF vars
  <1>8. QED
    BY <1>1, <1>2, <1>3, <1>4, <1>5, <1>6, <1>7 DEF Next

\* Counts, flags and the drained section of the gate (locks.py).
LEMMA Invariance == Spec => []IInv
  <1>1. IInv /\ [Next]_vars => IInv'
    BY TypePreserved, CountPreserved, FlagPreserved DEF IInv
  <1>2. QED
    BY InitInv, <1>1, PTL DEF Spec

(* The gate is type correct (locks.py:10-14). *)
THEOREM TypeCorrect == Spec => []TypeOK
  <1>1. IInv => TypeOK
    BY DEF IInv
  <1>2. QED
    BY Invariance, <1>1, PTL

(* The counter never forgets a reader that is still inside, nor remembers  *)
(* one that left.                                                          *)
THEOREM CountCorrect == Spec => []ReadersCounted
  <1>1. IInv => ReadersCounted
    BY DEF IInv
  <1>2. QED
    BY Invariance, <1>1, PTL

LEMMA InvAlone == IInv => WriterAlone
  <1> SUFFICES ASSUME IInv, NEW k \in Keys, NEW t \in Threads, NEW u \in Threads,
                      t \in At("writing", k), u # t
               PROVE  u \notin At("writing", k) \cup At("reading", k)
    BY DEF WriterAlone
  <1>1. u \notin At("writing", k)
    BY DEF IInv, FlagOwned
  <1>2. Cardinality(At("reading", k)) = 0
    BY DEF IInv, Drained, ReadersCounted
  <1>3. At("reading", k) = {}
    BY <1>2, ReadingFinite, FS_EmptySet
  <1>4. QED
    BY <1>1, <1>3

(* No query is inside while a product is written, and only one thread      *)
(* writes it.                                                              *)
THEOREM WriterExclusion == Spec => []WriterAlone
  <1>1. QED
    BY Invariance, InvAlone, PTL
-----------------------------------------------------------------------------
LEMMA WakeupPreserved == TypeOK /\ NoLostWakeup /\ [Next]_vars => NoLostWakeup'
  <1> SUFFICES ASSUME TypeOK, NoLostWakeup, [Next]_vars PROVE NoLostWakeup'
    OBVIOUS
  <1> USE DEF TypeOK, NoLostWakeup, Goto
  <1>1. ASSUME NEW t \in Threads, NEW k \in Keys, TryRead(t, k) PROVE NoLostWakeup'
    BY <1>1 DEF TryRead
  <1>2. ASSUME NEW t \in Threads, NEW k \in Keys, AcquireWrite(t, k) PROVE NoLostWakeup'
    BY <1>2 DEF AcquireWrite, Claim, Drain, Sleep
  <1>3. ASSUME NEW t \in Threads, ReleaseRead(t) PROVE NoLostWakeup'
    BY <1>3 DEF ReleaseRead, NotifyAll
  <1>4. ASSUME NEW t \in Threads, WakeQueued(t) PROVE NoLostWakeup'
    BY <1>4 DEF WakeQueued, Awake, Claim, Drain, Sleep
  <1>5. ASSUME NEW t \in Threads, WakeDraining(t) PROVE NoLostWakeup'
    BY <1>5 DEF WakeDraining, Awake, Drain, Sleep
  <1>6. ASSUME NEW t \in Threads, ReleaseWrite(t) PROVE NoLostWakeup'
    BY <1>6 DEF ReleaseWrite, NotifyAll
  <1>7. CASE UNCHANGED vars
    BY <1>7 DEF vars
  <1>8. QED
    BY <1>1, <1>2, <1>3, <1>4, <1>5, <1>6, <1>7 DEF Next

(* A thread sleeps only while what it waits for is false, so no notify_all *)
(* is ever missed (locks.py:57-71).                                        *)
THEOREM NoWakeupLost == Spec => []NoLostWakeup
  <1>1. Init => NoLostWakeup
    BY DEF Init, NoLostWakeup
  <1>2. QED
    BY <1>1, WakeupPreserved, TypeCorrect, PTL DEF Spec

(* Whoever sleeps in a gate is owed a notify: somebody is inside its body  *)
(* for the same CodeMap, or drains and has been woken, so a writer never   *)
(* sleeps among sleepers only (locks.py 59-65).                            *)
SleepersOwed ==
  \A k \in Keys : asleep[k] # {} =>
     \E t \in Threads : /\ key[t] = k
                        /\ \/ pc[t] \in {"reading", "writing"}
                           \/ pc[t] = "draining" /\ Awake(t)

THEOREM SleepersAreOwed == Spec => []SleepersOwed
  <1>1. ReadersCounted /\ FlagOwned /\ NoLostWakeup => SleepersOwed
    <2> SUFFICES ASSUME ReadersCounted, FlagOwned, NoLostWakeup,
                        NEW k \in Keys, NEW s \in asleep[k]
                 PROVE  \E t \in Threads : /\ key[t] = k
                                           /\ \/ pc[t] \in {"reading", "writing"}
                                              \/ pc[t] = "draining" /\ Awake(t)
      BY DEF SleepersOwed
    <2>1. ASSUME readers[k] > 0
          PROVE  \E t \in Threads : key[t] = k /\ pc[t] = "reading"
      <3>1. At("reading", k) # {}
        BY <2>1, FS_EmptySet DEF ReadersCounted
      <3>2. QED
        BY <3>1 DEF At
    <2>2. CASE writer[k]
      <3>1. PICK t \in Threads : key[t] = k /\ pc[t] \in {"draining", "writing"}
        BY <2>2 DEF FlagOwned, At
      <3>2. CASE pc[t] = "draining" /\ ~Awake(t)
        BY <3>1, <3>2, <2>1 DEF NoLostWakeup, Awake
      <3>3. QED
        BY <3>1, <3>2
    <2>3. CASE ~writer[k]
      BY <2>1, <2>3 DEF NoLostWakeup
    <2>4. QED
      BY <2>2, <2>3
  <1>2. QED
    BY <1>1, Invariance, NoWakeupLost, PTL DEF IInv

(* The write-preferring clause: a set flag admits no new reader            *)
(* (locks.py:20).                                                          *)
THEOREM WriterPreferred == Spec => NoReaderPassesWriter
  <1>1. TypeOK /\ [Next]_vars =>
          [\A t \in Threads :
             (pc[t] # "reading" /\ pc'[t] = "reading") => ~writer[key'[t]]]_vars
    <2> SUFFICES ASSUME TypeOK, [Next]_vars, NEW u \in Threads,
                        pc[u] # "reading", pc'[u] = "reading"
                 PROVE  ~writer[key'[u]]
      OBVIOUS
    <2> USE DEF TypeOK, Goto
    <2>1. ASSUME NEW t \in Threads, NEW k \in Keys, TryRead(t, k)
          PROVE  ~writer[key'[u]]
      BY <2>1 DEF TryRead
    <2>2. ASSUME NEW t \in Threads, NEW k \in Keys, AcquireWrite(t, k) PROVE FALSE
      BY <2>2 DEF AcquireWrite, Claim, Drain
    <2>3. ASSUME NEW t \in Threads, ReleaseRead(t) PROVE FALSE
      BY <2>3 DEF ReleaseRead
    <2>4. ASSUME NEW t \in Threads, WakeQueued(t) PROVE FALSE
      BY <2>4 DEF WakeQueued, Claim, Drain
    <2>5. ASSUME NEW t \in Threads, WakeDraining(t) PROVE FALSE
      BY <2>5 DEF WakeDraining, Drain
    <2>6. ASSUME NEW t \in Threads, ReleaseWrite(t) PROVE FALSE
      BY <2>6 DEF ReleaseWrite
    <2>7. CASE UNCHANGED vars
      BY <2>7 DEF vars
    <2>8. QED
      BY <2>1, <2>2, <2>3, <2>4, <2>5, <2>6, <2>7 DEF Next
  <1>2. QED
    BY <1>1, TypeCorrect, PTL DEF Spec, NoReaderPassesWriter

-----------------------------------------------------------------------------
(* Refinement: a step of the gate is a step of SnapshotAccess or a stutter *)
(* of it.                                                                  *)
LEMMA InitRefines == Init => Access!Init
  BY DEF Init, Access!Init, At

(* The writer that passes the drain loop enters alone. *)
LEMMA EnterRefines ==
  ASSUME IInv, NEW t \in Threads, NEW k \in Keys,
         readers[k] = 0, At("writing", k) = {}, pc[t] \notin {"reading", "writing"},
         pc' = [pc EXCEPT ![t] = "writing"], key' = [key EXCEPT ![t] = k]
  PROVE  Access!BeginWrite(t, k)
  <1> USE DEF IInv, TypeOK
  <1>1. At("reading", k) = {}
    BY ReadingFinite, FS_EmptySet DEF ReadersCounted
  <1>2. \A j \in Keys : At("reading", j)' = At("reading", j)
    BY DEF At
  <1>3. \A j \in Keys : At("writing", j)' = IF j = k THEN {t} ELSE At("writing", j)
    BY DEF At
  <1>4. QED
    BY <1>1, <1>2, <1>3 DEF Access!BeginWrite

LEMMA StepRefines == IInv /\ [Next]_vars => [Access!Next]_(Access!avars)
  <1> SUFFICES ASSUME IInv, [Next]_vars
               PROVE  [Access!Next]_(Access!avars)
    OBVIOUS
  <1> DEFINE Still == \A j \in Keys : /\ At("reading", j)' = At("reading", j)
                                      /\ At("writing", j)' = At("writing", j)
  <1> USE DEF IInv, TypeOK
  <1>s. ASSUME Still PROVE UNCHANGED Access!avars
    BY <1>s DEF Access!avars
  <1>1. ASSUME NEW t \in Threads, NEW k \in Keys, TryRead(t, k)
        PROVE  Access!BeginRead(t, k)
    <2>1. At("writing", k) = {}
      BY <1>1 DEF TryRead, FlagOwned
    <2>2. \A j \in Keys : At("reading", j)' = IF j = k THEN At("reading", j) \cup {t}
                                                        ELSE At("reading", j)
      BY <1>1 DEF TryRead, Goto, At
    <2>3. \A j \in Keys : At("writing", j)' = At("writing", j)
      BY <1>1 DEF TryRead, Goto, At
    <2>4. QED
      BY <2>1, <2>2, <2>3 DEF Access!BeginRead
  <1>2. ASSUME NEW t \in Threads, ReleaseRead(t)
        PROVE  Access!EndRead(t, key[t])
    <2>1. t \in At("reading", key[t]) /\ key[t] \in Keys
      BY <1>2 DEF ReleaseRead, At
    <2>2. \A j \in Keys : At("reading", j)' = IF j = key[t] THEN At("reading", j) \ {t}
                                                             ELSE At("reading", j)
      BY <1>2 DEF ReleaseRead, Goto, At
    <2>3. \A j \in Keys : At("writing", j)' = At("writing", j)
      BY <1>2 DEF ReleaseRead, Goto, At
    <2>4. QED
      BY <2>1, <2>2, <2>3 DEF Access!EndRead
  <1>3. ASSUME NEW t \in Threads, NEW k \in Keys, key' = [key EXCEPT ![t] = k],
               Claim(t, k), pc[t] \in {"idle", "queued"}
        PROVE  Access!BeginWrite(t, k) \/ UNCHANGED Access!avars
    <2>1. CASE pc' = [pc EXCEPT ![t] = "queued"] \/ pc' = [pc EXCEPT ![t] = "draining"]
      <3>1. Still
        BY <1>3, <2>1 DEF At
      <3>2. QED
        BY <3>1, <1>s
    <2>2. CASE ~writer[k] /\ readers[k] = 0 /\ pc' = [pc EXCEPT ![t] = "writing"]
      <3>1. At("writing", k) = {}
        BY <2>2 DEF FlagOwned
      <3>2. QED
        BY <1>3, <2>2, <3>1, EnterRefines
    <2>3. QED
      BY <1>3, <2>1, <2>2 DEF Claim, Drain, Goto
  <1>4. ASSUME NEW t \in Threads, WakeDraining(t)
        PROVE  Access!BeginWrite(t, key[t]) \/ UNCHANGED Access!avars
    <2>1. CASE pc' = [pc EXCEPT ![t] = "draining"]
      <3>1. Still
        BY <1>4, <2>1 DEF WakeDraining, At
      <3>2. QED
        BY <3>1, <1>s
    <2>2. CASE readers[key[t]] = 0 /\ pc' = [pc EXCEPT ![t] = "writing"]
      <3>1. At("writing", key[t]) = {}
        BY <1>4 DEF WakeDraining, FlagOwned, At
      <3>2. key' = [key EXCEPT ![t] = key[t]] /\ key[t] \in Keys
        BY <1>4 DEF WakeDraining
      <3>3. QED
        BY <1>4, <2>2, <3>1, <3>2, EnterRefines DEF WakeDraining
    <2>3. QED
      BY <1>4, <2>1, <2>2 DEF WakeDraining, Drain, Goto
  <1>5. ASSUME NEW t \in Threads, ReleaseWrite(t)
        PROVE  Access!EndWrite(t, key[t])
    <2>1. At("writing", key[t]) = {t} /\ key[t] \in Keys
      BY <1>5 DEF ReleaseWrite, FlagOwned, At
    <2>2. \A j \in Keys : At("reading", j)' = At("reading", j)
      BY <1>5 DEF ReleaseWrite, Goto, At
    <2>3. \A j \in Keys : At("writing", j)' = IF j = key[t] THEN {} ELSE At("writing", j)
      BY <1>5, <2>1 DEF ReleaseWrite, Goto, At
    <2>4. QED
      BY <2>1, <2>2, <2>3 DEF Access!EndWrite
  <1>6. CASE UNCHANGED vars
    BY <1>6, <1>s DEF vars, At
  <1>7. ASSUME NEW t \in Threads, NEW k \in Keys, AcquireWrite(t, k)
        PROVE  Access!BeginWrite(t, k) \/ UNCHANGED Access!avars
    BY <1>7, <1>3 DEF AcquireWrite
  <1>8. ASSUME NEW t \in Threads, WakeQueued(t)
        PROVE  Access!BeginWrite(t, key[t]) \/ UNCHANGED Access!avars
    <2>1. key' = [key EXCEPT ![t] = key[t]] /\ key[t] \in Keys
      BY <1>8 DEF WakeQueued
    <2>2. QED
      BY <1>8, <2>1, <1>3 DEF WakeQueued
  <1>9. QED
    <2>1. \A t \in Threads : key[t] \in Keys
      OBVIOUS
    <2>2. CASE \E t \in Threads, k \in Keys : TryRead(t, k)
      BY <2>2, <1>1 DEF Access!Next
    <2>3. CASE \E t \in Threads, k \in Keys : AcquireWrite(t, k)
      BY <2>3, <1>7 DEF Access!Next
    <2>4. CASE \E t \in Threads : ReleaseRead(t)
      BY <2>4, <2>1, <1>2 DEF Access!Next
    <2>5. CASE \E t \in Threads : WakeQueued(t)
      BY <2>5, <2>1, <1>8 DEF Access!Next
    <2>6. CASE \E t \in Threads : WakeDraining(t)
      BY <2>6, <2>1, <1>4 DEF Access!Next
    <2>7. CASE \E t \in Threads : ReleaseWrite(t)
      BY <2>7, <2>1, <1>5 DEF Access!Next
    <2>8. QED
      BY <2>2, <2>3, <2>4, <2>5, <2>6, <2>7, <1>6 DEF Next

(* The gate implements shared-read, exclusive-write access. *)
THEOREM Refinement == Spec => ImplementsAccess
  <1>1. QED
    BY InitRefines, StepRefines, Invariance, PTL DEF Spec, ImplementsAccess, Access!Spec
=============================================================================
