--------------------------- MODULE SnapshotLocks ---------------------------
(***************************************************************************)
(* service/locks.py: the per-CodeMap gate between queries (readers, which  *)
(* fail fast) and index/update (writers, which wait).  A gate is a counter *)
(* of readers, a writer flag and one condition variable; every method runs *)
(* under the condition's lock, so a step is one critical section, from the *)
(* entry (or a wake-up) to the exit (or the next wait()).                  *)
(*                                                                         *)
(* A thread sleeping in wait() takes no step until a notify_all puts it    *)
(* back: `asleep' is the condition's wait set, and a release that forgot   *)
(* to notify would leave it there.                                         *)
(***************************************************************************)
EXTENDS Integers, FiniteSets

CONSTANTS Threads,   \* the threads of the server process
          Keys       \* codemap ids

ASSUME ThreadsFinite == IsFiniteSet(Threads)

VARIABLES readers,   \* readers[k]: _Gate.readers
          writer,    \* writer[k]: _Gate.writer
          asleep,    \* asleep[k]: the threads blocked in gate.cond.wait()
          pc,        \* pc[t]: where thread t is
          key        \* key[t]: the codemap id of t's current call

vars == <<readers, writer, asleep, pc, key>>

(* idle: in no call.  reading, writing: inside the `with' body.  queued:   *)
(* in the first loop of acquire_write.  draining: in the second one, with  *)
(* the writer flag set.                                                    *)
Locations == {"idle", "reading", "queued", "draining", "writing"}

TypeOK == /\ readers \in [Keys -> Nat]
          /\ writer \in [Keys -> BOOLEAN]
          /\ asleep \in [Keys -> SUBSET Threads]
          /\ pc \in [Threads -> Locations]
          /\ key \in [Threads -> Keys]

Init == /\ readers = [k \in Keys |-> 0]
        /\ writer  = [k \in Keys |-> FALSE]
        /\ asleep  = [k \in Keys |-> {}]
        /\ pc      = [t \in Threads |-> "idle"]
        /\ key     \in [Threads -> Keys]

Awake(t) == t \notin asleep[key[t]]

Goto(t, loc) == pc' = [pc EXCEPT ![t] = loc]

\* Mutant: notify() for notify_all().
NotifyOne(k) == \/ asleep[k] = {} /\ UNCHANGED asleep
                \/ \E t \in asleep[k] : asleep' = [asleep EXCEPT ![k] = @ \ {t}]

NotifyAll(k) == asleep' = [asleep EXCEPT ![k] = {}]

Sleep(t, k) == asleep' = [asleep EXCEPT ![k] = @ \cup {t}]

-----------------------------------------------------------------------------
(* try_read: a reader is admitted unless the writer flag is set.  The      *)
(* refused one returns False and changes nothing.                          *)
TryRead(t, k) ==
  /\ pc[t] = "idle"
  /\ ~writer[k]
  /\ readers' = [readers EXCEPT ![k] = @ + 1]
  /\ key' = [key EXCEPT ![t] = k]
  /\ Goto(t, "reading")
  /\ UNCHANGED <<writer, asleep>>

ReleaseRead(t) ==
  /\ pc[t] = "reading"
  /\ readers' = [readers EXCEPT ![key[t]] = IF @ > 0 THEN @ - 1 ELSE @]
  /\ NotifyAll(key[t])
  /\ Goto(t, "idle")
  /\ UNCHANGED <<writer, key>>

(* The body of acquire_write from the first loop on: sleep while another   *)
(* writer is in, else set the flag and go on to the second loop in the     *)
(* same critical section.                                                  *)
\* Mutant: the second loop is missing.
DrainNoWait(t, k) == Goto(t, "writing") /\ UNCHANGED asleep

Drain(t, k) ==
  IF readers[k] = 0
  THEN Goto(t, "writing") /\ UNCHANGED asleep
  ELSE Goto(t, "draining") /\ Sleep(t, k)

Claim(t, k) ==
  \/ /\ writer[k]
     /\ Goto(t, "queued")
     /\ Sleep(t, k)
     /\ UNCHANGED writer
  \/ /\ ~writer[k]
     /\ writer' = [writer EXCEPT ![k] = TRUE]
     /\ Drain(t, k)

AcquireWrite(t, k) ==
  /\ pc[t] = "idle"
  /\ key' = [key EXCEPT ![t] = k]
  /\ Claim(t, k)
  /\ UNCHANGED readers

WakeQueued(t) ==
  /\ pc[t] = "queued"
  /\ Awake(t)
  /\ Claim(t, key[t])
  /\ UNCHANGED <<readers, key>>

WakeDraining(t) ==
  /\ pc[t] = "draining"
  /\ Awake(t)
  /\ Drain(t, key[t])
  /\ UNCHANGED <<readers, writer, key>>

ReleaseWrite(t) ==
  /\ pc[t] = "writing"
  /\ writer' = [writer EXCEPT ![key[t]] = FALSE]
  /\ NotifyAll(key[t])
  /\ Goto(t, "idle")
  /\ UNCHANGED <<readers, key>>

Next == \E t \in Threads :
          \/ \E k \in Keys : TryRead(t, k) \/ AcquireWrite(t, k)
          \/ ReleaseRead(t)
          \/ WakeQueued(t)
          \/ WakeDraining(t)
          \/ ReleaseWrite(t)

Spec == Init /\ [][Next]_vars

(* Every `with' body ends and a runnable thread is scheduled; nothing says *)
(* that a thread ever makes a call, nor which of several woken writers is  *)
(* first to take the condition's lock.                                     *)
Fairness == \A t \in Threads : /\ WF_vars(ReleaseRead(t))
                               /\ WF_vars(ReleaseWrite(t))
                               /\ WF_vars(WakeQueued(t))
                               /\ WF_vars(WakeDraining(t))

FairSpec == Spec /\ Fairness

-----------------------------------------------------------------------------
At(loc, k) == {t \in Threads : pc[t] = loc /\ key[t] = k}

(* A writer inside its body is alone: no reader and no other writer is     *)
(* inside for the same CodeMap (locks.py:2, "queries never read a          *)
(* half-built .uo").                                                       *)
WriterAlone ==
  \A k \in Keys : \A t, u \in Threads :
     (t \in At("writing", k) /\ u # t) => u \notin At("writing", k) \cup At("reading", k)

(* The counter is exactly the readers inside, so neither a reader that is  *)
(* still inside is forgotten (the drain would end early) nor one that left *)
(* is remembered (the drain would never end).                              *)
ReadersCounted == \A k \in Keys : readers[k] = Cardinality(At("reading", k))

(* The flag has exactly one owner while it is set: the thread draining or  *)
(* writing.                                                                *)
FlagOwned ==
  \A k \in Keys :
     /\ writer[k] <=> At("draining", k) \cup At("writing", k) # {}
     /\ \A t, u \in At("draining", k) \cup At("writing", k) : t = u

(* Nobody sleeps on a condition that already holds: whoever sleeps waits   *)
(* for somebody who will notify.  It is what a missing notify_all breaks.  *)
NoLostWakeup ==
  \A k \in Keys : \A t \in asleep[k] :
     /\ key[t] = k
     /\ \/ pc[t] = "queued" /\ writer[k]
        \/ pc[t] = "draining" /\ readers[k] > 0

(* Once the flag is set no new reader enters before the writer is done     *)
(* (locks.py:20, "Writers drain in-flight readers and block new ones").    *)
NoReaderPassesWriter ==
  [][\A t \in Threads :
       (pc[t] # "reading" /\ pc'[t] = "reading") => ~writer[key'[t]]]_vars

(* While writers wait, for the flag or for the readers to leave, some      *)
(* writer gets in, again and again, whatever the queries do; which one is  *)
(* not promised, except that it is the one that drains, if one does.       *)
SomeWriterEnters ==
  \A k \in Keys : At("queued", k) \cup At("draining", k) # {} ~> At("writing", k) # {}

Access == INSTANCE SnapshotAccess
            WITH holders <- [k \in Keys |-> At("reading", k)],
                 owner   <- [k \in Keys |-> At("writing", k)]

(* The gate implements exclusive-write, shared-read access.                *)
ImplementsAccess == Access!Spec
=============================================================================
