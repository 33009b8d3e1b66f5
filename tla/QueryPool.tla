----------------------------- MODULE QueryPool -----------------------------
(***************************************************************************)
(* What the queries of one product share: the facade that service/cache.py *)
(* keeps for it and the read-only SQLite connections that                  *)
(* engine/store/reader.py pools for it, with the idle timer that closes    *)
(* them and the index or update that replaces the file.                    *)
(*                                                                         *)
(* A version stands for the bytes of the product and for its mtime.  A     *)
(* connection is the version of the file it was opened on (an unlinked     *)
(* file lives on in it), a facade the version its caches were filled from. *)
(* The gate is taken at the grain SnapshotLocks is proved to provide.      *)
(***************************************************************************)
EXTENDS Integers, Sequences, FiniteSets

CONSTANTS Threads,      \* threads that run queries and builds
          PoolMax,      \* _pool_max()
          Removed,      \* the product may be deleted behind the server's back
          MaxLost,      \* bound: connects that fail without a cause modelled
          MaxVersions,  \* bound: versions written
          MaxCalls,     \* bound: calls made
          MaxTimers     \* bound: timers that found their time has come

ASSUME PoolAssumption == PoolMax \in Nat \ {0} /\ IsFiniteSet(Threads)
ASSUME FlagAssumption == Removed \in BOOLEAN
ASSUME BoundAssumption == /\ MaxLost \in Nat /\ MaxVersions \in Nat
                          /\ MaxCalls \in Nat /\ MaxTimers \in Nat

VARIABLES
  product,  \* the version of the .uo file, 0 while there is none
  newest,   \* versions written so far
  entry,    \* QueryCache._entries[key]
  idle,     \* reader._POOL[key], its last element is popped first
  live,     \* reader._POOL_LIVE[key]
  lost,     \* history: connects that failed and are still counted in live
  armed,    \* a timer is pending whose generation is the current one
  firing,   \* timers past their look at the generation
  pc,       \* pc[t]: where thread t is
  seen,     \* seen[t]: the mtime t read, then the version of its facade
  lease,    \* lease[t]: t's connection, 0 if none
  quiet,    \* quiet[t]: t was the facade's last user
  fresh,    \* fresh[t]: the generation t read is still the current one
  calls

file == <<product, newest>>
pool == <<idle, live, lost>>
timer == <<armed, firing, fresh>>
query == <<seen, lease, quiet>>
vars == <<file, entry, pool, timer, pc, query, calls>>

NoEntry == [ver |-> 0, inuse |-> 0]

Using == {"leasing", "connecting", "reading", "releasing"}
Querying == {"admitted", "marked", "checkin", "retiring", "arming", "leaving"} \cup Using
Building == {"inside", "building", "replacing", "stamping", "finishing", "unlocking"}
Locations == {"idle", "draining"} \cup Querying \cup Building

TypeOK ==
  /\ product \in Nat /\ newest \in Nat
  /\ entry \in [ver : Nat, inuse : Nat]
  /\ idle \in Seq(Nat) /\ live \in Nat /\ lost \in Nat
  /\ armed \in BOOLEAN /\ firing \in Nat
  /\ pc \in [Threads -> Locations]
  /\ seen \in [Threads -> Nat] /\ lease \in [Threads -> Nat]
  /\ quiet \in [Threads -> BOOLEAN] /\ fresh \in [Threads -> BOOLEAN]
  /\ calls \in Nat

Init ==
  /\ product = 1 /\ newest = 1
  /\ entry = NoEntry
  /\ idle = <<>> /\ live = 0 /\ lost = 0
  /\ armed = FALSE /\ firing = 0
  /\ pc = [t \in Threads |-> "idle"]
  /\ seen = [t \in Threads |-> 0] /\ lease = [t \in Threads |-> 0]
  /\ quiet = [t \in Threads |-> FALSE] /\ fresh = [t \in Threads |-> FALSE]
  /\ calls = 0

-----------------------------------------------------------------------------
Goto(t, loc) == pc' = [pc EXCEPT ![t] = loc]

(* A new generation: no timer pending now will close anything.             *)
CancelIdle == /\ armed' = FALSE
              /\ fresh' = [t \in Threads |-> FALSE]
              /\ UNCHANGED firing

\* Mutant: the count is not reset.
CloseUncounted == idle' = <<>> /\ lost' = 0 /\ UNCHANGED live

(* close_uo_connections: what is idle is closed, and the count of what is  *)
(* live is forgotten, of leased connections too.                           *)
CloseConnections == idle' = <<>> /\ live' = 0 /\ lost' = 0

\* Mutant: only the timer is cancelled.
ClosePoolLater == UNCHANGED pool /\ CancelIdle

ClosePool == CloseConnections /\ CancelIdle

(* QueryCache.drop                                                         *)
Drop == entry' = NoEntry /\ ClosePool

(* The gate, as CodemapService has it.                                     *)
IsWriting == \E t \in Threads : pc[t] \in Building \cup {"draining"}

Drained == \A t \in Threads : pc[t] \notin Querying

-----------------------------------------------------------------------------
(* A query.  try_read, and the look at the product after it.               *)
EnterQuery(t) ==
  /\ pc[t] = "idle" /\ calls < MaxCalls
  /\ ~IsWriting /\ product # 0
  /\ calls' = calls + 1
  /\ Goto(t, "admitted")
  /\ UNCHANGED <<file, entry, pool, timer, query>>

(* acquire: mark_uo_in_use, the mtime, and then the entry under the lock.  *)
Mark(t) ==
  /\ pc[t] = "admitted"
  /\ CancelIdle
  /\ seen' = [seen EXCEPT ![t] = product]
  /\ Goto(t, "marked")
  /\ UNCHANGED <<file, entry, pool, lease, quiet, calls>>

\* Mutant: the mtime of a facade is not looked at.
NeverStale(t) == FALSE

Stale(t) == entry # NoEntry /\ entry.ver # seen[t] /\ entry.inuse = 0

Reuse(t) ==
  /\ entry # NoEntry /\ ~Stale(t)
  /\ entry' = [entry EXCEPT !.inuse = @ + 1]
  /\ seen' = [seen EXCEPT ![t] = entry.ver]
  /\ Goto(t, "leasing")
  /\ UNCHANGED <<pool, timer>>

\* UoSqlQuery(path) raises when the file is gone.
Open(t) ==
  /\ entry = NoEntry \/ Stale(t)
  /\ IF Stale(t) THEN ClosePool ELSE UNCHANGED <<pool, timer>>
  /\ \/ /\ product # 0
        /\ entry' = [ver |-> seen[t], inuse |-> 1]
        /\ Goto(t, "leasing")
     \/ /\ product = 0
        /\ entry' = NoEntry
        /\ Goto(t, "leaving")
  /\ UNCHANGED seen

Acquire(t) ==
  /\ pc[t] = "marked"
  /\ Reuse(t) \/ Open(t)
  /\ UNCHANGED <<file, lease, quiet, calls>>

(* _pool_checkout: an idle connection, or the right to open one, or wait;  *)
(* the wait ends every second, so it is a step that is not enabled.        *)
Checkout(t) ==
  /\ pc[t] = "leasing"
  /\ \/ /\ idle # <<>>
        /\ lease' = [lease EXCEPT ![t] = idle[Len(idle)]]
        /\ idle' = SubSeq(idle, 1, Len(idle) - 1)
        /\ Goto(t, "reading")
        /\ UNCHANGED live
     \/ /\ idle = <<>> /\ live < PoolMax
        /\ live' = live + 1
        /\ Goto(t, "connecting")
        /\ UNCHANGED <<idle, lease>>
  /\ UNCHANGED <<file, entry, lost, timer, seen, quiet, calls>>

(* _connect_readonly, outside the lock.  A failure leaves its count.       *)
Connect(t) ==
  /\ pc[t] = "connecting"
  /\ \/ /\ product # 0
        /\ lease' = [lease EXCEPT ![t] = product]
        /\ Goto(t, "reading")
        /\ UNCHANGED lost
     \/ /\ product = 0 \/ lost < MaxLost
        /\ lost' = lost + 1
        /\ Goto(t, "releasing")
        /\ UNCHANGED lease
  /\ UNCHANGED <<file, entry, idle, live, timer, seen, quiet, calls>>

(* The rows; every use of the connection cancels the timer.                *)
Read(t) ==
  /\ pc[t] = "reading"
  /\ CancelIdle
  /\ Goto(t, "releasing")
  /\ UNCHANGED <<file, entry, pool, query, calls>>

Release(t) ==
  /\ pc[t] = "releasing"
  /\ entry' = [entry EXCEPT !.inuse = IF @ > 0 THEN @ - 1 ELSE 0]
  /\ quiet' = [quiet EXCEPT ![t] = entry # NoEntry /\ entry'.inuse = 0]
  /\ Goto(t, "checkin")
  /\ UNCHANGED <<file, pool, timer, seen, lease, calls>>

Checkin(t) ==
  /\ pc[t] = "checkin"
  /\ idle' = IF lease[t] # 0 /\ Len(idle) < PoolMax THEN Append(idle, lease[t]) ELSE idle
  /\ lease' = [lease EXCEPT ![t] = 0]
  /\ Goto(t, IF quiet[t] THEN "retiring" ELSE "leaving")
  /\ UNCHANGED <<file, entry, live, lost, timer, seen, quiet, calls>>

(* mark_uo_idle: a new generation, and a timer of it.                      *)
Retire(t) ==
  /\ pc[t] = "retiring"
  /\ armed' = FALSE /\ UNCHANGED firing
  /\ fresh' = [u \in Threads |-> u = t]
  /\ Goto(t, "arming")
  /\ UNCHANGED <<file, entry, pool, query, calls>>

Arm(t) ==
  /\ pc[t] = "arming"
  /\ armed' = (armed \/ fresh[t])
  /\ fresh' = [fresh EXCEPT ![t] = FALSE]
  /\ Goto(t, "leaving")
  /\ UNCHANGED <<file, entry, pool, firing, query, calls>>

Leave(t) ==
  /\ pc[t] \in {"leaving", "unlocking"}
  /\ Goto(t, "idle")
  /\ UNCHANGED <<file, entry, pool, timer, query, calls>>

-----------------------------------------------------------------------------
(* An index or an update, in the gate (control.py); its build is           *)
(* BuildPipeline's.  Only an update, which has a product, drops the facade.*)
Claim(t) ==
  /\ pc[t] = "idle" /\ calls < MaxCalls
  /\ ~IsWriting
  /\ calls' = calls + 1
  /\ Goto(t, "draining")
  /\ UNCHANGED <<file, entry, pool, timer, query>>

Drain(t) ==
  /\ pc[t] = "draining" /\ Drained
  /\ Goto(t, "inside")
  /\ UNCHANGED <<file, entry, pool, timer, query, calls>>

Begin(t) ==
  /\ pc[t] = "inside"
  /\ \/ product = 0 /\ Goto(t, "building") /\ UNCHANGED <<entry, pool, timer>>
     \/ product # 0 /\ Goto(t, "building") /\ Drop
     \/ Goto(t, "unlocking") /\ UNCHANGED <<entry, pool, timer>>
  /\ UNCHANGED <<file, query, calls>>

(* write_codemap and upsert_meta both close what is pooled first.          *)
Build(t) ==
  /\ pc[t] = "building"
  /\ \/ newest + 1 < MaxVersions /\ ClosePool /\ Goto(t, "replacing")
     \/ Goto(t, "unlocking") /\ UNCHANGED <<pool, timer>>
  /\ UNCHANGED <<file, entry, query, calls>>

Write == newest' = newest + 1 /\ product' = newest + 1

Replace(t) ==
  /\ pc[t] = "replacing"
  /\ Write
  /\ Goto(t, "stamping")
  /\ UNCHANGED <<entry, pool, timer, query, calls>>

Stamp(t) ==
  /\ pc[t] = "stamping"
  /\ \/ product # 0 /\ ClosePool /\ Write
     \/ UNCHANGED <<file, pool, timer>>
  /\ Goto(t, "finishing")
  /\ UNCHANGED <<entry, query, calls>>

Finish(t) ==
  /\ pc[t] = "finishing"
  /\ Drop \/ UNCHANGED <<entry, pool, timer>>
  /\ Goto(t, "unlocking")
  /\ UNCHANGED <<file, query, calls>>

-----------------------------------------------------------------------------
(* The timer looks at its generation under the lock and closes after it.   *)
Fire ==
  /\ armed /\ firing < MaxTimers
  /\ armed' = FALSE /\ firing' = firing + 1
  /\ UNCHANGED <<file, entry, pool, fresh, pc, query, calls>>

CloseIdle ==
  /\ firing > 0
  /\ firing' = firing - 1
  /\ CloseConnections
  /\ armed' = FALSE /\ fresh' = [t \in Threads |-> FALSE]
  /\ UNCHANGED <<file, entry, pc, query, calls>>

\* Mutant: the facade in use is evicted as well.
AnyVictim == entry # NoEntry

Victim == entry # NoEntry /\ entry.inuse = 0

(* A query of another product needs the slot (_evict_unlocked).            *)
Evict ==
  /\ Victim
  /\ Drop
  /\ UNCHANGED <<file, pc, query, calls>>

Remove ==
  /\ Removed /\ product # 0
  /\ product' = 0
  /\ UNCHANGED <<newest, entry, pool, timer, pc, query, calls>>

QueryStep(t) ==
  \/ Mark(t) \/ Acquire(t) \/ Checkout(t) \/ Connect(t) \/ Read(t)
  \/ Release(t) \/ Checkin(t) \/ Retire(t) \/ Arm(t)

BuildStep(t) ==
  Drain(t) \/ Begin(t) \/ Build(t) \/ Replace(t) \/ Stamp(t) \/ Finish(t)

Next == \/ \E t \in Threads : \/ EnterQuery(t) \/ Claim(t) \/ Leave(t)
                              \/ QueryStep(t) \/ BuildStep(t)
        \/ Fire \/ CloseIdle \/ Evict \/ Remove

Spec == Init /\ [][Next]_vars

(* Threads inside a call are scheduled.                                    *)
Fairness == \A t \in Threads : WF_vars(QueryStep(t) \/ BuildStep(t) \/ Leave(t))

FairSpec == Spec /\ Fairness

-----------------------------------------------------------------------------
(* A query reads one version of the product: that of its facade's caches   *)
(* is that of its connection, and it is the product's as long as the       *)
(* product is there (cache.py:31, "the next query cannot see snapshot N"). *)
OneSnapshot ==
  \A t \in Threads : pc[t] = "reading" =>
     lease[t] = seen[t] /\ product \in {0, lease[t]}

(* A facade's use count is exactly its users: none is evicted under a      *)
(* query, and none is kept for a query that has ended.                     *)
InUseCounted == entry.inuse = Cardinality({t \in Threads : pc[t] \in Using})

(* Who finds the pool exhausted waits for a query that holds a connection  *)
(* or is opening one, not for a count that nobody will take back.          *)
NoWaitForNobody ==
  (idle = <<>> /\ live >= PoolMax /\ lost < PoolMax) =>
     \E t \in Threads : lease[t] # 0 \/ pc[t] = "connecting"

(* Who waits: for a connection, or for the queries in the gate to leave.   *)
Waiting(t) == \/ pc[t] = "leasing" /\ idle = <<>> /\ live >= PoolMax
              \/ pc[t] = "draining" /\ ~Drained

(* The waits for the gate and for the pool close no circle: while anybody  *)
(* is in a call, somebody in one has nothing to wait for.                  *)
SomebodyMoves ==
  (lost < PoolMax /\ \E t \in Threads : pc[t] # "idle") =>
     \E t \in Threads : pc[t] # "idle" /\ ~Waiting(t)

Answered(t) == IF pc[t] \in {"releasing", "checkin"} THEN lease[t] ELSE 0

Atomic == INSTANCE AtomicProduct
            WITH Nothing <- [ver |-> 0],
                 store   <- [ver |-> newest],
                 last    <- newest,
                 readers <- {t \in Threads : pc[t] \in {"admitted", "marked", "leasing",
                                                       "connecting", "reading"}},
                 got     <- [t \in Threads |-> [ver |-> Answered(t)]]

(* Facade, pool and timer cannot be seen from outside: a query through     *)
(* them is answered from the product last published, or not at all, and    *)
(* products change only between queries (reader.py, cache.py).             *)
ImplementsAtomicProduct == Atomic!Spec

Product == {"product"}

Access == INSTANCE SnapshotAccess
            WITH Keys    <- Product,
                 holders <- [k \in Product |-> {t \in Threads : pc[t] \in Querying}],
                 owner   <- [k \in Product |-> {t \in Threads : pc[t] \in Building}]

(* Queries and builds of one product hold it as the gate allows: any number *)
(* of queries from before they look at the mtime until their connection is *)
(* given back and the timer armed, or one build (query.py:386, locks.py:20).*)
HeldAsGateAllows == Access!Spec

(* Queries and builds come to their end, with finitely many around, unless *)
(* failed connects have used up the pool's count.                          *)
CallReturns ==
  [](lost < PoolMax) => \A t \in Threads : pc[t] # "idle" ~> pc[t] = "idle"
=============================================================================
