-------------------------- MODULE QueryPool_proofs --------------------------
(***************************************************************************)
(* What TLAPS proves of QueryPool, for any number of threads, connections, *)
(* versions, calls, timers and failed connects.                            *)
(***************************************************************************)
EXTENDS QueryPool, FiniteSetTheorems, SequenceTheorems, TLAPS

Entries == [ver : Nat, inuse : Nat]

-----------------------------------------------------------------------------
(* Types.                                                                  *)
LEMMA ClosedType == ASSUME TypeOK, ClosePool
                    PROVE  /\ idle' = <<>> /\ live' = 0 /\ lost' = 0
                           /\ armed' = FALSE /\ firing' = firing
                           /\ fresh' \in [Threads -> BOOLEAN]
BY DEF ClosePool, CloseConnections, CancelIdle

LEMMA MaybeClosedType ==
  ASSUME TypeOK, ClosePool \/ UNCHANGED <<pool, timer>>
  PROVE  /\ idle' \in Seq(Nat) /\ live' \in Nat /\ lost' \in Nat
         /\ armed' \in BOOLEAN /\ firing' \in Nat /\ fresh' \in [Threads -> BOOLEAN]
<1>1. CASE ClosePool
  <2>1. idle' \in Seq(Nat)
    BY <1>1, ClosedType
  <2>2. live' \in Nat /\ lost' \in Nat
    BY <1>1, ClosedType
  <2>3. firing' = firing /\ firing \in Nat
    BY <1>1, ClosedType DEF TypeOK
  <2> QED BY <1>1, <2>1, <2>2, <2>3, ClosedType
<1>2. CASE UNCHANGED <<pool, timer>>
  BY <1>2 DEF TypeOK, pool, timer
<1> QED BY <1>1, <1>2

LEMMA QueryType == ASSUME TypeOK, NEW t \in Threads, EnterQuery(t) \/ QueryStep(t) \/ Leave(t)
                   PROVE  TypeOK'
<1> USE DEF Goto, Locations, Querying, Building, Using
<1>1. CASE EnterQuery(t)
  BY <1>1 DEF TypeOK, EnterQuery, file, pool, timer, query
<1>2. CASE Leave(t)
  BY <1>2 DEF TypeOK, Leave, file, pool, timer, query
<1>3. CASE Mark(t)
  BY <1>3 DEF TypeOK, Mark, CancelIdle, file, pool
<1>4. CASE Read(t)
  BY <1>4 DEF TypeOK, Read, CancelIdle, file, pool, query
<1>5. CASE Acquire(t)
  <2>1. CASE Reuse(t)
    <3>1. entry.ver \in Nat /\ entry.inuse + 1 \in Nat
      BY DEF TypeOK
    <3>2. entry' = [ver |-> entry.ver, inuse |-> entry.inuse + 1]
      BY <2>1 DEF TypeOK, Reuse
    <3>3. seen' \in [Threads -> Nat] /\ pc' \in [Threads -> Locations]
      BY <2>1, <3>1 DEF TypeOK, Reuse
    <3>4. UNCHANGED <<pool, timer>>
      BY <2>1 DEF Reuse
    <3> QED BY <1>5, <3>1, <3>2, <3>3, <3>4 DEF TypeOK, Acquire, file, pool, timer
  <2>4. CASE Open(t)
    <3>1. seen[t] \in Nat
      BY DEF TypeOK
    <3>2. entry' \in Entries
      BY <2>4, <3>1 DEF Open, Entries, NoEntry
    <3>3. UNCHANGED seen /\ pc' \in [Threads -> Locations]
      BY <2>4 DEF TypeOK, Open
    <3>4. ClosePool \/ UNCHANGED <<pool, timer>>
      BY <2>4 DEF Open
    <3> QED BY <1>5, <3>2, <3>3, <3>4, MaybeClosedType DEF TypeOK, Acquire, file, Entries
  <2> QED BY <1>5, <2>1, <2>4 DEF Acquire
<1>6. CASE Checkout(t)
  <2>1. CASE idle # <<>> /\ lease' = [lease EXCEPT ![t] = idle[Len(idle)]]
               /\ idle' = SubSeq(idle, 1, Len(idle) - 1)
    <3>1. Len(idle) \in 1..Len(idle) /\ idle[Len(idle)] \in Nat
      BY <2>1 DEF TypeOK
    <3>2. idle' \in Seq(Nat) /\ lease' \in [Threads -> Nat]
      BY <2>1, <3>1 DEF TypeOK
    <3> QED BY <1>6, <2>1, <3>2 DEF TypeOK, Checkout, file, timer
  <2>2. CASE live' = live + 1 /\ UNCHANGED <<idle, lease>>
    <3>1. live' \in Nat
      BY <2>2 DEF TypeOK
    <3> QED BY <1>6, <2>2, <3>1 DEF TypeOK, Checkout, file, timer
  <2> QED BY <1>6, <2>1, <2>2 DEF Checkout
<1>7. CASE Connect(t)
  <2>1. lost' \in Nat
    BY <1>7 DEF TypeOK, Connect
  <2>2. lease' \in [Threads -> Nat] /\ pc' \in [Threads -> Locations]
    BY <1>7 DEF TypeOK, Connect
  <2> QED BY <1>7, <2>1, <2>2 DEF TypeOK, Connect, file, timer
<1>8. CASE Release(t)
  <2>1. entry' \in Entries
    <3>1. entry.ver \in Nat /\ entry.inuse \in Nat
      BY DEF TypeOK
    <3>2. entry' = [ver |-> entry.ver, inuse |-> IF entry.inuse > 0 THEN entry.inuse - 1 ELSE 0]
      BY <1>8 DEF TypeOK, Release
    <3>3. (IF entry.inuse > 0 THEN entry.inuse - 1 ELSE 0) \in Nat
      BY <3>1
    <3> QED BY <3>1, <3>2, <3>3 DEF Entries
  <2>2. quiet' \in [Threads -> BOOLEAN]
    BY <1>8 DEF TypeOK, Release
  <2> QED BY <1>8, <2>1, <2>2 DEF TypeOK, Release, Entries, file, pool, timer
<1>9. CASE Checkin(t)
  BY <1>9 DEF TypeOK, Checkin, file, timer
<1>10. CASE Retire(t)
  BY <1>10 DEF TypeOK, Retire, file, pool, query
<1>11. CASE Arm(t)
  BY <1>11 DEF TypeOK, Arm, file, pool, query
<1> QED BY <1>1, <1>2, <1>5, <1>6, <1>7, <1>8, <1>9, <1>10, <1>3, <1>4, <1>11 DEF QueryStep

LEMMA BuildType == ASSUME TypeOK, NEW t \in Threads, Claim(t) \/ BuildStep(t)
                   PROVE  TypeOK'
<1> USE DEF Goto, Locations, Building
<1>1. calls' \in Nat /\ UNCHANGED query
  BY DEF TypeOK, BuildStep, Claim, Drain, Begin, Build, Replace, Stamp, Finish
<1>2. pc' \in [Threads -> Locations]
  BY DEF TypeOK, BuildStep, Claim, Drain, Begin, Build, Replace, Stamp, Finish
<1>3. product' \in Nat /\ newest' \in Nat
  BY DEF TypeOK, BuildStep, Claim, Drain, Begin, Build, Replace, Stamp, Finish, Write, file
<1>4. entry' \in Entries
  BY DEF TypeOK, BuildStep, Claim, Drain, Begin, Build, Replace, Stamp, Finish, Drop, NoEntry, Entries
<1>5. ClosePool \/ UNCHANGED <<pool, timer>>
  BY DEF BuildStep, Claim, Drain, Begin, Build, Replace, Stamp, Finish, Drop
<1> QED BY <1>1, <1>3, <1>4, <1>5, <1>2, MaybeClosedType DEF TypeOK, query, Entries

LEMMA WorldType == ASSUME TypeOK, Fire \/ CloseIdle \/ Evict \/ Remove
                   PROVE  TypeOK'
<1>1. CASE Fire
  <2>1. firing' \in Nat
    BY <1>1 DEF TypeOK, Fire
  <2> QED BY <1>1, <2>1 DEF TypeOK, Fire, file, pool, query
<1>2. CASE CloseIdle
  <2>1. idle' \in Seq(Nat)
    BY <1>2 DEF CloseIdle, CloseConnections
  <2>2. live' \in Nat /\ lost' \in Nat /\ firing' \in Nat
    BY <1>2 DEF TypeOK, CloseIdle, CloseConnections
  <2>3. armed' \in BOOLEAN /\ fresh' \in [Threads -> BOOLEAN]
    BY <1>2 DEF CloseIdle
  <2> QED BY <1>2, <2>1, <2>2, <2>3 DEF TypeOK, CloseIdle, file, query
<1>3. CASE Evict
  <2>1. entry' \in Entries
    BY <1>3 DEF Evict, Drop, NoEntry, Entries
  <2> QED BY <1>3, <2>1, MaybeClosedType DEF TypeOK, Evict, Drop, Entries, file, query
<1>4. CASE Remove
  BY <1>4 DEF TypeOK, Remove, pool, timer, query
<1> QED BY <1>1, <1>2, <1>3, <1>4

(* The pool, the cache entry and the threads keep their types (cache.py,   *)
(* reader.py).                                                             *)
THEOREM TypeCorrect == Spec => []TypeOK
<1>1. Init => TypeOK
  <2> SUFFICES ASSUME Init PROVE TypeOK
    OBVIOUS
  <2>1. idle \in Seq(Nat)
    BY DEF Init
  <2>2. entry \in [ver : Nat, inuse : Nat]
    BY DEF Init, NoEntry
  <2>3. armed \in BOOLEAN /\ quiet \in [Threads -> BOOLEAN] /\ fresh \in [Threads -> BOOLEAN]
    BY DEF Init
  <2>4. pc \in [Threads -> Locations]
    BY DEF Init, Locations
  <2> QED BY <2>1, <2>2, <2>3, <2>4 DEF Init, TypeOK
<1>2. TypeOK /\ [Next]_vars => TypeOK'
  <2> SUFFICES ASSUME TypeOK, [Next]_vars PROVE TypeOK'
    OBVIOUS
  <2>1. CASE UNCHANGED vars
    BY <2>1 DEF TypeOK, vars, file, pool, timer, query
  <2>2. CASE Next
    BY <2>2, QueryType, BuildType, WorldType DEF Next
  <2> QED BY <2>1, <2>2
<1> QED BY <1>1, <1>2, PTL DEF Spec

-----------------------------------------------------------------------------
(***************************************************************************)
(* The gate: one builder at most asks for it or is in it, and none is in   *)
(* it together with a query.                                               *)
(***************************************************************************)
Writing == Building \cup {"draining"}

GateInv == \A t, u \in Threads : /\ pc[t] \in Writing /\ pc[u] \in Writing => t = u
                                 /\ pc[t] \in Building => pc[u] \notin Querying

LEMMA Places == /\ Querying \cap Writing = {} /\ "idle" \notin Querying \cup Writing
                /\ Using \subseteq Querying /\ "draining" \notin Building
                /\ Building \subseteq Writing
BY DEF Querying, Building, Using, Writing

(* A thread that moves keeps the gate, if it comes in by the front door.   *)
LEMMA GateStep ==
  ASSUME pc \in [Threads -> Locations], GateInv, NEW t \in Threads, NEW l, Goto(t, l),
         \/ l = "idle"
         \/ l \in Querying /\ (pc[t] \in Querying \/ ~IsWriting)
         \/ l = "draining" /\ ~IsWriting
         \/ l \in Building /\ (pc[t] \in Building \/ (pc[t] = "draining" /\ Drained))
  PROVE  GateInv'
<1>1. pc'[t] = l /\ \A u \in Threads \ {t} : pc'[u] = pc[u]
  BY DEF Goto
<1>2. CASE l = "idle"
  BY <1>1, <1>2, Places DEF GateInv
<1>3. CASE l \in Querying /\ (pc[t] \in Querying \/ ~IsWriting)
  <2>1. \A u \in Threads \ {t} : pc[u] \notin Building
    BY <1>3, Places DEF GateInv, IsWriting
  <2> QED BY <1>1, <1>3, <2>1, Places DEF GateInv
<1>4. CASE l = "draining" /\ ~IsWriting
  <2>1. \A u \in Threads : pc[u] \notin Writing
    BY <1>4 DEF IsWriting, Writing
  <2> QED BY <1>1, <1>4, <2>1, Places DEF GateInv
<1>5. CASE l \in Building /\ pc[t] \in Building
  BY <1>1, <1>5, Places DEF GateInv
<1>6. CASE l \in Building /\ pc[t] = "draining" /\ Drained
  BY <1>1, <1>6, Places DEF GateInv, Drained, Writing
<1> QED BY <1>2, <1>3, <1>4, <1>5, <1>6

LEMMA GateKept == ASSUME TypeOK, GateInv, [Next]_vars PROVE GateInv'
<1> USE DEF TypeOK
<1>1. ASSUME NEW t \in Threads, EnterQuery(t) \/ QueryStep(t) PROVE GateInv'
  <2>1. PICK l \in Querying : Goto(t, l) /\ (pc[t] \in Querying \/ ~IsWriting)
    BY <1>1 DEF QueryStep, EnterQuery, Mark, Acquire, Reuse, Open, Checkout, Connect, Read,
                Release, Checkin, Retire, Arm, Querying, Using
  <2> QED BY <2>1, GateStep
<1>2. ASSUME NEW t \in Threads, Claim(t) \/ Leave(t) PROVE GateInv'
  <2>1. PICK l \in {"idle", "draining"} : Goto(t, l) /\ (l = "draining" => ~IsWriting)
    BY <1>2 DEF Claim, Leave
  <2> QED BY <2>1, GateStep
<1>3. ASSUME NEW t \in Threads, BuildStep(t) PROVE GateInv'
  <2>1. PICK l \in Building : Goto(t, l)
                              /\ (pc[t] \in Building \/ (pc[t] = "draining" /\ Drained))
    BY <1>3 DEF BuildStep, Drain, Begin, Build, Replace, Stamp, Finish, Building
  <2> QED BY <2>1, GateStep
<1>4. CASE Fire \/ CloseIdle \/ Evict \/ Remove \/ UNCHANGED vars
  <2>1. UNCHANGED pc
    BY <1>4 DEF Fire, CloseIdle, Evict, Remove, vars
  <2> QED BY <2>1 DEF GateInv
<1> QED BY <1>1, <1>2, <1>3, <1>4 DEF Next

-----------------------------------------------------------------------------
(***************************************************************************)
(* The facade's use count.                                                 *)
(***************************************************************************)
Users == {t \in Threads : pc[t] \in Using}

LEMMA UsersFinite == IsFiniteSet(Users) /\ Cardinality(Users) \in Nat
<1>1. Users \in SUBSET Threads
  BY DEF Users
<1>2. IsFiniteSet(Users)
  BY <1>1, PoolAssumption, FS_Subset
<1> QED BY <1>2, FS_CardinalityType

LEMMA NobodyUses == Users = {} <=> Cardinality(Users) = 0
BY UsersFinite, FS_EmptySet

(* How a move of one thread changes the users.                             *)
LEMMA UsersStep ==
  ASSUME pc \in [Threads -> Locations], NEW t \in Threads, NEW l, Goto(t, l)
  PROVE  /\ (l \in Using <=> pc[t] \in Using) => Users' = Users
         /\ l \in Using /\ pc[t] \notin Using => Cardinality(Users') = Cardinality(Users) + 1
         /\ l \notin Using /\ pc[t] \in Using => Cardinality(Users') = Cardinality(Users) - 1
<1>1. pc'[t] = l /\ \A u \in Threads \ {t} : pc'[u] = pc[u]
  BY DEF Goto
<1>2. CASE l \in Using <=> pc[t] \in Using
  BY <1>1, <1>2 DEF Users
<1>3. CASE l \in Using /\ pc[t] \notin Using
  <2>1. Users' = Users \cup {t} /\ t \notin Users
    BY <1>1, <1>3 DEF Users
  <2>2. Cardinality(Users \cup {t}) = Cardinality(Users) + 1
    BY <2>1, UsersFinite, FS_AddElement
  <2> QED BY <1>3, <2>1, <2>2
<1>4. CASE l \notin Using /\ pc[t] \in Using
  <2>1. Users' = Users \ {t} /\ t \in Users
    BY <1>1, <1>4 DEF Users
  <2>2. Cardinality(Users \ {t}) = Cardinality(Users) - 1
    BY <2>1, UsersFinite, FS_RemoveElement
  <2> QED BY <1>4, <2>1, <2>2
<1> QED BY <1>2, <1>3, <1>4

UseInv == entry.inuse = Cardinality(Users)

\* While a builder is in the gate nobody uses the facade.
LEMMA UnusedInGate ==
  ASSUME TypeOK, GateInv, UseInv, NEW t \in Threads, pc[t] \in Building
  PROVE  Users = {} /\ entry.inuse = 0
<1>1. Users = {}
  BY Places DEF GateInv, Users
<1> QED BY <1>1, NobodyUses DEF UseInv

LEMMA UseKept == ASSUME TypeOK, GateInv, UseInv, [Next]_vars PROVE UseInv'
<1> USE DEF TypeOK
<1>1. ASSUME NEW t \in Threads,
             \/ EnterQuery(t) \/ Mark(t) \/ Checkout(t) \/ Connect(t) \/ Read(t) \/ Checkin(t)
             \/ Retire(t) \/ Arm(t) \/ Leave(t) \/ Claim(t) \/ Drain(t) \/ Build(t)
             \/ Replace(t) \/ Stamp(t)
      PROVE  UseInv'
  <2>1. PICK l \in Locations : Goto(t, l) /\ (l \in Using <=> pc[t] \in Using)
    BY <1>1 DEF EnterQuery, Mark, Checkout, Connect, Read, Checkin, Retire, Arm, Leave, Claim,
                Drain, Build, Replace, Stamp, Locations, Querying, Building, Using
  <2>2. UNCHANGED entry
    BY <1>1 DEF EnterQuery, Mark, Checkout, Connect, Read, Checkin, Retire, Arm, Leave, Claim,
                Drain, Build, Replace, Stamp
  <2> QED BY <2>1, <2>2, UsersStep DEF UseInv
<1>2. ASSUME NEW t \in Threads, Reuse(t), pc[t] = "marked" PROVE UseInv'
  <2>1. Goto(t, "leasing") /\ "leasing" \in Using /\ pc[t] \notin Using
    BY <1>2 DEF Reuse, Using
  <2>2. entry'.inuse = entry.inuse + 1
    BY <1>2 DEF Reuse
  <2> QED BY <2>1, <2>2, UsersStep DEF UseInv
<1>3. ASSUME NEW t \in Threads, Open(t), pc[t] = "marked" PROVE UseInv'
  <2>1. entry.inuse = 0
    BY <1>3 DEF Open, Stale, NoEntry
  <2>2. CASE Goto(t, "leasing") /\ entry'.inuse = 1
    <3>1. "leasing" \in Using /\ pc[t] \notin Using
      BY <1>3 DEF Using
    <3> QED BY <2>1, <2>2, <3>1, UsersStep DEF UseInv
  <2>3. CASE Goto(t, "leaving") /\ entry' = NoEntry
    <3>1. "leaving" \notin Using /\ pc[t] \notin Using /\ entry'.inuse = 0
      BY <1>3, <2>3 DEF Using, NoEntry
    <3> QED BY <2>1, <2>3, <3>1, UsersStep DEF UseInv
  <2> QED BY <1>3, <2>2, <2>3 DEF Open
<1>4. ASSUME NEW t \in Threads, Release(t) PROVE UseInv'
  <2>1. Goto(t, "checkin") /\ "checkin" \notin Using /\ pc[t] \in Using /\ t \in Users
    BY <1>4 DEF Release, Using, Users
  <2>2. entry.inuse # 0
    BY <2>1, NobodyUses DEF UseInv
  <2>3. entry'.inuse = entry.inuse - 1
    BY <1>4, <2>2 DEF Release
  <2> QED BY <2>1, <2>3, UsersStep DEF UseInv
<1>5. ASSUME NEW t \in Threads, Begin(t) \/ Finish(t) PROVE UseInv'
  <2>1. pc[t] \in Building
    BY <1>5 DEF Begin, Finish, Building
  <2>2. PICK l \in Building : Goto(t, l) /\ l \notin Using
    BY <1>5 DEF Begin, Finish, Building, Using
  <2>3. entry.inuse = 0 /\ pc[t] \notin Using
    BY <2>1, UnusedInGate, Places
  <2>4. entry' = entry \/ entry'.inuse = 0
    BY <1>5 DEF Begin, Finish, Drop, NoEntry
  <2> QED BY <2>2, <2>3, <2>4, UsersStep DEF UseInv
<1>6. CASE Evict
  <2>1. UNCHANGED pc /\ entry.inuse = 0 /\ entry'.inuse = 0
    BY <1>6 DEF Evict, Victim, Drop, NoEntry
  <2> QED BY <2>1 DEF UseInv, Users
<1>7. CASE Fire \/ CloseIdle \/ Remove \/ UNCHANGED vars
  <2>1. UNCHANGED <<pc, entry>>
    BY <1>7 DEF Fire, CloseIdle, Remove, vars
  <2> QED BY <2>1 DEF UseInv, Users
<1> QED BY <1>1, <1>2, <1>3, <1>4, <1>5, <1>6, <1>7 DEF Next, QueryStep, BuildStep, Acquire

-----------------------------------------------------------------------------
(***************************************************************************)
(* Versions.  What is pooled, leased and cached is of the newest version   *)
(* whenever somebody may use it: a version is written only in the gate,    *)
(* and between closing the pool and writing nobody can fill it again.      *)
(***************************************************************************)
FileInv == /\ newest # 0 /\ product \in {0, newest}
           /\ \A i \in 1..Len(idle) : idle[i] = newest
           /\ \A t \in Threads : pc[t] = "replacing" => idle = <<>>

Leased == {"reading", "releasing", "checkin"}

LeaseInv == \A t \in Threads : /\ lease[t] \in {0, newest}
                               /\ lease[t] # 0 => pc[t] \in Leased
                               /\ pc[t] = "reading" => lease[t] # 0

SeenInv == /\ \A t \in Threads : /\ pc[t] = "marked" => seen[t] \in {product, newest}
                                 /\ pc[t] \in Using => seen[t] = newest
           /\ entry.inuse # 0 => entry.ver = newest

Writes(t) == Replace(t) \/ Stamp(t)

(* What is idle goes away or stays, but in these actions.                  *)
LEMMA IdleKept ==
  ASSUME FileInv, newest' = newest, product' \in {product, 0}, idle' \in {idle, <<>>},
         \A t \in Threads : pc'[t] = "replacing" => pc[t] = "replacing" \/ idle' = <<>>
  PROVE  FileInv'
BY DEF FileInv

LEMMA FileKept == ASSUME TypeOK, GateInv, LeaseInv, FileInv, [Next]_vars PROVE FileInv'
<1> USE DEF TypeOK
<1>1. ASSUME NEW t \in Threads,
             \/ EnterQuery(t) \/ Mark(t) \/ Acquire(t) \/ Connect(t) \/ Read(t) \/ Release(t)
             \/ Retire(t) \/ Arm(t) \/ Leave(t) \/ Claim(t) \/ Drain(t) \/ Begin(t)
             \/ Build(t) \/ Finish(t)
      PROVE  FileInv'
  <2>1. UNCHANGED file
    BY <1>1 DEF EnterQuery, Mark, Acquire, Connect, Read, Release, Retire, Arm, Leave, Claim,
                Drain, Begin, Build, Finish
  <2>2. idle' \in {idle, <<>>}
    BY <1>1 DEF EnterQuery, Mark, Acquire, Reuse, Open, Connect, Read, Release, Retire, Arm, Leave,
                Claim, Drain, Begin, Build, Finish, Drop, ClosePool, CloseConnections, pool
  <2>3. \A u \in Threads : pc'[u] = "replacing" => pc[u] = "replacing" \/ idle' = <<>>
    BY <1>1 DEF EnterQuery, Mark, Acquire, Reuse, Open, Connect, Read, Release, Retire, Arm, Leave,
                Claim, Drain, Begin, Build, Finish, ClosePool, CloseConnections, Goto
  <2> QED BY <2>1, <2>2, <2>3, IdleKept DEF file
<1>2. ASSUME NEW t \in Threads, Checkout(t) \/ Checkin(t) PROVE FileInv'
  <2>1. UNCHANGED file /\ pc[t] \in Querying
    BY <1>2 DEF Checkout, Checkin, Querying, Using
  <2>2. \A u \in Threads : pc'[u] # "replacing"
    <3>1. \A u \in Threads : pc[u] # "replacing"
      BY <2>1, Places DEF GateInv, Building
    <3> QED BY <1>2, <3>1 DEF Checkout, Checkin, Goto
  <2>3. \A i \in 1..Len(idle') : idle'[i] = newest
    <3>1. CASE UNCHANGED idle
      BY <3>1 DEF FileInv
    <3>2. CASE idle # <<>> /\ idle' = SubSeq(idle, 1, Len(idle) - 1)
      BY <3>2 DEF FileInv
    <3>3. CASE idle' = Append(idle, lease[t]) /\ lease[t] # 0
      <4>1. lease[t] = newest
        BY <3>3 DEF LeaseInv
      <4> QED BY <3>3, <4>1 DEF FileInv
    <3> QED BY <1>2, <3>1, <3>2, <3>3 DEF Checkout, Checkin
  <2> QED BY <2>1, <2>2, <2>3 DEF FileInv, file
<1>3. ASSUME NEW t \in Threads, Writes(t) PROVE FileInv'
  <2>1. pc[t] \in Building /\ Goto(t, IF pc[t] = "replacing" THEN "stamping" ELSE "finishing")
    BY <1>3 DEF Writes, Replace, Stamp, Building
  <2>2. \A u \in Threads : pc'[u] # "replacing"
    BY <2>1, Places DEF GateInv, Goto, Building
  <2>3. CASE UNCHANGED <<file, idle>>
    BY <2>2, <2>3 DEF FileInv, file
  <2>4. CASE Write /\ idle' = <<>>
    BY <2>2, <2>4 DEF FileInv, Write
  <2> QED BY <1>3, <2>3, <2>4 DEF Writes, Replace, Stamp, FileInv, pool, ClosePool, CloseConnections
<1>4. CASE Fire \/ CloseIdle \/ Evict \/ Remove \/ UNCHANGED vars
  <2>1. UNCHANGED <<pc, newest>> /\ product' \in {product, 0} /\ idle' \in {idle, <<>>}
    BY <1>4 DEF Fire, CloseIdle, Evict, Remove, Drop, ClosePool, CloseConnections, vars, file, pool
  <2> QED BY <2>1, IdleKept
<1> QED BY <1>1, <1>2, <1>3, <1>4 DEF Next, QueryStep, BuildStep, Writes

\* While a builder is in the gate nobody holds a connection or waits for one.
LEMMA NobodyInGate ==
  ASSUME TypeOK, GateInv, LeaseInv, NEW t \in Threads, pc[t] \in Building
  PROVE  \A u \in Threads : lease[u] = 0 /\ pc[u] \notin Using /\ pc[u] # "marked"
BY Places DEF GateInv, LeaseInv, Leased, Querying, Using

LEMMA LeaseKept == ASSUME TypeOK, GateInv, LeaseInv, FileInv, [Next]_vars PROVE LeaseInv'
<1> USE DEF TypeOK
<1>1. ASSUME NEW t \in Threads,
             \/ EnterQuery(t) \/ Mark(t) \/ Acquire(t) \/ Read(t) \/ Release(t)
             \/ Retire(t) \/ Arm(t) \/ Leave(t) \/ Claim(t) \/ Drain(t) \/ Begin(t)
             \/ Build(t) \/ Finish(t)
      PROVE  LeaseInv'
  <2>1. UNCHANGED <<lease, newest>>
    BY <1>1 DEF EnterQuery, Mark, Acquire, Read, Release, Retire, Arm, Leave, Claim,
                Drain, Begin, Build, Finish, query, file
  <2>2. PICK l \in Locations \ {"reading"} : Goto(t, l) /\ (pc[t] \in Leased => l \in Leased)
    BY <1>1 DEF EnterQuery, Mark, Acquire, Reuse, Open, Read, Release, Retire, Arm, Leave, Claim,
                Drain, Begin, Build, Finish, Leased, Locations, Querying, Building, Using
  <2> QED BY <2>1, <2>2 DEF LeaseInv, Goto
<1>2. ASSUME NEW t \in Threads, Checkout(t) PROVE LeaseInv'
  <2>1. CASE idle # <<>> /\ lease' = [lease EXCEPT ![t] = idle[Len(idle)]] /\ Goto(t, "reading")
    <3>1. idle[Len(idle)] = newest /\ newest # 0
      BY <2>1 DEF FileInv
    <3>2. lease'[t] = newest /\ \A u \in Threads \ {t} : lease'[u] = lease[u]
      BY <2>1, <3>1
    <3>3. pc'[t] = "reading" /\ \A u \in Threads \ {t} : pc'[u] = pc[u]
      BY <2>1 DEF Goto
    <3>4. newest' = newest
      BY <1>2 DEF Checkout, file
    <3> QED BY <3>1, <3>2, <3>3, <3>4 DEF LeaseInv, Leased
  <2>2. CASE UNCHANGED lease /\ Goto(t, "connecting")
    BY <1>2, <2>2 DEF Checkout, LeaseInv, Leased, Goto, file
  <2> QED BY <1>2, <2>1, <2>2 DEF Checkout
<1>3. ASSUME NEW t \in Threads, Connect(t) PROVE LeaseInv'
  <2>1. newest' = newest
    BY <1>3 DEF Connect, file
  <2>2. CASE product # 0 /\ lease' = [lease EXCEPT ![t] = product] /\ Goto(t, "reading")
    BY <2>1, <2>2 DEF LeaseInv, FileInv, Leased, Goto
  <2>3. CASE UNCHANGED lease /\ Goto(t, "releasing")
    BY <2>1, <2>3 DEF LeaseInv, Leased, Goto
  <2> QED BY <1>3, <2>2, <2>3 DEF Connect
<1>4. ASSUME NEW t \in Threads, Checkin(t) PROVE LeaseInv'
  <2>1. newest' = newest /\ lease' = [lease EXCEPT ![t] = 0]
    BY <1>4 DEF Checkin, file
  <2>2. pc'[t] # "reading" /\ \A u \in Threads \ {t} : pc'[u] = pc[u]
    BY <1>4 DEF Checkin, Goto
  <2> QED BY <2>1, <2>2 DEF LeaseInv
<1>5. ASSUME NEW t \in Threads, Writes(t) PROVE LeaseInv'
  <2>1. pc[t] \in Building /\ UNCHANGED lease
    BY <1>5 DEF Writes, Replace, Stamp, Building, query
  <2>2. \A u \in Threads : lease'[u] = 0 /\ pc[u] # "reading"
    BY <2>1, NobodyInGate DEF Using
  <2>3. \A u \in Threads : pc'[u] # "reading"
    BY <1>5, <2>2 DEF Writes, Replace, Stamp, Goto
  <2> QED BY <2>2, <2>3 DEF LeaseInv
<1>6. CASE Fire \/ CloseIdle \/ Evict \/ Remove \/ UNCHANGED vars
  <2>1. UNCHANGED <<pc, newest, lease>>
    BY <1>6 DEF Fire, CloseIdle, Evict, Remove, vars, file, query
  <2> QED BY <2>1 DEF LeaseInv
<1> QED BY <1>1, <1>2, <1>3, <1>4, <1>5, <1>6 DEF Next, QueryStep, BuildStep, Writes

LEMMA SeenKept ==
  ASSUME TypeOK, GateInv, UseInv, LeaseInv, FileInv, SeenInv, [Next]_vars
  PROVE  SeenInv'
<1> USE DEF TypeOK
<1>1. ASSUME NEW t \in Threads,
             \/ EnterQuery(t) \/ Checkout(t) \/ Connect(t) \/ Read(t) \/ Checkin(t) \/ Retire(t)
             \/ Arm(t) \/ Leave(t) \/ Claim(t) \/ Drain(t) \/ Build(t)
      PROVE  SeenInv'
  <2>1. UNCHANGED <<file, entry, seen>>
    BY <1>1 DEF EnterQuery, Checkout, Connect, Read, Checkin, Retire, Arm, Leave, Claim, Drain,
                Build, query
  <2>2. PICK l \in Locations \ {"marked"} : Goto(t, l) /\ (l \in Using => pc[t] \in Using)
    BY <1>1 DEF EnterQuery, Checkout, Connect, Read, Checkin, Retire, Arm, Leave, Claim, Drain,
                Build, Locations, Querying, Building, Using
  <2> QED BY <2>1, <2>2 DEF SeenInv, Goto, file
<1>2. ASSUME NEW t \in Threads, Mark(t) PROVE SeenInv'
  <2>1. UNCHANGED <<file, entry>> /\ seen' = [seen EXCEPT ![t] = product] /\ Goto(t, "marked")
    BY <1>2 DEF Mark
  <2>2. "marked" \notin Using
    BY DEF Using
  <2> QED BY <2>1, <2>2 DEF SeenInv, Goto, file
<1>3. ASSUME NEW t \in Threads, Reuse(t), pc[t] = "marked", UNCHANGED file PROVE SeenInv'
  <2>1. entry.ver = newest
    <3>1. CASE entry.inuse # 0
      BY <3>1 DEF SeenInv
    <3>2. CASE entry.inuse = 0
      <4>1. entry.ver = seen[t] /\ seen[t] \in {product, newest}
        BY <1>3, <3>2 DEF Reuse, Stale, SeenInv
      <4>2. entry.ver # 0
        BY <1>3, <3>2 DEF Reuse, NoEntry
      <4> QED BY <4>1, <4>2 DEF FileInv
    <3> QED BY <3>1, <3>2
  <2>2. entry'.ver = newest /\ seen'[t] = newest /\ \A u \in Threads \ {t} : seen'[u] = seen[u]
    BY <1>3, <2>1 DEF Reuse
  <2>3. pc'[t] = "leasing" /\ \A u \in Threads \ {t} : pc'[u] = pc[u]
    BY <1>3 DEF Reuse, Goto
  <2> QED BY <1>3, <2>2, <2>3 DEF SeenInv, file
<1>4. ASSUME NEW t \in Threads, Open(t), pc[t] = "marked", UNCHANGED file PROVE SeenInv'
  <2>1. UNCHANGED seen
    BY <1>4 DEF Open
  <2>2. CASE product # 0 /\ entry' = [ver |-> seen[t], inuse |-> 1] /\ Goto(t, "leasing")
    <3>1. seen[t] = newest
      BY <1>4, <2>2 DEF SeenInv, FileInv
    <3> QED BY <1>4, <2>1, <2>2, <3>1 DEF SeenInv, Goto, file
  <2>3. CASE entry' = NoEntry /\ Goto(t, "leaving")
    <3>1. entry'.inuse = 0 /\ "leaving" \notin Using
      BY <2>3 DEF NoEntry, Using
    <3> QED BY <1>4, <2>1, <2>3, <3>1 DEF SeenInv, Goto, file
  <2> QED BY <1>4, <2>2, <2>3 DEF Open
<1>5. ASSUME NEW t \in Threads, Release(t) PROVE SeenInv'
  <2>1. UNCHANGED <<file, seen>> /\ Goto(t, "checkin") /\ "checkin" \notin Using
    BY <1>5 DEF Release, Using
  <2>2. entry'.ver = entry.ver /\ (entry'.inuse # 0 => entry.inuse # 0)
    BY <1>5 DEF Release
  <2> QED BY <2>1, <2>2 DEF SeenInv, Goto, file
<1>6. ASSUME NEW t \in Threads, Begin(t) \/ Finish(t) \/ Writes(t) PROVE SeenInv'
  <2>1. pc[t] \in Building
    BY <1>6 DEF Begin, Finish, Writes, Replace, Stamp, Building
  <2>2. \A u \in Threads : pc[u] \notin Using /\ pc[u] # "marked"
    BY <2>1, NobodyInGate
  <2>3. PICK l \in Building : Goto(t, l)
    BY <1>6 DEF Begin, Finish, Writes, Replace, Stamp, Building
  <2>4. \A u \in Threads : pc'[u] \notin Using /\ pc'[u] # "marked"
    BY <2>2, <2>3, Places DEF Goto, Building, Using
  <2>5. entry.inuse = 0
    BY <2>1, UnusedInGate
  <2>6. entry'.inuse = 0
    BY <1>6, <2>5 DEF Begin, Finish, Drop, NoEntry, Writes, Replace, Stamp
  <2> QED BY <2>4, <2>6 DEF SeenInv
<1>7. CASE Fire \/ CloseIdle \/ Evict \/ Remove \/ UNCHANGED vars
  <2>1. UNCHANGED <<pc, newest, seen>> /\ product' \in {product, 0}
    BY <1>7 DEF Fire, CloseIdle, Evict, Remove, vars, file, query
  <2>2. entry' = entry \/ entry'.inuse = 0
    BY <1>7 DEF Fire, CloseIdle, Evict, Drop, NoEntry, Remove, vars
  <2> QED BY <2>1, <2>2 DEF SeenInv, FileInv
<1> QED BY <1>1, <1>2, <1>3, <1>4, <1>5, <1>6, <1>7 DEF Next, QueryStep, BuildStep, Acquire, Writes

Inv == GateInv /\ UseInv /\ FileInv /\ LeaseInv /\ SeenInv

LEMMA Invariant == Spec => []Inv
<1>1. Init => Inv
  <2> SUFFICES ASSUME Init PROVE Inv
    OBVIOUS
  <2>1. Users = {} /\ \A t \in Threads : pc[t] \notin Using
    BY DEF Init, Users, Using
  <2>2. UseInv
    BY <2>1, NobodyUses DEF Init, UseInv, NoEntry
  <2>3. GateInv
    BY Places DEF Init, GateInv
  <2>4. FileInv
    BY DEF Init, FileInv
  <2>5. LeaseInv /\ SeenInv
    BY <2>1 DEF Init, LeaseInv, SeenInv, NoEntry
  <2> QED BY <2>2, <2>3, <2>4, <2>5 DEF Inv
<1>2. TypeOK /\ Inv /\ [Next]_vars => Inv'
  BY GateKept, UseKept, FileKept, LeaseKept, SeenKept DEF Inv
<1> QED BY <1>1, <1>2, TypeCorrect, PTL DEF Spec

(* A query reads one version of the product, that of its facade's caches   *)
(* and of its connection, and it is the product's as long as there is one, *)
(* through evictions, timers, deletions and rebuilds (cache.py, reader.py).*)
THEOREM SnapshotOne == Spec => []OneSnapshot
<1>1. Inv => OneSnapshot
  BY DEF Inv, LeaseInv, SeenInv, FileInv, OneSnapshot, Using
<1> QED BY <1>1, Invariant, PTL

(* A facade's use count is exactly the queries that use it, whoever fails, *)
(* evicts, deletes or rebuilds (cache.py acquire, release, drop, evict).   *)
THEOREM UseCountExact == Spec => []InUseCounted
<1>1. Inv => InUseCounted
  BY DEF Inv, UseInv, Users, InUseCounted
<1> QED BY <1>1, Invariant, PTL

-----------------------------------------------------------------------------
(***************************************************************************)
(* The pool's count.  What is counted is idle, lost, leased or being       *)
(* opened.  The count may be too small, when close_uo_connections has      *)
(* forgotten leased connections, but never too large.                      *)
(***************************************************************************)
Holders == {t \in Threads : lease[t] # 0 \/ pc[t] = "connecting"}

CountInv == live <= PoolMax /\ live <= Len(idle) + lost + Cardinality(Holders)

LEMMA HoldersFinite == IsFiniteSet(Holders) /\ Cardinality(Holders) \in Nat
<1>1. Holders \in SUBSET Threads
  BY DEF Holders
<1>2. IsFiniteSet(Holders)
  BY <1>1, PoolAssumption, FS_Subset
<1> QED BY <1>2, FS_CardinalityType

\* A thread becomes a holder, or ceases to be one.
LEMMA HoldersStep ==
  ASSUME NEW t \in Threads,
         \A u \in Threads \ {t} : lease'[u] = lease[u] /\ pc'[u] = pc[u]
  PROVE  /\ (t \in Holders <=> t \in Holders') => Cardinality(Holders') = Cardinality(Holders)
         /\ t \in Holders' => Cardinality(Holders') >= Cardinality(Holders)
         /\ t \in Holders' /\ t \notin Holders => Cardinality(Holders') = Cardinality(Holders) + 1
         /\ Cardinality(Holders') >= Cardinality(Holders) - 1
<1>1. CASE t \in Holders <=> t \in Holders'
  <2>1. Holders' = Holders
    BY <1>1 DEF Holders
  <2> QED BY <1>1, <2>1, HoldersFinite
<1>2. CASE t \in Holders' /\ t \notin Holders
  <2>1. Holders' = Holders \cup {t}
    BY <1>2 DEF Holders
  <2>2. Cardinality(Holders \cup {t}) = Cardinality(Holders) + 1
    BY <1>2, HoldersFinite, FS_AddElement
  <2> QED BY <1>2, <2>1, <2>2, HoldersFinite
<1>3. CASE t \notin Holders' /\ t \in Holders
  <2>1. Holders' = Holders \ {t}
    BY <1>3 DEF Holders
  <2>2. Cardinality(Holders \ {t}) = Cardinality(Holders) - 1
    BY <1>3, HoldersFinite, FS_RemoveElement
  <2> QED BY <1>3, <2>1, <2>2, HoldersFinite
<1> QED BY <1>1, <1>2, <1>3

\* The pool is as it was or closed, and as many hold a connection as before.
LEMMA PoolKept ==
  ASSUME TypeOK, CountInv, ClosePool \/ CloseConnections \/ UNCHANGED pool,
         Cardinality(Holders') \in Nat, Cardinality(Holders') >= Cardinality(Holders)
  PROVE  CountInv'
<1>1. CASE UNCHANGED pool
  BY <1>1, HoldersFinite DEF TypeOK, CountInv, pool
<1>2. CASE CloseConnections
  <2>1. Len(idle') = 0 /\ live' = 0 /\ lost' = 0
    BY <1>2 DEF CloseConnections
  <2> QED BY <2>1, PoolAssumption DEF CountInv
<1> QED BY <1>1, <1>2 DEF ClosePool

LEMMA WithoutLast ==
  ASSUME NEW s \in Seq(Nat), s # <<>>
  PROVE  Len(SubSeq(s, 1, Len(s) - 1)) = Len(s) - 1 /\ Len(s) \in Nat
<1> DEFINE n == Len(s) - 1
<1>1. n \in Nat /\ Len(s) \in Nat
  OBVIOUS
<1>2. \A i \in 1..n : s[i] \in Nat
  OBVIOUS
<1> HIDE DEF n
<1>3. 1 \in Int /\ n \in Int
  BY <1>1
<1>4. Len(SubSeq(s, 1, n)) = IF 1 <= n THEN n - 1 + 1 ELSE 0
  BY <1>2, <1>3, SubSeqProperties
<1>5. Len(SubSeq(s, 1, n)) = n
  BY <1>1, <1>4
<1> QED BY <1>1, <1>5 DEF n

LEMMA HoldersFiniteLater == Cardinality(Holders') \in Nat
<1>1. Holders' \in SUBSET Threads
  BY DEF Holders
<1>2. IsFiniteSet(Holders')
  BY <1>1, PoolAssumption, FS_Subset
<1> QED BY <1>2, FS_CardinalityType

LEMMA CountKept == ASSUME TypeOK, FileInv, LeaseInv, CountInv, [Next]_vars PROVE CountInv'
<1> USE HoldersFinite, HoldersFiniteLater DEF TypeOK
<1>1. ASSUME NEW t \in Threads,
             \/ EnterQuery(t) \/ Mark(t) \/ Acquire(t) \/ Read(t) \/ Release(t)
             \/ Retire(t) \/ Arm(t) \/ Leave(t) \/ Claim(t) \/ BuildStep(t)
      PROVE  CountInv'
  <2>1. UNCHANGED lease /\ (ClosePool \/ CloseConnections \/ UNCHANGED pool)
    BY <1>1 DEF EnterQuery, Mark, Acquire, Reuse, Open, Read, Release, Retire, Arm, Leave, Claim,
                BuildStep, Drain, Begin, Build, Replace, Stamp, Finish, Drop, query
  <2>2. PICK l \in Locations \ {"connecting"} : Goto(t, l) /\ pc[t] # "connecting"
    BY <1>1 DEF EnterQuery, Mark, Acquire, Reuse, Open, Read, Release, Retire, Arm, Leave, Claim,
                BuildStep, Drain, Begin, Build, Replace, Stamp, Finish, Locations, Querying,
                Building, Using
  <2>3. Holders' = Holders
    BY <2>1, <2>2 DEF Holders, Goto
  <2> QED BY <2>1, <2>3, PoolKept
<1>2. ASSUME NEW t \in Threads, Checkout(t) PROVE CountInv'
  <2>1. t \notin Holders /\ lost' = lost
    BY <1>2 DEF Checkout, Holders, LeaseInv, Leased
  <2>2. \A u \in Threads \ {t} : lease'[u] = lease[u] /\ pc'[u] = pc[u]
    BY <1>2 DEF Checkout, Goto
  <2>3. CASE idle # <<>> /\ lease' = [lease EXCEPT ![t] = idle[Len(idle)]]
             /\ idle' = SubSeq(idle, 1, Len(idle) - 1) /\ UNCHANGED live
    <3>1. lease'[t] # 0
      <4>1. Len(idle) \in 1..Len(idle)
        BY <2>3
      <4>2. lease'[t] = idle[Len(idle)]
        BY <2>3
      <4> QED BY <4>1, <4>2 DEF FileInv
    <3>2. Cardinality(Holders') = Cardinality(Holders) + 1
      BY <2>1, <2>2, <3>1, HoldersStep DEF Holders
    <3>3. Len(idle') = Len(idle) - 1 /\ Len(idle) \in Nat
      BY <2>3, WithoutLast
    <3> QED BY <2>1, <2>3, <3>2, <3>3 DEF CountInv
  <2>4. CASE live < PoolMax /\ live' = live + 1 /\ Goto(t, "connecting") /\ UNCHANGED <<idle, lease>>
    <3>1. Cardinality(Holders') = Cardinality(Holders) + 1
      BY <2>1, <2>2, <2>4, HoldersStep DEF Holders, Goto
    <3> QED BY <2>1, <2>4, <3>1, PoolAssumption DEF CountInv
  <2> QED BY <1>2, <2>3, <2>4 DEF Checkout
<1>3. ASSUME NEW t \in Threads, Connect(t) PROVE CountInv'
  <2>1. t \in Holders /\ UNCHANGED <<idle, live>>
    BY <1>3 DEF Connect, Holders
  <2>2. \A u \in Threads \ {t} : lease'[u] = lease[u] /\ pc'[u] = pc[u]
    BY <1>3 DEF Connect, Goto
  <2>3. CASE product # 0 /\ lease' = [lease EXCEPT ![t] = product] /\ lost' = lost
    <3>1. t \in Holders'
      BY <2>3 DEF Holders
    <3>2. Cardinality(Holders') = Cardinality(Holders)
      BY <2>1, <2>2, <3>1, HoldersStep
    <3> QED BY <2>1, <2>3, <3>2 DEF CountInv
  <2>4. CASE lost' = lost + 1
    <3>1. Cardinality(Holders') >= Cardinality(Holders) - 1
      BY <2>2, HoldersStep
    <3> QED BY <2>1, <2>4, <3>1 DEF CountInv
  <2> QED BY <1>3, <2>3, <2>4 DEF Connect
<1>4. ASSUME NEW t \in Threads, Checkin(t) PROVE CountInv'
  <2>1. UNCHANGED <<live, lost>> /\ lease' = [lease EXCEPT ![t] = 0]
    BY <1>4 DEF Checkin
  <2>2. \A u \in Threads \ {t} : lease'[u] = lease[u] /\ pc'[u] = pc[u]
    BY <1>4, <2>1 DEF Checkin, Goto
  <2>3. Cardinality(Holders') >= Cardinality(Holders) - 1
    BY <2>2, HoldersStep
  <2>4. CASE lease[t] = 0
    <3>1. t \notin Holders /\ t \notin Holders' /\ UNCHANGED idle
      BY <1>4, <2>1, <2>4 DEF Checkin, Holders, Goto
    <3>2. Cardinality(Holders') = Cardinality(Holders)
      BY <2>2, <3>1, HoldersStep
    <3> QED BY <2>1, <3>1, <3>2 DEF CountInv
  <2>5. CASE lease[t] # 0 /\ Len(idle) < PoolMax
    <3>1. Len(idle') = Len(idle) + 1 /\ Len(idle) \in Nat
      BY <1>4, <2>5 DEF Checkin
    <3> QED BY <2>1, <2>3, <3>1 DEF CountInv
  <2>6. CASE lease[t] # 0 /\ ~(Len(idle) < PoolMax)
    <3>1. idle' = idle /\ Len(idle) \in Nat
      BY <1>4, <2>6 DEF Checkin
    <3> QED BY <2>1, <2>6, <3>1, PoolAssumption DEF CountInv
  <2> QED BY <2>4, <2>5, <2>6
<1>5. CASE Fire \/ CloseIdle \/ Evict \/ Remove \/ UNCHANGED vars
  <2>1. UNCHANGED <<pc, lease>> /\ (ClosePool \/ CloseConnections \/ UNCHANGED pool)
    BY <1>5 DEF Fire, CloseIdle, Evict, Remove, vars, query, Drop
  <2>2. Holders' = Holders
    BY <2>1 DEF Holders
  <2> QED BY <2>1, <2>2, PoolKept
<1> QED BY <1>1, <1>2, <1>3, <1>4, <1>5 DEF Next, QueryStep

(* Who finds the pool exhausted waits for a query that holds a connection  *)
(* or is opening one, as long as failed connects have not used up the      *)
(* pool's count (reader.py _pool_checkout, close_uo_connections).          *)
THEOREM WaitForSomebody == Spec => []NoWaitForNobody
<1>1. Init => CountInv
  <2> SUFFICES ASSUME Init PROVE CountInv
    OBVIOUS
  <2>1. Len(idle) = 0 /\ live = 0 /\ lost = 0
    BY DEF Init
  <2> QED BY <2>1, HoldersFinite, PoolAssumption DEF CountInv
<1>2. TypeOK /\ Inv /\ CountInv /\ [Next]_vars => CountInv'
  BY CountKept DEF Inv
<1>3. TypeOK /\ CountInv => NoWaitForNobody
  <2> SUFFICES ASSUME TypeOK, CountInv, idle = <<>>, live >= PoolMax, lost < PoolMax
               PROVE  \E t \in Threads : lease[t] # 0 \/ pc[t] = "connecting"
    BY DEF NoWaitForNobody
  <2>1. Len(idle) = 0
    OBVIOUS
  <2>2. Cardinality(Holders) # 0
    BY <2>1, PoolAssumption, HoldersFinite DEF CountInv, TypeOK
  <2>3. Holders # {}
    BY <2>2, FS_EmptySet
  <2> QED BY <2>3 DEF Holders
<1> QED BY <1>1, <1>2, <1>3, TypeCorrect, Invariant, PTL DEF Spec
(* The waits for the gate and for a connection close no circle: while      *)
(* anybody is in a call, somebody in one has nothing to wait for, unless   *)
(* failed connects have used up the count (locks.py 57-65, reader.py 131). *)
THEOREM SomebodyAlwaysMoves == Spec => []SomebodyMoves
<1>1. TypeOK /\ Inv /\ NoWaitForNobody => SomebodyMoves
  <2> SUFFICES ASSUME TypeOK, Inv, NoWaitForNobody, lost < PoolMax,
                      NEW t \in Threads, pc[t] # "idle",
                      \A u \in Threads : pc[u] # "idle" => Waiting(u)
               PROVE  FALSE
    BY DEF SomebodyMoves
  <2>1. PICK u \in Threads : pc[u] = "leasing" /\ idle = <<>> /\ live >= PoolMax
    <3>1. CASE pc[t] = "leasing"
      BY <3>1 DEF Waiting
    <3>2. CASE pc[t] # "leasing"
      <4>1. PICK v \in Threads : pc[v] \in Querying
        BY <3>2 DEF Waiting, Drained
      <4>2. pc[v] # "idle" /\ pc[v] # "draining"
        BY <4>1, Places DEF Writing
      <4> QED BY <4>2 DEF Waiting
    <3> QED BY <3>1, <3>2
  <2>2. PICK v \in Threads : lease[v] # 0 \/ pc[v] = "connecting"
    BY <2>1 DEF NoWaitForNobody
  <2>3. pc[v] \in {"connecting"} \cup Leased
    BY <2>2 DEF Inv, LeaseInv
  <2> QED BY <2>3 DEF Waiting, Leased
<1> QED BY <1>1, TypeCorrect, Invariant, WaitForSomebody, PTL

-----------------------------------------------------------------------------
(***************************************************************************)
(* From outside: a query that reads has the newest version, and one that   *)
(* holds its connection still has what it read.                            *)
(***************************************************************************)
Inquiring == {"admitted", "marked", "leasing", "connecting", "reading"}

Answering == {"releasing", "checkin"}

\* Threads that move within their part of a query, and builds, cannot be seen.
LEMMA UnseenStep ==
  ASSUME newest' = newest, lease' = lease,
         \A u \in Threads : /\ pc'[u] \in Inquiring <=> pc[u] \in Inquiring
                            /\ pc'[u] \in Answering <=> pc[u] \in Answering
  PROVE  UNCHANGED Atomic!vars
BY DEF Atomic!vars, Answered, Inquiring, Answering

LEMMA PoolRefines == ASSUME TypeOK, Inv, [Next]_vars PROVE [Atomic!Next]_(Atomic!vars)
<1> USE DEF TypeOK
<1> DEFINE Hidden == UNCHANGED Atomic!vars
<1>1. ASSUME NEW t \in Threads, EnterQuery(t) PROVE Atomic!Open(t)
  BY <1>1 DEF EnterQuery, Goto, file, query, Atomic!Open, Answered
<1>2. ASSUME NEW t \in Threads, Mark(t) \/ (Reuse(t) /\ pc[t] = "marked" /\ UNCHANGED <<file, lease>>)
      PROVE  Hidden
  BY <1>2, UnseenStep DEF Mark, Reuse, Goto, file, Inquiring, Answering
<1>3. ASSUME NEW t \in Threads, Open(t), pc[t] = "marked", UNCHANGED <<file, lease>>
      PROVE  Hidden \/ Atomic!Abandon(t)
  <2>1. CASE Goto(t, "leasing")
    BY <1>3, <2>1, UnseenStep DEF Goto, file, Inquiring, Answering
  <2>2. CASE Goto(t, "leaving")
    BY <1>3, <2>2 DEF Goto, file, Atomic!Abandon, Answered
  <2> QED BY <1>3, <2>1, <2>2 DEF Open
<1>4. ASSUME NEW t \in Threads, Checkout(t) PROVE Hidden
  BY <1>4 DEF Checkout, Goto, file, Atomic!vars, Answered
<1>5. ASSUME NEW t \in Threads, Connect(t) PROVE Hidden \/ Atomic!Abandon(t)
  <2>1. CASE Goto(t, "reading")
    BY <1>5, <2>1 DEF Connect, Goto, file, Atomic!vars, Answered
  <2>2. CASE Goto(t, "releasing") /\ UNCHANGED lease
    <3>1. lease[t] = 0
      BY <1>5 DEF Connect, Inv, LeaseInv, Leased
    <3> QED BY <1>5, <2>2, <3>1 DEF Connect, Goto, file, Atomic!Abandon, Answered
  <2> QED BY <1>5, <2>1, <2>2 DEF Connect
<1>6. ASSUME NEW t \in Threads, Read(t) PROVE Atomic!Answer(t)
  <2>1. lease[t] = newest /\ newest # 0
    BY <1>6 DEF Read, Inv, LeaseInv, FileInv
  <2> QED BY <1>6, <2>1 DEF Read, Goto, file, query, Atomic!Answer, Answered
<1>7. ASSUME NEW t \in Threads, Release(t) PROVE Hidden
  BY <1>7, UnseenStep DEF Release, Goto, file, Inquiring, Answering
<1>8. ASSUME NEW t \in Threads, Checkin(t) PROVE Atomic!Return(t)
  BY <1>8 DEF Checkin, Goto, file, Atomic!Return, Answered
<1>9. ASSUME NEW t \in Threads,
             \/ Retire(t) \/ Arm(t) \/ Leave(t) \/ Claim(t)
             \/ Drain(t) \/ Begin(t) \/ Build(t) \/ Finish(t)
      PROVE  Hidden
  <2>1. UNCHANGED <<newest, lease>>
    BY <1>9 DEF Retire, Arm, Leave, Claim, Drain, Begin, Build, Finish, file, query
  <2>2. PICK l \in Locations \ (Inquiring \cup Answering) :
               Goto(t, l) /\ pc[t] \notin Inquiring \cup Answering
    BY <1>9 DEF Retire, Arm, Leave, Claim, Drain, Begin, Build, Finish, Locations, Querying,
                Building, Inquiring, Answering
  <2> QED BY <2>1, <2>2, UnseenStep DEF Goto
<1>10. ASSUME NEW t \in Threads, Replace(t) \/ Stamp(t) PROVE Atomic!Write \/ Hidden
  <2>1. pc[t] \in Building /\ lease' = lease
    BY <1>10 DEF Replace, Stamp, Building, query
  <2>2. \A u \in Threads : pc[u] \notin Inquiring \cup Answering
    BY <2>1 DEF Inv, GateInv, Querying, Using, Inquiring, Answering
  <2>3. \E l \in Building : Goto(t, l)
    BY <1>10 DEF Replace, Stamp, Building
  <2>4. \A u \in Threads : pc'[u] \notin Inquiring \cup Answering
    BY <2>2, <2>3, Places DEF Goto, Building, Inquiring, Answering
  <2>5. CASE newest' = newest
    BY <2>1, <2>2, <2>4, <2>5, UnseenStep
  <2>6. CASE newest' # newest
    <3>1. newest' = newest + 1
      BY <1>10, <2>6 DEF Replace, Stamp, Write, file
    <3> QED BY <2>2, <2>4, <3>1 DEF Atomic!Write, Answered, Inquiring, Answering
  <2> QED BY <2>5, <2>6
<1>11. ASSUME Fire \/ CloseIdle \/ Evict \/ Remove \/ UNCHANGED vars
       PROVE  Hidden
  BY <1>11, UnseenStep DEF Fire, CloseIdle, Evict, Remove, vars, query, file
<1> HIDE DEF TypeOK, Hidden
<1>12. ASSUME NEW t \in Threads, QueryStep(t) PROVE Atomic!Next \/ Hidden
  <2>1. CASE Acquire(t)
    BY <1>2, <1>3, <2>1 DEF Acquire, Atomic!Next
  <2>2. CASE Mark(t)
    BY <1>2, <2>2
  <2>3. CASE Checkout(t) \/ Release(t) \/ Retire(t) \/ Arm(t)
    BY <1>4, <1>7, <1>9, <2>3
  <2>4. CASE Connect(t) \/ Read(t) \/ Checkin(t)
    BY <1>5, <1>6, <1>8, <2>4 DEF Atomic!Next
  <2> QED BY <1>12, <2>1, <2>2, <2>3, <2>4 DEF QueryStep
<1>13. ASSUME NEW t \in Threads, BuildStep(t) PROVE Atomic!Next \/ Hidden
  BY <1>9, <1>10, <1>13 DEF BuildStep, Atomic!Next
<1>14. Atomic!Next \/ Hidden
  BY <1>1, <1>9, <1>11, <1>12, <1>13 DEF Next, Atomic!Next
<1> QED BY <1>14 DEF Hidden

(* Facade, pool, idle timer and evictions are not seen from outside: each  *)
(* query is answered from the product last published or not at all, and    *)
(* products change only between queries (cache.py, reader.py).             *)
THEOREM PoolIsTransparent == Spec => ImplementsAtomicProduct
<1>1. Init => Atomic!Init
  BY DEF Init, Atomic!Init, Answered
<1>2. TypeOK /\ Inv /\ [Next]_vars => [Atomic!Next]_(Atomic!vars)
  BY PoolRefines
<1> QED BY <1>1, <1>2, TypeCorrect, Invariant, PTL DEF Spec, Atomic!Spec, ImplementsAtomicProduct

-----------------------------------------------------------------------------
(***************************************************************************)
(* The product is held as SnapshotAccess allows.                           *)
(***************************************************************************)
InQuery == {t \in Threads : pc[t] \in Querying}
InBuild == {t \in Threads : pc[t] \in Building}

LEMMA Held ==
  /\ Access!avars = <<[k \in Product |-> InQuery], [k \in Product |-> InBuild]>>
  /\ Access!avars' = <<[k \in Product |-> InQuery'], [k \in Product |-> InBuild']>>
  BY DEF Access!avars, InQuery, InBuild

\* Who is inside, after a thread has moved.
LEMMA InsideAfter ==
  ASSUME TypeOK, NEW t \in Threads, NEW l, pc' = [pc EXCEPT ![t] = l]
  PROVE  /\ InQuery' = IF l \in Querying THEN InQuery \cup {t} ELSE InQuery \ {t}
         /\ InBuild' = IF l \in Building THEN InBuild \cup {t} ELSE InBuild \ {t}
  BY DEF TypeOK, InQuery, InBuild

\* A step that takes nobody in and nobody out.
LEMMA HeldOn ==
  ASSUME TypeOK, NEW t \in Threads, NEW l, pc' = [pc EXCEPT ![t] = l],
         pc[t] \in Querying <=> l \in Querying, pc[t] \in Building <=> l \in Building
  PROVE  UNCHANGED Access!avars
  <1>1. t \in InQuery <=> l \in Querying
    BY DEF InQuery
  <1>2. t \in InBuild <=> l \in Building
    BY DEF InBuild
  <1>3. InQuery' = InQuery
    <2>1. InQuery' = IF l \in Querying THEN InQuery \cup {t} ELSE InQuery \ {t} BY InsideAfter
    <2> QED BY <1>1, <2>1
  <1>4. InBuild' = InBuild
    <2>1. InBuild' = IF l \in Building THEN InBuild \cup {t} ELSE InBuild \ {t} BY InsideAfter
    <2> QED BY <1>2, <2>1
  <1> QED BY <1>3, <1>4, Held

\* The steps of a query between its entry and its leaving.
LEMMA QueryStays ==
  ASSUME NEW t \in Threads, QueryStep(t)
  PROVE  pc[t] \in Querying /\ \E l \in Querying : pc' = [pc EXCEPT ![t] = l]
  BY DEF QueryStep, Mark, Acquire, Reuse, Open, Checkout, Connect, Read, Release, Checkin,
         Retire, Arm, Goto, Querying, Using

\* The steps of a build between its draining and its leaving.
LEMMA BuildStays ==
  ASSUME NEW t \in Threads, BuildStep(t), ~Drain(t)
  PROVE  pc[t] \in Building /\ \E l \in Building : pc' = [pc EXCEPT ![t] = l]
  BY DEF BuildStep, Begin, Build, Replace, Stamp, Finish, Goto, Building

LEMMA HeldStep ==
  ASSUME TypeOK, GateInv, [Next]_vars
  PROVE  [Access!Next]_(Access!avars)
  <1>1. ASSUME NEW t \in Threads, EnterQuery(t) PROVE Access!BeginRead(t, "product")
    <2>1. pc[t] = "idle" /\ pc' = [pc EXCEPT ![t] = "admitted"] /\ InBuild = {}
      BY <1>1 DEF EnterQuery, Goto, IsWriting, InBuild
    <2>2. InQuery' = InQuery \cup {t} /\ InBuild' = InBuild
      BY <2>1, InsideAfter, Places DEF Querying, Building
    <2> QED BY <2>1, <2>2 DEF Access!BeginRead, Product, InQuery, InBuild
  <1>2. ASSUME NEW t \in Threads, Leave(t), pc[t] = "leaving" PROVE Access!EndRead(t, "product")
    <2>1. pc' = [pc EXCEPT ![t] = "idle"] /\ t \in InQuery /\ t \notin InBuild
      BY <1>2 DEF Leave, Goto, Querying, Building, InQuery, InBuild
    <2>2. InQuery' = InQuery \ {t} /\ InBuild' = InBuild \ {t}
      BY <2>1, InsideAfter, Places
    <2>3. InBuild' = InBuild
      BY <2>1, <2>2
    <2> QED BY <2>1, <2>2, <2>3 DEF Access!EndRead, Product, InQuery, InBuild
  <1>3. ASSUME NEW t \in Threads, Leave(t), pc[t] = "unlocking" PROVE Access!EndWrite(t, "product")
    <2>1. pc' = [pc EXCEPT ![t] = "idle"] /\ t \notin InQuery /\ InBuild = {t}
      BY <1>3, Places DEF Leave, Goto, Querying, Building, GateInv, InQuery, InBuild
    <2>2. InQuery' = InQuery \ {t} /\ InBuild' = InBuild \ {t}
      BY <2>1, InsideAfter, Places
    <2>3. InQuery' = InQuery /\ InBuild' = {}
      BY <2>1, <2>2
    <2> QED BY <2>1, <2>3 DEF Access!EndWrite, Product, InQuery, InBuild
  <1>4. ASSUME NEW t \in Threads, Drain(t) PROVE Access!BeginWrite(t, "product")
    <2>1. pc[t] = "draining" /\ pc' = [pc EXCEPT ![t] = "inside"] /\ InQuery = {}
      BY <1>4 DEF Drain, Drained, Goto, InQuery
    <2>2. InBuild = {}
      BY <2>1, Places DEF GateInv, Writing, Building, InBuild
    <2>3. InQuery' = {} /\ InBuild' = {t}
      BY <2>1, <2>2, InsideAfter DEF Querying, Using, Building
    <2> QED BY <2>1, <2>2, <2>3 DEF Access!BeginWrite, Product, InQuery, InBuild
  <1>5. ASSUME NEW t \in Threads, Claim(t) \/ QueryStep(t) \/ (BuildStep(t) /\ ~Drain(t))
        PROVE  UNCHANGED Access!avars
    <2>1. CASE Claim(t)
      <3>1. pc[t] = "idle" /\ pc' = [pc EXCEPT ![t] = "draining"]
        BY <2>1 DEF Claim, Goto
      <3>2. {"idle", "draining"} \cap (Querying \cup Building) = {}
        BY DEF Querying, Using, Building
      <3> QED BY <3>1, <3>2, HeldOn
    <2>2. CASE QueryStep(t)
      BY <2>2, QueryStays, HeldOn, Places DEF Writing
    <2>3. CASE BuildStep(t) /\ ~Drain(t)
      BY <2>3, BuildStays, HeldOn, Places DEF Writing
    <2> QED BY <1>5, <2>1, <2>2, <2>3
  <1>6. ASSUME UNCHANGED pc PROVE UNCHANGED Access!avars
    BY <1>6 DEF Access!avars
  <1>7. CASE Fire \/ CloseIdle \/ Evict \/ Remove \/ UNCHANGED vars
    BY <1>6, <1>7 DEF Fire, CloseIdle, Evict, Remove, vars
  <1>8. \A t \in Threads : Leave(t) => pc[t] \in {"leaving", "unlocking"}
    BY DEF Leave
  <1>9. "product" \in Product
    BY DEF Product
  <1> QED BY <1>1, <1>2, <1>3, <1>4, <1>5, <1>7, <1>8, <1>9 DEF Next, BuildStep, Access!Next

(* Any number of queries hold the product, from before the mtime is read   *)
(* until the timer is armed, or one build (query.py 386, locks.py 20).     *)
THEOREM PoolInGate == Spec => HeldAsGateAllows
  <1>1. Init => Access!Init
    BY Places DEF Init, Access!Init, Product, Writing
  <1>2. TypeOK /\ GateInv /\ [Next]_vars => [Access!Next]_(Access!avars)
    BY HeldStep
  <1>3. Inv => GateInv
    BY DEF Inv
  <1> QED
    BY <1>1, <1>2, <1>3, TypeCorrect, Invariant, PTL DEF Spec, HeldAsGateAllows, Access!Spec
=============================================================================
