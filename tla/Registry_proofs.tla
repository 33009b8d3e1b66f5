--------------------------- MODULE Registry_proofs ---------------------------
(***************************************************************************)
(* What TLAPS proves of Registry, for any number of processes, calls,      *)
(* projects and names and any number of events.                            *)
(***************************************************************************)
EXTENDS Registry, TLAPS

Marks == {"none", "bare", "indexed"}

-----------------------------------------------------------------------------
(* Types.  A call that runs has a process, a project and, from its first   *)
(* look on, a ref.                                                         *)

CallsTyped ==
    \A c \in Caller :
        /\ pc[c] # "idle" => where[c] \in Process /\ job[c] \in Project
        /\ pc[c] # "idle" => ref[c] \in Id \X {"bare", "indexed"}
        /\ pc[c] = "writing" => where[c] \in loaded

Typed == TypeOK /\ CallsTyped

LEMMA BoundType == ASSUME NEW p \in Project PROVE Bound(p) \in Id \X {"bare", "indexed"}
BY NameAssumption DEF Bound, Id

LEMMA TypedInit == Init => Typed
<1> SUFFICES ASSUME Init PROVE Typed
  OBVIOUS
<1>1. rows \in [Id -> Marks] /\ byId \in [Process -> [Id -> Marks]]
  BY DEF Init, NoRef, Marks
<1>2. /\ exists \in [Project -> BOOLEAN] /\ product \in [Project -> BOOLEAN]
      /\ alias \in [Process -> [Name -> SUBSET Project]]
      /\ where \in [Caller -> Process \cup {None}] /\ job \in [Caller -> Project \cup {None}]
      /\ indexing \in [Caller -> BOOLEAN]
  BY DEF Init
<1>3. ref \in [Caller -> (Id \cup {None}) \X Marks]
  BY DEF Init, Marks
<1>4. CallsTyped
  BY DEF Init, CallsTyped
<1> QED BY <1>1, <1>2, <1>3, <1>4 DEF Init, Typed, TypeOK, Marks

LEMMA BindTyped ==
  ASSUME Typed, NEW c \in Caller, pc[c] # "idle", Bind(c), loaded' = loaded
  PROVE  /\ pc' \in [Caller -> {"idle", "bind", "found", "writing", "build"}]
         /\ where' \in [Caller -> Process \cup {None}]
         /\ job' \in [Caller -> Project \cup {None}] /\ indexing' \in [Caller -> BOOLEAN]
         /\ ref' \in [Caller -> (Id \cup {None}) \X Marks]
         /\ told' \subseteq Id /\ CallsTyped'
<1>1. CASE indexing[c]
  BY <1>1 DEF Bind, Typed, TypeOK, CallsTyped, Marks
<1>2. CASE ~indexing[c]
  <2>1. /\ pc' \in [Caller -> {"idle", "bind", "found", "writing", "build"}]
        /\ where' \in [Caller -> Process \cup {None}]
        /\ job' \in [Caller -> Project \cup {None}] /\ indexing' \in [Caller -> BOOLEAN]
    BY <1>2 DEF Bind, Return, Typed, TypeOK
  <2>4. ref' \in [Caller -> (Id \cup {None}) \X Marks]
    <3>1. <<None, "none">> \in (Id \cup {None}) \X Marks
      BY DEF Marks
    <3> QED BY <1>2, <3>1 DEF Bind, Return, Typed, TypeOK, Marks
  <2>2. told' \subseteq Id
    BY <1>2 DEF Bind, Typed, TypeOK, CallsTyped
  <2>3. CallsTyped'
    BY <1>2 DEF Bind, Return, Typed, TypeOK, CallsTyped
  <2> QED BY <2>1, <2>2, <2>3, <2>4
<1> QED BY <1>1, <1>2

LEMMA TypedNext == Typed /\ [Next]_vars => Typed'
<1> SUFFICES ASSUME Typed, [Next]_vars PROVE Typed'
  OBVIOUS
<1> USE DEF Marks
<1>1. ASSUME NEW P \in Process, Start(P) PROVE Typed'
  BY <1>1 DEF Start, Event, Typed, TypeOK, CallsTyped, disk, calls
<1>2. ASSUME NEW P \in Process, Load(P) PROVE Typed'
  <2>1. [i \in Id |-> Restored(i)] \in [Id -> Marks]
    BY DEF Restored
  <2>2. byId' \in [Process -> [Id -> Marks]]
    BY <1>2, <2>1 DEF Load, Typed, TypeOK
  <2>3. [n \in Name |-> {p \in Project : byId'[P][<<p, n>>] # "none"}] \in [Name -> SUBSET Project]
    OBVIOUS
  <2>4. alias' \in [Process -> [Name -> SUBSET Project]]
    BY <1>2, <2>3 DEF Load, Typed, TypeOK
  <2>5. disturbed' \in BOOLEAN
    BY <1>2 DEF Load
  <2> QED BY <1>2, <2>2, <2>4, <2>5 DEF Load, Typed, TypeOK, CallsTyped, disk, calls
<1>3. ASSUME NEW P \in Process, Exit(P) PROVE Typed'
  <2>1. NoRef \in [Id -> Marks]
    BY DEF NoRef
  <2>2. byId' \in [Process -> [Id -> Marks]]
    BY <1>3, <2>1 DEF Exit, Typed, TypeOK
  <2>3. alias' \in [Process -> [Name -> SUBSET Project]]
    BY <1>3 DEF Exit, Typed, TypeOK
  <2>4. /\ pc' \in [Caller -> {"idle", "bind", "found", "writing", "build"}]
        /\ where' \in [Caller -> Process \cup {None}]
        /\ job' \in [Caller -> Project \cup {None}]
        /\ ref' \in [Caller -> (Id \cup {None}) \X Marks]
    BY <1>3 DEF Exit, Typed, TypeOK
  <2>5. indexing' \in [Caller -> BOOLEAN] /\ disturbed' \in BOOLEAN
    BY <1>3 DEF Exit, Typed, TypeOK
  <2>6. CallsTyped'
    BY <1>3 DEF Exit, Typed, TypeOK, CallsTyped
  <2>7. up' \subseteq Process /\ loaded' \subseteq up' /\ stale' \subseteq Process
    BY <1>3 DEF Exit, Typed, TypeOK
  <2> QED BY <1>3, <2>2, <2>3, <2>4, <2>5, <2>6, <2>7 DEF Exit, Typed, TypeOK, disk
<1>4. ASSUME NEW P \in Process, NEW i \in Id, Query(P, i) PROVE Typed'
  BY <1>4 DEF Query, Typed, TypeOK, CallsTyped, disk, maps, calls
<1>5. ASSUME NEW P \in Process, NEW n \in Name, NEW p \in Project \cup {None}, QueryAlias(P, n, p)
      PROVE  Typed'
  <2>1. PICK i \in Matches(P, n, p) : Query(P, i)
    BY <1>5 DEF QueryAlias
  <2>2. Matches(P, n, p) \subseteq Id
    BY DEF Matches, Typed, TypeOK, Id
  <2> QED BY <1>4, <2>1, <2>2
<1>6. ASSUME NEW P \in Process, NEW c \in Caller, NEW p \in Project, NEW idx \in BOOLEAN,
             Begin(c, P, p, idx)
      PROVE  Typed'
  <2>1. Bound(p) \in Id \X {"bare", "indexed"}
    BY BoundType
  <2>2. TypeOK'
    BY <1>6, <2>1 DEF Begin, Event, Typed, TypeOK, disk, maps
  <2>3. CallsTyped'
    BY <1>6, <2>1 DEF Begin, Typed, TypeOK, CallsTyped, maps
  <2> QED BY <2>2, <2>3 DEF Typed
<1>7. ASSUME NEW c \in Caller, FindAgain(c) PROVE Typed'
  <2>1. Bound(job[c]) \in Id \X {"bare", "indexed"}
    BY <1>7, BoundType DEF FindAgain, Typed, CallsTyped
  <2>2. TypeOK'
    BY <1>7, <2>1 DEF FindAgain, Typed, TypeOK, disk, maps
  <2>3. CallsTyped'
    BY <1>7, <2>1 DEF FindAgain, Typed, TypeOK, CallsTyped, maps
  <2> QED BY <2>2, <2>3 DEF Typed
<1>8. ASSUME NEW c \in Caller, PutAgain(c) \/ PersistFails(c) PROVE Typed'
  <2>1. Bind(c) /\ pc[c] # "idle" /\ loaded' = loaded
    BY <1>8 DEF PutAgain, PersistFails, maps
  <2>2. CallsTyped'
    BY <2>1, BindTyped
  <2> QED BY <1>8, <2>1, <2>2, BindTyped DEF PutAgain, PersistFails, Typed, TypeOK, disk, maps
<1>9. ASSUME NEW c \in Caller, Put(c) PROVE Typed'
  <2> DEFINE P == where[c]  i == ref[c][1]  k == ref[c][2]
  <2>1. P \in Process /\ i \in Id /\ k \in Marks /\ P \in loaded
    BY <1>9 DEF Put, Typed, CallsTyped
  <2>2. [byId[P] EXCEPT ![i] = k] \in [Id -> Marks]
    BY <2>1 DEF Typed, TypeOK
  <2>3. byId' \in [Process -> [Id -> Marks]]
    BY <1>9, <2>2 DEF Put, Typed, TypeOK
  <2>4. i[1] \in Project /\ i[2] \in Name
    BY <2>1 DEF Id
  <2>5. alias' \in [Process -> [Name -> SUBSET Project]]
    <3> DEFINE new == [alias[P] EXCEPT ![i[2]] = alias[P][i[2]] \cup {i[1]}]
    <3>1. new \in [Name -> SUBSET Project]
      BY <2>1, <2>4 DEF Typed, TypeOK, Listed
    <3>2. alias' = [alias EXCEPT ![P] = new]
      BY <1>9 DEF Put, Listed
    <3> HIDE DEF new
    <3> QED BY <3>1, <3>2 DEF Typed, TypeOK
  <2>6. rows' \in [Id -> Marks]
    BY <1>9 DEF Put, NoRef
  <2>7. pc' \in [Caller -> {"idle", "bind", "found", "writing", "build"}]
    BY <1>9 DEF Put, Typed, TypeOK
  <2>8. disturbed' \in BOOLEAN /\ stale' \subseteq Process
    BY <1>9 DEF Put, Typed, TypeOK
  <2>9. CallsTyped'
    BY <1>9, <2>1 DEF Put, Typed, TypeOK, CallsTyped
  <2> QED BY <1>9, <2>3, <2>5, <2>6, <2>7, <2>8, <2>9 DEF Put, Typed, TypeOK, disk
<1>10. ASSUME NEW c \in Caller, Persist(c) PROVE Typed'
  <2>1. Bind(c) /\ pc[c] # "idle" /\ loaded' = loaded
    BY <1>10 DEF Persist, maps
  <2>2. where[c] \in Process /\ file' \in {"whole", "garbled"}
    BY <1>10 DEF Persist, Typed, CallsTyped
  <2>3. rows' \in [Id -> Marks]
    BY <1>10, <2>2 DEF Persist, Typed, TypeOK, NoRef
  <2>4. CallsTyped'
    BY <2>1, BindTyped
  <2> QED BY <1>10, <2>1, <2>2, <2>3, <2>4, BindTyped DEF Persist, Typed, TypeOK, disk, maps
<1>11. ASSUME NEW c \in Caller, Build(c) PROVE Typed'
  BY <1>11 DEF Build, Typed, TypeOK, CallsTyped, maps
<1>12. ASSUME NEW c \in Caller, BuildFails(c) PROVE Typed'
  BY <1>12 DEF BuildFails, Return, Typed, TypeOK, CallsTyped, disk, maps
<1>13. ASSUME NEW p \in Movable, Delete(p) \/ Mount(p) PROVE Typed'
  <2>1. exists' \in [Project -> BOOLEAN] /\ product' \in [Project -> BOOLEAN]
    BY <1>13, NameAssumption DEF Delete, Mount, Typed, TypeOK
  <2>2. /\ UNCHANGED <<file, rows, maps, calls, told, stale, disturbed>>
        /\ events' = events + 1
    BY <1>13 DEF Delete, Mount, Event
  <2> QED BY <2>1, <2>2 DEF Typed, TypeOK, CallsTyped, maps, calls
<1>14. CASE UNCHANGED vars
  BY <1>14 DEF vars, Typed, TypeOK, CallsTyped, disk, maps, calls
<1> QED BY <1>1, <1>2, <1>3, <1>4, <1>5, <1>6, <1>7, <1>8, <1>9, <1>10, <1>11, <1>12,
           <1>13, <1>14 DEF Next

\* identity.py keeps the types of its maps, of the file and of its callers.
THEOREM TypeCorrect == Spec => []TypeOK
<1>1. Typed => TypeOK
  BY DEF Typed
<1> QED BY <1>1, TypedInit, TypedNext, PTL DEF Spec

-----------------------------------------------------------------------------
(* The alias index.                                                        *)

LEMMA AliasNext == Typed /\ AliasExact /\ [Next]_vars => AliasExact'
<1> SUFFICES ASSUME Typed, AliasExact, [Next]_vars PROVE AliasExact'
  OBVIOUS
<1>1. ASSUME NEW P \in Process, Load(P) PROVE AliasExact'
  <2>1. byId' \in [Process -> [Id -> Marks]] /\ alias' \in [Process -> [Name -> SUBSET Project]]
    BY TypedNext DEF Typed, TypeOK, Marks
  <2>2. ASSUME NEW Q \in Process, NEW n \in Name
        PROVE  alias'[Q][n] = {p \in Project : byId'[Q][<<p, n>>] # "none"}
    <3>1. CASE Q = P
      BY <1>1, <3>1 DEF Load, Typed, TypeOK
    <3>2. CASE Q # P
      BY <1>1, <3>2 DEF Load, Typed, TypeOK, AliasExact
    <3> QED BY <3>1, <3>2
  <2> QED BY <2>2 DEF AliasExact
<1>2. ASSUME NEW P \in Process, Exit(P) PROVE AliasExact'
  <2>2. ASSUME NEW Q \in Process, NEW n \in Name
        PROVE  alias'[Q][n] = {p \in Project : byId'[Q][<<p, n>>] # "none"}
    <3>1. CASE Q = P
      <4>1. alias'[Q][n] = {} /\ byId'[Q] = NoRef
        BY <1>2, <3>1 DEF Exit, Typed, TypeOK
      <4> QED BY <4>1 DEF NoRef, Id
    <3>2. CASE Q # P
      BY <1>2, <3>2 DEF Exit, Typed, TypeOK, AliasExact
    <3> QED BY <3>1, <3>2
  <2> QED BY <2>2 DEF AliasExact
<1>3. ASSUME NEW c \in Caller, Put(c) PROVE AliasExact'
  <2> DEFINE P == where[c]  i == ref[c][1]  k == ref[c][2]
  <2>1. P \in Process /\ i \in Id
    BY <1>3 DEF Put, Typed, CallsTyped
  <2>2. k # "none"
    BY <1>3 DEF Put, Typed, CallsTyped
  <2>3. i = <<i[1], i[2]>> /\ i[1] \in Project /\ i[2] \in Name
    BY <2>1 DEF Id
  <2>4. byId' = [byId EXCEPT ![P][i] = k]
    BY <1>3 DEF Put
  <2>5. alias' = [alias EXCEPT ![P][i[2]] = alias[P][i[2]] \cup {i[1]}]
    BY <1>3 DEF Put, Listed
  <2> HIDE DEF k, P, i
  <2>6. ASSUME NEW Q \in Process, NEW n \in Name
        PROVE  alias'[Q][n] = {p \in Project : byId'[Q][<<p, n>>] # "none"}
    <3>0. /\ alias[Q][n] = {p \in Project : byId[Q][<<p, n>>] # "none"}
          /\ \A p \in Project : <<p, n>> \in Id
      BY DEF AliasExact, Id
    <3>1. CASE Q # P
      BY <3>0, <3>1, <2>4, <2>5, <2>1 DEF Typed, TypeOK
    <3>2. CASE Q = P /\ n # i[2]
      BY <3>0, <3>2, <2>1, <2>3, <2>4, <2>5 DEF Typed, TypeOK
    <3>3. CASE Q = P /\ n = i[2]
      <4>1. alias'[Q][n] = alias[Q][n] \cup {i[1]}
        BY <3>3, <2>1, <2>3, <2>5 DEF Typed, TypeOK
      <4>2. \A p \in Project : byId'[Q][<<p, n>>] = IF <<p, n>> = i THEN k ELSE byId[Q][<<p, n>>]
        BY <3>0, <3>3, <2>1, <2>4 DEF Typed, TypeOK
      <4>3. \A p \in Project : <<p, n>> = i <=> p = i[1]
        BY <2>3, <3>3
      <4> QED BY <3>0, <4>1, <4>2, <4>3, <2>2, <2>3
    <3> QED BY <3>1, <3>2, <3>3
  <2> QED BY <2>6 DEF AliasExact
<1>4. CASE UNCHANGED <<byId, alias>>
  BY <1>4 DEF AliasExact
<1>5. ASSUME NEW P \in Process, NEW n \in Name, NEW p \in Project \cup {None}, QueryAlias(P, n, p)
      PROVE  UNCHANGED <<byId, alias>>
  BY <1>5 DEF QueryAlias, Query, maps
<1>6. ASSUME NEW P \in Process, NEW c \in Caller, NEW p \in Project, NEW idx \in BOOLEAN,
             Begin(c, P, p, idx)
      PROVE  UNCHANGED <<byId, alias>>
  BY <1>6 DEF Begin, maps
<1>7. ASSUME NEW P \in Process, Start(P) \/ \E i \in Id : Query(P, i)
      PROVE  UNCHANGED <<byId, alias>>
  BY <1>7 DEF Start, Query, maps
<1>8. ASSUME NEW c \in Caller, FindAgain(c) \/ PutAgain(c) \/ Persist(c) \/ PersistFails(c)
                                \/ Build(c) \/ BuildFails(c)
      PROVE  UNCHANGED <<byId, alias>>
  BY <1>8 DEF FindAgain, PutAgain, Persist, PersistFails, Build, BuildFails, maps
<1>9. ASSUME NEW p \in Movable, Delete(p) \/ Mount(p) PROVE UNCHANGED <<byId, alias>>
  BY <1>9 DEF Delete, Mount, maps
<1>10. CASE UNCHANGED vars
  BY <1>10, <1>4 DEF vars, maps
<1> QED BY <1>1, <1>2, <1>3, <1>4, <1>5, <1>6, <1>7, <1>8, <1>9, <1>10 DEF Next

\* The alias index names exactly the registered projects, so that an alias two
\* of them share is always seen as ambiguous.
THEOREM AliasIsExact == Spec => []AliasExact
<1>1. Init => AliasExact
  BY DEF Init, AliasExact, NoRef, Id
<1> QED BY <1>1, AliasNext, TypedInit, TypedNext, PTL DEF Spec

-----------------------------------------------------------------------------
(* The file.  Without an accident at most one call writes, its process has  *)
(* the newest map and every other one that has read the file knows less.    *)

OneWriter ==
    /\ \A c, d \in Caller : pc[c] = "writing" /\ pc[d] = "writing" => c = d
    /\ file # "garbled"
    /\ file = "empty" => \E c \in Caller : pc[c] = "writing"
    /\ \A c \in Caller : pc[c] = "writing" =>
          /\ file = "empty" /\ where[c] \notin stale
          /\ \A P \in loaded : P # where[c] => P \in stale
AllSaved == told \subseteq Saved /\ \A P \in loaded : Known(byId[P]) \subseteq Saved
FreshSaved == \A P \in loaded \ stale : Known(byId[P]) = Saved
FileInv == ~disturbed => OneWriter /\ AllSaved /\ FreshSaved

\* A call writes a map that has its own ref.
WriterKnows == \A c \in Caller : pc[c] = "writing" => byId[where[c]][ref[c][1]] # "none"

LEMMA BindKeeps ==
  ASSUME Typed, NEW c \in Caller, Bind(c), pc[c] # "idle"
  PROVE  /\ pc'[c] # "writing"
         /\ \A d \in Caller : d # c => pc'[d] = pc[d] /\ where'[d] = where[d] /\ ref'[d] = ref[d]
         /\ told' \subseteq told \cup {ref[c][1]}
BY DEF Bind, Return, Typed, TypeOK

LEMMA WriterNext == Typed /\ WriterKnows /\ [Next]_vars => WriterKnows'
<1> SUFFICES ASSUME Typed, WriterKnows, [Next]_vars PROVE WriterKnows'
  OBVIOUS
<1>1. ASSUME NEW P \in Process, Load(P) PROVE WriterKnows'
  <2>1. ASSUME NEW d \in Caller, pc'[d] = "writing" PROVE byId'[where'[d]][ref'[d][1]] # "none"
    <3>1. pc[d] = "writing" /\ where'[d] = where[d] /\ ref'[d] = ref[d] /\ where[d] # P
          /\ where[d] \in Process
      BY <1>1, <2>1 DEF Load, calls, Typed, CallsTyped
    <3> QED BY <1>1, <3>1 DEF Load, WriterKnows, Typed, TypeOK
  <2> QED BY <2>1 DEF WriterKnows
<1>2. ASSUME NEW P \in Process, Exit(P) PROVE WriterKnows'
  <2>1. ASSUME NEW d \in Caller, pc'[d] = "writing" PROVE byId'[where'[d]][ref'[d][1]] # "none"
    <3>1. pc[d] = "writing" /\ where'[d] = where[d] /\ ref'[d] = ref[d] /\ where[d] # P
          /\ where[d] \in Process
      BY <1>2, <2>1 DEF Exit, Typed, CallsTyped
    <3> QED BY <1>2, <3>1 DEF Exit, WriterKnows, Typed, TypeOK
  <2> QED BY <2>1 DEF WriterKnows
<1>3. ASSUME NEW c \in Caller, Put(c) PROVE WriterKnows'
  <2> DEFINE P == where[c]  i == ref[c][1]  k == ref[c][2]
  <2>1. P \in Process /\ i \in Id /\ k # "none"
    BY <1>3 DEF Put, Typed, CallsTyped
  <2>2. byId' = [byId EXCEPT ![P][i] = k] /\ pc' = [pc EXCEPT ![c] = "writing"]
        /\ where' = where /\ ref' = ref
    BY <1>3 DEF Put
  <2> HIDE DEF k, P, i
  <2>3. \A Q \in Process, j \in Id : byId[Q][j] # "none" \/ (Q = P /\ j = i) => byId'[Q][j] # "none"
    BY <2>1, <2>2 DEF Typed, TypeOK
  <2>4. ASSUME NEW d \in Caller, pc'[d] = "writing" PROVE byId'[where'[d]][ref'[d][1]] # "none"
    <3>1. CASE d = c
      BY <3>1, <2>1, <2>2, <2>3 DEF P, i
    <3>2. CASE d # c
      <4>1. pc[d] = "writing"
        BY <3>2, <2>2, <2>4 DEF Typed, TypeOK
      <4>2. where[d] \in Process /\ ref[d][1] \in Id
        BY <4>1 DEF Typed, CallsTyped
      <4> QED BY <4>1, <4>2, <2>2, <2>3 DEF WriterKnows
    <3> QED BY <3>1, <3>2
  <2> QED BY <2>4 DEF WriterKnows
<1>4. ASSUME NEW c \in Caller, PutAgain(c) \/ Persist(c) \/ PersistFails(c) PROVE WriterKnows'
  <2>1. Bind(c) /\ pc[c] # "idle" /\ byId' = byId
    BY <1>4 DEF PutAgain, Persist, PersistFails, maps
  <2> QED BY <2>1, BindKeeps DEF WriterKnows
<1>5. ASSUME byId' = byId,
             \A d \in Caller : pc'[d] = "writing" => pc[d] = "writing" /\ where'[d] = where[d]
                                                     /\ ref'[d] = ref[d]
      PROVE  WriterKnows'
  BY <1>5 DEF WriterKnows
<1>6. ASSUME NEW P \in Process, Start(P) \/ \E i \in Id : Query(P, i) PROVE WriterKnows'
  BY <1>6, <1>5 DEF Start, Query, maps, calls
<1>7. ASSUME NEW P \in Process, NEW n \in Name, NEW p \in Project \cup {None}, QueryAlias(P, n, p)
      PROVE  WriterKnows'
  BY <1>7, <1>5 DEF QueryAlias, Query, maps, calls
<1>8. ASSUME NEW P \in Process, NEW c \in Caller, NEW p \in Project, NEW idx \in BOOLEAN,
             Begin(c, P, p, idx)
      PROVE  WriterKnows'
  BY <1>8, <1>5 DEF Begin, maps, Typed, TypeOK
<1>9. ASSUME NEW c \in Caller, FindAgain(c) \/ Build(c) \/ BuildFails(c) PROVE WriterKnows'
  BY <1>9, <1>5 DEF FindAgain, Build, BuildFails, Return, maps, Typed, TypeOK
<1>10. ASSUME NEW p \in Movable, Delete(p) \/ Mount(p) PROVE WriterKnows'
  BY <1>10, <1>5 DEF Delete, Mount, maps, calls
<1>11. CASE UNCHANGED vars
  BY <1>11, <1>5 DEF vars, maps, calls
<1> QED BY <1>1, <1>2, <1>3, <1>4, <1>6, <1>7, <1>8, <1>9, <1>10, <1>11 DEF Next

LEMMA SavedByWriter ==
  ASSUME Typed, OneWriter, NEW c \in Caller, pc[c] = "writing"
  PROVE  Saved = Known(byId[where[c]])
<1>1. where[c] \in Process /\ Writing(where[c])
  BY DEF Typed, CallsTyped, Writing
<1>2. \A P \in Process : Writing(P) => P = where[c]
  BY DEF OneWriter, Writing
<1> QED BY <1>1, <1>2 DEF Saved, Known

LEMMA SavedByFile ==
  ASSUME \A c \in Caller : pc[c] # "writing"
  PROVE  Saved = Known(rows)
BY DEF Saved, Writing

\* A step that leaves writers, maps and rows alone keeps what is saved.
LEMMA SavedSame ==
  ASSUME UNCHANGED <<byId, rows>>,
         \A c \in Caller : (pc'[c] = "writing" <=> pc[c] = "writing")
                           /\ (pc[c] = "writing" => where'[c] = where[c])
  PROVE  Saved' = Saved
<1>1. \A P \in Process : Writing(P)' <=> Writing(P)
  BY DEF Writing
<1> QED BY <1>1 DEF Saved, Known

LEMMA QuietKeeps ==
  ASSUME FileInv, UNCHANGED <<byId, rows, file, loaded, stale, disturbed>>,
         \A c \in Caller : (pc'[c] = "writing" <=> pc[c] = "writing")
                           /\ (pc[c] = "writing" => where'[c] = where[c]),
         disturbed \/ told' \subseteq Saved
  PROVE  FileInv'
<1>1. Saved' = Saved
  BY SavedSame
<1>2. ~disturbed => OneWriter'
  BY DEF FileInv, OneWriter
<1>3. ~disturbed => AllSaved' /\ FreshSaved'
  BY <1>1 DEF FileInv, AllSaved, FreshSaved, Known
<1> QED BY <1>2, <1>3 DEF FileInv

LEMMA FileLoad == ASSUME Typed, FileInv, NEW P \in Process, Load(P) PROVE FileInv'
<1> SUFFICES ASSUME ~disturbed' PROVE (OneWriter /\ AllSaved /\ FreshSaved)'
  BY DEF FileInv
<1>1. ~disturbed /\ file # "empty" /\ \A i \in Id : rows[i] = "none" \/ exists[i[1]]
  BY DEF Load
<1>2. OneWriter /\ AllSaved /\ FreshSaved
  BY <1>1 DEF FileInv
<1>3. \A c \in Caller : pc[c] # "writing" /\ pc'[c] # "writing"
  BY <1>1, <1>2 DEF Load, OneWriter, calls
<1>4. OneWriter'
  BY <1>1, <1>2, <1>3 DEF Load, OneWriter
<1>5. Saved = Known(rows) /\ Saved' = Known(rows)
  <2>1. Saved = Known(rows)
    BY <1>3, SavedByFile
  <2>2. \A Q \in Process : ~Writing(Q)'
    BY <1>3 DEF Writing
  <2>3. rows' = rows
    BY DEF Load
  <2> QED BY <2>1, <2>2, <2>3 DEF Saved, Known
<1>6. byId'[P] = [i \in Id |-> Restored(i)] /\ \A Q \in Process : Q # P => byId'[Q] = byId[Q]
  BY DEF Load, Typed, TypeOK
<1>7. Known(byId'[P]) = Known(rows)
  BY <1>1, <1>6 DEF Known, Restored
<1>8. loaded' = loaded \cup {P} /\ told' = told /\ stale' = stale /\ loaded \subseteq Process
  BY DEF Load, Typed, TypeOK
<1>9. AllSaved'
  BY <1>2, <1>5, <1>6, <1>7, <1>8 DEF AllSaved, Known
<1>10. FreshSaved'
  BY <1>2, <1>5, <1>6, <1>7, <1>8 DEF FreshSaved, Known
<1> QED BY <1>4, <1>9, <1>10

LEMMA FileExit == ASSUME Typed, FileInv, NEW P \in Process, Exit(P) PROVE FileInv'
<1> SUFFICES ASSUME ~disturbed' PROVE (OneWriter /\ AllSaved /\ FreshSaved)'
  BY DEF FileInv
<1>1. ~disturbed /\ ~Writing(P)
  BY DEF Exit
<1>2. OneWriter /\ AllSaved /\ FreshSaved
  BY <1>1 DEF FileInv
<1>3. \A c \in Caller : /\ pc'[c] = "writing" <=> pc[c] = "writing"
                        /\ pc[c] = "writing" => where'[c] = where[c] /\ where[c] # P
  BY <1>1 DEF Exit, Writing
<1>4. /\ loaded' = loaded \ {P} /\ stale' = stale \ {P} /\ file' = file /\ told' = told
      /\ rows' = rows /\ loaded \subseteq Process
  BY DEF Exit, Typed, TypeOK
<1>5. OneWriter'
  BY <1>2, <1>3, <1>4 DEF OneWriter
<1>6. \A Q \in Process : Q # P => byId'[Q] = byId[Q]
  BY DEF Exit, Typed, TypeOK
<1>7. Saved' = Saved
  <2>1. \A Q \in Process : (Writing(Q)' <=> Writing(Q)) /\ (Writing(Q) => byId'[Q] = byId[Q])
    BY <1>3, <1>6 DEF Writing
  <2> QED BY <2>1, <1>4 DEF Saved, Known
<1>8. AllSaved' /\ FreshSaved'
  BY <1>2, <1>4, <1>6, <1>7 DEF AllSaved, FreshSaved, Known
<1> QED BY <1>5, <1>8

LEMMA FilePut == ASSUME Typed, FileInv, NEW c \in Caller, Put(c) PROVE FileInv'
<1> DEFINE P == where[c]  i == ref[c][1]  k == ref[c][2]
<1> SUFFICES ASSUME ~disturbed' PROVE (OneWriter /\ AllSaved /\ FreshSaved)'
  BY DEF FileInv
<1>1. ~disturbed /\ P \notin stale /\ P \in loaded /\ P \in Process /\ ~Writing(P)
  BY DEF Put, Typed, CallsTyped
<1>2. OneWriter /\ AllSaved /\ FreshSaved
  BY <1>1 DEF FileInv
<1>3. \A d \in Caller : pc[d] # "writing"
  BY <1>1, <1>2 DEF OneWriter, Writing
<1>4. /\ pc' = [pc EXCEPT ![c] = "writing"] /\ where' = where /\ file' = "empty"
      /\ stale' = stale \cup (loaded \ {P}) /\ loaded' = loaded /\ told' = told
      /\ pc \in [Caller -> {"idle", "bind", "found", "writing", "build"}]
  BY DEF Put, Typed, TypeOK
<1>5. OneWriter'
  BY <1>1, <1>3, <1>4 DEF OneWriter
<1>6. i \in Id /\ k # "none"
  BY DEF Put, Typed, CallsTyped
<1>7. byId' = [byId EXCEPT ![P][i] = k] /\ loaded \subseteq Process
      /\ byId \in [Process -> [Id -> Marks]]
  BY DEF Put, Typed, TypeOK, Marks
<1> HIDE DEF i, k
<1>8. Known(byId[P]) \subseteq Known(byId'[P]) /\ \A Q \in Process : Q # P => byId'[Q] = byId[Q]
  BY <1>1, <1>6, <1>7 DEF Known
<1>9. Saved = Known(byId[P])
  BY <1>1, <1>2 DEF FreshSaved
<1>10. Saved' = Known(byId'[P])
  <2>1. \A Q \in Process : Writing(Q)' <=> Q = P
    BY <1>3, <1>4 DEF Writing
  <2> QED BY <2>1, <1>1 DEF Saved, Known
<1>11. AllSaved'
  <2>1. told' \subseteq Saved'
    BY <1>2, <1>4, <1>8, <1>9, <1>10 DEF AllSaved
  <2>2. ASSUME NEW Q \in loaded' PROVE Known(byId'[Q]) \subseteq Saved'
    <3>1. CASE Q = P
      BY <3>1, <1>10
    <3>2. CASE Q # P
      <4>1. byId'[Q] = byId[Q] /\ Q \in loaded
        BY <3>2, <1>4, <1>7, <1>8
      <4>2. Known(byId[Q]) \subseteq Saved
        BY <4>1, <1>2 DEF AllSaved
      <4> QED BY <4>1, <4>2, <1>8, <1>9, <1>10
    <3> QED BY <3>1, <3>2
  <2> QED BY <2>1, <2>2 DEF AllSaved, Known
<1>12. FreshSaved'
  <2>1. \A Q \in loaded' \ stale' : Q = P
    BY <1>4
  <2> QED BY <2>1, <1>10 DEF FreshSaved, Known
<1> QED BY <1>5, <1>11, <1>12

LEMMA FilePersist == ASSUME Typed, WriterKnows, FileInv, NEW c \in Caller, Persist(c) PROVE FileInv'
<1> DEFINE P == where[c]
<1> SUFFICES ASSUME ~disturbed' PROVE (OneWriter /\ AllSaved /\ FreshSaved)'
  BY DEF FileInv
<1>1. ~disturbed /\ Bind(c) /\ pc[c] = "writing" /\ P \in loaded /\ P \in Process
  BY DEF Persist, Typed, CallsTyped
<1>2. OneWriter /\ AllSaved /\ FreshSaved
  BY <1>1 DEF FileInv
<1>3. file' = "whole" /\ rows' = byId[P]
  BY <1>1, <1>2 DEF Persist, OneWriter
<1>4. \A d \in Caller : pc'[d] # "writing"
  BY <1>1, <1>2, BindKeeps DEF OneWriter
<1>5. OneWriter'
  BY <1>3, <1>4 DEF OneWriter
<1>6. Saved = Known(byId[P])
  BY <1>1, <1>2, SavedByWriter
<1>7. Saved' = Known(byId[P])
  BY <1>3, <1>4 DEF Saved, Writing, Known
<1>8. UNCHANGED <<byId, loaded, stale>>
  BY DEF Persist, maps
<1>9. told' \subseteq Saved
  <2>1. told' \subseteq told \cup {ref[c][1]}
    BY <1>1, BindKeeps
  <2>2. CASE told' = told
    BY <2>2, <1>2 DEF AllSaved
  <2>3. CASE told' # told
    <3>1. ref[c][1] \in Known(byId[P])
      BY <1>1 DEF WriterKnows, Known, Typed, CallsTyped
    <3> QED BY <3>1, <2>1, <1>2, <1>6 DEF AllSaved
  <2> QED BY <2>2, <2>3
<1>10. AllSaved' /\ FreshSaved'
  BY <1>2, <1>6, <1>7, <1>8, <1>9 DEF AllSaved, FreshSaved, Known
<1> QED BY <1>5, <1>10

\* The calls in the middle of nothing: told grows by what the process knows.
LEMMA FileQuiet ==
  ASSUME Typed, FileInv, [Next]_vars,
         \A P \in Process : ~Load(P) /\ ~Exit(P),
         \A c \in Caller : ~Put(c) /\ ~Persist(c)
  PROVE  FileInv'
<1>1. ASSUME NEW P \in Process, Start(P) PROVE FileInv'
  BY <1>1, QuietKeeps DEF Start, calls, FileInv, AllSaved
<1>2. ASSUME NEW P \in Process, NEW i \in Id, Query(P, i) PROVE FileInv'
  <2>1. i \in Known(byId[P]) /\ P \in loaded /\ told' = told \cup {i}
    BY <1>2 DEF Query, Usable, Known
  <2>2. disturbed \/ told' \subseteq Saved
    BY <2>1 DEF FileInv, AllSaved
  <2> QED BY <1>2, <2>2, QuietKeeps DEF Query, maps, calls
<1>3. ASSUME NEW P \in Process, NEW n \in Name, NEW p \in Project \cup {None}, QueryAlias(P, n, p)
      PROVE  FileInv'
  <2>1. PICK i \in Matches(P, n, p) : Query(P, i)
    BY <1>3 DEF QueryAlias
  <2>2. Matches(P, n, p) \subseteq Id
    BY DEF Matches, Typed, TypeOK, Id
  <2> QED BY <1>2, <2>1, <2>2
<1>4. ASSUME NEW P \in Process, NEW c \in Caller, NEW p \in Project, NEW idx \in BOOLEAN,
             Begin(c, P, p, idx)
      PROVE  FileInv'
  <2>1. \A d \in Caller : (pc'[d] = "writing" <=> pc[d] = "writing")
                          /\ (pc[d] = "writing" => where'[d] = where[d])
    BY <1>4 DEF Begin, Typed, TypeOK
  <2> QED BY <1>4, <2>1, QuietKeeps DEF Begin, maps, FileInv, AllSaved
<1>5. ASSUME NEW c \in Caller, FindAgain(c) \/ Build(c) \/ BuildFails(c) PROVE FileInv'
  <2>1. \A d \in Caller : (pc'[d] = "writing" <=> pc[d] = "writing")
                          /\ (pc[d] = "writing" => where'[d] = where[d])
    BY <1>5 DEF FindAgain, Build, BuildFails, Return, Typed, TypeOK
  <2> QED BY <1>5, <2>1, QuietKeeps DEF FindAgain, Build, BuildFails, maps, FileInv, AllSaved
<1>6. ASSUME NEW c \in Caller, PutAgain(c) PROVE FileInv'
  <2>1. /\ where[c] \in loaded /\ pc[c] = "found" /\ Bind(c)
        /\ ref[c][1] \in Id /\ ref[c][2] # "none" /\ byId[where[c]][ref[c][1]] = ref[c][2]
    BY <1>6 DEF PutAgain, Typed, CallsTyped
  <2>2. ref[c][1] \in Known(byId[where[c]])
    BY <2>1 DEF Known
  <2>3. disturbed \/ told' \subseteq Saved
    BY <2>1, <2>2, BindKeeps DEF FileInv, AllSaved
  <2>4. \A d \in Caller : (pc'[d] = "writing" <=> pc[d] = "writing")
                          /\ (pc[d] = "writing" => where'[d] = where[d])
    BY <2>1, BindKeeps
  <2> QED BY <1>6, <2>3, <2>4, QuietKeeps DEF PutAgain, maps
<1>7. ASSUME NEW c \in Caller, PersistFails(c) PROVE FileInv'
  BY <1>7 DEF PersistFails, FileInv
<1>8. ASSUME NEW p \in Movable, Delete(p) \/ Mount(p) PROVE FileInv'
  BY <1>8, QuietKeeps DEF Delete, Mount, maps, calls, FileInv, AllSaved
<1>9. CASE UNCHANGED vars
  BY <1>9, QuietKeeps DEF vars, maps, calls, FileInv, AllSaved
<1> QED BY <1>1, <1>2, <1>3, <1>4, <1>5, <1>6, <1>7, <1>8, <1>9 DEF Next

LEMMA FileNext == Typed /\ WriterKnows /\ FileInv /\ [Next]_vars => FileInv'
BY FileLoad, FileExit, FilePut, FilePersist, FileQuiet

LEMMA FileInit == Init => FileInv /\ WriterKnows
<1> SUFFICES ASSUME Init PROVE FileInv /\ WriterKnows
  OBVIOUS
<1>1. OneWriter /\ WriterKnows
  BY DEF Init, OneWriter, WriterKnows
<1>2. AllSaved /\ FreshSaved
  BY DEF Init, AllSaved, FreshSaved
<1> QED BY <1>1, <1>2 DEF FileInv

\* An id that a call returned outlives the process that returned it, unless one
\* of the accidents happened.
THEOREM RegisteredIsSaved == Spec => []RegisteredSurvives
<1>1. FileInv => RegisteredSurvives
  BY DEF FileInv, AllSaved, RegisteredSurvives
<1> QED BY <1>1, TypedInit, TypedNext, WriterNext, FileInit, FileNext, PTL DEF Spec

\* A process that has read the file after every other's writes knows exactly
\* what the file holds.
THEOREM FreshMapExact == Spec => []FreshMapIsFile
<1>1. FileInv => FreshMapIsFile
  BY DEF FileInv, FreshSaved, FreshMapIsFile
<1> QED BY <1>1, TypedInit, TypedNext, WriterNext, FileInit, FileNext, PTL DEF Spec

(* Several servers answer alike: an id that any call of any of them has    *)
(* returned is known to every process that has read the file after the     *)
(* others' writes, unless one of the accidents happened (identity.py 367). *)
THEOREM ReturnedIdsAreKnown ==
  Spec => [](~disturbed => \A P \in loaded \ stale : told \subseteq Known(byId[P]))
<1>1. RegisteredSurvives /\ FreshMapIsFile
      => (~disturbed => \A P \in loaded \ stale : told \subseteq Known(byId[P]))
  BY DEF RegisteredSurvives, FreshMapIsFile
<1> QED BY <1>1, RegisteredIsSaved, FreshMapExact, PTL
=============================================================================
