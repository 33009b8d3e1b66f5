------------------------------ MODULE Registry -----------------------------
(* service/identity.py: the ids under which server processes know operator  *)
(* directories, and the file registry.json they share.  A process reads the *)
(* file once, at its first use, and rewrites it whole from its own map at   *)
(* every put that changes the map.  write_text first empties the file.      *)
EXTENDS Naturals, FiniteSets

CONSTANTS Process,
          Caller,             \* calls of tools, each running in one process
          Project, Name,
          Movable,            \* projects whose directory or product may go
          MaxEvents,          \* bound: starts, calls and moves together
          DirName, MetaName,  \* name of a directory, and of the product in it
          None

ASSUME NameAssumption == /\ DirName \in [Project -> Name] /\ MetaName \in [Project -> Name]
                         /\ Movable \subseteq Project
ASSUME NoneAssumption == None \notin Process /\ None \notin Project \X Name

Id == Project \X Name                       \* p:<workspace>::op@arch
Known(map) == {i \in Id : map[i] # "none"}  \* "bare" is a ref without product
NoRef == [i \in Id |-> "none"]

VARIABLES exists, product,  \* of each project: the directory, a product in it
          file, rows,       \* registry.json, and the rows that can be read from it
          up, loaded,       \* processes; those that have read the file
          byId, alias,      \* Registry._by_id and _alias of each process
          pc, where, job, indexing, ref, \* calls
          told,             \* history: ids that calls have returned
          stale,            \* history: processes whose map is older than the file
          disturbed,        \* history: an accident happened to the file
          events            \* bound: starts, calls and moves so far

disk == <<exists, product>>
calls == <<pc, where, job, indexing, ref>>
maps == <<up, loaded, byId, alias>>
vars == <<disk, file, rows, maps, calls, told, stale, disturbed, events>>

Init ==
    /\ exists = [p \in Project |-> TRUE] /\ product \in [Project -> BOOLEAN]
    /\ file = "absent" /\ rows = NoRef
    /\ up = {} /\ loaded = {}
    /\ byId = [P \in Process |-> NoRef] /\ alias = [P \in Process |-> [n \in Name |-> {}]]
    /\ pc = [c \in Caller |-> "idle"] /\ where = [c \in Caller |-> None]
    /\ job = [c \in Caller |-> None] /\ indexing = [c \in Caller |-> FALSE]
    /\ ref = [c \in Caller |-> <<None, "none">>]
    /\ told = {} /\ stale = {} /\ disturbed = FALSE /\ events = 0

Event == events < MaxEvents /\ events' = events + 1

HasProduct(p) == exists[p] /\ product[p]
Writing(P) == \E c \in Caller : pc[c] = "writing" /\ where[c] = P \* holds _lock

----------------------------------------------------------------------------
(* Processes and the file *)

Start(P) ==
    /\ P \notin up
    /\ up' = up \cup {P}
    /\ Event /\ UNCHANGED <<disk, file, rows, loaded, byId, alias, calls, told, stale, disturbed>>

\* Mutant: a row without a product is dropped.
RestoredIndexed(i) == IF rows[i] = "indexed" /\ HasProduct(i[1]) THEN "indexed" ELSE "none"
\* A row comes back when its directory is there; its product only if it was
\* recorded and still is.
Restored(i) == IF rows[i] = "none" \/ ~exists[i[1]] THEN "none"
               ELSE IF rows[i] = "indexed" /\ product[i[1]] THEN "indexed" ELSE "bare"

\* A missing or undecodable file is read as an empty one.
Load(P) ==
    /\ P \in up \ loaded
    /\ loaded' = loaded \cup {P}
    /\ byId' = [byId EXCEPT ![P] = [i \in Id |-> Restored(i)]]
    /\ alias' = [alias EXCEPT ![P] = [n \in Name |-> {p \in Project : byId'[P][<<p, n>>] # "none"}]]
    /\ disturbed' = (disturbed \/ file \in {"empty", "garbled"}
                     \/ \E i \in Id : rows[i] # "none" /\ ~exists[i[1]])
    /\ UNCHANGED <<disk, file, rows, up, calls, told, stale, events>>

\* The process ends, perhaps in the middle of a write.
Exit(P) ==
    /\ P \in up
    /\ up' = up \ {P} /\ loaded' = loaded \ {P}
    /\ byId' = [byId EXCEPT ![P] = NoRef]
    /\ alias' = [alias EXCEPT ![P] = [n \in Name |-> {}]]
    /\ pc' = [c \in Caller |-> IF where[c] = P THEN "idle" ELSE pc[c]]
    /\ where' = [c \in Caller |-> IF where[c] = P THEN None ELSE where[c]]
    /\ job' = [c \in Caller |-> IF where[c] = P THEN None ELSE job[c]]
    /\ indexing' = [c \in Caller |-> indexing[c] /\ where[c] # P]
    /\ ref' = [c \in Caller |-> IF where[c] = P THEN <<None, "none">> ELSE ref[c]]
    /\ stale' = stale \ {P}
    /\ disturbed' = (disturbed \/ Writing(P))
    /\ UNCHANGED <<disk, file, rows, told, events>>

----------------------------------------------------------------------------
(* bind: find the product, then put the ref *)

Bound(p) == IF HasProduct(p) THEN <<<<p, MetaName[p]>>, "indexed">>
            ELSE <<<<p, DirName[p]>>, "bare">>

Begin(c, P, p, idx) ==
    /\ pc[c] = "idle" /\ P \in up
    /\ idx => exists[p]
    /\ pc' = [pc EXCEPT ![c] = "found"] /\ where' = [where EXCEPT ![c] = P]
    /\ job' = [job EXCEPT ![c] = p] /\ indexing' = [indexing EXCEPT ![c] = idx]
    /\ ref' = [ref EXCEPT ![c] = Bound(p)]
    /\ Event /\ UNCHANGED <<disk, file, rows, maps, told, stale, disturbed>>

Return(c) ==
    /\ pc' = [pc EXCEPT ![c] = "idle"] /\ where' = [where EXCEPT ![c] = None]
    /\ job' = [job EXCEPT ![c] = None] /\ indexing' = [indexing EXCEPT ![c] = FALSE]
    /\ ref' = [ref EXCEPT ![c] = <<None, "none">>]

\* index goes on to build and binds again after it; any other call returns.
Bind(c) ==
    IF indexing[c]
    THEN pc' = [pc EXCEPT ![c] = "build"] /\ UNCHANGED <<where, job, indexing, ref, told>>
    ELSE Return(c) /\ told' = told \cup {ref[c][1]}

\* The same ref again: nothing is written.
PutAgain(c) ==
    LET P == where[c] IN
    /\ pc[c] = "found" /\ P \in loaded /\ ~Writing(P)
    /\ byId[P][ref[c][1]] = ref[c][2]
    /\ Bind(c)
    /\ UNCHANGED <<disk, file, rows, maps, stale, disturbed, events>>

\* Mutant: the newest project takes the alias over.
TakesOver(projects, p) == {p}
Listed(projects, p) == projects \cup {p}

Put(c) ==
    LET P == where[c]
        i == ref[c][1] IN
    /\ pc[c] = "found" /\ P \in loaded /\ ~Writing(P)
    /\ byId[P][i] # ref[c][2]
    /\ byId' = [byId EXCEPT ![P][i] = ref[c][2]]
    /\ alias' = [alias EXCEPT ![P][i[2]] = Listed(@, i[1])]
    /\ pc' = [pc EXCEPT ![c] = "writing"]
    /\ file' = "empty" /\ rows' = NoRef
    /\ stale' = stale \cup (loaded \ {P})
    /\ disturbed' = (disturbed \/ P \in stale)
    /\ UNCHANGED <<disk, up, loaded, where, job, indexing, ref, told, events>>

\* Mutant: only refs that have a product are written.
PersistIndexed(c) ==
    LET P == where[c] IN
    /\ pc[c] = "writing"
    /\ file' \in IF file = "empty" THEN {"whole"} ELSE {"whole", "garbled"}
    /\ rows' = [i \in Id |-> IF byId[P][i] = "indexed" THEN "indexed" ELSE "none"]
    /\ Bind(c)
    /\ UNCHANGED <<disk, maps, stale, disturbed, events>>

\* Over an empty file the text is whole; of longer text that another process
\* wrote meanwhile the end is left behind.
Persist(c) ==
    LET P == where[c] IN
    /\ pc[c] = "writing"
    /\ file' \in IF file = "empty" THEN {"whole"} ELSE {"whole", "garbled"}
    /\ rows' = IF file' = "whole" THEN byId[P] ELSE NoRef
    /\ Bind(c)
    /\ UNCHANGED <<disk, maps, stale, disturbed, events>>

\* The file system refuses; _persist_unlocked returns as if it had written.
PersistFails(c) ==
    /\ pc[c] = "writing"
    /\ Bind(c)
    /\ disturbed' = TRUE
    /\ UNCHANGED <<disk, file, rows, maps, stale, events>>

Build(c) ==
    /\ pc[c] = "build" /\ exists[job[c]]
    /\ product' = [product EXCEPT ![job[c]] = TRUE]
    /\ pc' = [pc EXCEPT ![c] = "bind"] /\ indexing' = [indexing EXCEPT ![c] = FALSE]
    /\ UNCHANGED <<exists, file, rows, maps, where, job, ref, told, stale, disturbed, events>>

FindAgain(c) ==
    /\ pc[c] = "bind"
    /\ pc' = [pc EXCEPT ![c] = "found"]
    /\ ref' = [ref EXCEPT ![c] = Bound(job[c])]
    /\ UNCHANGED <<disk, file, rows, maps, where, job, indexing, told, stale, disturbed, events>>

BuildFails(c) ==
    /\ pc[c] = "build"
    /\ Return(c)
    /\ UNCHANGED <<disk, file, rows, maps, told, stale, disturbed, events>>

----------------------------------------------------------------------------
(* resolve: what an id, or an alias with or without project=, answers *)

Matches(P, n, p) ==
    LET ids == {<<q, n>> : q \in alias[P][n]}
    IN  IF Cardinality(ids) > 1 /\ p # None THEN {i \in ids : i[1] = p} ELSE ids
Usable(P, i) == byId[P][i] = "indexed" /\ HasProduct(i[1])

\* A query that answers: by id, or by an alias that is not ambiguous.
Query(P, i) ==
    /\ P \in loaded /\ ~Writing(P)
    /\ Usable(P, i)
    /\ told' = told \cup {i}
    /\ UNCHANGED <<disk, file, rows, maps, calls, stale, disturbed, events>>

QueryAlias(P, n, p) ==
    \E i \in Matches(P, n, p) : Matches(P, n, p) = {i} /\ Query(P, i)

----------------------------------------------------------------------------
(* The user *)

Delete(p) ==
    /\ product[p] /\ product' = [product EXCEPT ![p] = FALSE]
    /\ Event /\ UNCHANGED <<exists, file, rows, maps, calls, told, stale, disturbed>>

\* A work tree is moved away, or its disk is not mounted, and comes back.
Mount(p) ==
    /\ exists' = [exists EXCEPT ![p] = ~@]
    /\ Event /\ UNCHANGED <<product, file, rows, maps, calls, told, stale, disturbed>>

Next ==
    \/ \E P \in Process : \/ Start(P) \/ Load(P) \/ Exit(P)
                          \/ \E i \in Id : Query(P, i)
                          \/ \E n \in Name, p \in Project \cup {None} : QueryAlias(P, n, p)
                          \/ \E c \in Caller, p \in Project, idx \in BOOLEAN : Begin(c, P, p, idx)
    \/ \E c \in Caller : \/ FindAgain(c) \/ PutAgain(c) \/ Put(c) \/ Persist(c) \/ PersistFails(c)
                         \/ Build(c) \/ BuildFails(c)
    \/ \E p \in Movable : Delete(p) \/ Mount(p)
Spec == Init /\ [][Next]_vars
----------------------------------------------------------------------------
(* Properties *)

\* Every variable of identity.py and of its callers keeps its type.
TypeOK ==
    /\ exists \in [Project -> BOOLEAN] /\ product \in [Project -> BOOLEAN]
    /\ file \in {"absent", "empty", "garbled", "whole"}
    /\ rows \in [Id -> {"none", "bare", "indexed"}]
    /\ up \subseteq Process /\ loaded \subseteq up
    /\ byId \in [Process -> [Id -> {"none", "bare", "indexed"}]]
    /\ alias \in [Process -> [Name -> SUBSET Project]]
    /\ pc \in [Caller -> {"idle", "bind", "found", "writing", "build"}]
    /\ where \in [Caller -> Process \cup {None}]
    /\ job \in [Caller -> Project \cup {None}]
    /\ indexing \in [Caller -> BOOLEAN]
    /\ ref \in [Caller -> (Id \cup {None}) \X {"none", "bare", "indexed"}]
    /\ told \subseteq Id /\ stale \subseteq Process /\ disturbed \in BOOLEAN /\ events \in Nat

\* The alias index names exactly the projects registered under the alias, in
\* every process and however its map came about: an alias two projects share
\* is reported as ambiguous and never answered by one of them (Registry, 37).
AliasExact ==
    \A P \in Process, n \in Name :
        alias[P][n] = {p \in Project : byId[P][<<p, n>>] # "none"}

\* The ids the file holds, or is about to.
Saved == IF \E P \in Process : Writing(P)
         THEN {i \in Id : \E P \in Process : Writing(P) /\ byId[P][i] # "none"}
         ELSE Known(rows)

\* An id that a call has returned is in registry.json for the processes that
\* come after it, through restarts and through two servers side by side, unless
\* one of the accidents happened that "disturbed" counts: a process wrote that
\* had not seen another's write, one died in a write or read during one, the
\* file system refused, or a directory was away when the file was read.
RegisteredSurvives == ~disturbed => told \subseteq Saved

\* A process that has read the file after every other's writes has in its map
\* what the file has: it answers for every id the others returned.
FreshMapIsFile ==
    ~disturbed => \A P \in loaded \ stale : Known(byId[P]) = Saved

\* What tests/test_runtime.py:189 says of a call with project=: the answer is
\* that project's.
ProjectIsHonoured ==
    \A P \in loaded, n \in Name, p \in Project : \A i \in Matches(P, n, p) :
        Matches(P, n, p) = {i} /\ Usable(P, i) => i[1] = p
=============================================================================
