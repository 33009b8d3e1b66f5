--------------------------- MODULE CodemapService ---------------------------
(***************************************************************************)
(* The service plane (service/control.py, query.py, runtime.py) over one   *)
(* operator directory and architecture: index, update and query calls on   *)
(* the threads of one server process, the gate of service/locks.py, the    *)
(* building/blocked flags of runtime.py, and the product file on disk with *)
(* the steps of its replacement (engine/store/writer.py).                  *)
(*                                                                         *)
(* The gate is taken at the grain SnapshotLocks is proved to provide: its  *)
(* flag is set while a thread is draining or in the body, and its readers  *)
(* are the threads in a query, so neither is a variable here.              *)
(*                                                                         *)
(* A CodeMap id is computed from the operator's name, and that name comes  *)
(* from the directory while there is no product and from the product once  *)
(* there is one.  SameName says whether the two agree.                     *)
(***************************************************************************)
EXTENDS Integers, FiniteSets

CONSTANTS Threads,    \* threads that run service calls
          SameName,   \* the directory is named after the operator
          DiskFails,  \* the file system may refuse an unlink or a replace
          MaxHead,    \* bound: source revisions that are checked out
          MaxCalls,   \* bound: calls made in a behaviour
          MaxCrashes  \* bound: restarts of the server

ASSUME FlagsBoolean == SameName \in BOOLEAN /\ DiskFails \in BOOLEAN
ASSUME BoundsNat == MaxHead \in Nat /\ MaxCalls \in Nat /\ MaxCrashes \in Nat

VARIABLES head,      \* git HEAD of the operator's sources
          product,   \* the .uo file
          tmp,       \* the .uo.tmp file next to it
          built,     \* products written so far, names their versions
          last,      \* history: the version that replaced the .uo last
          building,  \* runtime._BUILDING
          blocked,   \* runtime._BLOCKED
          pc,        \* pc[t]: where thread t is
          op,        \* op[t]: the tool t runs
          gate,      \* gate[t]: the id whose gate t uses
          ref,       \* ref[t]: the id t is bound to
          stop,      \* stop[t]: the client cancelled (should_stop)
          failed,    \* failed[t]: an update action of t failed
          mine,      \* history: the version t itself published, 0 if none
          snap,      \* snap[t]: the product t's query read its meta from
          ans,       \* ans[t]: the answer t is about to return
          calls, crashes

disk == <<product, tmp, built, last>>
flags == <<building, blocked>>
call == <<op, gate, stop>>
bounds == <<calls, crashes>>
vars == <<head, disk, flags, pc, call, ref, failed, mine, snap, ans, bounds>>

Ids == {"dir", "op"}
Ops == {"index", "update", "query"}

Products == [ver : Nat, rev : Nat, stamped : BOOLEAN]
NoProduct == [ver |-> 0, rev |-> 0, stamped |-> FALSE]

Pipeline == {"prepare", "extract", "analyze", "commit"}
Publishing == {"swap", "replace", "stamp"}
Body == {"begin", "plan", "finish"} \cup Pipeline \cup Publishing
Holding == Body \cup {"drain"}
Reading == {"meta", "rows"}
Locations == {"idle", "bound", "queue", "answered"} \cup Holding \cup Reading

States == {"none", "building", "completed", "failed", "cancelled",
           "needs_confirmation", "not_indexed", "rows", "error"}
Freshness == {"building", "blocked", "unknown", "fresh", "stale"}

Answers == [state : States, updated : BOOLEAN, freshness : Freshness,
            snapshot : Products, rows : Products]

Envelope(state, updated, freshness) ==
  [state |-> state, updated |-> updated, freshness |-> freshness,
   snapshot |-> NoProduct, rows |-> NoProduct]

NoAnswer == Envelope("none", FALSE, "unknown")

TypeOK ==
  /\ head \in Nat
  /\ product \in Products
  /\ tmp \in Products
  /\ built \in Nat
  /\ last \in Nat
  /\ building \subseteq Ids
  /\ blocked \subseteq Ids
  /\ pc \in [Threads -> Locations]
  /\ op \in [Threads -> Ops]
  /\ gate \in [Threads -> Ids]
  /\ ref \in [Threads -> Ids]
  /\ stop \in [Threads -> BOOLEAN]
  /\ failed \in [Threads -> BOOLEAN]
  /\ mine \in [Threads -> Nat]
  /\ snap \in [Threads -> Products]
  /\ ans \in [Threads -> Answers]
  /\ calls \in Nat
  /\ crashes \in Nat

Init ==
  /\ head = 1
  /\ product = NoProduct
  /\ tmp = NoProduct
  /\ built = 0
  /\ last = 0
  /\ building = {}
  /\ blocked = {}
  /\ pc = [t \in Threads |-> "idle"]
  /\ op = [t \in Threads |-> "query"]
  /\ gate = [t \in Threads |-> "dir"]
  /\ ref = [t \in Threads |-> "dir"]
  /\ stop = [t \in Threads |-> FALSE]
  /\ failed = [t \in Threads |-> FALSE]
  /\ mine = [t \in Threads |-> 0]
  /\ snap = [t \in Threads |-> NoProduct]
  /\ ans = [t \in Threads |-> NoAnswer]
  /\ calls = 0
  /\ crashes = 0

-----------------------------------------------------------------------------
Goto(t, loc) == pc' = [pc EXCEPT ![t] = loc]

Answer(t, state, updated, freshness) ==
  /\ ans' = [ans EXCEPT ![t] = Envelope(state, updated, freshness)]
  /\ Goto(t, "answered")

\* bind(): the product's own op_name wins over the directory's name.
BoundId == IF SameName \/ product # NoProduct THEN "op" ELSE "dir"

IsWriting(id) == \E t \in Threads : gate[t] = id /\ pc[t] \in Holding

IsBuilding(id) == id \in building \/ IsWriting(id)

\* freshness.compute() over the product on disk, with the git probe exact.
SourceFreshness == CASE product = NoProduct -> "unknown"
                     [] product # NoProduct /\ product.rev = head -> "fresh"
                     [] OTHER -> "stale"

FreshnessNow(isBuilding, isBlocked) ==
  CASE isBuilding -> "building"
    [] ~isBuilding /\ isBlocked -> "blocked"
    [] OTHER -> SourceFreshness

(* control._freshness_for in an answer: after the flags were changed, while *)
(* the gate is still held.                                                 *)
FreshnessFor(id) == FreshnessNow(id \in building' \/ IsWriting(id), id \in blocked')

-----------------------------------------------------------------------------
(* A call arrives and binds its CodeMap.  update and query require a       *)
(* product (resolve with require_indexed) before they look at the flags.   *)
Start(t, o) ==
  /\ pc[t] = "idle"
  /\ calls < MaxCalls
  /\ calls' = calls + 1
  /\ op' = [op EXCEPT ![t] = o]
  /\ gate' = [gate EXCEPT ![t] = BoundId]
  /\ ref' = [ref EXCEPT ![t] = BoundId]
  /\ \/ /\ o # "index" /\ product = NoProduct
        /\ Answer(t, "not_indexed", FALSE, "unknown")
     \/ /\ o = "index" \/ product # NoProduct
        /\ Goto(t, "bound")
        /\ UNCHANGED ans
  /\ UNCHANGED <<head, disk, flags, stop, failed, mine, snap, crashes>>

(* The call's locals go with it; the ids are set again by the next call.   *)
Return(t) ==
  /\ pc[t] = "answered"
  /\ Goto(t, "idle")
  /\ op' = [op EXCEPT ![t] = "query"]
  /\ gate' = [gate EXCEPT ![t] = "dir"]
  /\ ref' = [ref EXCEPT ![t] = "dir"]
  /\ stop' = [stop EXCEPT ![t] = FALSE]
  /\ failed' = [failed EXCEPT ![t] = FALSE]
  /\ mine' = [mine EXCEPT ![t] = 0]
  /\ ans' = [ans EXCEPT ![t] = NoAnswer]
  /\ UNCHANGED <<head, disk, flags, snap, bounds>>

(* The client gives up on a running index or update.                       *)
Cancel(t) ==
  /\ op[t] \in {"index", "update"}
  /\ pc[t] \notin {"idle", "answered"}
  /\ stop' = [stop EXCEPT ![t] = TRUE]
  /\ UNCHANGED <<head, disk, flags, pc, op, gate, ref, failed, mine, snap, ans, bounds>>

-----------------------------------------------------------------------------
(* Queries: enter the gate or answer building, read the meta table (the    *)
(* snapshot id), then open the graph and read rows.                        *)
EnterQuery(t) ==
  /\ pc[t] = "bound" /\ op[t] = "query"
  /\ IF IsBuilding(gate[t])
     THEN Answer(t, "building", FALSE, "building")
     ELSE Goto(t, "meta") /\ UNCHANGED ans
  /\ UNCHANGED <<head, disk, flags, call, ref, failed, mine, snap, bounds>>

ReadMeta(t) ==
  /\ pc[t] = "meta"
  /\ IF product = NoProduct
     THEN Answer(t, "not_indexed", FALSE, "unknown") /\ UNCHANGED snap
     ELSE /\ snap' = [snap EXCEPT ![t] = product]
          /\ Goto(t, "rows")
          /\ UNCHANGED ans
  /\ UNCHANGED <<head, disk, flags, call, ref, failed, mine, bounds>>

ReadRows(t) ==
  /\ pc[t] = "rows"
  /\ IF product = NoProduct
     THEN Answer(t, "error", FALSE, "unknown")
     ELSE /\ ans' = [ans EXCEPT ![t] =
                       [state |-> "rows", updated |-> FALSE,
                        freshness |-> FreshnessNow(FALSE, ref[t] \in blocked),
                        snapshot |-> snap[t], rows |-> product]]
          /\ Goto(t, "answered")
  /\ snap' = [snap EXCEPT ![t] = NoProduct]
  /\ UNCHANGED <<head, disk, flags, call, ref, failed, mine, bounds>>

-----------------------------------------------------------------------------
(* Builders: answer building or queue for the gate, set its flag, drain.   *)
AdmitBuilder(t) ==
  /\ pc[t] = "bound" /\ op[t] # "query"
  /\ IF IsBuilding(gate[t])
     THEN Answer(t, "building", FALSE, "building")
     ELSE Goto(t, "queue") /\ UNCHANGED ans
  /\ UNCHANGED <<head, disk, flags, call, ref, failed, mine, snap, bounds>>

\* Mutant: the flag is not waited for.
GateAlwaysFree(t) == TRUE

GateFree(t) == ~IsWriting(gate[t])

Claim(t) ==
  /\ pc[t] = "queue"
  /\ GateFree(t)
  /\ Goto(t, "drain")
  /\ UNCHANGED <<head, disk, flags, call, ref, failed, mine, snap, ans, bounds>>

\* Mutant: readers in flight are not drained.
NotDrained(t) == TRUE

\* Mutant: the drain waits for the writers behind it as well.
DrainedOfAll(t) ==
  \A u \in Threads : gate[u] = gate[t] => pc[u] \notin Reading \cup {"queue"}

Drained(t) == \A u \in Threads : gate[u] = gate[t] => pc[u] \notin Reading

Enter(t) ==
  /\ pc[t] = "drain"
  /\ Drained(t)
  /\ Goto(t, "begin")
  /\ UNCHANGED <<head, disk, flags, call, ref, failed, mine, snap, ans, bounds>>

(* index_operator once inside: bind again, stop if a product turned up.    *)
\* Mutant: the look at the product from inside the gate is missing.
NeverIndexed == FALSE

AlreadyIndexed == product # NoProduct

BeginIndex(t) ==
  /\ pc[t] = "begin" /\ op[t] = "index"
  /\ ref' = [ref EXCEPT ![t] = BoundId]
  /\ IF AlreadyIndexed
     THEN /\ Answer(t, "completed", FALSE, FreshnessNow(FALSE, BoundId \in blocked))
          /\ UNCHANGED building
     ELSE /\ building' = building \cup {BoundId}
          /\ Goto(t, "prepare")
          /\ UNCHANGED ans
  /\ UNCHANGED <<head, disk, blocked, call, failed, mine, snap, bounds>>

(* update_operator once inside: the flag is set under the id the call came *)
(* with; the id bound again is the one it is cleared under.                *)
BeginUpdate(t) ==
  /\ pc[t] = "begin" /\ op[t] = "update"
  /\ ref' = [ref EXCEPT ![t] = BoundId]
  /\ LET marked == building \cup {gate[t]}
     IN IF stop[t]
        THEN /\ building' = marked \ {BoundId}
             /\ Answer(t, "cancelled", FALSE, "unknown")
        ELSE IF FreshnessNow(FALSE, BoundId \in blocked) = "fresh"
        THEN /\ building' = marked \ {BoundId}
             /\ Answer(t, "completed", FALSE, "fresh")
        ELSE /\ building' = marked
             /\ Goto(t, "plan")
             /\ UNCHANGED ans
  /\ UNCHANGED <<head, disk, blocked, call, failed, mine, snap, bounds>>

\* Mutant: a cancelled call leaves its flag behind.
ClearUnlessStopped(t) == building' = IF stop[t] THEN building ELSE building \ {ref[t]}

ClearBuilding(t) == building' = building \ {ref[t]}

Cancelled(t) ==
  /\ ClearBuilding(t)
  /\ Answer(t, "cancelled", FALSE, "unknown")
  /\ UNCHANGED <<head, disk, blocked, call, ref, failed, mine, snap, bounds>>

(* apply.update_operator up to the rebuild: it raises without a product,   *)
(* blocks on changes out of scope, finds nothing to do, or picks actions.  *)
PlanUpdate(t) ==
  /\ pc[t] = "plan"
  /\ ~stop[t]
  /\ \/ /\ product = NoProduct
        /\ ClearBuilding(t)
        /\ Answer(t, "failed", FALSE, "unknown")
        /\ UNCHANGED blocked
     \/ /\ product # NoProduct
        /\ ClearBuilding(t)
        /\ blocked' = blocked \cup {ref[t]}
        /\ Answer(t, "needs_confirmation", FALSE, FreshnessFor(ref[t]))
     \/ /\ product # NoProduct
        /\ ClearBuilding(t)
        /\ blocked' = blocked \ {ref[t]}
        /\ Answer(t, "completed", FALSE, FreshnessFor(BoundId))
     \/ /\ product # NoProduct
        /\ \E first \in {"extract", "analyze"} : Goto(t, first)
        /\ UNCHANGED <<flags, ans>>
  /\ UNCHANGED <<head, disk, call, ref, failed, mine, snap, bounds>>

-----------------------------------------------------------------------------
(* The steps both share: prepare, extract, analyze, commit, each preceded  *)
(* by a look at should_stop.  A failed step ends an index; an update goes  *)
(* on with the next action and fails at the end.                           *)
NextStep == [prepare |-> "extract", extract |-> "analyze", analyze |-> "commit",
             commit |-> "swap", swap |-> "replace", replace |-> "stamp"]

Halt(t) ==
  /\ pc[t] \in {"plan"} \cup Pipeline
  /\ stop[t]
  /\ Cancelled(t)

\* Mutant: the update forgets that an action failed.
StepFailsUnnoticed(t) ==
  /\ Goto(t, IF pc[t] \in {"extract", "analyze"} THEN NextStep[pc[t]] ELSE "finish")
  /\ UNCHANGED <<building, failed, ans>>

StepFails(t) ==
  \/ /\ op[t] = "index"
     /\ ClearBuilding(t)
     /\ Answer(t, "failed", FALSE, "unknown")
     /\ UNCHANGED failed
  \/ /\ op[t] = "update"
     /\ failed' = [failed EXCEPT ![t] = TRUE]
     /\ Goto(t, IF pc[t] \in {"extract", "analyze"} THEN NextStep[pc[t]] ELSE "finish")
     /\ UNCHANGED <<building, ans>>

Work(t) ==
  /\ pc[t] \in {"prepare", "extract", "analyze"}
  /\ ~stop[t]
  /\ \/ Goto(t, NextStep[pc[t]]) /\ UNCHANGED <<building, failed, ans>>
     \/ StepFails(t)
  /\ UNCHANGED <<head, disk, blocked, call, ref, mine, snap, bounds>>

(* commit: read HEAD, write the graph to the .tmp file.                    *)
Commit(t) ==
  /\ pc[t] = "commit"
  /\ ~stop[t]
  /\ \/ /\ built' = built + 1
        /\ tmp' = [ver |-> built + 1, rev |-> head, stamped |-> FALSE]
        /\ Goto(t, "swap")
        /\ UNCHANGED <<building, failed, ans>>
     \/ StepFails(t) /\ UNCHANGED <<built, tmp>>
  /\ UNCHANGED <<head, product, last, blocked, call, ref, mine, snap, bounds>>

(* if dest.exists(): dest.unlink()                                         *)
Unlink(t) ==
  /\ pc[t] = "swap"
  /\ \/ product' = NoProduct /\ Goto(t, "replace") /\ UNCHANGED <<building, failed, ans>>
     \/ DiskFails /\ product # NoProduct /\ StepFails(t) /\ UNCHANGED product
  /\ UNCHANGED <<head, tmp, built, last, blocked, call, ref, mine, snap, bounds>>

(* tmp.replace(dest)                                                       *)
Replace(t) ==
  /\ pc[t] = "replace"
  /\ \/ /\ tmp # NoProduct
        /\ product' = tmp
        /\ tmp' = NoProduct
        /\ last' = tmp.ver
        /\ mine' = [mine EXCEPT ![t] = tmp.ver]
        /\ Goto(t, "stamp")
        /\ UNCHANGED <<building, failed, ans>>
     \/ /\ DiskFails \/ tmp = NoProduct
        /\ StepFails(t)
        /\ UNCHANGED <<product, tmp, last, mine>>
  /\ UNCHANGED <<head, built, blocked, call, ref, snap, bounds>>

(* _stamp_completeness: the analyze verdict goes into the product's meta   *)
(* table in place; whatever goes wrong there is swallowed.                 *)
Stamp(t) ==
  /\ pc[t] = "stamp"
  /\ \/ product # NoProduct /\ product' = [product EXCEPT !.stamped = TRUE]
     \/ UNCHANGED product
  /\ Goto(t, "finish")
  /\ UNCHANGED <<head, tmp, built, last, flags, call, ref, failed, mine, snap, ans, bounds>>

(* The answers, given while the gate is still held.                        *)
FinishIndex(t) ==
  /\ pc[t] = "finish" /\ op[t] = "index"
  /\ ClearBuilding(t)
  /\ blocked' = blocked \ {BoundId}
  /\ Answer(t, "completed", TRUE, FreshnessFor(BoundId))
  /\ UNCHANGED <<head, disk, call, ref, failed, mine, snap, bounds>>

FinishUpdate(t) ==
  /\ pc[t] = "finish" /\ op[t] = "update"
  /\ ClearBuilding(t)
  /\ \/ /\ failed[t]
        /\ blocked' = blocked \ {ref[t]}
        /\ Answer(t, "failed", FALSE, "unknown")
     \/ /\ ~failed[t] /\ stop[t]
        /\ Answer(t, "cancelled", FALSE, "unknown")
        /\ UNCHANGED blocked
     \/ /\ ~failed[t] /\ ~stop[t]
        /\ blocked' = blocked \ {ref[t]}
        /\ Answer(t, "completed", TRUE, FreshnessFor(BoundId))
  /\ UNCHANGED <<head, disk, call, ref, failed, mine, snap, bounds>>

-----------------------------------------------------------------------------
(* The world: somebody checks out another revision; the server dies and    *)
(* starts again with only the disk.                                        *)
Checkout ==
  /\ \E h \in 1..MaxHead : h # head /\ head' = h
  /\ UNCHANGED <<disk, flags, pc, call, ref, failed, mine, snap, ans, bounds>>

Crash ==
  /\ crashes < MaxCrashes
  /\ crashes' = crashes + 1
  /\ building' = {}
  /\ blocked' = {}
  /\ pc' = [t \in Threads |-> "idle"]
  /\ snap' = [t \in Threads |-> NoProduct]
  /\ ans' = [t \in Threads |-> NoAnswer]
  /\ mine' = [t \in Threads |-> 0]
  /\ failed' = [t \in Threads |-> FALSE]
  /\ stop' = [t \in Threads |-> FALSE]
  /\ op' = [t \in Threads |-> "query"]
  /\ gate' = [t \in Threads |-> "dir"]
  /\ ref' = [t \in Threads |-> "dir"]
  /\ UNCHANGED <<head, disk, calls>>

QueryStep(t) == EnterQuery(t) \/ ReadMeta(t) \/ ReadRows(t)

BuilderStep(t) ==
  \/ AdmitBuilder(t) \/ Claim(t) \/ Enter(t)
  \/ BeginIndex(t) \/ BeginUpdate(t) \/ PlanUpdate(t)
  \/ Halt(t) \/ Work(t) \/ Commit(t) \/ Unlink(t) \/ Replace(t) \/ Stamp(t)
  \/ FinishIndex(t) \/ FinishUpdate(t)

Next == \/ \E t \in Threads : \/ \E o \in Ops : Start(t, o)
                              \/ Return(t) \/ Cancel(t)
                              \/ QueryStep(t) \/ BuilderStep(t)
        \/ Checkout
        \/ Crash

Spec == Init /\ [][Next]_vars

(* A thread inside a call is scheduled and every engine step returns.      *)
(* Nothing says that calls arrive, are cancelled, or that HEAD moves.      *)
Fairness == \A t \in Threads : WF_vars(Return(t) \/ QueryStep(t) \/ BuilderStep(t))

FairSpec == Spec /\ Fairness

-----------------------------------------------------------------------------
(* A query's snapshot id and its rows come from one and the same product   *)
(* (locks.py:2, "queries never read a half-built .uo").                    *)
QueryConsistent ==
  \A t \in Threads : ans[t].state = "rows" => ans[t].snapshot = ans[t].rows

(* A query let through the gate never finds the product taken away under   *)
(* it, between reading the meta table and opening the graph.               *)
QueryFindsProduct == \A t \in Threads : ans[t].state # "error"

(* One builder at a time works on a CodeMap, whichever ids the callers are *)
(* bound to.                                                               *)
OneBuilder == \A t, u \in Threads : pc[t] \in Body /\ pc[u] \in Body => t = u

(* The building flag is up only while some call is rebuilding that very    *)
(* CodeMap: an id left marked answers freshness=building for ever          *)
(* (skills/index-operator/SKILL.md:24, "until it finishes").               *)
BuildingFlagOwned ==
  \A id \in building : \E t \in Threads : ref[t] = id /\ pc[t] \in Body

(* An index never runs over a product that is there already, even one that *)
(* was published while it waited for the gate (README.md:111).             *)
IndexOnlyWhenMissing ==
  \A t \in Threads :
     (op[t] = "index" /\ pc[t] \in Pipeline \cup {"swap", "replace"}) => product = NoProduct

(* updated=true says that this very call published a product, and between  *)
(* the replace and the answer the product is the one it published.         *)
UpdatedMeansPublished ==
  \A t \in Threads :
     /\ ans[t].updated => mine[t] > 0 /\ mine[t] <= last
     /\ pc[t] \in {"stamp", "finish"} /\ mine[t] > 0 => product.ver = mine[t]

(* Without a crash or a disk error a published product stays: it is away   *)
(* only between the unlink and the replace of a commit.                    *)
ProductSurvives ==
  last > 0 /\ product = NoProduct => \E t \in Threads : pc[t] = "replace"

(* What is left where ids differ, and through crashes and disk errors: the *)
(* product is the one published last, no query is answered from an older   *)
(* one than its snapshot id says, and nobody who asks later from an older  *)
(* one than an answer that is out.                                         *)
AnswersInOrder ==
  /\ product # NoProduct => product.ver = last
  /\ \A t \in Threads : ans[t].snapshot.ver <= ans[t].rows.ver /\ ans[t].rows.ver <= last

PublishedInOrder == [][last' >= last]_vars

Atomic == INSTANCE AtomicProduct
            WITH Nothing <- NoProduct,
                 store   <- product,
                 readers <- {t \in Threads : pc[t] \in Reading},
                 got     <- [t \in Threads |-> ans[t].rows]

(* Whatever happens to the file, the gates and the flags, the service is   *)
(* one product that changes only between queries and never goes back.      *)
ImplementsAtomicProduct == Atomic!Spec

Using(id, locations) == {t \in Threads : gate[t] = id /\ pc[t] \in locations}

Access == INSTANCE SnapshotAccess
            WITH Keys    <- Ids,
                 holders <- [id \in Ids |-> Using(id, Reading)],
                 owner   <- [id \in Ids |-> Using(id, Body)]

(* The looks of queries and builders at each other, through the flag and   *)
(* the gate, keep each id's gate to one builder or any number of queries   *)
(* (locks.py:20), even while the ids of one CodeMap differ.                *)
ImplementsAccess == Access!Spec

(* Every call comes back, with finitely many calls around: an index or     *)
(* update gets the gate and runs to its end, a query never waits.          *)
CallReturns == \A t \in Threads : pc[t] # "idle" ~> pc[t] = "idle"

(* Whatever way a build ends, its CodeMap does not stay marked as building.*)
BuildingEnds == building # {} ~> building = {}

-----------------------------------------------------------------------------
(* What the documents say of the program, and the code does not keep.      *)

(* README.md:112 and skills/index-operator/SKILL.md:24: while a CodeMap is *)
(* being built, queries against it are answered freshness=building.        *)
BuildingIsAnswered ==
  [][\A t \in Threads :
       (ans[t].state = "none" /\ ans'[t].state = "not_indexed")
         => \A u \in Threads : pc[u] \notin Body]_vars

(* README.md:105 lists building as a freshness of its own, next to fresh   *)
(* and blocked; a call that is done does not report its CodeMap building.  *)
DoneIsNotBuilding ==
  \A t \in Threads :
     ans[t].state \in {"completed", "needs_confirmation"} => ans[t].freshness # "building"
=============================================================================
