----------------------- MODULE CodemapService_proofs -----------------------
(***************************************************************************)
(* Proofs about CodemapService, for every set of threads and all bounds.   *)
(***************************************************************************)
EXTENDS CodemapService, TLAPS

LEMMA ProductTypes == NoProduct \in Products /\ NoAnswer \in Answers
  BY DEF NoProduct, Products, NoAnswer, Envelope, Answers, States, Freshness

LEMMA BoundIdType == BoundId \in Ids
  BY DEF BoundId, Ids

LEMMA FreshnessType ==
  ASSUME NEW b, NEW c
  PROVE  FreshnessNow(b, c) \in Freshness
  <1>1. SourceFreshness \in Freshness
    BY DEF SourceFreshness, Freshness
  <1> QED
    BY <1>1 DEF FreshnessNow, Freshness

(* What an answer does to the two variables it sets.                       *)
LEMMA AnswerTyped ==
  ASSUME NEW t \in Threads, NEW s \in States, NEW u \in BOOLEAN, NEW f \in Freshness,
         pc \in [Threads -> Locations], ans \in [Threads -> Answers],
         Answer(t, s, u, f)
  PROVE  /\ pc' \in [Threads -> Locations]
         /\ ans' \in [Threads -> Answers]
  <1>1. Envelope(s, u, f) \in Answers
    BY DEF Envelope, Answers, NoProduct, Products
  <1>2. ans' \in [Threads -> Answers]
    BY <1>1 DEF Answer
  <1>3. "answered" \in Locations
    BY DEF Locations
  <1>4. pc' \in [Threads -> Locations]
    BY <1>3 DEF Answer, Goto
  <1> QED BY <1>2, <1>4

LEMMA GotoTyped ==
  ASSUME NEW t \in Threads, NEW loc \in Locations,
         pc \in [Threads -> Locations], Goto(t, loc)
  PROVE  pc' \in [Threads -> Locations]
  BY DEF Goto

-----------------------------------------------------------------------------
(* Types.                                                                  *)
LEMMA InitTyped == Init => TypeOK
  BY ProductTypes DEF Init, TypeOK, Ids, Ops, Locations

(* Failing, halting and clearing, shared by several actions.               *)
LEMMA StepFailsTyped ==
  ASSUME TypeOK, NEW t \in Threads, StepFails(t)
  PROVE  /\ building' \subseteq Ids
         /\ pc' \in [Threads -> Locations]
         /\ failed' \in [Threads -> BOOLEAN]
         /\ ans' \in [Threads -> Answers]
  <1> USE DEF TypeOK
  <1>1. CASE op[t] = "index"
    <2>1. /\ building' = building \ {ref[t]}
          /\ Answer(t, "failed", FALSE, "unknown")
          /\ failed' = failed
      BY <1>1 DEF StepFails, ClearBuilding
    <2> QED BY <2>1, AnswerTyped DEF States, Freshness
  <1>2. CASE op[t] = "update"
    <2>1. /\ failed' = [failed EXCEPT ![t] = TRUE]
          /\ building' = building /\ ans' = ans
          /\ \E loc \in {NextStep["extract"], NextStep["analyze"], "finish"} : Goto(t, loc)
      BY <1>2 DEF StepFails
    <2>2. \A loc \in {NextStep["extract"], NextStep["analyze"], "finish"} : loc \in Locations
      BY DEF NextStep, Locations, Holding, Body, Pipeline
    <2> QED BY <2>1, <2>2, GotoTyped
  <1> QED BY <1>1, <1>2 DEF StepFails

LEMMA TypePreserved == TypeOK /\ [Next]_vars => TypeOK'
  <1> SUFFICES ASSUME TypeOK, [Next]_vars PROVE TypeOK'
    OBVIOUS
  <1> USE ProductTypes, BoundIdType, FreshnessType, AnswerTyped, GotoTyped DEF TypeOK
  <1> USE DEF disk, flags, call, bounds
  <1>1. ASSUME NEW t \in Threads, NEW o \in Ops, Start(t, o) PROVE TypeOK'
    <2>1. pc' \in [Threads -> Locations] /\ ans' \in [Threads -> Answers]
      BY <1>1 DEF Start, States, Freshness, Locations
    <2>2. op' \in [Threads -> Ops] /\ gate' \in [Threads -> Ids] /\ ref' \in [Threads -> Ids]
      BY <1>1 DEF Start
    <2> QED BY <1>1, <2>1, <2>2 DEF Start
  <1>2. ASSUME NEW t \in Threads, Return(t) PROVE TypeOK'
    BY <1>2 DEF Return, Goto, Locations, Ids, Ops
  <1>3. ASSUME NEW t \in Threads, Cancel(t) PROVE TypeOK'
    BY <1>3 DEF Cancel
  <1>4. ASSUME NEW t \in Threads, EnterQuery(t) PROVE TypeOK'
    BY <1>4 DEF EnterQuery, States, Freshness, Locations, Reading
  <1>5. ASSUME NEW t \in Threads, ReadMeta(t) PROVE TypeOK'
    BY <1>5 DEF ReadMeta, States, Freshness, Locations, Reading
  <1>6. ASSUME NEW t \in Threads, ReadRows(t) PROVE TypeOK'
    <2>1. CASE product = NoProduct
      BY <1>6, <2>1 DEF ReadRows, States, Freshness
    <2>2. CASE product # NoProduct
      <3> DEFINE row == [state |-> "rows", updated |-> FALSE,
                         freshness |-> FreshnessNow(FALSE, ref[t] \in blocked),
                         snapshot |-> snap[t], rows |-> product]
      <3>1. FreshnessNow(FALSE, ref[t] \in blocked) \in Freshness
        BY FreshnessType
      <3>2. row \in Answers
        BY <3>1 DEF Answers, States
      <3>3. ans' = [ans EXCEPT ![t] = row] /\ Goto(t, "answered")
        BY <1>6, <2>2 DEF ReadRows
      <3> HIDE DEF row
      <3>4. ans' \in [Threads -> Answers]
        BY <3>2, <3>3
      <3>5. pc' \in [Threads -> Locations]
        BY <3>3, GotoTyped DEF Locations
      <3> QED BY <1>6, <3>4, <3>5 DEF ReadRows
    <2> QED BY <2>1, <2>2
  <1>7. ASSUME NEW t \in Threads, AdmitBuilder(t) PROVE TypeOK'
    BY <1>7 DEF AdmitBuilder, States, Freshness, Locations
  <1>8. ASSUME NEW t \in Threads, Claim(t) PROVE TypeOK'
    BY <1>8 DEF Claim, Locations, Holding
  <1>9. ASSUME NEW t \in Threads, Enter(t) PROVE TypeOK'
    BY <1>9 DEF Enter, Locations, Holding, Body
  <1>10. ASSUME NEW t \in Threads, BeginIndex(t) PROVE TypeOK'
    <2>1. CASE AlreadyIndexed
      BY <1>10, <2>1 DEF BeginIndex, States
    <2>2. CASE ~AlreadyIndexed
      BY <1>10, <2>2 DEF BeginIndex, Locations, Holding, Body, Pipeline
    <2> QED BY <2>1, <2>2
  <1>11. ASSUME NEW t \in Threads, BeginUpdate(t) PROVE TypeOK'
    <2>1. ref' \in [Threads -> Ids] /\ building' \subseteq Ids
      <3>1. building' \subseteq building \cup {gate[t]}
        BY <1>11 DEF BeginUpdate
      <3>2. ref' = [ref EXCEPT ![t] = BoundId]
        BY <1>11 DEF BeginUpdate
      <3> QED BY <3>1, <3>2
    <2>2. pc' \in [Threads -> Locations] /\ ans' \in [Threads -> Answers]
      <3>1. /\ {"cancelled", "completed"} \subseteq States
            /\ {"unknown", "fresh"} \subseteq Freshness
            /\ "plan" \in Locations
        BY DEF States, Freshness, Locations, Holding, Body
      <3>2. \/ Answer(t, "cancelled", FALSE, "unknown")
            \/ Answer(t, "completed", FALSE, "fresh")
            \/ Goto(t, "plan") /\ ans' = ans
        BY <1>11 DEF BeginUpdate
      <3>3. CASE Answer(t, "cancelled", FALSE, "unknown")
        BY <3>1, <3>3
      <3>4. CASE Answer(t, "completed", FALSE, "fresh")
        BY <3>1, <3>4
      <3>5. CASE Goto(t, "plan") /\ ans' = ans
        BY <3>1, <3>5
      <3> QED BY <3>2, <3>3, <3>4, <3>5
    <2> QED BY <1>11, <2>1, <2>2 DEF BeginUpdate
  <1>12. ASSUME NEW t \in Threads, PlanUpdate(t) PROVE TypeOK'
    <2>1. building' \subseteq Ids /\ blocked' \subseteq Ids
      BY <1>12 DEF PlanUpdate, ClearBuilding
    <2>2. \A id : FreshnessFor(id) \in Freshness
      BY FreshnessType DEF FreshnessFor
    <2>3. pc' \in [Threads -> Locations] /\ ans' \in [Threads -> Answers]
      <3>1. {"extract", "analyze"} \subseteq Locations
        BY DEF Locations, Holding, Body, Pipeline
      <3>2. /\ {"failed", "needs_confirmation", "completed"} \subseteq States
            /\ "unknown" \in Freshness
        BY DEF States, Freshness
      <3> QED BY <1>12, <2>2, <3>1, <3>2 DEF PlanUpdate
    <2> QED BY <1>12, <2>1, <2>3 DEF PlanUpdate
  <1>13. ASSUME NEW t \in Threads, Halt(t) PROVE TypeOK'
    BY <1>13 DEF Halt, Cancelled, ClearBuilding, States, Freshness
  <1>14. ASSUME NEW t \in Threads, Work(t) PROVE TypeOK'
    BY <1>14, StepFailsTyped DEF Work, NextStep, Locations, Holding, Body, Pipeline
  <1>15. ASSUME NEW t \in Threads, Commit(t) PROVE TypeOK'
    <2>1. CASE StepFails(t) /\ UNCHANGED <<built, tmp>>
      BY <1>15, <2>1, StepFailsTyped DEF Commit
    <2>2. CASE /\ built' = built + 1
               /\ tmp' = [ver |-> built + 1, rev |-> head, stamped |-> FALSE]
               /\ Goto(t, "swap")
               /\ UNCHANGED <<building, failed, ans>>
      <3>1. tmp' \in Products
        BY <2>2 DEF Products
      <3>2. pc' \in [Threads -> Locations]
        BY <2>2 DEF Locations, Holding, Body, Publishing
      <3> QED BY <1>15, <2>2, <3>1, <3>2 DEF Commit
    <2> QED BY <1>15, <2>1, <2>2 DEF Commit
  <1>16. ASSUME NEW t \in Threads, Unlink(t) PROVE TypeOK'
    BY <1>16, StepFailsTyped DEF Unlink, Locations, Holding, Body, Publishing
  <1>17. ASSUME NEW t \in Threads, Replace(t) PROVE TypeOK'
    BY <1>17, StepFailsTyped DEF Replace, Products, Locations, Holding, Body, Publishing
  <1>18. ASSUME NEW t \in Threads, Stamp(t) PROVE TypeOK'
    BY <1>18 DEF Stamp, Products, Locations, Holding, Body
  <1>19. ASSUME NEW t \in Threads, FinishIndex(t) PROVE TypeOK'
    <2>1. FreshnessFor(BoundId) \in Freshness
      BY FreshnessType DEF FreshnessFor
    <2>2. pc' \in [Threads -> Locations] /\ ans' \in [Threads -> Answers]
      BY <1>19, <2>1 DEF FinishIndex, States
    <2> QED BY <1>19, <2>2 DEF FinishIndex, ClearBuilding
  <1>20. ASSUME NEW t \in Threads, FinishUpdate(t) PROVE TypeOK'
    <2>1. FreshnessFor(BoundId) \in Freshness
      BY FreshnessType DEF FreshnessFor
    <2>2. /\ {"failed", "cancelled", "completed"} \subseteq States
          /\ "unknown" \in Freshness
      BY DEF States, Freshness
    <2>3. pc' \in [Threads -> Locations] /\ ans' \in [Threads -> Answers]
      BY <1>20, <2>1, <2>2 DEF FinishUpdate
    <2> QED BY <1>20, <2>3 DEF FinishUpdate, ClearBuilding
  <1>21. CASE Checkout
    BY <1>21 DEF Checkout
  <1>22. CASE Crash
    BY <1>22 DEF Crash, Locations, Ids, Ops
  <1>23. CASE UNCHANGED vars
    BY <1>23 DEF vars
  <1> QED
    BY <1>1, <1>2, <1>3, <1>4, <1>5, <1>6, <1>7, <1>8, <1>9, <1>10, <1>11, <1>12, <1>13,
       <1>14, <1>15, <1>16, <1>17, <1>18, <1>19, <1>20, <1>21, <1>22, <1>23
    DEF Next, QueryStep, BuilderStep

-----------------------------------------------------------------------------
(* The gate, when the directory is named after the operator: every call    *)
(* then uses the one id "op".                                              *)
OneId == \A t \in Threads : pc[t] # "idle" => gate[t] = "op" /\ ref[t] = "op"

(* The gate's flag has one owner, draining or inside; OneBuilder alone is  *)
(* not inductive, since Enter looks at the readers and not at the flag.    *)
OneHolder == \A t, u \in Threads : pc[t] \in Holding /\ pc[u] \in Holding => t = u

ReadersOut == \A t, u \in Threads : pc[t] \in Body => pc[u] \notin Reading

GateInv == OneId /\ OneHolder /\ ReadersOut

Inside == Body \ {"begin"}

(* Steps a thread takes while it is inside the gate. *)
BodyAction(t) ==
  \/ BeginIndex(t) \/ BeginUpdate(t) \/ PlanUpdate(t)
  \/ Halt(t) \/ Work(t) \/ Commit(t) \/ Unlink(t) \/ Replace(t) \/ Stamp(t)
  \/ FinishIndex(t) \/ FinishUpdate(t)

LEMMA StepFailsMoves ==
  ASSUME NEW t \in Threads, StepFails(t)
  PROVE  \/ Goto(t, "answered") /\ ans' = [ans EXCEPT ![t] = Envelope("failed", FALSE, "unknown")]
         \/ /\ \E l \in {"analyze", "commit", "finish"} : Goto(t, l)
            /\ ans' = ans
  <1>1. NextStep["extract"] = "analyze" /\ NextStep["analyze"] = "commit"
    BY DEF NextStep
  <1> QED
    BY <1>1 DEF StepFails, Answer

(* They stay inside, or they answer and leave. *)
LEMMA BodyMoves ==
  ASSUME NEW t \in Threads, BodyAction(t)
  PROVE  /\ pc[t] \in Body
         /\ \E l \in Inside \cup {"answered"} : pc' = [pc EXCEPT ![t] = l]
         /\ ref' = ref \/ ref' = [ref EXCEPT ![t] = BoundId]
         /\ UNCHANGED <<gate, op, stop>>
  <1> USE DEF Goto, Answer, Body, Inside, Pipeline, Publishing, call, disk, flags, bounds
  <1>1. CASE BeginIndex(t)
    BY <1>1 DEF BeginIndex
  <1>2. CASE BeginUpdate(t)
    BY <1>2 DEF BeginUpdate
  <1>3. CASE PlanUpdate(t)
    BY <1>3 DEF PlanUpdate
  <1>4. CASE Halt(t)
    BY <1>4 DEF Halt, Cancelled
  <1>5. CASE Work(t)
    <2>1. /\ NextStep["prepare"] = "extract"
          /\ NextStep["extract"] = "analyze"
          /\ NextStep["analyze"] = "commit"
      BY DEF NextStep
    <2> QED BY <1>5, <2>1, StepFailsMoves DEF Work
  <1>6. CASE Commit(t)
    BY <1>6, StepFailsMoves DEF Commit
  <1>7. CASE Unlink(t)
    BY <1>7, StepFailsMoves DEF Unlink
  <1>8. CASE Replace(t)
    BY <1>8, StepFailsMoves DEF Replace
  <1>9. CASE Stamp(t)
    BY <1>9 DEF Stamp
  <1>10. CASE FinishIndex(t)
    BY <1>10 DEF FinishIndex
  <1>11. CASE FinishUpdate(t)
    BY <1>11 DEF FinishUpdate
  <1> QED
    BY <1>1, <1>2, <1>3, <1>4, <1>5, <1>6, <1>7, <1>8, <1>9, <1>10, <1>11 DEF BodyAction

(* A move of one thread: what it must see of the others to go where it     *)
(* goes.                                                                   *)
LEMMA GateStep ==
  ASSUME TypeOK, GateInv, NEW t \in Threads, NEW l,
         pc' = [pc EXCEPT ![t] = l],
         \A u \in Threads \ {t} : gate'[u] = gate[u] /\ ref'[u] = ref[u],
         l # "idle" => gate'[t] = "op" /\ ref'[t] = "op",
         l \in Holding => pc[t] \in Holding \/ \A u \in Threads : pc[u] \notin Holding,
         l \in Body => \A u \in Threads : pc[u] \notin Reading,
         l \in Reading => \A u \in Threads : pc[u] \notin Body
  PROVE  GateInv'
  <1>1. \A u \in Threads : pc'[u] = IF u = t THEN l ELSE pc[u]
    BY DEF TypeOK
  <1>2. Body \cap Reading = {}
    BY DEF Body, Reading, Pipeline, Publishing
  <1>3. OneId'
    BY <1>1 DEF GateInv, OneId
  <1>4. OneHolder'
    BY <1>1 DEF GateInv, OneHolder
  <1>5. ReadersOut'
    BY <1>1, <1>2 DEF GateInv, ReadersOut
  <1> QED
    BY <1>3, <1>4, <1>5 DEF GateInv

(* Answering or going back is always in order. *)
LEMMA GateLeave ==
  ASSUME TypeOK, GateInv, NEW t \in Threads,
         NEW l \in {"idle", "bound", "queue", "answered"},
         pc' = [pc EXCEPT ![t] = l],
         \A u \in Threads \ {t} : gate'[u] = gate[u] /\ ref'[u] = ref[u],
         l # "idle" => gate'[t] = "op" /\ ref'[t] = "op"
  PROVE  GateInv'
  <1>1. l \notin Holding \cup Body \cup Reading
    BY DEF Holding, Body, Reading, Pipeline, Publishing
  <1> QED
    BY <1>1, GateStep

LEMMA GatePreserved ==
  ASSUME SameName, TypeOK, GateInv, [Next]_vars
  PROVE  GateInv'
  <1> USE DEF TypeOK, call, disk, flags, bounds
  <1>0. \A t \in Threads : pc[t] # "idle" => gate[t] = "op" /\ ref[t] = "op"
    BY DEF GateInv, OneId
  <1>1. ASSUME NEW t \in Threads, NEW o \in Ops, Start(t, o) PROVE GateInv'
    <2>1. \E l \in {"bound", "answered"} : pc' = [pc EXCEPT ![t] = l]
      BY <1>1 DEF Start, Answer, Goto
    <2>2. gate' = [gate EXCEPT ![t] = "op"] /\ ref' = [ref EXCEPT ![t] = "op"]
      BY <1>1 DEF Start, BoundId
    <2> QED BY <2>1, <2>2, GateLeave
  <1>2. ASSUME NEW t \in Threads, Return(t) PROVE GateInv'
    BY <1>2, GateLeave DEF Return, Goto
  <1>3. ASSUME NEW t \in Threads, Cancel(t) PROVE GateInv'
    BY <1>3 DEF Cancel, GateInv, OneId, OneHolder, ReadersOut
  <1>4. ASSUME NEW t \in Threads, EnterQuery(t) PROVE GateInv'
    <2>1. gate' = gate /\ ref' = ref /\ pc[t] = "bound"
      BY <1>4 DEF EnterQuery
    <2>2. CASE IsBuilding(gate[t])
      BY <1>0, <1>4, <2>1, <2>2, GateLeave DEF EnterQuery, Answer, Goto
    <2>3. CASE ~IsBuilding(gate[t])
      <3>1. pc' = [pc EXCEPT ![t] = "meta"]
        BY <1>4, <2>3 DEF EnterQuery, Goto
      <3>2. \A u \in Threads : pc[u] \notin Holding
        BY <1>0, <2>1, <2>3 DEF IsBuilding, IsWriting, Holding, Body, Pipeline, Publishing
      <3>3. "meta" \notin Holding /\ Body \subseteq Holding
        BY DEF Holding, Body, Pipeline, Publishing
      <3> QED BY <1>0, <2>1, <3>1, <3>2, <3>3, GateStep
    <2> QED BY <2>2, <2>3
  <1>5. ASSUME NEW t \in Threads, ReadMeta(t) PROVE GateInv'
    <2>1. gate' = gate /\ ref' = ref /\ pc[t] = "meta"
      BY <1>5 DEF ReadMeta
    <2>2. CASE product = NoProduct
      BY <1>0, <1>5, <2>1, <2>2, GateLeave DEF ReadMeta, Answer, Goto
    <2>3. CASE product # NoProduct
      <3>1. pc' = [pc EXCEPT ![t] = "rows"]
        BY <1>5, <2>3 DEF ReadMeta, Goto
      <3>2. \A u \in Threads : pc[u] \notin Body
        BY <2>1 DEF GateInv, ReadersOut, Reading
      <3>3. "rows" \notin Holding /\ Body \subseteq Holding
        BY DEF Holding, Body, Pipeline, Publishing
      <3> QED BY <1>0, <2>1, <3>1, <3>2, <3>3, GateStep
    <2> QED BY <2>2, <2>3
  <1>6. ASSUME NEW t \in Threads, ReadRows(t) PROVE GateInv'
    <2>1. gate' = gate /\ ref' = ref /\ pc[t] = "rows"
      BY <1>6 DEF ReadRows
    <2>2. pc' = [pc EXCEPT ![t] = "answered"]
      BY <1>6 DEF ReadRows, Answer, Goto
    <2> QED BY <1>0, <2>1, <2>2, GateLeave
  <1>7. ASSUME NEW t \in Threads, AdmitBuilder(t) PROVE GateInv'
    <2>1. gate' = gate /\ ref' = ref /\ pc[t] = "bound"
      BY <1>7 DEF AdmitBuilder
    <2>2. \E l \in {"queue", "answered"} : pc' = [pc EXCEPT ![t] = l]
      BY <1>7 DEF AdmitBuilder, Answer, Goto
    <2> QED BY <1>0, <2>1, <2>2, GateLeave
  <1>8. ASSUME NEW t \in Threads, Claim(t) PROVE GateInv'
    <2>1. gate' = gate /\ ref' = ref /\ pc[t] = "queue" /\ pc' = [pc EXCEPT ![t] = "drain"]
      BY <1>8 DEF Claim, Goto
    <2>2. \A u \in Threads : pc[u] \notin Holding
      BY <1>0, <1>8, <2>1 DEF Claim, GateFree, IsWriting, Holding, Body, Pipeline, Publishing
    <2>3. "drain" \notin Body \cup Reading
      BY DEF Body, Reading, Pipeline, Publishing
    <2> QED BY <1>0, <2>1, <2>2, <2>3, GateStep
  <1>9. ASSUME NEW t \in Threads, Enter(t) PROVE GateInv'
    <2>1. gate' = gate /\ ref' = ref /\ pc[t] = "drain" /\ pc' = [pc EXCEPT ![t] = "begin"]
      BY <1>9 DEF Enter, Goto
    <2>2. \A u \in Threads : pc[u] \notin Reading
      BY <1>0, <1>9, <2>1 DEF Enter, Drained, Reading
    <2>3. "begin" \notin Reading /\ "drain" \in Holding
      BY DEF Reading, Holding
    <2> QED BY <1>0, <2>1, <2>2, <2>3, GateStep
  <1>10. ASSUME NEW t \in Threads, BodyAction(t) PROVE GateInv'
    <2>1. PICK l \in Inside \cup {"answered"} : pc' = [pc EXCEPT ![t] = l]
      BY <1>10, BodyMoves
    <2>2. /\ pc[t] \in Body
          /\ gate' = gate
          /\ ref' = ref \/ ref' = [ref EXCEPT ![t] = "op"]
      BY <1>10, BodyMoves DEF BoundId
    <2>3. \A u \in Threads : pc[u] \notin Reading
      BY <2>2 DEF GateInv, ReadersOut
    <2>4. /\ Body \subseteq Holding
          /\ l \notin Reading
          /\ pc[t] # "idle"
      BY <2>2 DEF Holding, Inside, Body, Reading, Pipeline, Publishing
    <2> QED BY <1>0, <2>1, <2>2, <2>3, <2>4, GateStep
  <1>11. CASE Checkout
    BY <1>11 DEF Checkout, GateInv, OneId, OneHolder, ReadersOut
  <1>12. CASE Crash
    BY <1>12 DEF Crash, GateInv, OneId, OneHolder, ReadersOut, Holding, Body, Pipeline, Publishing
  <1>13. CASE UNCHANGED vars
    BY <1>13 DEF vars, GateInv, OneId, OneHolder, ReadersOut
  <1> QED
    BY <1>1, <1>2, <1>3, <1>4, <1>5, <1>6, <1>7, <1>8, <1>9, <1>10, <1>11, <1>12, <1>13
    DEF Next, QueryStep, BuilderStep, BodyAction

-----------------------------------------------------------------------------
(* What a step inside the gate does to the flags and to the answer.        *)
LEMMA BodyAnswers ==
  ASSUME NEW t \in Threads, BodyAction(t)
  PROVE  /\ snap' = snap
         /\ \/ ans' = ans
            \/ \E s \in {"completed", "failed", "cancelled", "needs_confirmation"} :
               \E u \in BOOLEAN : \E f :
                 /\ ans' = [ans EXCEPT ![t] = Envelope(s, u, f)]
                 /\ pc' = [pc EXCEPT ![t] = "answered"]
                 /\ u => pc[t] = "finish" /\ (op[t] = "index" \/ ~failed[t])
  <1> USE DEF Answer, Goto
  <1>1. CASE BeginIndex(t)
    BY <1>1 DEF BeginIndex
  <1>2. CASE BeginUpdate(t)
    BY <1>2 DEF BeginUpdate
  <1>3. CASE PlanUpdate(t)
    BY <1>3 DEF PlanUpdate
  <1>4. CASE Halt(t)
    BY <1>4 DEF Halt, Cancelled
  <1>5. CASE Work(t)
    BY <1>5, StepFailsMoves DEF Work
  <1>6. CASE Commit(t)
    BY <1>6, StepFailsMoves DEF Commit
  <1>7. CASE Unlink(t)
    BY <1>7, StepFailsMoves DEF Unlink
  <1>8. CASE Replace(t)
    BY <1>8, StepFailsMoves DEF Replace
  <1>9. CASE Stamp(t)
    BY <1>9 DEF Stamp
  <1>10. CASE FinishIndex(t)
    BY <1>10 DEF FinishIndex
  <1>11. CASE FinishUpdate(t)
    BY <1>11 DEF FinishUpdate
  <1> QED
    BY <1>1, <1>2, <1>3, <1>4, <1>5, <1>6, <1>7, <1>8, <1>9, <1>10, <1>11 DEF BodyAction

LEMMA BodyFlags ==
  ASSUME SameName, TypeOK, GateInv, NEW t \in Threads, BodyAction(t)
  PROVE  /\ building' \subseteq building \cup {"op"}
         /\ \/ \E l \in Inside : pc' = [pc EXCEPT ![t] = l]
            \/ "op" \notin building'
            \/ pc[t] = "begin" /\ building' = building
  <1>0. pc[t] # "idle" => gate[t] = "op" /\ ref[t] = "op"
    BY DEF GateInv, OneId
  <1>a. StepFails(t) /\ pc[t] # "idle" =>
          \/ "op" \notin building' /\ building' \subseteq building
          \/ /\ building' = building
             /\ \E l \in {"analyze", "commit", "finish"} : pc' = [pc EXCEPT ![t] = l]
    <2>1. NextStep["extract"] = "analyze" /\ NextStep["analyze"] = "commit"
      BY DEF NextStep
    <2> QED BY <1>0, <2>1 DEF StepFails, ClearBuilding, Goto
  <1> USE DEF Goto, Body, Inside, Pipeline, Publishing, BoundId
  <1>1. CASE BeginIndex(t)
    BY <1>1 DEF BeginIndex
  <1>2. CASE BeginUpdate(t)
    BY <1>0, <1>2 DEF BeginUpdate
  <1>3. CASE PlanUpdate(t)
    BY <1>0, <1>3 DEF PlanUpdate, ClearBuilding, flags
  <1>4. CASE Halt(t)
    BY <1>0, <1>4 DEF Halt, Cancelled, ClearBuilding
  <1>5. CASE Work(t)
    <2>1. /\ NextStep["prepare"] = "extract"
          /\ NextStep["extract"] = "analyze"
          /\ NextStep["analyze"] = "commit"
      BY DEF NextStep
    <2> QED BY <1>a, <1>5, <2>1 DEF Work
  <1>6. CASE Commit(t)
    BY <1>a, <1>6 DEF Commit
  <1>7. CASE Unlink(t)
    BY <1>a, <1>7 DEF Unlink
  <1>8. CASE Replace(t)
    BY <1>a, <1>8 DEF Replace
  <1>9. CASE Stamp(t)
    BY <1>9 DEF Stamp, flags
  <1>10. CASE FinishIndex(t)
    BY <1>0, <1>10 DEF FinishIndex, ClearBuilding
  <1>11. CASE FinishUpdate(t)
    BY <1>0, <1>11 DEF FinishUpdate, ClearBuilding
  <1> QED
    BY <1>1, <1>2, <1>3, <1>4, <1>5, <1>6, <1>7, <1>8, <1>9, <1>10, <1>11 DEF BodyAction

-----------------------------------------------------------------------------
(* The flag: only "op" is ever marked, and while it is the one builder is  *)
(* past its beginning.                                                     *)
FlagInv == \A id \in building : id = "op" /\ \E t \in Threads : pc[t] \in Inside

LEMMA FlagPreserved ==
  ASSUME SameName, TypeOK, GateInv, FlagInv, [Next]_vars
  PROVE  FlagInv'
  <1> USE DEF TypeOK, flags
  <1>1. ASSUME NEW t \in Threads, BodyAction(t) PROVE FlagInv'
    <2>1. CASE \E l \in Inside : pc' = [pc EXCEPT ![t] = l]
      <3>1. pc'[t] \in Inside
        BY <2>1
      <3> QED BY <1>1, <3>1, BodyFlags DEF FlagInv
    <2>2. CASE "op" \notin building'
      BY <1>1, <2>2, BodyFlags DEF FlagInv
    <2>3. CASE pc[t] = "begin" /\ building' = building
      <3>1. \A u \in Threads : pc[u] \notin Inside
        BY <2>3 DEF GateInv, OneHolder, Holding, Body, Inside
      <3> QED BY <2>3, <3>1 DEF FlagInv
    <2> QED BY <1>1, <2>1, <2>2, <2>3, BodyFlags
  <1>2. ASSUME NEW t \in Threads, building' = building, pc[t] \notin Inside,
               \E l : pc' = [pc EXCEPT ![t] = l]
        PROVE FlagInv'
    BY <1>2 DEF FlagInv
  <1> USE DEF Goto, Answer, Inside, Body, Pipeline, Publishing
  <1>3. ASSUME NEW t \in Threads, \/ \E o \in Ops : Start(t, o)
                                  \/ Return(t) \/ EnterQuery(t) \/ ReadMeta(t) \/ ReadRows(t)
                                  \/ AdmitBuilder(t) \/ Claim(t) \/ Enter(t)
        PROVE  FlagInv'
    <2>1. building' = building /\ pc[t] \notin Inside
      BY <1>3 DEF Start, Return, EnterQuery, ReadMeta, ReadRows, AdmitBuilder, Claim, Enter
    <2>2. \E l : pc' = [pc EXCEPT ![t] = l]
      BY <1>3 DEF Start, Return, EnterQuery, ReadMeta, ReadRows, AdmitBuilder, Claim, Enter
    <2> QED BY <1>2, <2>1, <2>2
  <1>4. ASSUME NEW t \in Threads, Cancel(t) PROVE FlagInv'
    BY <1>4 DEF Cancel, FlagInv
  <1>5. CASE Checkout
    BY <1>5 DEF Checkout, FlagInv
  <1>6. CASE Crash
    BY <1>6 DEF Crash, FlagInv
  <1>7. CASE UNCHANGED vars
    BY <1>7 DEF vars, FlagInv
  <1> QED
    BY <1>1, <1>3, <1>4, <1>5, <1>6, <1>7 DEF Next, QueryStep, BuilderStep, BodyAction

-----------------------------------------------------------------------------
(* Queries: between the meta table and the rows the product stands still,  *)
(* because only a thread in the body changes it.                           *)
QueryInv ==
  /\ \A t \in Threads : pc[t] = "rows" => snap[t] = product /\ product # NoProduct
  /\ \A t \in Threads : pc[t] # "answered" => ans[t] = NoAnswer
  /\ QueryConsistent
  /\ QueryFindsProduct

LEMMA QueryPreserved ==
  ASSUME SameName, TypeOK, GateInv, QueryInv, [Next]_vars
  PROVE  QueryInv'
  <1> USE DEF TypeOK, QueryInv, QueryConsistent, QueryFindsProduct, disk, call, flags, bounds
  <1>0. NoAnswer.state = "none"
    BY DEF NoAnswer, Envelope
  <1>1. ASSUME NEW t \in Threads, BodyAction(t) PROVE QueryInv'
    <2>1. PICK l \in Inside \cup {"answered"} : pc' = [pc EXCEPT ![t] = l]
      BY <1>1, BodyMoves
    <2>2. pc[t] \in Body /\ pc[t] # "answered" /\ l # "rows"
      BY <1>1, BodyMoves DEF Inside, Body, Pipeline, Publishing
    <2>3. \A u \in Threads : pc'[u] # "rows"
      BY <2>1, <2>2 DEF GateInv, ReadersOut, Reading
    <2>4. CASE ans' = ans
      BY <2>1, <2>2, <2>3, <2>4
    <2>5. ASSUME NEW s \in {"completed", "failed", "cancelled", "needs_confirmation"},
                 NEW u \in BOOLEAN, NEW f,
                 ans' = [ans EXCEPT ![t] = Envelope(s, u, f)],
                 pc' = [pc EXCEPT ![t] = "answered"]
          PROVE  QueryInv'
      <3>1. /\ Envelope(s, u, f).state \notin {"rows", "error"}
        BY DEF Envelope
      <3>2. \A v \in Threads : pc'[v] = IF v = t THEN "answered" ELSE pc[v]
        BY <2>5
      <3>3. \A v \in Threads : ans'[v] = IF v = t THEN Envelope(s, u, f) ELSE ans[v]
        BY <2>5
      <3> HIDE DEF TypeOK
      <3> QED BY <2>3, <3>1, <3>2, <3>3
    <2>6. CASE ans' # ans
      <3>1. \E s \in {"completed", "failed", "cancelled", "needs_confirmation"} :
            \E u \in BOOLEAN : \E f : /\ ans' = [ans EXCEPT ![t] = Envelope(s, u, f)]
                                    /\ pc' = [pc EXCEPT ![t] = "answered"]
        <4> HIDE DEF TypeOK, QueryInv
        <4> QED BY <1>1, <2>6, BodyAnswers
      <3> HIDE DEF QueryInv
      <3> QED BY <2>5, <3>1
    <2> QED BY <2>4, <2>6
  <1>2. ASSUME NEW t \in Threads, NEW s \in {"building", "not_indexed", "error"}, NEW f,
               s = "error" => product = NoProduct /\ pc[t] = "rows",
               Answer(t, s, FALSE, f), product' = product,
               snap' = snap \/ snap' = [snap EXCEPT ![t] = NoProduct]
        PROVE  QueryInv'
    <2>1. s # "error"
      BY <1>2
    <2>2. Envelope(s, FALSE, f).state \notin {"rows", "error"}
      BY <2>1 DEF Envelope
    <2>3. \A v \in Threads : /\ pc'[v] = IF v = t THEN "answered" ELSE pc[v]
                             /\ ans'[v] = IF v = t THEN Envelope(s, FALSE, f) ELSE ans[v]
      BY <1>2 DEF Answer, Goto
    <2>4. \A v \in Threads \ {t} : snap'[v] = snap[v]
      BY <1>2
    <2> HIDE DEF TypeOK
    <2> QED BY <1>2, <2>2, <2>3, <2>4
  <1>3. ASSUME NEW t \in Threads, NEW l \in {"idle", "bound", "meta", "queue", "drain", "begin"},
               Goto(t, l), product' = product, snap' = snap,
               (ans' = ans /\ pc[t] # "answered") \/ ans' = [ans EXCEPT ![t] = NoAnswer]
        PROVE  QueryInv'
    BY <1>0, <1>3 DEF Goto
  <1>4. ASSUME NEW t \in Threads, NEW o \in Ops, Start(t, o) PROVE QueryInv'
    BY <1>2, <1>3, <1>4 DEF Start
  <1>5. ASSUME NEW t \in Threads, Return(t) PROVE QueryInv'
    BY <1>3, <1>5 DEF Return
  <1>6. ASSUME NEW t \in Threads, Cancel(t) PROVE QueryInv'
    BY <1>6 DEF Cancel
  <1>7. ASSUME NEW t \in Threads, EnterQuery(t) PROVE QueryInv'
    BY <1>2, <1>3, <1>7 DEF EnterQuery
  <1>8. ASSUME NEW t \in Threads, ReadMeta(t) PROVE QueryInv'
    <2>1. CASE product = NoProduct
      BY <1>2, <1>8, <2>1 DEF ReadMeta
    <2>2. CASE product # NoProduct
      BY <1>8, <2>2 DEF ReadMeta, Goto
    <2> QED BY <2>1, <2>2
  <1>9. ASSUME NEW t \in Threads, ReadRows(t) PROVE QueryInv'
    <2>1. CASE product = NoProduct
      BY <1>2, <1>9, <2>1 DEF ReadRows
    <2>2. CASE product # NoProduct
      <3> DEFINE row == [state |-> "rows", updated |-> FALSE,
                         freshness |-> FreshnessNow(FALSE, ref[t] \in blocked),
                         snapshot |-> snap[t], rows |-> product]
      <3>1. /\ pc[t] = "rows" /\ snap[t] = product /\ product' = product
            /\ row.state = "rows" /\ row.snapshot = row.rows
        BY <1>9 DEF ReadRows
      <3>2. ans' = [ans EXCEPT ![t] = row] /\ pc' = [pc EXCEPT ![t] = "answered"]
        BY <1>9, <2>2 DEF ReadRows, Goto
      <3>3. snap' = [snap EXCEPT ![t] = NoProduct]
        BY <1>9 DEF ReadRows
      <3> HIDE DEF row
      <3> QED BY <3>1, <3>2, <3>3
    <2> QED BY <2>1, <2>2
  <1>10. ASSUME NEW t \in Threads, AdmitBuilder(t) \/ Claim(t) \/ Enter(t) PROVE QueryInv'
    BY <1>2, <1>3, <1>10 DEF AdmitBuilder, Claim, Enter
  <1>11. CASE Checkout
    BY <1>11 DEF Checkout
  <1>12. CASE Crash
    BY <1>0, <1>12 DEF Crash
  <1>13. CASE UNCHANGED vars
    BY <1>13 DEF vars
  <1> QED
    BY <1>1, <1>4, <1>5, <1>6, <1>7, <1>8, <1>9, <1>10, <1>11, <1>12, <1>13
    DEF Next, QueryStep, BuilderStep, BodyAction

-----------------------------------------------------------------------------
(* The file: versions only grow, the tmp file of a commit is the newest    *)
(* one, and what a thread remembers having published is what stands there  *)
(* until it has answered.                                                  *)
FileOk ==
  /\ last <= built
  /\ product = NoProduct \/ product.ver = last

ThreadFile(t) ==
  /\ pc[t] = "plan" => op[t] = "update"
  /\ op[t] = "index" /\ pc[t] \in Pipeline \cup {"swap", "replace"} => product = NoProduct
  /\ pc[t] \in {"swap", "replace"} => tmp.ver = built /\ last < built
  /\ mine[t] <= last
  /\ pc[t] \notin {"stamp", "finish", "answered"} => mine[t] = 0
  /\ pc[t] = "stamp" => mine[t] > 0
  /\ pc[t] = "finish" /\ (op[t] = "index" \/ ~failed[t]) => mine[t] > 0
  /\ pc[t] \in {"stamp", "finish"} /\ mine[t] > 0 => product.ver = mine[t]
  /\ ans[t].updated => mine[t] > 0

FileInv == FileOk /\ \A t \in Threads : ThreadFile(t)

LEMMA NoVersion == NoProduct.ver = 0
  BY DEF NoProduct

(* A thread that does not move keeps its part: either the disk does not    *)
(* change, or somebody else holds the gate.                                *)
LEMMA OthersKeep ==
  ASSUME TypeOK, NEW u \in Threads, ThreadFile(u),
         pc'[u] = pc[u], op'[u] = op[u], failed'[u] = failed[u],
         mine'[u] = mine[u], ans'[u] = ans[u],
         UNCHANGED disk \/ pc[u] \notin Body, last' \in Nat, last <= last'
  PROVE  ThreadFile(u)'
  <1>1. CASE UNCHANGED disk
    BY <1>1 DEF disk, ThreadFile, TypeOK
  <1>2. CASE pc[u] \notin Body
    <2>1. Pipeline \cup {"plan", "swap", "replace", "stamp", "finish"} \subseteq Body
      BY DEF Body, Publishing
    <2>2. mine[u] \in Nat /\ last \in Nat
      BY DEF TypeOK
    <2>3. mine'[u] <= last'
      BY <2>2 DEF ThreadFile
    <2> QED BY <1>2, <2>1, <2>3 DEF ThreadFile
  <1> QED BY <1>1, <1>2

(* One thread moves: the file and that thread are to be shown.             *)
LEMMA FileStep ==
  ASSUME TypeOK, GateInv, FileInv, NEW t \in Threads,
         TypeOK', FileOk', ThreadFile(t)', last <= last',
         UNCHANGED disk \/ pc[t] \in Body,
         \A u \in Threads \ {t} : /\ pc'[u] = pc[u] /\ op'[u] = op[u]
                                  /\ failed'[u] = failed[u]
                                  /\ mine'[u] = mine[u] /\ ans'[u] = ans[u]
  PROVE  FileInv'
  <1>1. ASSUME NEW u \in Threads \ {t} PROVE ThreadFile(u)'
    <2>1. UNCHANGED disk \/ pc[u] \notin Body
      BY DEF GateInv, OneHolder, Holding
    <2>2. last' \in Nat
      BY DEF TypeOK
    <2> QED BY <2>1, <2>2, OthersKeep DEF FileInv
  <1> QED BY <1>1 DEF FileInv

(* Steps that leave the disk and what the thread published alone, and go   *)
(* to a place where nothing else is asked.                                 *)
LEMMA FileQuiet ==
  ASSUME TypeOK, TypeOK', GateInv, FileInv, NEW t \in Threads, NEW l, UNCHANGED <<disk, mine>>,
         pc' = [pc EXCEPT ![t] = l],
         \/ l \in {"idle", "bound", "queue", "drain", "begin", "meta", "rows"} /\ mine[t] = 0
         \/ l = "answered",
         \A u \in Threads \ {t} : /\ op'[u] = op[u] /\ failed'[u] = failed[u]
                                  /\ ans'[u] = ans[u],
         ans'[t].updated => mine[t] > 0
  PROVE  FileInv'
  <1>1. \A u \in Threads : pc'[u] = IF u = t THEN l ELSE pc[u]
    BY DEF TypeOK
  <1>2. FileOk'
    BY DEF FileInv, FileOk, disk
  <1>3. l \notin Pipeline \cup {"plan", "swap", "replace", "stamp", "finish"}
    BY DEF Pipeline
  <1>4. ThreadFile(t)'
    BY <1>1, <1>3 DEF FileInv, ThreadFile, disk
  <1>5. last' = last /\ last \in Nat
    BY DEF disk, TypeOK
  <1> QED
    BY <1>1, <1>2, <1>4, <1>5, FileStep

(* An answer that claims nothing.                                          *)
LEMMA FileAnswer ==
  ASSUME TypeOK, TypeOK', GateInv, FileInv, NEW t \in Threads, NEW s, NEW u, NEW f,
         Answer(t, s, u, f), u => mine[t] > 0, UNCHANGED <<disk, mine>>,
         \A v \in Threads \ {t} : op'[v] = op[v] /\ failed'[v] = failed[v]
  PROVE  FileInv'
  <1>1. pc' = [pc EXCEPT ![t] = "answered"]
    BY DEF Answer, Goto
  <1>2. \A v \in Threads \ {t} : ans'[v] = ans[v]
    BY DEF Answer
  <1>3. ans'[t] = Envelope(s, u, f)
    BY DEF Answer, TypeOK
  <1>4. Envelope(s, u, f).updated = u
    BY DEF Envelope
  <1>5. ans'[t].updated => mine[t] > 0
    BY <1>3, <1>4
  <1> QED
    BY <1>1, <1>2, <1>5, FileQuiet

LEMMA FileFails ==
  ASSUME TypeOK, TypeOK', GateInv, FileInv, NEW t \in Threads,
         pc[t] \in Pipeline \cup {"swap", "replace"},
         StepFails(t), UNCHANGED <<disk, mine, op>>
  PROVE  FileInv'
  <1>1. CASE op[t] = "index"
    <2>1. Answer(t, "failed", FALSE, "unknown") /\ failed' = failed
      BY <1>1 DEF StepFails
    <2> QED BY <2>1, FileAnswer
  <1>2. CASE op[t] = "update"
    <2>1. \E l \in {"analyze", "commit", "finish"} : Goto(t, l)
      <3>1. NextStep["extract"] = "analyze" /\ NextStep["analyze"] = "commit"
        BY DEF NextStep
      <3> QED BY <1>2, <3>1 DEF StepFails
    <2>2. PICK l \in {"analyze", "commit", "finish"} : Goto(t, l)
      BY <2>1
    <2>3. failed' = [failed EXCEPT ![t] = TRUE] /\ ans' = ans
      BY <1>2 DEF StepFails
    <2>4. pc'[t] = l /\ failed'[t] /\ mine'[t] = mine[t] /\ op'[t] = "update"
      BY <1>2, <2>2, <2>3 DEF TypeOK, Goto
    <2>5. mine[t] = 0 /\ mine[t] <= last /\ ~ans[t].updated
      BY DEF FileInv, ThreadFile, Pipeline
    <2>6. FileOk' /\ last' = last /\ last \in Nat
      BY DEF FileInv, FileOk, disk, TypeOK
    <2>7. ThreadFile(t)'
      BY <2>3, <2>4, <2>5, <2>6 DEF ThreadFile
    <2>8. \A u \in Threads \ {t} : /\ pc'[u] = pc[u] /\ failed'[u] = failed[u]
                                   /\ op'[u] = op[u] /\ mine'[u] = mine[u]
                                   /\ ans'[u] = ans[u]
      BY <2>2, <2>3 DEF Goto, TypeOK
    <2>9. last <= last' /\ UNCHANGED disk
      BY <2>6
    <2> HIDE DEF FileInv
    <2> QED BY <2>6, <2>7, <2>8, <2>9, FileStep
  <1> QED BY <1>1, <1>2 DEF StepFails

(* Steps of a thread that is not in the body.                              *)
OutsideAction(t) ==
  \/ \E o \in Ops : Start(t, o)
  \/ Return(t) \/ Cancel(t) \/ QueryStep(t) \/ AdmitBuilder(t) \/ Claim(t) \/ Enter(t)

LEMMA FileOutside ==
  ASSUME TypeOK, TypeOK', GateInv, QueryInv, FileInv, NEW t0 \in Threads, OutsideAction(t0)
  PROVE  FileInv'
  <1>a. last \in Nat /\ built \in Nat /\ product \in Products /\ tmp \in Products
    BY DEF TypeOK
  <1>b. \A t \in Threads : pc[t] # "answered" => ~ans[t].updated
    BY DEF QueryInv, NoAnswer, Envelope
  <1>c. \A t \in Threads : pc[t] \in {"idle", "bound", "meta", "rows", "queue", "drain", "begin"}
                             => mine[t] = 0
    BY DEF FileInv, ThreadFile
  <1>1. ASSUME NEW t \in Threads, NEW o \in Ops, Start(t, o) PROVE FileInv'
    <2>1. /\ pc[t] = "idle" /\ UNCHANGED <<disk, mine>>
          /\ \A v \in Threads \ {t} : op'[v] = op[v] /\ failed'[v] = failed[v]
      BY <1>1 DEF Start
    <2>2. CASE Answer(t, "not_indexed", FALSE, "unknown")
      BY <2>1, <2>2, FileAnswer
    <2>3. CASE Goto(t, "bound") /\ ans' = ans
      BY <1>b, <1>c, <2>1, <2>3, FileQuiet DEF Goto
    <2> QED BY <1>1, <2>2, <2>3 DEF Start
  <1>2. ASSUME NEW t \in Threads, Return(t) PROVE FileInv'
    <2>1. /\ pc' = [pc EXCEPT ![t] = "idle"] /\ mine' = [mine EXCEPT ![t] = 0]
          /\ op' = [op EXCEPT ![t] = "query"] /\ failed' = [failed EXCEPT ![t] = FALSE]
          /\ ans' = [ans EXCEPT ![t] = NoAnswer] /\ UNCHANGED disk
      BY <1>2 DEF Return, Goto
    <2>2. pc'[t] = "idle" /\ mine'[t] = 0 /\ ans'[t] = NoAnswer
      BY <2>1 DEF TypeOK
    <2>3. FileOk' /\ last' = last
      BY <2>1 DEF FileInv, FileOk, disk
    <2>4. ThreadFile(t)'
      BY <1>a, <2>2, <2>3 DEF ThreadFile, NoAnswer, Envelope, Pipeline
    <2>5. \A u \in Threads \ {t} : /\ pc'[u] = pc[u] /\ op'[u] = op[u]
                                   /\ failed'[u] = failed[u]
                                   /\ mine'[u] = mine[u] /\ ans'[u] = ans[u]
      BY <2>1
    <2>6. last <= last'
      BY <1>a, <2>3
    <2> QED BY <2>1, <2>3, <2>4, <2>5, <2>6, FileStep
  <1>3. ASSUME NEW t \in Threads, Cancel(t) PROVE FileInv'
    BY <1>3 DEF Cancel, FileInv, FileOk, ThreadFile, disk
  <1>4. ASSUME NEW t \in Threads, QueryStep(t) \/ AdmitBuilder(t) \/ Claim(t) \/ Enter(t)
        PROVE  FileInv'
    <2>1. /\ pc[t] \in {"bound", "meta", "rows", "queue", "drain"}
          /\ UNCHANGED <<disk, mine, op, failed>>
      BY <1>4 DEF QueryStep, EnterQuery, ReadMeta, ReadRows, AdmitBuilder, Claim, Enter, call
    <2>2. CASE \E s, f : Answer(t, s, FALSE, f)
      BY <2>1, <2>2, FileAnswer
    <2>3. CASE ans' = ans /\ \E l \in {"meta", "rows", "queue", "drain", "begin"} : Goto(t, l)
      BY <1>b, <1>c, <2>1, <2>3, FileQuiet DEF Goto
    <2>4. CASE ReadRows(t) /\ product # NoProduct
      <3> DEFINE row == [state |-> "rows", updated |-> FALSE,
                         freshness |-> FreshnessNow(FALSE, ref[t] \in blocked),
                         snapshot |-> snap[t], rows |-> product]
      <3>1. ans' = [ans EXCEPT ![t] = row] /\ pc' = [pc EXCEPT ![t] = "answered"]
        BY <2>4 DEF ReadRows, Goto
      <3>2. row.updated = FALSE
        OBVIOUS
      <3> HIDE DEF row
      <3>3. ans'[t].updated = FALSE
        BY <3>1, <3>2 DEF TypeOK
      <3>4. \A u \in Threads \ {t} : /\ op'[u] = op[u] /\ failed'[u] = failed[u]
                                     /\ ans'[u] = ans[u]
        BY <2>1, <3>1
      <3> QED BY <2>1, <3>1, <3>3, <3>4, FileQuiet
    <2>5. \/ \E s, f : Answer(t, s, FALSE, f)
          \/ ans' = ans /\ \E l \in {"meta", "rows", "queue", "drain", "begin"} : Goto(t, l)
          \/ ReadRows(t) /\ product # NoProduct
      <3>1. CASE EnterQuery(t)
        BY <3>1 DEF EnterQuery
      <3>2. CASE ReadMeta(t)
        BY <3>2 DEF ReadMeta
      <3>3. CASE ReadRows(t)
        BY <3>3 DEF ReadRows
      <3>4. CASE AdmitBuilder(t)
        BY <3>4 DEF AdmitBuilder
      <3>5. CASE Claim(t)
        BY <3>5 DEF Claim
      <3>6. CASE Enter(t)
        BY <3>6 DEF Enter
      <3> QED BY <1>4, <3>1, <3>2, <3>3, <3>4, <3>5, <3>6 DEF QueryStep
    <2> QED BY <2>2, <2>3, <2>4, <2>5
  <1> QED
    BY <1>1, <1>2, <1>3, <1>4 DEF OutsideAction

(* Steps inside the body.  Each gives the mover's own part; FileStep does  *)
(* the rest.                                                               *)
LEMMA FileInside ==
  ASSUME TypeOK, TypeOK', GateInv, QueryInv, FileInv, NEW t \in Threads, BodyAction(t)
  PROVE  FileInv'
  <1>a. /\ last \in Nat /\ built \in Nat /\ head \in Nat
        /\ product \in Products /\ tmp \in Products /\ mine[t] \in Nat
        /\ op[t] \in Ops /\ failed[t] \in BOOLEAN
    BY DEF TypeOK
  <1>b. ans'[t] = ans[t] /\ pc[t] # "answered" => ~ans'[t].updated
    BY DEF QueryInv, NoAnswer, Envelope
  <1>c. FileOk /\ ThreadFile(t)
    BY DEF FileInv
  \* a step that only moves t on, inside the body
  <1>d. ASSUME FileOk', ThreadFile(t)', last <= last', pc[t] \in Body,
               UNCHANGED op, ans' = ans,
               \E l : Goto(t, l),
               \A u \in Threads \ {t} : failed'[u] = failed[u] /\ mine'[u] = mine[u]
        PROVE  FileInv'
    <2>1. \A u \in Threads \ {t} : /\ pc'[u] = pc[u] /\ op'[u] = op[u]
                                   /\ failed'[u] = failed[u]
                                   /\ mine'[u] = mine[u] /\ ans'[u] = ans[u]
      BY <1>d DEF Goto
    <2> QED BY <1>d, <2>1, FileStep
  <1>e. ASSUME NEW l, Goto(t, l) PROVE pc'[t] = l
    BY <1>e DEF Goto, TypeOK
  <1>f. ASSUME UNCHANGED <<disk, mine, op, failed>>, \E s, f : Answer(t, s, FALSE, f)
        PROVE  FileInv'
    BY <1>f, FileAnswer
  <1>1. CASE BeginIndex(t)
    <2>1. CASE AlreadyIndexed
      BY <1>1, <1>f, <2>1 DEF BeginIndex, call
    <2>2. CASE ~AlreadyIndexed
      <3>1. /\ pc[t] = "begin" /\ op[t] = "index" /\ product = NoProduct
            /\ Goto(t, "prepare") /\ UNCHANGED <<disk, mine, op, failed, ans>>
        BY <1>1, <2>2 DEF BeginIndex, AlreadyIndexed, call
      <3>2. FileOk' /\ last <= last'
        BY <1>a, <1>c, <3>1 DEF FileOk, disk
      <3>3. ThreadFile(t)'
        BY <1>b, <1>c, <1>e, <3>1 DEF ThreadFile, disk
      <3> QED BY <1>d, <3>1, <3>2, <3>3 DEF Body
    <2> QED BY <2>1, <2>2
  <1>2. CASE BeginUpdate(t)
    <2>1. CASE \E s, f : Answer(t, s, FALSE, f)
      BY <1>2, <1>f, <2>1 DEF BeginUpdate, call
    <2>2. CASE Goto(t, "plan") /\ ans' = ans
      <3>1. /\ pc[t] = "begin" /\ op[t] = "update" /\ UNCHANGED <<disk, mine, op, failed, ans>>
        BY <1>2, <2>2 DEF BeginUpdate, call
      <3>2. FileOk' /\ last <= last'
        BY <1>a, <1>c, <3>1 DEF FileOk, disk
      <3>3. ThreadFile(t)'
        BY <1>b, <1>c, <1>e, <2>2, <3>1 DEF ThreadFile, disk, Pipeline
      <3> QED BY <1>d, <2>2, <3>1, <3>2, <3>3 DEF Body
    <2>3. \/ Answer(t, "cancelled", FALSE, "unknown")
          \/ Answer(t, "completed", FALSE, "fresh")
          \/ Goto(t, "plan") /\ ans' = ans
      BY <1>2 DEF BeginUpdate
    <2> QED BY <2>1, <2>2, <2>3
  <1>3. CASE PlanUpdate(t)
    <2>0. pc[t] = "plan" /\ op[t] = "update" /\ UNCHANGED <<disk, mine, op, failed>>
      BY <1>3, <1>c DEF PlanUpdate, ThreadFile, call
    <2>1. CASE \E s, f : Answer(t, s, FALSE, f)
      BY <1>f, <2>0, <2>1
    <2>2. CASE ans' = ans /\ \E l \in {"extract", "analyze"} : Goto(t, l)
      <3>1. PICK l \in {"extract", "analyze"} : Goto(t, l)
        BY <2>2
      <3>2. FileOk' /\ last <= last'
        BY <1>a, <1>c, <2>0 DEF FileOk, disk
      <3>3. ThreadFile(t)'
        BY <1>b, <1>c, <1>e, <2>0, <2>2, <3>1 DEF ThreadFile, disk, Pipeline
      <3> QED BY <1>d, <2>0, <2>2, <3>2, <3>3 DEF Body
    <2>3. \/ \E s, f : Answer(t, s, FALSE, f)
          \/ ans' = ans /\ \E l \in {"extract", "analyze"} : Goto(t, l)
      BY <1>3 DEF PlanUpdate
    <2> QED BY <2>1, <2>2, <2>3
  <1>4. CASE Halt(t)
    BY <1>4, <1>f DEF Halt, Cancelled, call
  <1>5. CASE Work(t)
    <2>0. pc[t] \in {"prepare", "extract", "analyze"} /\ UNCHANGED <<disk, mine, op>>
      BY <1>5 DEF Work, call
    <2>1. CASE StepFails(t)
      BY <2>0, <2>1, FileFails DEF Pipeline
    <2>2. CASE Goto(t, NextStep[pc[t]]) /\ UNCHANGED <<building, failed, ans>>
      <3>1. PICK l \in {"extract", "analyze", "commit"} : Goto(t, l)
        BY <2>0, <2>2 DEF NextStep
      <3>2. FileOk' /\ last <= last'
        BY <1>a, <1>c, <2>0 DEF FileOk, disk
      <3>3. ThreadFile(t)'
        BY <1>b, <1>c, <1>e, <2>0, <2>2, <3>1 DEF ThreadFile, disk, Pipeline
      <3> QED BY <1>d, <2>0, <2>2, <3>2, <3>3 DEF Body, Pipeline
    <2> QED BY <1>5, <2>1, <2>2 DEF Work
  <1>6. CASE Commit(t)
    <2>0. /\ pc[t] = "commit" /\ UNCHANGED <<product, last, mine, op>>
      BY <1>6 DEF Commit, call
    <2>1. CASE StepFails(t) /\ UNCHANGED <<built, tmp>>
      BY <2>0, <2>1, FileFails DEF Pipeline, disk
    <2>2. CASE /\ built' = built + 1
               /\ tmp' = [ver |-> built + 1, rev |-> head, stamped |-> FALSE]
               /\ Goto(t, "swap")
               /\ UNCHANGED <<building, failed, ans>>
      <3>1. FileOk' /\ last <= last'
        BY <1>a, <1>c, <2>0, <2>2 DEF FileOk
      <3>2. tmp'.ver = built' /\ last' < built' /\ pc'[t] = "swap"
        BY <1>a, <1>c, <1>e, <2>0, <2>2 DEF FileOk
      <3>3. ThreadFile(t)'
        BY <1>b, <1>c, <2>0, <2>2, <3>2 DEF ThreadFile, Pipeline
      <3> QED BY <1>d, <2>0, <2>2, <3>1, <3>3 DEF Body, Pipeline
    <2> QED BY <1>6, <2>1, <2>2 DEF Commit
  <1>7. CASE Unlink(t)
    <2>0. pc[t] = "swap" /\ UNCHANGED <<tmp, built, last, mine, op>>
      BY <1>7 DEF Unlink, call
    <2>1. CASE StepFails(t) /\ UNCHANGED product
      BY <2>0, <2>1, FileFails DEF disk
    <2>2. CASE product' = NoProduct /\ Goto(t, "replace") /\ UNCHANGED <<building, failed, ans>>
      <3>1. FileOk' /\ last <= last'
        BY <1>a, <1>c, <2>0, <2>2 DEF FileOk
      <3>2. ThreadFile(t)'
        BY <1>b, <1>c, <1>e, <2>0, <2>2 DEF ThreadFile, Pipeline
      <3> QED BY <1>d, <2>0, <2>2, <3>1, <3>2 DEF Body, Publishing
    <2> QED BY <1>7, <2>1, <2>2 DEF Unlink
  <1>8. CASE Replace(t)
    <2>0. pc[t] = "replace" /\ UNCHANGED <<built, op>>
      BY <1>8 DEF Replace, call
    <2>1. CASE StepFails(t) /\ UNCHANGED <<product, tmp, last, mine>>
      BY <2>0, <2>1, FileFails DEF disk
    <2>2. CASE /\ product' = tmp /\ last' = tmp.ver
               /\ mine' = [mine EXCEPT ![t] = tmp.ver]
               /\ Goto(t, "stamp") /\ UNCHANGED <<building, failed, ans>>
      <3>1. tmp.ver = built /\ last < built
        BY <1>c, <2>0 DEF ThreadFile
      <3>2. FileOk' /\ last <= last'
        BY <1>a, <2>0, <2>2, <3>1 DEF FileOk
      <3>3. pc'[t] = "stamp" /\ mine'[t] = built /\ product'.ver = built /\ last' = built
        BY <1>e, <2>2, <3>1 DEF TypeOK
      <3>4. built > 0
        BY <1>a, <3>1
      <3>5. ThreadFile(t)'
        BY <1>a, <1>b, <2>0, <2>2, <3>3, <3>4 DEF ThreadFile, Pipeline
      <3> QED BY <1>d, <2>0, <2>2, <3>2, <3>5 DEF Body, Publishing
    <2> QED BY <1>8, <2>1, <2>2 DEF Replace
  <1>9. CASE Stamp(t)
    <2>0. /\ pc[t] = "stamp" /\ Goto(t, "finish")
          /\ UNCHANGED <<tmp, built, last, op, failed, mine, ans>>
      BY <1>9 DEF Stamp, call
    <2>1. product'.ver = product.ver /\ (product = NoProduct => product' = NoProduct)
      BY <1>9, <1>a DEF Stamp, Products
    <2>2. FileOk' /\ last <= last'
      BY <1>a, <1>c, <2>0, <2>1 DEF FileOk
    <2>3. ThreadFile(t)'
      BY <1>b, <1>c, <1>e, <2>0, <2>1 DEF ThreadFile, Pipeline
    <2> QED BY <1>d, <2>0, <2>2, <2>3 DEF Body, Publishing
  <1>10. CASE FinishIndex(t)
    <2>1. /\ UNCHANGED <<disk, mine, op, failed>>
          /\ mine[t] > 0
          /\ \E f : Answer(t, "completed", TRUE, f)
      BY <1>10, <1>c DEF FinishIndex, ThreadFile, call
    <2> QED BY <2>1, FileAnswer
  <1>11. CASE FinishUpdate(t)
    <2>1. /\ UNCHANGED <<disk, mine, op, failed>>
          /\ ~failed[t] => mine[t] > 0
      BY <1>11, <1>c DEF FinishUpdate, ThreadFile, call
    <2>2. \/ \E s, f : Answer(t, s, FALSE, f)
          \/ ~failed[t] /\ \E f : Answer(t, "completed", TRUE, f)
      BY <1>11 DEF FinishUpdate
    <2> QED BY <2>1, <2>2, FileAnswer
  <1> QED
    BY <1>1, <1>2, <1>3, <1>4, <1>5, <1>6, <1>7, <1>8, <1>9, <1>10, <1>11 DEF BodyAction

LEMMA FilePreserved ==
  ASSUME SameName, TypeOK, GateInv, QueryInv, FileInv, [Next]_vars
  PROVE  FileInv'
  <1>0. TypeOK'
    BY TypePreserved
  <1>1. ASSUME NEW t \in Threads, OutsideAction(t) PROVE FileInv'
    BY <1>0, <1>1, FileOutside
  <1>2. ASSUME NEW t \in Threads, BodyAction(t) PROVE FileInv'
    BY <1>0, <1>2, FileInside
  <1>3. CASE Checkout
    BY <1>3 DEF Checkout, FileInv, FileOk, ThreadFile, disk, call
  <1>4. CASE Crash
    <2>1. /\ UNCHANGED disk /\ last \in Nat
          /\ \A t \in Threads : pc'[t] = "idle" /\ mine'[t] = 0 /\ ans'[t] = NoAnswer
      BY <1>4 DEF Crash, TypeOK
    <2>2. FileOk'
      BY <2>1 DEF FileInv, FileOk, disk
    <2>3. \A t \in Threads : ThreadFile(t)'
      BY <2>1 DEF ThreadFile, disk, NoAnswer, Envelope, Pipeline
    <2> QED BY <2>2, <2>3 DEF FileInv
  <1>5. CASE UNCHANGED vars
    BY <1>5 DEF vars, FileInv, FileOk, ThreadFile, disk, call
  <1> QED
    BY <1>1, <1>2, <1>3, <1>4, <1>5 DEF Next, BuilderStep, OutsideAction, BodyAction

-----------------------------------------------------------------------------
(* Every reachable state has the right types, whatever the directory is    *)
(* called (the records of runtime.py, query.py and control.py).            *)
THEOREM TypeCorrect == Spec => []TypeOK
  <1>1. Init => TypeOK
    BY InitTyped
  <1>2. TypeOK /\ [Next]_vars => TypeOK'
    BY TypePreserved
  <1> QED BY <1>1, <1>2, PTL DEF Spec

Inv == TypeOK /\ GateInv /\ FlagInv /\ QueryInv /\ FileInv

LEMMA InitInv == Init => Inv
  <1> SUFFICES ASSUME Init PROVE Inv
    OBVIOUS
  <1>1. TypeOK
    BY InitTyped
  <1>2. GateInv
    BY DEF Init, GateInv, OneId, OneHolder, ReadersOut, Holding, Body, Pipeline, Publishing
  <1>3. FlagInv
    BY DEF Init, FlagInv
  <1>4. QueryInv
    BY DEF Init, QueryInv, QueryConsistent, QueryFindsProduct, NoAnswer, Envelope
  <1>5. FileInv
    BY DEF Init, FileInv, FileOk, ThreadFile, NoAnswer, Envelope, Pipeline
  <1> QED BY <1>1, <1>2, <1>3, <1>4, <1>5 DEF Inv

LEMMA Inductive ==
  ASSUME SameName
  PROVE  Spec => []Inv
  <1>1. Inv /\ [Next]_vars => Inv'
    BY TypePreserved, GatePreserved, FlagPreserved, QueryPreserved, FilePreserved DEF Inv
  <1> QED BY <1>1, InitInv, PTL DEF Spec

(* With directories named after their operator, one index or update at a   *)
(* time is inside its gate (control.py:482, 589).                          *)
THEOREM BuildersExclude ==
  ASSUME SameName
  PROVE  Spec => []OneBuilder
  <1>1. Inv => OneBuilder
    BY DEF Inv, GateInv, OneHolder, OneBuilder, Holding
  <1> QED BY <1>1, Inductive, PTL

(* ... the building flag is up only while a call is rebuilding that very   *)
(* CodeMap, whichever way calls end (control.py:511, 663).                 *)
THEOREM FlagHasOwner ==
  ASSUME SameName
  PROVE  Spec => []BuildingFlagOwned
  <1>1. Inv => BuildingFlagOwned
    BY DEF Inv, GateInv, OneId, FlagInv, BuildingFlagOwned, Inside, Body, Pipeline, Publishing
  <1> QED BY <1>1, Inductive, PTL

(* ... a query's snapshot id and rows are of one product (query.py:386).   *)
THEOREM QueriesConsistent ==
  ASSUME SameName
  PROVE  Spec => [](QueryConsistent /\ QueryFindsProduct)
  <1>1. Inv => QueryConsistent /\ QueryFindsProduct
    BY DEF Inv, QueryInv
  <1> QED BY <1>1, Inductive, PTL

(* ... no index runs over a product that is there (control.py:483).        *)
THEOREM IndexNeedsNoProduct ==
  ASSUME SameName
  PROVE  Spec => []IndexOnlyWhenMissing
  <1>1. Inv => IndexOnlyWhenMissing
    BY DEF Inv, FileInv, ThreadFile, IndexOnlyWhenMissing
  <1> QED BY <1>1, Inductive, PTL

(* ... updated=true is said only by the call that published what stands    *)
(* there (control.py:520, 690; apply.py:277).                              *)
THEOREM UpdatedIsTrue ==
  ASSUME SameName
  PROVE  Spec => []UpdatedMeansPublished
  <1>1. Inv => UpdatedMeansPublished
    BY DEF Inv, FileInv, ThreadFile, UpdatedMeansPublished
  <1> QED BY <1>1, Inductive, PTL

(* Where the product is, without crashes and disk errors: only the thread  *)
(* that has unlinked it keeps it away.                                     *)
LEMMA SurvivesStep ==
  ASSUME ~DiskFails, MaxCrashes = 0, Inv, ProductSurvives, [Next]_vars
  PROVE  ProductSurvives'
  <1>0. TypeOK /\ FileInv
    BY DEF Inv
  <1>1. ASSUME UNCHANGED <<product, last>>,
               \A u \in Threads : pc[u] = "replace" => pc'[u] = "replace"
        PROVE  ProductSurvives'
    BY <1>1 DEF ProductSurvives
  <1>2. ASSUME NEW t \in Threads, pc[t] # "replace", UNCHANGED <<product, last>>,
               \A u \in Threads \ {t} : pc'[u] = pc[u]
        PROVE  ProductSurvives'
    BY <1>1, <1>2
  <1>3. ASSUME NEW t \in Threads, NEW o \in Ops, Start(t, o) PROVE ProductSurvives'
    BY <1>0, <1>2, <1>3 DEF Start, Answer, Goto, disk, TypeOK
  <1>4. ASSUME NEW t \in Threads, Return(t) PROVE ProductSurvives'
    BY <1>0, <1>2, <1>4 DEF Return, Goto, disk, TypeOK
  <1>5. ASSUME NEW t \in Threads, Cancel(t) PROVE ProductSurvives'
    BY <1>1, <1>5 DEF Cancel, disk
  <1>6. ASSUME NEW t \in Threads, QueryStep(t) PROVE ProductSurvives'
    BY <1>0, <1>2, <1>6 DEF QueryStep, EnterQuery, ReadMeta, ReadRows, Answer, Goto, disk, TypeOK
  <1>7. ASSUME NEW t \in Threads, AdmitBuilder(t) \/ Claim(t) \/ Enter(t) PROVE ProductSurvives'
    BY <1>0, <1>2, <1>7 DEF AdmitBuilder, Claim, Enter, Answer, Goto, disk, TypeOK
  <1>8. ASSUME NEW t \in Threads, BeginIndex(t) \/ BeginUpdate(t) \/ PlanUpdate(t)
        PROVE  ProductSurvives'
    BY <1>0, <1>2, <1>8 DEF BeginIndex, BeginUpdate, PlanUpdate, Answer, Goto, disk, TypeOK
  <1>9. ASSUME NEW t \in Threads, Halt(t) \/ FinishIndex(t) \/ FinishUpdate(t)
        PROVE  ProductSurvives'
    BY <1>0, <1>2, <1>9
    DEF Halt, Cancelled, FinishIndex, FinishUpdate, Pipeline, Answer, Goto, disk, TypeOK
  <1>10. ASSUME NEW t \in Threads, Work(t) \/ Commit(t) PROVE ProductSurvives'
    BY <1>0, <1>2, <1>10 DEF Work, Commit, StepFails, Answer, Goto, disk, TypeOK
  <1>11. ASSUME NEW t \in Threads, Unlink(t) PROVE ProductSurvives'
    <2>1. pc'[t] = "replace"
      BY <1>0, <1>11 DEF Unlink, Goto, TypeOK
    <2> QED BY <2>1 DEF ProductSurvives
  <1>12. ASSUME NEW t \in Threads, Replace(t) PROVE ProductSurvives'
    <2>1. tmp # NoProduct
      BY <1>0, <1>12, NoVersion DEF Replace, FileInv, ThreadFile, TypeOK
    <2>2. product' = tmp
      BY <1>12, <2>1 DEF Replace
    <2> QED BY <2>1, <2>2 DEF ProductSurvives
  <1>13. ASSUME NEW t \in Threads, Stamp(t) PROVE ProductSurvives'
    <2>1. product' = product \/ product' # NoProduct
      BY <1>0, <1>13 DEF Stamp, NoProduct, TypeOK, Products
    <2>2. last' = last /\ \A u \in Threads : pc[u] = "replace" => pc'[u] = "replace"
      BY <1>0, <1>13 DEF Stamp, Goto, TypeOK
    <2> QED BY <2>1, <2>2 DEF ProductSurvives
  <1>14. CASE Checkout
    BY <1>1, <1>14 DEF Checkout, disk
  <1>15. CASE Crash
    BY <1>0, <1>15 DEF Crash, TypeOK
  <1>16. CASE UNCHANGED vars
    BY <1>1, <1>16 DEF vars, disk
  <1> QED
    BY <1>3, <1>4, <1>5, <1>6, <1>7, <1>8, <1>9, <1>10, <1>11, <1>12, <1>13, <1>14, <1>15, <1>16
    DEF Next, BuilderStep

(* ... without crashes and disk errors a published product is away only    *)
(* between the unlink and the replace of a commit (writer.py:831).         *)
THEOREM ProductStays ==
  ASSUME SameName, ~DiskFails, MaxCrashes = 0
  PROVE  Spec => []ProductSurvives
  <1>1. Init => ProductSurvives
    BY DEF Init, ProductSurvives
  <1>2. Inv /\ ProductSurvives /\ [Next]_vars => ProductSurvives'
    BY SurvivesStep
  <1> QED BY <1>1, <1>2, Inductive, PTL DEF Spec

-----------------------------------------------------------------------------
(* The service implements the abstract product: a step in the body is a    *)
(* Write, ReadRows is an Answer, and so on; nothing else is seen of it.    *)
Readers == {t \in Threads : pc[t] \in Reading}

Got == [t \in Threads |-> ans[t].rows]

LEMMA RowsOfEnvelope ==
  ASSUME NEW s, NEW u, NEW f
  PROVE  Envelope(s, u, f).rows = NoProduct
  BY DEF Envelope

(* A step that answers without rows does not change what is held, and one  *)
(* that moves no thread in or out of a query does not change the readers.  *)
LEMMA GotSame ==
  ASSUME TypeOK, QueryInv, NEW t \in Threads, pc[t] # "answered",
         \/ ans' = ans
         \/ \E s, u, f : ans' = [ans EXCEPT ![t] = Envelope(s, u, f)]
  PROVE  Got' = Got
  <1>1. CASE ans' = ans
    BY <1>1 DEF Got
  <1>2. ASSUME NEW s, NEW u, NEW f, ans' = [ans EXCEPT ![t] = Envelope(s, u, f)]
        PROVE  Got' = Got
    <2>1. ans'[t].rows = NoProduct
      BY <1>2, RowsOfEnvelope DEF TypeOK
    <2>2. ans[t].rows = NoProduct
      <3>1. ans[t] = NoAnswer
        BY DEF QueryInv
      <3> QED BY <3>1 DEF NoAnswer, Envelope
    <2>3. \A v \in Threads : ans'[v].rows = ans[v].rows
      BY <1>2, <2>1, <2>2
    <2> QED BY <2>3 DEF Got
  <1> QED BY <1>1, <1>2

LEMMA ReadersStep ==
  ASSUME TypeOK, NEW t \in Threads, NEW l, Goto(t, l)
  PROVE  /\ l \in Reading => Readers' = Readers \cup {t}
         /\ l \notin Reading => Readers' = Readers \ {t}
  BY DEF TypeOK, Goto, Readers

LEMMA LastGrows ==
  ASSUME TypeOK, FileInv, NEW t \in Threads, BodyAction(t)
  PROVE  last <= last'
  <1>1. CASE Replace(t)
    BY <1>1 DEF Replace, FileInv, ThreadFile, TypeOK
  <1>2. CASE ~Replace(t)
    <2>1. last' = last
      BY <1>2 DEF BodyAction, BeginIndex, BeginUpdate, PlanUpdate, Halt, Cancelled, Work, Commit,
                  Unlink, Stamp, FinishIndex, FinishUpdate, disk
    <2> QED BY <2>1 DEF TypeOK
  <1> QED BY <1>1, <1>2

LEMMA StepRefines ==
  ASSUME SameName, Inv, Inv', [Next]_vars
  PROVE  [Atomic!Next]_(Atomic!vars)
  <1> USE DEF Atomic!Next, Atomic!vars
  <1>0. TypeOK /\ GateInv /\ QueryInv /\ FileInv /\ FileOk'
    BY DEF Inv, FileInv
  <1>a. "answered" \notin Reading /\ "idle" \notin Reading
    BY DEF Reading
  <1>1. ASSUME NEW t \in Threads, BodyAction(t) PROVE Atomic!Write
    <2>1. PICK l \in Inside \cup {"answered"} : pc' = [pc EXCEPT ![t] = l]
      BY <1>0, <1>1, BodyMoves
    <2>2. pc[t] \in Body /\ pc[t] # "answered" /\ l \notin Reading
      BY <1>0, <1>1, BodyMoves DEF Inside, Body, Pipeline, Publishing, Reading
    <2>3. Readers = {}
      BY <1>0, <2>2 DEF Readers, GateInv, ReadersOut
    <2>4. Readers' = Readers
      BY <1>0, <2>1, <2>2, <2>3, ReadersStep DEF Goto
    <2>5. Got' = Got
      BY <1>0, <1>1, <2>2, BodyAnswers, GotSame
    <2>6. last <= last'
      BY <1>0, <1>1, LastGrows
    <2>7. product' = NoProduct \/ product'.ver = last'
      BY <1>0 DEF FileOk
    <2>8. last \in Nat /\ last' \in Nat
      BY DEF Inv, TypeOK
    <2> QED BY <2>3, <2>4, <2>5, <2>6, <2>7, <2>8 DEF Atomic!Write, Readers, Got
  \* a thread outside that does not touch the file and shows nothing
  <1>2. ASSUME NEW t \in Threads, UNCHANGED disk, NEW l, pc' = [pc EXCEPT ![t] = l],
               l \in Reading <=> pc[t] \in Reading, pc[t] # "answered",
               ans' = ans \/ \E s, u, f : ans' = [ans EXCEPT ![t] = Envelope(s, u, f)]
        PROVE  UNCHANGED Atomic!vars
    <2>1. Readers' = Readers
      BY <1>0, <1>2 DEF Readers, TypeOK
    <2>2. Got' = Got
      BY <1>0, <1>2, GotSame
    <2> QED BY <1>2, <2>1, <2>2 DEF disk, Readers, Got
  <1>3. ASSUME NEW t \in Threads, NEW o \in Ops, Start(t, o) PROVE UNCHANGED Atomic!vars
    <2>1. pc[t] = "idle" /\ UNCHANGED disk
      BY <1>3 DEF Start
    <2>2. CASE Answer(t, "not_indexed", FALSE, "unknown")
      BY <1>2, <1>a, <2>1, <2>2 DEF Answer, Goto
    <2>3. CASE Goto(t, "bound") /\ ans' = ans
      BY <1>2, <1>a, <2>1, <2>3 DEF Goto, Reading
    <2> QED BY <1>3, <2>2, <2>3 DEF Start
  <1>4. ASSUME NEW t \in Threads, Return(t) PROVE Atomic!Return(t)
    <2>1. /\ pc[t] = "answered" /\ pc' = [pc EXCEPT ![t] = "idle"]
          /\ ans' = [ans EXCEPT ![t] = NoAnswer] /\ UNCHANGED disk
      BY <1>4 DEF Return, Goto
    <2>2. Readers' = Readers
      BY <1>0, <1>a, <2>1 DEF Readers, TypeOK
    <2>3. \A v \in Threads : ans'[v].rows = IF v = t THEN NoProduct ELSE ans[v].rows
      BY <1>0, <2>1, RowsOfEnvelope DEF TypeOK, NoAnswer
    <2>4. Got' = [Got EXCEPT ![t] = NoProduct]
      BY <2>3 DEF Got
    <2> QED BY <2>1, <2>2, <2>4 DEF Atomic!Return, disk, Readers, Got
  <1>5. ASSUME NEW t \in Threads, Cancel(t) PROVE UNCHANGED Atomic!vars
    BY <1>5 DEF Cancel, disk
  <1>6. ASSUME NEW t \in Threads, EnterQuery(t)
        PROVE  Atomic!Open(t) \/ UNCHANGED Atomic!vars
    <2>1. pc[t] = "bound" /\ UNCHANGED disk
      BY <1>6 DEF EnterQuery
    <2>2. CASE Answer(t, "building", FALSE, "building")
      BY <1>2, <1>a, <2>1, <2>2 DEF Answer, Goto, Reading
    <2>3. CASE Goto(t, "meta") /\ ans' = ans
      <3>1. Readers' = Readers \cup {t} /\ t \notin Readers
        BY <1>0, <2>1, <2>3, ReadersStep DEF Reading, Readers
      <3>2. Got' = Got
        BY <2>3 DEF Got
      <3> QED BY <2>1, <3>1, <3>2 DEF Atomic!Open, disk, Readers, Got
    <2> QED BY <1>6, <2>2, <2>3 DEF EnterQuery
  <1>7. ASSUME NEW t \in Threads, ReadMeta(t)
        PROVE  Atomic!Abandon(t) \/ UNCHANGED Atomic!vars
    <2>1. pc[t] = "meta" /\ UNCHANGED disk
      BY <1>7 DEF ReadMeta
    <2>2. CASE Answer(t, "not_indexed", FALSE, "unknown")
      <3>1. Readers' = Readers \ {t} /\ t \in Readers
        BY <1>0, <1>a, <2>1, <2>2, ReadersStep DEF Reading, Readers, Answer
      <3>2. Got' = Got
        BY <1>0, <2>1, <2>2, GotSame DEF Answer
      <3> QED BY <2>1, <3>1, <3>2 DEF Atomic!Abandon, disk, Readers, Got
    <2>3. CASE Goto(t, "rows") /\ ans' = ans
      BY <1>2, <2>1, <2>3 DEF Goto, Reading
    <2> QED BY <1>7, <2>2, <2>3 DEF ReadMeta
  <1>8. ASSUME NEW t \in Threads, ReadRows(t) PROVE Atomic!Answer(t)
    <2>1. pc[t] = "rows" /\ UNCHANGED disk /\ product # NoProduct
      BY <1>0, <1>8 DEF ReadRows, QueryInv
    <2> DEFINE row == [state |-> "rows", updated |-> FALSE,
                       freshness |-> FreshnessNow(FALSE, ref[t] \in blocked),
                       snapshot |-> snap[t], rows |-> product]
    <2>2. ans' = [ans EXCEPT ![t] = row] /\ Goto(t, "answered") /\ row.rows = product
      BY <1>8, <2>1 DEF ReadRows
    <2> HIDE DEF row
    <2>3. Readers' = Readers \ {t} /\ t \in Readers
      BY <1>0, <1>a, <2>1, <2>2, ReadersStep DEF Reading, Readers
    <2>4. \A v \in Threads : ans'[v].rows = IF v = t THEN product ELSE ans[v].rows
      BY <1>0, <2>2 DEF TypeOK
    <2>5. Got' = [Got EXCEPT ![t] = product]
      BY <2>4 DEF Got
    <2> QED BY <2>1, <2>3, <2>5 DEF Atomic!Answer, disk, Readers, Got
  <1>9. ASSUME NEW t \in Threads, AdmitBuilder(t) \/ Claim(t) \/ Enter(t)
        PROVE  UNCHANGED Atomic!vars
    <2>1. pc[t] \in {"bound", "queue", "drain"} /\ UNCHANGED disk
      BY <1>9 DEF AdmitBuilder, Claim, Enter
    <2>2. CASE Answer(t, "building", FALSE, "building")
      BY <1>2, <1>a, <2>1, <2>2 DEF Answer, Goto, Reading
    <2>3. CASE ans' = ans /\ \E l \in {"queue", "drain", "begin"} : Goto(t, l)
      BY <1>2, <2>1, <2>3 DEF Goto, Reading
    <2> QED BY <1>9, <2>2, <2>3 DEF AdmitBuilder, Claim, Enter
  <1>10. CASE Checkout
    BY <1>10 DEF Checkout, disk
  <1>11. CASE Crash
    <2>1. Readers' = {}
      BY <1>11, <1>a DEF Crash, Readers
    <2>2. \A v \in Threads : ans'[v].rows = NoProduct
      BY <1>11, RowsOfEnvelope DEF Crash, NoAnswer
    <2>3. Got' = [v \in Threads |-> NoProduct]
      BY <2>2 DEF Got
    <2>4. UNCHANGED disk
      BY <1>11 DEF Crash
    <2> QED BY <2>1, <2>3, <2>4 DEF Atomic!Crash, disk, Readers, Got
  <1>12. CASE UNCHANGED vars
    BY <1>12 DEF vars, disk
  <1> QED
    BY <1>1, <1>3, <1>4, <1>5, <1>6, <1>7, <1>8, <1>9, <1>10, <1>11, <1>12
    DEF Next, QueryStep, BuilderStep, BodyAction

(* Whatever file, gates and flags do, the service is one product that      *)
(* changes only between queries and never goes back (locks.py:2).          *)
THEOREM ServiceImplements ==
  ASSUME SameName
  PROVE  Spec => ImplementsAtomicProduct
  <1>1. Init => Atomic!Init
    <2>1. ASSUME Init PROVE Readers = {} /\ Got = [t \in Threads |-> NoProduct]
      BY <2>1, RowsOfEnvelope DEF Init, Readers, Reading, Got, NoAnswer
    <2> QED BY <2>1 DEF Init, Atomic!Init, Readers, Got
  <1>2. Inv /\ Inv' /\ [Next]_vars => [Atomic!Next]_(Atomic!vars)
    BY StepRefines
  <1> QED
    BY <1>1, <1>2, Inductive, PTL DEF Spec, Atomic!Spec, ImplementsAtomicProduct
-----------------------------------------------------------------------------
(* The gates, however directories are named: per id one holder, and no     *)
(* query inside together with a body.                                      *)
GatesApart ==
  \A t, u \in Threads : gate[t] = gate[u] =>
     /\ pc[t] \in Holding /\ pc[u] \in Holding => t = u
     /\ pc[t] \in Body => pc[u] \notin Reading

(* A move of one thread keeps them apart if it looks at the others of its  *)
(* id before it holds or reads.                                            *)
LEMMA ApartStep ==
  ASSUME TypeOK, GatesApart, NEW t \in Threads, NEW l,
         pc' = [pc EXCEPT ![t] = l],
         \A u \in Threads \ {t} : gate'[u] = gate[u],
         l \in Holding \cup Reading => gate'[t] = gate[t],
         l \in Holding => pc[t] \in Holding \/ ~IsWriting(gate[t]),
         l \in Body => pc[t] \in Body \/ Drained(t),
         l \in Reading => pc[t] \in Reading \/ ~IsWriting(gate[t])
  PROVE  GatesApart'
  <1>1. \A u \in Threads : pc'[u] = IF u = t THEN l ELSE pc[u]
    BY DEF TypeOK
  <1>2. Holding \cap Reading = {} /\ Body \subseteq Holding
    BY DEF Holding, Body, Reading, Pipeline, Publishing
  <1>3. SUFFICES ASSUME NEW u \in Threads, NEW v \in Threads, gate'[u] = gate'[v]
                 PROVE  /\ pc'[u] \in Holding /\ pc'[v] \in Holding => u = v
                        /\ pc'[u] \in Body => pc'[v] \notin Reading
    BY DEF GatesApart
  <1>4. CASE u # t /\ v # t
    BY <1>1, <1>3, <1>4 DEF GatesApart
  <1>5. CASE u = t /\ v # t
    BY <1>1, <1>2, <1>3, <1>5 DEF GatesApart, IsWriting, Drained
  <1>6. CASE u # t /\ v = t
    BY <1>1, <1>2, <1>3, <1>6 DEF GatesApart, IsWriting, Drained
  <1>7. CASE u = t /\ v = t
    BY <1>1, <1>2, <1>7
  <1> QED BY <1>4, <1>5, <1>6, <1>7

(* What the mapping sees of a move of one thread.                          *)
LEMMA UsingStep ==
  ASSUME TypeOK, NEW t \in Threads, NEW l, pc' = [pc EXCEPT ![t] = l], gate' = gate, NEW id \in Ids
  PROVE  /\ (pc[t] \in Reading <=> l \in Reading) => Using(id, Reading)' = Using(id, Reading)
         /\ (pc[t] \in Body <=> l \in Body) => Using(id, Body)' = Using(id, Body)
         /\ pc[t] \notin Reading /\ l \in Reading =>
              Using(id, Reading)' = IF id = gate[t] THEN Using(id, Reading) \cup {t}
                                                   ELSE Using(id, Reading)
         /\ pc[t] \in Reading /\ l \notin Reading =>
              Using(id, Reading)' = IF id = gate[t] THEN Using(id, Reading) \ {t}
                                                   ELSE Using(id, Reading)
         /\ pc[t] \notin Body /\ l \in Body =>
              Using(id, Body)' = IF id = gate[t] THEN Using(id, Body) \cup {t} ELSE Using(id, Body)
         /\ pc[t] \in Body /\ l \notin Body =>
              Using(id, Body)' = IF id = gate[t] THEN Using(id, Body) \ {t} ELSE Using(id, Body)
  <1>1. \A u \in Threads : pc'[u] = IF u = t THEN l ELSE pc[u]
    BY DEF TypeOK
  <1> QED BY <1>1 DEF Using

LEMMA OutsideStutters ==
  ASSUME TypeOK, NEW t \in Threads, NEW l,
         pc' = [pc EXCEPT ![t] = l],
         pc[t] \notin Reading \cup Body, l \notin Reading \cup Body,
         \A u \in Threads \ {t} : gate'[u] = gate[u]
  PROVE  UNCHANGED Access!avars
  <1>1. \A id \in Ids : Using(id, Reading)' = Using(id, Reading) /\ Using(id, Body)' = Using(id, Body)
    BY DEF Using, TypeOK
  <1> QED BY <1>1 DEF Access!avars

(* Every step, seen through the mapping, with the invariant it keeps.      *)
LEMMA AccessStep ==
  ASSUME TypeOK, GatesApart, [Next]_vars
  PROVE  GatesApart' /\ [Access!Next]_(Access!avars)
  <1> DEFINE Goal == GatesApart' /\ [Access!Next]_(Access!avars)
  <1>a. /\ Reading = {"meta", "rows"} /\ Body \cap Reading = {} /\ Holding \cap Reading = {}
        /\ Holding = Body \cup {"drain"}
        /\ {"idle", "bound", "queue", "drain", "answered"} \cap (Body \cup Reading) = {}
        /\ {"idle", "bound", "queue", "answered"} \cap Holding = {}
        /\ Inside \subseteq Body /\ "begin" \in Body
    BY DEF Reading, Holding, Body, Inside, Pipeline, Publishing
  <1>b. \A t \in Threads : gate[t] \in Ids
    BY DEF TypeOK
  <1>c. ASSUME GatesApart', NEW t \in Threads, \E id \in Ids :
                  \/ Access!BeginRead(t, id) \/ Access!EndRead(t, id)
                  \/ Access!BeginWrite(t, id) \/ Access!EndWrite(t, id)
        PROVE  Goal
    BY <1>c DEF Access!Next
  \* a thread outside moves and stays outside
  <1>1. ASSUME NEW t \in Threads, NEW l \in {"idle", "bound", "queue", "answered"},
               pc' = [pc EXCEPT ![t] = l], pc[t] \in {"idle", "bound", "queue", "answered"},
               \A u \in Threads \ {t} : gate'[u] = gate[u]
        PROVE  Goal
    BY <1>a, <1>1, ApartStep, OutsideStutters
  <1>2. ASSUME NEW t \in Threads, NEW o \in Ops, Start(t, o) PROVE Goal
    <2>1. /\ pc[t] = "idle" /\ \A u \in Threads \ {t} : gate'[u] = gate[u]
          /\ \E l \in {"bound", "answered"} : pc' = [pc EXCEPT ![t] = l]
      BY <1>2 DEF Start, Answer, Goto, TypeOK
    <2> QED BY <1>1, <2>1
  <1>3. ASSUME NEW t \in Threads, Return(t) PROVE Goal
    <2>1. /\ pc[t] = "answered" /\ \A u \in Threads \ {t} : gate'[u] = gate[u]
          /\ pc' = [pc EXCEPT ![t] = "idle"]
      BY <1>3 DEF Return, Goto, TypeOK
    <2> QED BY <1>1, <2>1
  <1>4. ASSUME pc' = pc, gate' = gate PROVE Goal
    BY <1>4 DEF GatesApart, Access!avars, Using
  <1>5. ASSUME NEW t \in Threads, EnterQuery(t) PROVE Goal
    <2>1. gate' = gate /\ pc[t] = "bound"
      BY <1>5 DEF EnterQuery, call
    <2>2. CASE IsBuilding(gate[t])
      BY <1>1, <1>5, <2>1, <2>2 DEF EnterQuery, Answer, Goto
    <2>3. CASE ~IsBuilding(gate[t])
      <3>1. pc' = [pc EXCEPT ![t] = "meta"] /\ ~IsWriting(gate[t])
        BY <1>5, <2>3 DEF EnterQuery, Goto, IsBuilding
      <3>2. GatesApart'
        BY <1>a, <2>1, <3>1, ApartStep
      <3>3. Using(gate[t], Body) = {}
        BY <1>a, <3>1 DEF IsWriting, Using
      <3>4. \A id \in Ids : /\ Using(id, Body)' = Using(id, Body)
                            /\ Using(id, Reading)' = IF id = gate[t] THEN Using(id, Reading) \cup {t}
                                                                     ELSE Using(id, Reading)
        BY <1>a, <2>1, <3>1, UsingStep
      <3>5. Access!BeginRead(t, gate[t])
        BY <1>b, <3>3, <3>4 DEF Access!BeginRead
      <3> QED BY <1>b, <1>c, <3>2, <3>5
    <2> QED BY <2>2, <2>3
  \* a query leaves
  <1>6. ASSUME NEW t \in Threads, pc[t] \in Reading, pc' = [pc EXCEPT ![t] = "answered"], gate' = gate
        PROVE  Goal
    <2>1. GatesApart'
      BY <1>a, <1>6, ApartStep
    <2>2. t \in Using(gate[t], Reading)
      BY <1>6 DEF Using
    <2>3. \A id \in Ids : /\ Using(id, Body)' = Using(id, Body)
                          /\ Using(id, Reading)' = IF id = gate[t] THEN Using(id, Reading) \ {t}
                                                                   ELSE Using(id, Reading)
      BY <1>a, <1>6, UsingStep
    <2>4. Access!EndRead(t, gate[t])
      BY <1>b, <2>2, <2>3 DEF Access!EndRead
    <2> QED BY <1>b, <1>c, <2>1, <2>4
  <1>7. ASSUME NEW t \in Threads, ReadMeta(t) PROVE Goal
    <2>1. gate' = gate /\ pc[t] = "meta"
      BY <1>7 DEF ReadMeta, call
    <2>2. CASE product = NoProduct
      BY <1>a, <1>6, <1>7, <2>1, <2>2 DEF ReadMeta, Answer, Goto
    <2>3. CASE product # NoProduct
      <3>1. pc' = [pc EXCEPT ![t] = "rows"]
        BY <1>7, <2>3 DEF ReadMeta, Goto
      <3>2. GatesApart'
        BY <1>a, <2>1, <3>1, ApartStep
      <3>3. \A id \in Ids : Using(id, Reading)' = Using(id, Reading) /\ Using(id, Body)' = Using(id, Body)
        BY <1>a, <2>1, <3>1, UsingStep
      <3> QED BY <3>2, <3>3 DEF Access!avars
    <2> QED BY <2>2, <2>3
  <1>8. ASSUME NEW t \in Threads, ReadRows(t) PROVE Goal
    <2>1. gate' = gate /\ pc[t] = "rows" /\ pc' = [pc EXCEPT ![t] = "answered"]
      BY <1>8 DEF ReadRows, Answer, Goto, call
    <2> QED BY <1>a, <1>6, <2>1
  <1>9. ASSUME NEW t \in Threads, AdmitBuilder(t) PROVE Goal
    <2>1. gate' = gate /\ pc[t] = "bound" /\ \E l \in {"answered", "queue"} : pc' = [pc EXCEPT ![t] = l]
      BY <1>9 DEF AdmitBuilder, Answer, Goto, call
    <2> QED BY <1>1, <2>1
  <1>10. ASSUME NEW t \in Threads, Claim(t) PROVE Goal
    <2>1. gate' = gate /\ pc[t] = "queue" /\ pc' = [pc EXCEPT ![t] = "drain"] /\ ~IsWriting(gate[t])
      BY <1>10 DEF Claim, GateFree, Goto, call
    <2>2. GatesApart'
      BY <1>a, <2>1, ApartStep
    <2>3. UNCHANGED Access!avars
      BY <1>a, <2>1, OutsideStutters
    <2> QED BY <2>2, <2>3
  <1>11. ASSUME NEW t \in Threads, Enter(t) PROVE Goal
    <2>1. gate' = gate /\ pc[t] = "drain" /\ pc' = [pc EXCEPT ![t] = "begin"] /\ Drained(t)
      BY <1>11 DEF Enter, Goto, call
    <2>2. GatesApart'
      BY <1>a, <2>1, ApartStep
    <2>3. Using(gate[t], Reading) = {} /\ Using(gate[t], Body) = {}
      BY <1>a, <2>1 DEF Using, Drained, GatesApart
    <2>4. \A id \in Ids : /\ Using(id, Reading)' = Using(id, Reading)
                          /\ Using(id, Body)' = IF id = gate[t] THEN {t} ELSE Using(id, Body)
      BY <1>a, <2>1, <2>3, UsingStep
    <2>5. Access!BeginWrite(t, gate[t])
      BY <1>b, <2>3, <2>4 DEF Access!BeginWrite
    <2> QED BY <1>b, <1>c, <2>2, <2>5
  <1>12. ASSUME NEW t \in Threads, BodyAction(t) PROVE Goal
    <2>1. PICK l \in Inside \cup {"answered"} : pc' = [pc EXCEPT ![t] = l]
      BY <1>12, BodyMoves
    <2>2. pc[t] \in Body /\ gate' = gate
      BY <1>12, BodyMoves
    <2>3. GatesApart'
      BY <1>a, <2>1, <2>2, ApartStep
    <2>4. Using(gate[t], Body) = {t}
      BY <1>a, <2>2 DEF Using, GatesApart
    <2>5. \A id \in Ids : Using(id, Reading)' = Using(id, Reading)
      BY <1>a, <2>1, <2>2, UsingStep
    <2>6. CASE l \in Inside
      <3>1. \A id \in Ids : Using(id, Body)' = Using(id, Body)
        BY <1>a, <2>1, <2>2, <2>6, UsingStep
      <3> QED BY <2>3, <2>5, <3>1 DEF Access!avars
    <2>7. CASE l = "answered"
      <3>1. \A id \in Ids : Using(id, Body)' = IF id = gate[t] THEN {} ELSE Using(id, Body)
        BY <1>a, <2>1, <2>2, <2>4, <2>7, UsingStep
      <3>2. Access!EndWrite(t, gate[t])
        BY <1>b, <2>4, <2>5, <3>1 DEF Access!EndWrite
      <3> QED BY <1>b, <1>c, <2>3, <3>2
    <2> QED BY <2>6, <2>7
  <1>13. CASE Crash
    <2>1. \A t \in Threads : pc'[t] = "idle"
      BY <1>13 DEF Crash
    <2>2. GatesApart'
      BY <1>a, <2>1 DEF GatesApart
    <2>3. \A id \in Ids : Using(id, Reading)' = {} /\ Using(id, Body)' = {}
      BY <1>a, <2>1 DEF Using
    <2>4. Access!Crash
      BY <2>3 DEF Access!Crash
    <2> QED BY <2>2, <2>4 DEF Access!Next
  <1>14. ASSUME NEW t \in Threads, Cancel(t) PROVE Goal
    BY <1>4, <1>14 DEF Cancel
  <1>15. CASE Checkout \/ UNCHANGED vars
    BY <1>4, <1>15 DEF Checkout, vars, call
  <1> QED
    BY <1>2, <1>3, <1>5, <1>7, <1>8, <1>9, <1>10, <1>11, <1>12, <1>13, <1>14, <1>15
    DEF Next, QueryStep, BuilderStep, BodyAction

(* However directories are named, queries and builders hold each gate as   *)
(* SnapshotAccess allows: one builder alone or any queries, until the      *)
(* server dies (control.py 473-481, query.py 386, locks.py 20).            *)
THEOREM ServiceUsesGates == Spec => ImplementsAccess
  <1>1. Init => GatesApart /\ Access!Init
    <2>1. ASSUME Init PROVE \A t \in Threads : pc[t] = "idle"
      BY <2>1 DEF Init
    <2>2. "idle" \notin Holding \cup Body \cup Reading
      BY DEF Holding, Body, Reading, Pipeline, Publishing
    <2> QED BY <2>1, <2>2 DEF GatesApart, Access!Init, Using
  <1>2. TypeOK /\ GatesApart /\ [Next]_vars => GatesApart' /\ [Access!Next]_(Access!avars)
    BY AccessStep
  <1> QED
    BY <1>1, <1>2, TypeCorrect, PTL DEF Spec, Access!Spec, ImplementsAccess

-----------------------------------------------------------------------------
(***************************************************************************)
(* Versions, however directories are named.  What is in the .tmp file is   *)
(* what was written last, whoever wrote it, so a replace never goes back.  *)
(***************************************************************************)
AgeInv ==
  /\ AnswersInOrder
  /\ tmp # NoProduct => tmp.ver = built
  /\ last <= built
  /\ \A t \in Threads : snap[t].ver <= last

\* What t is about to answer, if anything, is no rows.
SaysNoRows(t) ==
  \/ UNCHANGED ans
  \/ \E s, u, f : ans' = [ans EXCEPT ![t] = Envelope(s, u, f)]

\* The two histories that order the versions, in a step that adds no rows.
LEMMA AgeOfAnswers ==
  ASSUME TypeOK, TypeOK', AgeInv, UNCHANGED snap, last' >= last,
         NEW t \in Threads, SaysNoRows(t)
  PROVE  \A v \in Threads : /\ ans'[v].snapshot.ver <= ans'[v].rows.ver
                            /\ ans'[v].rows.ver <= last'
                            /\ snap'[v].ver <= last'
  <1>1. \A s, u, f : Envelope(s, u, f).snapshot.ver = 0 /\ Envelope(s, u, f).rows.ver = 0
    BY DEF Envelope, NoProduct
  <1> SUFFICES ASSUME NEW v \in Threads
               PROVE  /\ ans'[v].snapshot.ver <= ans'[v].rows.ver
                      /\ ans'[v].rows.ver <= last'
                      /\ snap'[v].ver <= last'
    OBVIOUS
  <1>2. ans'[v] = ans[v] \/ \E s, u, f : ans'[v] = Envelope(s, u, f)
    BY DEF TypeOK, SaysNoRows
  <1>3. last \in Nat /\ last' \in Nat /\ snap[v].ver \in Nat
        /\ ans[v].rows.ver \in Nat /\ ans[v].snapshot.ver \in Nat
    BY DEF TypeOK, Answers, Products
  <1>4. ans[v].snapshot.ver <= ans[v].rows.ver /\ ans[v].rows.ver <= last /\ snap[v].ver <= last
    BY DEF AgeInv, AnswersInOrder
  <1>5. CASE ans'[v] = ans[v]
    BY <1>3, <1>4, <1>5
  <1>6. CASE \E s, u, f : ans'[v] = Envelope(s, u, f)
    <2>1. ans'[v].snapshot.ver = 0 /\ ans'[v].rows.ver = 0
      BY <1>1, <1>6
    <2> QED BY <2>1, <1>3, <1>4
  <1> QED BY <1>2, <1>5, <1>6

LEMMA AgeOfRest ==
  ASSUME TypeOK, TypeOK', AgeInv, UNCHANGED <<disk, snap>>, NEW t \in Threads, SaysNoRows(t)
  PROVE  AgeInv' /\ last' >= last
  <1>1. last' >= last
    BY DEF disk, TypeOK
  <1>2. \A v \in Threads : /\ ans'[v].snapshot.ver <= ans'[v].rows.ver
                           /\ ans'[v].rows.ver <= last'
                           /\ snap'[v].ver <= last'
    BY <1>1, AgeOfAnswers
  <1> QED BY <1>1, <1>2 DEF AgeInv, AnswersInOrder, disk

LEMMA AnswerSaysNoRows ==
  ASSUME NEW t, NEW s, NEW u, NEW f, Answer(t, s, u, f)
  PROVE  SaysNoRows(t)
  BY DEF Answer, SaysNoRows

LEMMA FailureSaysNoRows ==
  ASSUME NEW t, StepFails(t)
  PROVE  SaysNoRows(t)
  BY AnswerSaysNoRows DEF StepFails, SaysNoRows

\* The steps that leave files and the meta a query read as they were.
LEMMA AgeOfCalls ==
  ASSUME TypeOK, TypeOK', AgeInv, NEW t \in Threads,
         \/ \E o \in Ops : Start(t, o)
         \/ Return(t) \/ Cancel(t) \/ EnterQuery(t) \/ AdmitBuilder(t) \/ Claim(t)
         \/ Enter(t) \/ BeginIndex(t) \/ BeginUpdate(t) \/ PlanUpdate(t) \/ Halt(t)
         \/ Work(t) \/ FinishIndex(t) \/ FinishUpdate(t)
  PROVE  AgeInv' /\ last' >= last
  <1>0. ASSUME UNCHANGED <<disk, snap>>, SaysNoRows(t) PROVE AgeInv' /\ last' >= last
    BY <1>0, AgeOfRest
  <1>1. ASSUME NEW o \in Ops, Start(t, o) PROVE AgeInv' /\ last' >= last
    BY <1>0, <1>1, AnswerSaysNoRows DEF Start, SaysNoRows
  <1>2. CASE Return(t)
    <2>1. SaysNoRows(t) BY <1>2 DEF Return, SaysNoRows, NoAnswer
    <2> QED BY <2>1, <1>0, <1>2 DEF Return
  <1>3. CASE Cancel(t)
    BY <1>0, <1>3 DEF Cancel, SaysNoRows
  <1>4. CASE EnterQuery(t) \/ AdmitBuilder(t)
    BY <1>0, <1>4, AnswerSaysNoRows DEF EnterQuery, AdmitBuilder, SaysNoRows
  <1>5. CASE Claim(t) \/ Enter(t)
    BY <1>0, <1>5 DEF Claim, Enter, SaysNoRows
  <1>6. CASE BeginIndex(t)
    BY <1>0, <1>6, AnswerSaysNoRows DEF BeginIndex, SaysNoRows
  <1>7. CASE BeginUpdate(t)
    <2>1. SaysNoRows(t) BY <1>7, AnswerSaysNoRows DEF BeginUpdate, SaysNoRows
    <2> QED BY <2>1, <1>0, <1>7 DEF BeginUpdate
  <1>8. CASE PlanUpdate(t)
    <2>1. SaysNoRows(t) BY <1>8, AnswerSaysNoRows DEF PlanUpdate, SaysNoRows
    <2> QED BY <2>1, <1>0, <1>8 DEF PlanUpdate
  <1>9. CASE Halt(t)
    BY <1>0, <1>9, AnswerSaysNoRows DEF Halt, Cancelled
  <1>10. CASE Work(t)
    <2>1. SaysNoRows(t) BY <1>10, FailureSaysNoRows DEF Work, SaysNoRows
    <2> QED BY <2>1, <1>0, <1>10 DEF Work
  <1>11. CASE FinishIndex(t)
    BY <1>0, <1>11, AnswerSaysNoRows DEF FinishIndex
  <1>12. CASE FinishUpdate(t)
    <2>1. SaysNoRows(t) BY <1>12, AnswerSaysNoRows DEF FinishUpdate
    <2> QED BY <2>1, <1>0, <1>12 DEF FinishUpdate
  <1> QED BY <1>1, <1>2, <1>3, <1>4, <1>5, <1>6, <1>7, <1>8, <1>9, <1>10, <1>11, <1>12

\* A query takes the version of the meta table, then that of the rows.
LEMMA AgeOfReads ==
  ASSUME TypeOK, TypeOK', AgeInv, NEW t \in Threads, ReadMeta(t) \/ ReadRows(t)
  PROVE  AgeInv' /\ last' >= last
  <1>1. last' = last /\ product' = product /\ tmp' = tmp /\ built' = built /\ last \in Nat
    BY DEF ReadMeta, ReadRows, disk, TypeOK
  <1>2. NoProduct.ver = 0
    BY DEF NoProduct
  <1>3. \A v \in Threads : snap'[v].ver <= last
    <2>1. \A v \in Threads : snap'[v] = snap[v] \/ snap'[v] = NoProduct
                             \/ (snap'[v] = product /\ product # NoProduct)
      BY DEF ReadMeta, ReadRows, TypeOK
    <2> QED BY <1>1, <1>2, <2>1 DEF AgeInv, AnswersInOrder
  <1>4. CASE ReadRows(t) /\ product # NoProduct
    <2>1. \A v \in Threads \ {t} : ans'[v] = ans[v]
      BY <1>4 DEF ReadRows, TypeOK
    <2>2. ans'[t].snapshot = snap[t] /\ ans'[t].rows = product
      BY <1>4 DEF ReadRows, TypeOK
    <2>3. snap[t].ver <= last /\ product.ver = last
      BY <1>4 DEF AgeInv, AnswersInOrder
    <2>4. \A v \in Threads : ans'[v].snapshot.ver <= ans'[v].rows.ver /\ ans'[v].rows.ver <= last
      BY <1>1, <2>1, <2>2, <2>3 DEF AgeInv, AnswersInOrder
    <2> QED BY <1>1, <1>3, <2>4 DEF AgeInv, AnswersInOrder
  <1>5. CASE ~(ReadRows(t) /\ product # NoProduct)
    <2>1. SaysNoRows(t)
      BY <1>5, AnswerSaysNoRows DEF ReadMeta, ReadRows, SaysNoRows
    <2>2. \A v \in Threads : ans'[v] = ans[v] \/ \E s, u, f : ans'[v] = Envelope(s, u, f)
      BY <2>1 DEF SaysNoRows, TypeOK
    <2>3. \A s, u, f : Envelope(s, u, f).snapshot.ver = 0 /\ Envelope(s, u, f).rows.ver = 0
      BY DEF Envelope, NoProduct
    <2>4. \A v \in Threads : ans'[v].snapshot.ver <= ans'[v].rows.ver /\ ans'[v].rows.ver <= last
      BY <1>1, <2>2, <2>3 DEF AgeInv, AnswersInOrder
    <2> QED BY <1>1, <1>3, <2>4 DEF AgeInv, AnswersInOrder
  <1> QED BY <1>4, <1>5

\* The steps of a replacement.
LEMMA AgeOfFiles ==
  ASSUME TypeOK, TypeOK', AgeInv, NEW t \in Threads,
         Commit(t) \/ Unlink(t) \/ Replace(t) \/ Stamp(t)
  PROVE  AgeInv' /\ last' >= last
  <1>1. SaysNoRows(t) /\ UNCHANGED snap
    <2>1. CASE Commit(t) BY <2>1, FailureSaysNoRows DEF Commit, SaysNoRows
    <2>2. CASE Unlink(t) BY <2>2, FailureSaysNoRows DEF Unlink, SaysNoRows
    <2>3. CASE Replace(t) BY <2>3, FailureSaysNoRows DEF Replace, SaysNoRows
    <2>4. CASE Stamp(t) BY <2>4 DEF Stamp, SaysNoRows
    <2> QED BY <2>1, <2>2, <2>3, <2>4
  <1>2. /\ last' >= last
        /\ product' # NoProduct => product'.ver = last'
        /\ tmp' # NoProduct => tmp'.ver = built'
        /\ last' <= built'
    <2> USE DEF TypeOK
    <2>1. CASE Commit(t) BY <2>1 DEF Commit, AgeInv, AnswersInOrder
    <2>2. CASE Unlink(t) BY <2>2 DEF Unlink, AgeInv, AnswersInOrder
    <2>3. CASE Replace(t) BY <2>3 DEF Replace, AgeInv, AnswersInOrder
    <2>4. CASE Stamp(t)
      <3>1. product' # NoProduct => product # NoProduct /\ product'.ver = product.ver
        BY <2>4 DEF Stamp, Products
      <3> QED BY <2>4, <3>1 DEF Stamp, AgeInv, AnswersInOrder
    <2> QED BY <2>1, <2>2, <2>3, <2>4
  <1>3. \A v \in Threads : /\ ans'[v].snapshot.ver <= ans'[v].rows.ver
                           /\ ans'[v].rows.ver <= last'
                           /\ snap'[v].ver <= last'
    BY <1>1, <1>2, AgeOfAnswers
  <1> QED BY <1>2, <1>3 DEF AgeInv, AnswersInOrder

LEMMA AgeStep ==
  ASSUME TypeOK, TypeOK', AgeInv, [Next]_vars
  PROVE  AgeInv' /\ last' >= last
  <1>1. ASSUME NEW t \in Threads, (\E o \in Ops : Start(t, o)) \/ Return(t) \/ Cancel(t)
                                  \/ QueryStep(t) \/ BuilderStep(t)
        PROVE  AgeInv' /\ last' >= last
    BY <1>1, AgeOfCalls, AgeOfReads, AgeOfFiles DEF QueryStep, BuilderStep
  <1>2. CASE Checkout \/ UNCHANGED vars
    <2>1. UNCHANGED <<disk, snap, ans>> BY <1>2 DEF Checkout, vars
    <2> QED BY <2>1 DEF AgeInv, AnswersInOrder, disk, TypeOK
  <1>3. CASE Crash
    <2>1. UNCHANGED disk BY <1>3 DEF Crash
    <2>2. \A v \in Threads : /\ ans'[v].snapshot.ver = 0
                             /\ ans'[v].rows.ver = 0
                             /\ snap'[v].ver = 0
      BY <1>3 DEF Crash, NoAnswer, Envelope, NoProduct
    <2> QED BY <2>1, <2>2 DEF AgeInv, AnswersInOrder, disk, TypeOK
  <1> QED BY <1>1, <1>2, <1>3 DEF Next

(* The product is always the version published last, versions only rise,   *)
(* and rows are never older than the snapshot id they carry: through       *)
(* crashes, disk errors and two builders of one CodeMap at once.           *)
THEOREM ProductsNeverGoBack == Spec => []AnswersInOrder /\ PublishedInOrder
  <1>1. Init => AgeInv
    BY DEF Init, AgeInv, AnswersInOrder, NoAnswer, Envelope, NoProduct
  <1>2. TypeOK /\ TypeOK' /\ AgeInv /\ [Next]_vars => AgeInv' /\ last' >= last
    BY AgeStep
  <1>3. AgeInv => AnswersInOrder
    BY DEF AgeInv
  <1>4. Spec => []TypeOK
    BY TypeCorrect
  <1>5. TypeOK /\ TypeOK' /\ AgeInv /\ [Next]_vars => [last' >= last]_vars
    BY AgeStep
  <1> QED BY <1>1, <1>2, <1>3, <1>4, <1>5, PTL DEF Spec, PublishedInOrder
=============================================================================
