----------------------- MODULE WebhookDeliveryProofs -----------------------
(***************************************************************************)
(* Theorems about WebhookDelivery for every number of workers, rows, batch  *)
(* size, deadline and retry table.                                          *)
(***************************************************************************)
EXTENDS WebhookDelivery, FiniteSetTheorems, TLAPS

-----------------------------------------------------------------------------
(* Types.  Whether a worker is attempting a row is told by its stage, and a  *)
(* worker outside its delivery loop holds nothing.                           *)

StageOK ==
    \A w \in Workers :
        /\ pc[w] \in {"send", "record"} <=> cur[w] # NoClaim
        /\ todo[w] # {} => pc[w] \in Busy

TypeInv == TypeOK /\ StageOK

\* entity.go's clamp keeps the index inside the table.
LEMMA BackoffType == \A n \in Nat : Backoff(n) \in Nat
  BY WebhookAssumption DEF Backoff

\* What a worker may write back is a row: never beyond the last retry.
LEMMA VerdictType ==
  ASSUME NEW cd \in ClaimedDelivery, NEW o \in Outcomes
  PROVE  /\ Verdict(cd, o).status \in {"pending", "succeeded", "failed"}
         /\ Verdict(cd, o).attempt \in 0..MaxAttempts
         /\ Verdict(cd, o).wait \in Nat
<1>1. cd.attempt \in 0..MaxAttempts /\ cd.attempt + 1 \in Nat
  BY WebhookAssumption DEF ClaimedDelivery
<1>2. Backoff(cd.attempt + 1) \in Nat
  BY <1>1, BackoffType
<1>3. QED
  BY <1>1, <1>2, WebhookAssumption DEF Verdict

\* A cleared claim reads as a row, whoever held it.
LEMMA CurType ==
  ASSUME TypeInv, NEW w \in Workers, pc[w] \in {"send", "record"}
  PROVE  cur[w] \in ClaimedDelivery /\ cur[w].id \in Deliveries
<1>1. cur[w] \in ClaimedDelivery
  BY DEF TypeInv, TypeOK, WorkersTyped, StageOK
<1>2. QED
  BY <1>1 DEF ClaimedDelivery

\* The empty table and stopped workers are typed.
LEMMA TypeInit == Init => TypeInv
<1> SUFFICES ASSUME Init PROVE TypeInv
  OBVIOUS
<1>1. TypeOK
  BY WebhookAssumption DEF Init, TypeOK, RowsTyped, WorkersTyped, SeenTyped, BudgetsTyped,
       Statuses, Stages, Outcomes
<1>2. StageOK
  BY DEF Init, StageOK
<1>3. QED
  BY <1>1, <1>2 DEF TypeInv

\* What each group of statements does to the table's types.
LEMMA RowStep ==
  ASSUME RowsTyped, NEW S \in SUBSET Deliveries,
         \/ UNCHANGED rowVars \/ Return(S) \/ MarkDelivering(S)
  PROVE  RowsTyped'
<1>1. CASE UNCHANGED rowVars
  BY <1>1 DEF RowsTyped, rowVars
<1>2. CASE Return(S)
  BY <1>2, WebhookAssumption DEF RowsTyped, Return, Statuses
<1>3. CASE MarkDelivering(S)
  BY <1>3, WebhookAssumption DEF RowsTyped, MarkDelivering, Statuses
<1>4. QED
  BY <1>1, <1>2, <1>3

\* Spending from a budget keeps it typed.
LEMMA FaultStep == BudgetsTyped /\ (Fault \/ NoFault) /\ UNCHANGED <<stops, requeues, cuts>>
                     => BudgetsTyped'
  BY WebhookAssumption DEF BudgetsTyped, Fault, NoFault

\* A dead process leaves a typed, empty worker.
LEMMA ForgottenStep ==
  ASSUME WorkersTyped, StageOK, NEW w \in Workers, Forgotten(w)
  PROVE  WorkersTyped' /\ StageOK'
  BY WebhookAssumption DEF WorkersTyped, StageOK, Forgotten, Stages, Outcomes, Busy

\* One step per action of Next.
LEMMA TypeStep == TypeInv /\ [Next]_vars => TypeInv'
<1> SUFFICES ASSUME TypeInv, [Next]_vars PROVE TypeInv'
  OBVIOUS
<1> USE DEF TypeInv, TypeOK
<1>a. (UNCHANGED workerVars => WorkersTyped' /\ StageOK')
  BY DEF workerVars, WorkersTyped, StageOK
<1>b. (UNCHANGED seenVars => SeenTyped') /\ (UNCHANGED budgetVars => BudgetsTyped')
  BY DEF seenVars, SeenTyped, budgetVars, BudgetsTyped
<1>1. ASSUME NEW S \in SUBSET Deliveries, Enqueue(S) PROVE TypeInv'
  <2>1. RowsTyped'
    BY <1>1 DEF Enqueue, RowsTyped, Statuses
  <2>2. QED
    BY <1>1, <1>a, <1>b, <2>1 DEF Enqueue
<1>2. ASSUME NEW d \in Deliveries, RetryDelivery(d) PROVE TypeInv'
  <2>1. RowsTyped' /\ SeenTyped' /\ BudgetsTyped'
    BY <1>2, WebhookAssumption
       DEF RetryDelivery, RowsTyped, Statuses, SeenTyped, Outcomes, BudgetsTyped
  <2>2. QED
    BY <1>2, <1>a, <2>1 DEF RetryDelivery
<1>3. ASSUME NEW w \in Workers, Start(w) \/ Wake(w) \/ BeginRelease(w) PROVE TypeInv'
  <2>1. WorkersTyped' /\ StageOK'
    BY <1>3 DEF Start, Wake, BeginRelease, Goto, WorkersTyped, StageOK, Stages, Busy
  <2>2. RowsTyped'
    BY <1>3, RowStep DEF Start, Wake, BeginRelease
  <2>3. QED
    BY <1>3, <1>b, <2>1, <2>2 DEF Start, Wake, BeginRelease
<1>4. ASSUME NEW w \in Workers, Reap(w) PROVE TypeInv'
  <2>1. RowsTyped'
    BY <1>4, RowStep DEF Reap, Overdue
  <2>2. WorkersTyped' /\ StageOK'
    BY <1>4 DEF Reap, Goto, WorkersTyped, StageOK, Stages, Busy
  <2>3. QED
    BY <1>4, <1>b, FaultStep, <2>1, <2>2 DEF Reap
<1>5. ASSUME NEW w \in Workers, Purge(w) PROVE TypeInv'
  <2>1. RowsTyped'
    BY <1>5 DEF Purge, RowsTyped, Statuses
  <2>2. WorkersTyped' /\ StageOK'
    BY <1>5 DEF Purge, Goto, WorkersTyped, StageOK, Stages, Busy
  <2>3. QED
    BY <1>5, <1>b, <2>1, <2>2 DEF Purge
<1>6. ASSUME NEW w \in Workers, ClaimDue(w) PROVE TypeInv'
  <2>1. PICK S \in SUBSET Deliveries :
           /\ MarkDelivering(S)
           /\ todo' = [todo EXCEPT ![w] = {[id |-> d, attempt |-> attempt[d]] : d \in S}]
    BY <1>6 DEF ClaimDue
  <2>2. {[id |-> d, attempt |-> attempt[d]] : d \in S} \in SUBSET ClaimedDelivery
    BY DEF ClaimedDelivery, RowsTyped
  <2>3. WorkersTyped' /\ StageOK'
    BY <1>6, <2>1, <2>2, WebhookAssumption
       DEF ClaimDue, Goto, WorkersTyped, StageOK, Stages, Busy
  <2>4. QED
    BY <1>6, <1>b, <2>1, <2>3, RowStep DEF ClaimDue
<1>7. ASSUME NEW w \in Workers, ClaimFails(w) PROVE TypeInv'
  <2>1. RowsTyped'
    BY <1>7, RowStep DEF ClaimFails
  <2>2. WorkersTyped' /\ StageOK'
    BY <1>7 DEF ClaimFails, Goto, WorkersTyped, StageOK, Stages, Busy
  <2>3. QED
    BY <1>7, <1>b, FaultStep, <2>1, <2>2 DEF ClaimFails
<1>8. ASSUME NEW w \in Workers, Attempt(w) PROVE TypeInv'
  <2>1. PICK cd \in todo[w] :
          /\ todo' = [todo EXCEPT ![w] = @ \ {cd}]
          /\ cur'  = [cur EXCEPT ![w] = cd]
          /\ \/ /\ Goto(w, "send")
                /\ sends' = [sends EXCEPT ![cd.id] = @ + 1]
                /\ UNCHANGED <<outcome, heard>>
             \/ /\ Goto(w, "record")
                /\ outcome' = [outcome EXCEPT ![w] = "broken"]
                /\ heard'   = [heard EXCEPT ![cd.id] = @ \cup {"broken"}]
                /\ UNCHANGED sends
    BY <1>8 DEF Attempt
  <2>2. cd \in ClaimedDelivery /\ cd # NoClaim /\ cd.id \in Deliveries
    BY WebhookAssumption DEF ClaimedDelivery, WorkersTyped
  <2>3. WorkersTyped' /\ StageOK'
    BY <1>8, <2>1, <2>2 DEF Attempt, Goto, WorkersTyped, StageOK, Stages, Busy, Outcomes
  <2>4. SeenTyped'
    BY <2>1, <2>2 DEF SeenTyped, Outcomes
  <2>5. QED
    BY <1>8, <1>b, <2>3, <2>4, RowStep DEF Attempt
<1>9. ASSUME NEW w \in Workers, NEW o \in Outcomes, Respond(w, o) PROVE TypeInv'
  <2>1. cur[w].id \in Deliveries /\ cur[w] # NoClaim
    BY <1>9, CurType, WebhookAssumption DEF Respond
  <2>2. WorkersTyped' /\ StageOK'
    BY <1>9, <2>1 DEF Respond, Goto, WorkersTyped, StageOK, Stages, Busy, Outcomes
  <2>3. SeenTyped'
    BY <1>9, <2>1 DEF Respond, SeenTyped
  <2>4. QED
    BY <1>9, <1>b, <2>2, <2>3, RowStep DEF Respond
<1>10. ASSUME NEW w \in Workers, Record(w) PROVE TypeInv'
  <2>1. cur[w] \in ClaimedDelivery /\ cur[w].id \in Deliveries /\ outcome[w] \in Outcomes
    BY <1>10, CurType DEF Record, WorkersTyped
  <2>2. ASSUME MarkResult(cur[w], outcome[w]) PROVE RowsTyped'
    <3> DEFINE v == Verdict(cur[w], outcome[w])
    <3>1. v.status \in Statuses /\ v.attempt \in 0..MaxAttempts /\ v.wait \in Nat
      BY <2>1, VerdictType DEF Statuses
    <3>2. /\ status'  = [status EXCEPT ![cur[w].id] = v.status]
          /\ attempt' = [attempt EXCEPT ![cur[w].id] = v.attempt]
          /\ wait'    = [wait EXCEPT ![cur[w].id] = v.wait]
          /\ age'     = [age EXCEPT ![cur[w].id] = 0]
      BY <2>2 DEF MarkResult
    <3> HIDE DEF v
    <3>3. QED
      BY <2>1, <3>1, <3>2, WebhookAssumption DEF RowsTyped
  <2>3. RowsTyped'
    BY <1>10, <2>2, RowStep DEF Record
  <2>4. WorkersTyped' /\ StageOK'
    BY <1>10, WebhookAssumption DEF Record, Goto, WorkersTyped, StageOK, Stages, Busy, Outcomes
  <2>5. BudgetsTyped'
    <3>1. (Fault \/ NoFault) /\ UNCHANGED <<stops, requeues, cuts>>
      BY <1>10 DEF Record
    <3>2. QED
      BY <3>1, FaultStep
  <2>6. SeenTyped'
    BY <1>10, <1>b DEF Record
  <2>7. QED
    BY <2>3, <2>4, <2>5, <2>6
<1>11. ASSUME NEW w \in Workers, BatchDone(w) \/ ReleaseDone(w) PROVE TypeInv'
  <2> DEFINE idle == [elapsed EXCEPT ![w] = 0]
  <2>a. /\ todo[w] = {} /\ pc[w] \in {"loop", "release"}
        /\ pc' = [pc EXCEPT ![w] = "sleep"]
        /\ elapsed' = idle
        /\ UNCHANGED <<stop, todo, cur, outcome>>
    BY <1>11 DEF BatchDone, ReleaseDone, Goto
  <2>b. idle \in [Workers -> 0..Deadline]
    BY WebhookAssumption DEF WorkersTyped
  <2>1. WorkersTyped' /\ StageOK'
    BY <2>a, <2>b DEF WorkersTyped, StageOK, Stages, Busy
  <2>2. QED
    BY <1>11, <1>b, <2>1, RowStep DEF BatchDone, ReleaseDone
<1>12. ASSUME NEW w \in Workers, Release(w) PROVE TypeInv'
  <2>1. PICK cd \in todo[w] :
          /\ todo' = [todo EXCEPT ![w] = @ \ {cd}]
          /\ \/ Return({cd.id} \ {d \in Deliveries : status[d] # "delivering"}) /\ NoFault
             \/ UNCHANGED rowVars /\ Fault
    BY <1>12 DEF Release
  <2>2. cd.id \in Deliveries
    BY DEF WorkersTyped, ClaimedDelivery
  <2>3. RowsTyped'
    BY <2>1, <2>2, RowStep
  <2>4. WorkersTyped' /\ StageOK'
    BY <1>12, <2>1 DEF Release, WorkersTyped, StageOK, Busy
  <2>5. QED
    BY <1>12, <1>b, FaultStep, <2>1, <2>3, <2>4 DEF Release
<1>13. ASSUME NEW w \in Workers, Stopped(w) PROVE TypeInv'
  BY <1>13, <1>b, RowStep, ForgottenStep DEF Stopped
<1>14. ASSUME NEW w \in Workers, Stop(w) PROVE TypeInv'
  <2>1. WorkersTyped' /\ StageOK'
    BY <1>14 DEF Stop, WorkersTyped, StageOK
  <2>2. BudgetsTyped'
    BY <1>14, WebhookAssumption DEF Stop, BudgetsTyped
  <2>3. QED
    BY <1>14, <1>b, <2>1, <2>2, RowStep DEF Stop
<1>19. ASSUME NEW w \in Workers, ClaimCut(w) PROVE TypeInv'
  <2>1. WorkersTyped' /\ StageOK'
    BY <1>19 DEF ClaimCut, Goto, WorkersTyped, StageOK, Stages, Busy
  <2>2. BudgetsTyped'
    BY <1>19, WebhookAssumption DEF ClaimCut, BudgetsTyped
  <2>3. QED
    BY <1>19, <1>b, <2>1, <2>2, RowStep DEF ClaimCut
<1>15. ASSUME NEW w \in Workers, Crash(w) PROVE TypeInv'
  BY <1>15, <1>b, RowStep, FaultStep, ForgottenStep DEF Crash
<1>16. CASE Tick
  <2>1. RowsTyped'
    BY <1>16, WebhookAssumption DEF Tick, RowsTyped
  <2>2. WorkersTyped' /\ StageOK'
    BY <1>16, WebhookAssumption DEF Tick, WorkersTyped, StageOK
  <2>3. QED
    BY <1>16, <1>b, <2>1, <2>2 DEF Tick
<1>17. CASE UNCHANGED vars
  BY <1>17, <1>a, <1>b, RowStep DEF vars
<1>18. QED
  BY <1>1, <1>2, <1>3, <1>4, <1>5, <1>6, <1>7, <1>8, <1>9, <1>10, <1>11, <1>12, <1>13,
     <1>14, <1>15, <1>16, <1>17, <1>19 DEF Next, Steps

\* Every variable keeps its type, and a worker's stage tells what it holds.
LEMMA TypeInvHolds == Spec => []TypeInv
<1>1. QED
  BY TypeInit, TypeStep, PTL DEF Spec

\* The type invariant of the queue, for every instance.
THEOREM TypeCorrect == Spec => []TypeOK
<1>1. TypeInv => TypeOK
  BY DEF TypeInv
<1>2. QED
  BY <1>1, TypeInvHolds, PTL

-----------------------------------------------------------------------------
(* Exclusive claims.  The status guard of MarkResult and Release does not    *)
(* name the claimant, so exclusion rests on time: a batch of Batch rows,     *)
(* each attempted within Deadline, is over before any of them is overdue.    *)
(* The invariant bounds the age of every held row by the time its worker     *)
(* has spent since the claim.                                                *)

Attempting(w) == IF cur[w] = NoClaim THEN 0 ELSE 1

Settled(w) == Batch - Cardinality(todo[w]) - Attempting(w)

OwnRows ==
    \A w \in Workers : \A cd \in Held(w) :
        status[cd.id] = "delivering" /\ attempt[cd.id] = cd.attempt

OneHolder ==
    \A v, w \in Workers : \A cd \in Held(v), ce \in Held(w) : cd.id = ce.id => v = w

BatchOK ==
    \A w \in Workers :
        /\ cur[w] \notin todo[w]
        /\ IsFiniteSet(todo[w])
        /\ Cardinality(todo[w]) + Attempting(w) <= Batch

InTime ==
    \A w \in Workers : \A cd \in Held(w) :
        age[cd.id] <= Settled(w) * Deadline + elapsed[w]

ClaimInv == OwnRows /\ OneHolder /\ BatchOK /\ InTime

\* The strengthening implies what the runs check.
LEMMA ClaimInvImpliesExclusive == ClaimInv => ClaimsExclusive
  BY DEF ClaimInv, OwnRows, OneHolder, ClaimsExclusive

\* What a worker holds are claims, and only inside its delivery loop.
LEMMA HeldType ==
  ASSUME TypeInv, NEW w \in Workers, NEW cd \in Held(w)
  PROVE  cd \in ClaimedDelivery /\ cd.id \in Deliveries /\ pc[w] \in Busy
<1>1. cd \in ClaimedDelivery /\ pc[w] \in Busy
  BY DEF Held, TypeInv, TypeOK, WorkersTyped, StageOK, Busy
<1>2. QED
  BY <1>1 DEF ClaimedDelivery

\* The number of rows of a batch already dealt with is a natural number, and
\* below Batch while anything is held.
LEMMA CardTodo ==
  ASSUME BatchOK, NEW w \in Workers
  PROVE  /\ Cardinality(todo[w]) \in Nat
         /\ Attempting(w) \in {0, 1}
         /\ Settled(w) \in 0..Batch
         /\ Held(w) # {} => Settled(w) <= Batch - 1
<1>1. Cardinality(todo[w]) \in Nat /\ (Cardinality(todo[w]) = 0 <=> todo[w] = {})
  BY FS_CardinalityType, FS_EmptySet DEF BatchOK
<1>2. Attempting(w) \in {0, 1} /\ (Attempting(w) = 0 <=> cur[w] = NoClaim)
  BY DEF Attempting
<1>3. Held(w) # {} => Cardinality(todo[w]) + Attempting(w) >= 1
  BY <1>1, <1>2 DEF Held
<1>4. QED
  BY <1>1, <1>2, <1>3, WebhookAssumption DEF Settled, BatchOK

\* The rows of one claim are a batch at most.
LEMMA ClaimableSmall ==
  ASSUME NEW S \in SUBSET Deliveries, Claimable(S)
  PROVE  IsFiniteSet(S) /\ Cardinality(S) \in Nat /\ Cardinality(S) <= Batch
<1>1. Due \in SUBSET Deliveries
  BY DEF Due
<1>2. IsFiniteSet(Due) /\ Cardinality(Due) \in Nat
  BY <1>1, FS_Subset, FS_CardinalityType, WebhookAssumption
<1>3. IsFiniteSet(S)
  BY <1>2, FS_Subset DEF Claimable
<1>4. QED
  BY <1>2, <1>3, FS_CardinalityType, WebhookAssumption DEF Claimable

LEMMA BatchRows ==
  ASSUME NEW S \in SUBSET Deliveries, Claimable(S)
  PROVE  /\ IsFiniteSet({[id |-> d, attempt |-> attempt[d]] : d \in S})
         /\ Cardinality({[id |-> d, attempt |-> attempt[d]] : d \in S}) <= Batch
<1> DEFINE rows == {[id |-> d, attempt |-> attempt[d]] : d \in S}
           f    == [d \in S |-> [id |-> d, attempt |-> attempt[d]]]
<1>1. IsFiniteSet(S) /\ Cardinality(S) \in Nat /\ Cardinality(S) <= Batch
  BY ClaimableSmall
<1>2. f \in Surjection(S, rows)
  BY DEF Surjection
<1>3. IsFiniteSet(rows) /\ Cardinality(rows) <= Cardinality(S)
  BY <1>1, <1>2, FS_Surjection
<1>4. Cardinality(rows) \in Nat
  BY <1>3, FS_CardinalityType
<1>5. QED
  BY <1>1, <1>3, <1>4, WebhookAssumption

\* A step in which every worker keeps its batch or drops it.
LEMMA KeepBatch ==
  ASSUME BatchOK,
         \A w \in Workers : \/ todo'[w] = todo[w] /\ cur'[w] = cur[w]
                            \/ todo'[w] = {} /\ cur'[w] = NoClaim
  PROVE  BatchOK'
<1>1. ASSUME NEW w \in Workers
      PROVE  /\ cur'[w] \notin todo'[w]
             /\ IsFiniteSet(todo'[w])
             /\ Cardinality(todo'[w]) + Attempting(w)' <= Batch
  <2>1. CASE todo'[w] = todo[w] /\ cur'[w] = cur[w]
    BY <2>1 DEF BatchOK, Attempting
  <2>2. CASE todo'[w] = {} /\ cur'[w] = NoClaim
    BY <2>2, FS_EmptySet, WebhookAssumption DEF Attempting
  <2>3. QED
    BY <2>1, <2>2
<1>2. QED
  BY <1>1 DEF BatchOK

\* A worker that claims held nothing, and takes a batch.
LEMMA ClaimDueBatch ==
  ASSUME TypeInv, BatchOK, NEW w \in Workers, ClaimDue(w)
  PROVE  BatchOK'
<1>1. PICK S \in SUBSET Deliveries :
        /\ Claimable(S)
        /\ todo' = [todo EXCEPT ![w] = {[id |-> d, attempt |-> attempt[d]] : d \in S}]
  BY DEF ClaimDue
<1> DEFINE rows == {[id |-> d, attempt |-> attempt[d]] : d \in S}
<1>2. IsFiniteSet(rows) /\ Cardinality(rows) <= Batch /\ Cardinality(rows) \in Nat
  BY <1>1, BatchRows, FS_CardinalityType
<1>3. /\ todo'[w] = rows /\ cur'[w] = NoClaim
      /\ \A v \in Workers \ {w} : todo'[v] = todo[v] /\ cur'[v] = cur[v]
  BY <1>1 DEF ClaimDue, TypeInv, TypeOK, WorkersTyped, StageOK, Busy
<1>4. NoClaim \notin rows
  BY WebhookAssumption DEF ClaimedDelivery, TypeInv, TypeOK, RowsTyped
<1> HIDE DEF rows
<1>5. ASSUME NEW v \in Workers \ {w}
      PROVE  /\ cur'[v] \notin todo'[v]
             /\ IsFiniteSet(todo'[v])
             /\ Cardinality(todo'[v]) + Attempting(v)' <= Batch
  BY <1>3 DEF BatchOK, Attempting
<1>6. Attempting(w)' = 0
  BY <1>3 DEF Attempting
<1>7. QED
  BY <1>2, <1>3, <1>4, <1>5, <1>6, WebhookAssumption DEF BatchOK

\* The row attempted leaves todo as it becomes current.
LEMMA AttemptBatch ==
  ASSUME TypeInv, BatchOK, NEW w \in Workers, Attempt(w)
  PROVE  BatchOK'
<1>1. PICK cd \in todo[w] : todo' = [todo EXCEPT ![w] = @ \ {cd}] /\ cur' = [cur EXCEPT ![w] = cd]
  BY DEF Attempt
<1>2. cur[w] = NoClaim /\ cd # NoClaim
  BY WebhookAssumption DEF Attempt, TypeInv, TypeOK, WorkersTyped, StageOK
<1>3. /\ todo'[w] = todo[w] \ {cd} /\ cur'[w] = cd
      /\ \A v \in Workers \ {w} : todo'[v] = todo[v] /\ cur'[v] = cur[v]
  BY <1>1 DEF TypeInv, TypeOK, WorkersTyped
<1>4. /\ IsFiniteSet(todo'[w])
      /\ Cardinality(todo'[w]) = Cardinality(todo[w]) - 1
      /\ Cardinality(todo[w]) \in Nat
  BY <1>3, FS_RemoveElement, FS_CardinalityType DEF BatchOK
<1>5. Attempting(w) = 0 /\ Attempting(w)' = 1
  BY <1>2, <1>3 DEF Attempting
<1>6. ASSUME NEW v \in Workers \ {w}
      PROVE  /\ cur'[v] \notin todo'[v]
             /\ IsFiniteSet(todo'[v])
             /\ Cardinality(todo'[v]) + Attempting(v)' <= Batch
  BY <1>3 DEF BatchOK, Attempting
<1>7. Cardinality(todo[w]) + Attempting(w) <= Batch
  BY DEF BatchOK
<1>8. /\ cur'[w] \notin todo'[w]
      /\ IsFiniteSet(todo'[w])
      /\ Cardinality(todo'[w]) + Attempting(w)' <= Batch
  BY <1>3, <1>4, <1>5, <1>7, WebhookAssumption
<1>9. QED
  BY <1>6, <1>8 DEF BatchOK

LEMMA RecordBatch ==
  ASSUME TypeInv, BatchOK, NEW w \in Workers, Record(w)
  PROVE  BatchOK'
<1>1. /\ cur'[w] = NoClaim /\ todo' = todo
      /\ \A v \in Workers \ {w} : cur'[v] = cur[v]
  BY DEF Record, TypeInv, TypeOK, WorkersTyped
<1>2. NoClaim \notin todo[w]
  BY WebhookAssumption DEF TypeInv, TypeOK, WorkersTyped
<1>3. IsFiniteSet(todo[w]) /\ Cardinality(todo[w]) \in Nat /\ Cardinality(todo[w]) <= Batch
  BY CardTodo, WebhookAssumption DEF BatchOK
<1>4. Attempting(w)' = 0 /\ \A v \in Workers \ {w} : Attempting(v)' = Attempting(v)
  BY <1>1 DEF Attempting
<1>5. QED
  BY <1>1, <1>2, <1>3, <1>4, WebhookAssumption DEF BatchOK

LEMMA ReleaseBatch ==
  ASSUME TypeInv, BatchOK, NEW w \in Workers, Release(w)
  PROVE  BatchOK'
<1>1. PICK cd \in todo[w] : todo' = [todo EXCEPT ![w] = @ \ {cd}]
  BY DEF Release
<1>2. /\ todo'[w] = todo[w] \ {cd} /\ cur' = cur
      /\ \A v \in Workers \ {w} : todo'[v] = todo[v]
  BY <1>1 DEF Release, TypeInv, TypeOK, WorkersTyped
<1>3. /\ IsFiniteSet(todo'[w])
      /\ Cardinality(todo'[w]) = Cardinality(todo[w]) - 1
      /\ Cardinality(todo[w]) \in Nat
  <2>1. IsFiniteSet(todo[w])
    BY DEF BatchOK
  <2>2. /\ IsFiniteSet(todo[w] \ {cd})
        /\ Cardinality(todo[w] \ {cd}) = Cardinality(todo[w]) - 1
    BY <2>1, FS_RemoveElement
  <2>3. QED
    BY <1>2, <2>1, <2>2, FS_CardinalityType
<1>4. \A v \in Workers : Attempting(v)' = Attempting(v) /\ Attempting(v) \in {0, 1}
  BY <1>2 DEF Attempting
<1>5. cur[w] \notin todo[w] /\ Cardinality(todo[w]) + Attempting(w) <= Batch
  BY DEF BatchOK
<1>6. /\ cur'[w] \notin todo'[w]
      /\ IsFiniteSet(todo'[w])
      /\ Cardinality(todo'[w]) + Attempting(w)' <= Batch
  BY <1>2, <1>3, <1>4, <1>5, WebhookAssumption
<1>7. ASSUME NEW v \in Workers \ {w}
      PROVE  /\ cur'[v] \notin todo'[v]
             /\ IsFiniteSet(todo'[v])
             /\ Cardinality(todo'[v]) + Attempting(v)' <= Batch
  BY <1>2, <1>4 DEF BatchOK
<1>8. QED
  BY <1>6, <1>7 DEF BatchOK

\* No worker ever holds more than a batch, timely or not.
LEMMA BatchStep == TypeInv /\ BatchOK /\ [Next]_vars => BatchOK'
<1> SUFFICES ASSUME TypeInv, BatchOK, [Next]_vars PROVE BatchOK'
  OBVIOUS
<1>1. UNCHANGED <<todo, cur>> => BatchOK'
  BY KeepBatch
<1>2. ASSUME NEW w \in Workers, Forgotten(w) PROVE BatchOK'
  BY <1>2, KeepBatch DEF Forgotten, TypeInv, TypeOK, WorkersTyped
<1>3. QED
  BY <1>1, <1>2, ClaimDueBatch, AttemptBatch, RecordBatch, ReleaseBatch
     DEF Next, Steps, Enqueue, RetryDelivery, Start, Reap, Purge, ClaimFails, Respond, BatchDone,
         BeginRelease, ReleaseDone, Wake, Stopped, Stop, ClaimCut, Crash, Tick, vars, workerVars

\* Multiplication by a deadline is monotone; the provers want it spelled out.
LEMMA Budget ==
  ASSUME NEW k \in 0..(Batch - 1), NEW e \in 0..Deadline
  PROVE  k * Deadline + e <= Batch * Deadline
<1>1. Deadline \in Nat /\ Batch \in Nat /\ k \in Nat
  BY WebhookAssumption
<1>2. k * Deadline + Deadline = (k + 1) * Deadline
  BY <1>1
<1>3. PICK m \in Nat : Batch = (k + 1) + m
  <2>1. Batch - (k + 1) \in Nat /\ Batch = (k + 1) + (Batch - (k + 1))
    BY <1>1
  <2>2. QED
    BY <2>1
<1>4. Batch * Deadline = (k + 1) * Deadline + m * Deadline /\ m * Deadline \in Nat
  BY <1>1, <1>3
<1>5. QED
  BY <1>1, <1>2, <1>4

\* One row more costs one deadline more.
LEMMA OneMore ==
  ASSUME NEW k \in Nat, NEW t \in Nat
  PROVE  (k + 1) * t = k * t + t /\ k * t \in Nat
  OBVIOUS

\* No row in the hands of a live worker is overdue.
LEMMA HeldNotOverdue ==
  ASSUME TypeInv, ClaimInv, TimelyBatches, NEW w \in Workers, NEW cd \in Held(w)
  PROVE  cd.id \notin Overdue
<1>1. Settled(w) \in 0..(Batch - 1) /\ elapsed[w] \in 0..Deadline
  BY CardTodo, WebhookAssumption DEF ClaimInv, TypeInv, TypeOK, WorkersTyped
<1>2. age[cd.id] <= Settled(w) * Deadline + elapsed[w]
  BY DEF ClaimInv, InTime
<1>3. Settled(w) * Deadline + elapsed[w] <= Batch * Deadline
  BY <1>1, Budget
<1>4. age[cd.id] \in Nat
  BY HeldType, WebhookAssumption DEF TypeInv, TypeOK, RowsTyped
<1>5. Settled(w) * Deadline + elapsed[w] \in Nat /\ Batch * Deadline \in Nat
  BY <1>1, WebhookAssumption
<1>6. age[cd.id] <= ReapAfter
  BY <1>2, <1>3, <1>4, <1>5, WebhookAssumption DEF TimelyBatches
<1>7. QED
  BY <1>4, <1>6, WebhookAssumption DEF Overdue

\* Nobody holds anything at the start.
LEMMA ClaimInit == Init => ClaimInv
<1> SUFFICES ASSUME Init PROVE ClaimInv
  OBVIOUS
<1>1. \A w \in Workers : Held(w) = {} /\ todo[w] = {} /\ cur[w] = NoClaim
  BY DEF Init, Held
<1>2. QED
  <2>1. OwnRows /\ OneHolder /\ InTime
    BY <1>1 DEF OwnRows, OneHolder, InTime
  <2>2. BatchOK
    BY <1>1, FS_EmptySet, WebhookAssumption DEF BatchOK, Attempting, Init
  <2>3. QED
    BY <2>1, <2>2 DEF ClaimInv

\* A step in which every worker keeps its claims or has none afterwards, and
\* the rows still held are not touched.
LEMMA KeepClaims ==
  ASSUME ClaimInv,
         \A w \in Workers :
            \/ todo'[w] = todo[w] /\ cur'[w] = cur[w] /\ elapsed'[w] = elapsed[w]
            \/ todo'[w] = {} /\ cur'[w] = NoClaim,
         \A w \in Workers : \A cd \in Held(w)' :
            /\ status'[cd.id] = status[cd.id]
            /\ attempt'[cd.id] = attempt[cd.id]
            /\ age'[cd.id] = age[cd.id]
  PROVE  ClaimInv'
<1>1. \A w \in Workers :
         \/ Held(w)' = Held(w) /\ Attempting(w)' = Attempting(w) /\ Settled(w)' = Settled(w)
               /\ elapsed'[w] = elapsed[w]
         \/ Held(w)' = {}
  BY DEF Held, Attempting, Settled
<1>2. OwnRows' /\ OneHolder' /\ InTime'
  BY <1>1 DEF ClaimInv, OwnRows, OneHolder, InTime
<1>4. BatchOK'
  BY KeepBatch DEF ClaimInv
<1>5. QED
  BY <1>2, <1>4 DEF ClaimInv

\* The claim: rows that were pending become delivering, stamped with age 0,
\* and go to a worker that held nothing.
LEMMA ClaimDueStep ==
  ASSUME TypeInv, ClaimInv, NEW w \in Workers, ClaimDue(w)
  PROVE  ClaimInv'
<1>1. PICK S \in SUBSET Deliveries :
        /\ Claimable(S)
        /\ MarkDelivering(S)
        /\ todo' = [todo EXCEPT ![w] = {[id |-> d, attempt |-> attempt[d]] : d \in S}]
  BY DEF ClaimDue
<1> DEFINE rows == {[id |-> d, attempt |-> attempt[d]] : d \in S}
<1>3. IsFiniteSet(rows) /\ Cardinality(rows) <= Batch
  BY <1>1, BatchRows
<1>4. todo[w] = {} /\ cur[w] = NoClaim
  BY DEF ClaimDue, TypeInv, StageOK, Busy
<1>5. /\ todo'[w] = rows /\ cur'[w] = NoClaim
      /\ \A v \in Workers \ {w} : todo'[v] = todo[v] /\ cur'[v] = cur[v] /\ elapsed'[v] = elapsed[v]
      /\ elapsed'[w] = 0
  BY <1>1, <1>4 DEF ClaimDue, TypeInv, TypeOK, WorkersTyped
<1>6. /\ Held(w)' = rows
      /\ \A v \in Workers \ {w} : /\ Held(v)' = Held(v)
                                  /\ Settled(v)' = Settled(v)
  BY <1>5 DEF Held, Settled, Attempting
<1>7. \A d \in S : status[d] = "pending" /\ status'[d] = "delivering" /\ age'[d] = 0
  BY <1>1 DEF Claimable, Due, MarkDelivering
<1>8. \A d \in Deliveries \ S : status'[d] = status[d] /\ age'[d] = age[d]
  BY <1>1 DEF MarkDelivering
<1>9. attempt' = attempt
  BY <1>1 DEF MarkDelivering
<1>10. \A v \in Workers : \A cd \in Held(v) : cd.id \in Deliveries \ S
  BY <1>7, HeldType DEF ClaimInv, OwnRows
<1>11. OwnRows'
  BY <1>6, <1>7, <1>8, <1>9, <1>10 DEF ClaimInv, OwnRows
<1>12. OneHolder'
  BY <1>6, <1>10 DEF ClaimInv, OneHolder
<1> HIDE DEF rows
<1>13. BatchOK'
  BY ClaimDueBatch DEF ClaimInv
<1>14. InTime'
  <2>1. ASSUME NEW cd \in rows PROVE age'[cd.id] <= Settled(w)' * Deadline + elapsed'[w]
    <3>1. age'[cd.id] = 0
      BY <1>7 DEF rows
    <3>2. Settled(w)' \in Nat
      <4>1. Settled(w)' = Batch - Cardinality(rows)
        BY <1>3, <1>5, FS_CardinalityType, WebhookAssumption DEF Settled, Attempting
      <4>2. QED
        BY <4>1, <1>3, FS_CardinalityType, WebhookAssumption
    <3>3. Settled(w)' * Deadline \in Nat
      BY <3>2, WebhookAssumption
    <3>4. QED
      BY <3>1, <3>3, <1>5
  <2>2. ASSUME NEW v \in Workers \ {w}, NEW cd \in Held(v)
        PROVE  age'[cd.id] <= Settled(v)' * Deadline + elapsed'[v]
    BY <1>5, <1>6, <1>8, <1>10 DEF ClaimInv, InTime
  <2>3. QED
    BY <1>6, <2>1, <2>2 DEF InTime
<1>15. QED
  BY <1>11, <1>12, <1>13, <1>14 DEF ClaimInv

\* Moving a row from todo to cur changes neither what is held nor the count.
LEMMA AttemptStep ==
  ASSUME TypeInv, ClaimInv, NEW w \in Workers, Attempt(w)
  PROVE  ClaimInv'
<1>1. PICK cd \in todo[w] : todo' = [todo EXCEPT ![w] = @ \ {cd}] /\ cur' = [cur EXCEPT ![w] = cd]
  BY DEF Attempt
<1>2. cur[w] = NoClaim /\ cd \in ClaimedDelivery /\ cd # NoClaim
  BY WebhookAssumption DEF Attempt, TypeInv, TypeOK, WorkersTyped, StageOK
<1>3. /\ todo'[w] = todo[w] \ {cd} /\ cur'[w] = cd
      /\ \A v \in Workers \ {w} : todo'[v] = todo[v] /\ cur'[v] = cur[v]
      /\ elapsed' = elapsed /\ status' = status /\ attempt' = attempt /\ age' = age
  BY <1>1 DEF Attempt, rowVars, TypeInv, TypeOK, WorkersTyped
<1>4. /\ IsFiniteSet(todo'[w])
      /\ Cardinality(todo'[w]) = Cardinality(todo[w]) - 1
      /\ Cardinality(todo[w]) \in Nat
  BY <1>3, FS_RemoveElement, FS_CardinalityType DEF ClaimInv, BatchOK
<1>5. Attempting(w) = 0 /\ Attempting(w)' = 1
  BY <1>2, <1>3 DEF Attempting
<1>6. \A v \in Workers : Held(v)' = Held(v)
  BY <1>2, <1>3 DEF Held
<1>7. \A v \in Workers : Settled(v)' = Settled(v)
  <2>1. Settled(w)' = Settled(w)
    BY <1>4, <1>5, WebhookAssumption DEF Settled
  <2>2. QED
    BY <2>1, <1>3 DEF Settled, Attempting
<1>8. OwnRows' /\ OneHolder' /\ InTime'
  BY <1>3, <1>6, <1>7 DEF ClaimInv, OwnRows, OneHolder, InTime
<1>10. BatchOK'
  BY AttemptBatch DEF ClaimInv
<1>11. QED
  BY <1>8, <1>10 DEF ClaimInv

\* The attempt is over: one Deadline more is spent, one row fewer is held.
LEMMA RecordStep ==
  ASSUME TypeInv, ClaimInv, NEW w \in Workers, Record(w)
  PROVE  ClaimInv'
<1>1. cur[w] \in ClaimedDelivery /\ cur[w].id \in Deliveries /\ cur[w] # NoClaim
  BY CurType, WebhookAssumption DEF Record
<1>2. /\ cur'[w] = NoClaim /\ elapsed'[w] = 0 /\ todo' = todo
      /\ \A v \in Workers \ {w} : cur'[v] = cur[v] /\ elapsed'[v] = elapsed[v]
  BY DEF Record, TypeInv, TypeOK, WorkersTyped
<1>3. \A d \in Deliveries \ {cur[w].id} :
         status'[d] = status[d] /\ attempt'[d] = attempt[d] /\ age'[d] = age[d]
  <2>1. UNCHANGED rowVars \/ MarkResult(cur[w], outcome[w])
    BY DEF Record
  <2>2. QED
    BY <2>1 DEF MarkResult, rowVars, TypeInv, TypeOK, RowsTyped
<1>4. /\ Held(w)' = todo[w] /\ Held(w) = todo[w] \cup {cur[w]}
      /\ \A v \in Workers \ {w} : Held(v)' = Held(v)
  BY <1>1, <1>2 DEF Held
<1>5. Attempting(w) = 1 /\ Attempting(w)' = 0 /\ \A v \in Workers \ {w} : Attempting(v)' = Attempting(v)
  BY <1>1, <1>2 DEF Attempting
<1>6. Cardinality(todo[w]) \in Nat /\ Settled(w)' = Settled(w) + 1 /\ Settled(w) \in Nat
  BY <1>2, <1>5, CardTodo, WebhookAssumption DEF Settled, ClaimInv
<1>7. \A v \in Workers : \A cd \in Held(v)' : cd \in Held(v) /\ cd.id \in Deliveries \ {cur[w].id}
  <2>1. ASSUME NEW v \in Workers \ {w}, NEW cd \in Held(v) PROVE cd.id # cur[w].id
    BY <1>4 DEF ClaimInv, OneHolder
  <2>2. ASSUME NEW cd \in todo[w] PROVE cd.id # cur[w].id
    <3>1. cd \in ClaimedDelivery /\ cd # cur[w]
      BY DEF ClaimInv, BatchOK, TypeInv, TypeOK, WorkersTyped
    <3>2. cd.id = cur[w].id => cd.attempt = cur[w].attempt
      BY <1>4 DEF ClaimInv, OwnRows
    <3>3. QED
      BY <1>1, <3>1, <3>2 DEF ClaimedDelivery
  <2>3. QED
    BY <1>4, <2>1, <2>2, HeldType
<1>8. OwnRows' /\ OneHolder'
  BY <1>3, <1>7 DEF ClaimInv, OwnRows, OneHolder
<1>9. BatchOK'
  BY RecordBatch DEF ClaimInv
<1>10. InTime'
  <2>1. ASSUME NEW cd \in todo[w] PROVE age'[cd.id] <= Settled(w)' * Deadline + elapsed'[w]
    <3>1. age'[cd.id] = age[cd.id] /\ age[cd.id] \in Nat
      BY <1>3, <1>4, <1>7, WebhookAssumption DEF TypeInv, TypeOK, RowsTyped
    <3>2. age[cd.id] <= Settled(w) * Deadline + elapsed[w]
      BY <1>4 DEF ClaimInv, InTime
    <3>3. elapsed[w] \in 0..Deadline
      BY DEF TypeInv, TypeOK, WorkersTyped
    <3>4. (Settled(w) + 1) * Deadline = Settled(w) * Deadline + Deadline /\ Settled(w) * Deadline \in Nat
      BY <1>6, OneMore, WebhookAssumption
    <3>5. QED
      BY <3>1, <3>2, <3>3, <3>4, <1>2, <1>6, WebhookAssumption
  <2>2. ASSUME NEW v \in Workers \ {w}, NEW cd \in Held(v)
        PROVE  age'[cd.id] <= Settled(v)' * Deadline + elapsed'[v]
    <3>1. Settled(v)' = Settled(v)
      BY <1>2, <1>5 DEF Settled
    <3>2. QED
      BY <3>1, <1>2, <1>3, <1>4, <1>7 DEF ClaimInv, InTime
  <2>3. QED
    BY <1>4, <2>1, <2>2 DEF InTime
<1>11. QED
  BY <1>8, <1>9, <1>10 DEF ClaimInv

\* A row handed back, or given up on, is no longer held.
LEMMA ReleaseStep ==
  ASSUME TypeInv, ClaimInv, NEW w \in Workers, Release(w)
  PROVE  ClaimInv'
<1>1. PICK cd \in todo[w] :
         /\ todo' = [todo EXCEPT ![w] = @ \ {cd}]
         /\ \/ Return({cd.id} \ {d \in Deliveries : status[d] # "delivering"})
            \/ UNCHANGED rowVars
  BY DEF Release
<1>2. cur[w] = NoClaim /\ cd \in ClaimedDelivery /\ cd.id \in Deliveries
  BY DEF Release, TypeInv, TypeOK, WorkersTyped, StageOK, ClaimedDelivery
<1>3. /\ todo'[w] = todo[w] \ {cd} /\ cur' = cur /\ elapsed' = elapsed
      /\ \A v \in Workers \ {w} : todo'[v] = todo[v]
  BY <1>1 DEF Release, TypeInv, TypeOK, WorkersTyped
<1>4. \A d \in Deliveries \ {cd.id} :
         status'[d] = status[d] /\ attempt'[d] = attempt[d] /\ age'[d] = age[d]
  BY <1>1 DEF Return, rowVars
<1>5. /\ Held(w)' = todo[w] \ {cd} /\ Held(w) = todo[w]
      /\ \A v \in Workers \ {w} : Held(v)' = Held(v)
      /\ \A v \in Workers : Attempting(v)' = Attempting(v)
      /\ Attempting(w) = 0
  BY <1>2, <1>3 DEF Held, Attempting
<1>6. /\ IsFiniteSet(todo'[w]) /\ IsFiniteSet(todo[w])
      /\ Cardinality(todo'[w]) = Cardinality(todo[w]) - 1
      /\ Cardinality(todo[w]) \in Nat
  BY <1>3, FS_RemoveElement, FS_CardinalityType DEF ClaimInv, BatchOK
<1>7. Settled(w)' = Settled(w) + 1 /\ Settled(w) \in Nat
  BY <1>5, <1>6, CardTodo, WebhookAssumption DEF Settled, ClaimInv
<1>8. \A v \in Workers : \A ce \in Held(v)' : ce \in Held(v) /\ ce.id \in Deliveries \ {cd.id}
  <2>1. ASSUME NEW v \in Workers \ {w}, NEW ce \in Held(v) PROVE ce.id # cd.id
    BY <1>5 DEF ClaimInv, OneHolder
  <2>2. ASSUME NEW ce \in todo[w] \ {cd} PROVE ce.id # cd.id
    <3>1. ce \in ClaimedDelivery
      BY DEF TypeInv, TypeOK, WorkersTyped
    <3>2. ce.id = cd.id => ce.attempt = cd.attempt
      BY <1>5 DEF ClaimInv, OwnRows
    <3>3. QED
      BY <1>2, <3>1, <3>2 DEF ClaimedDelivery
  <2>3. QED
    BY <1>5, <2>1, <2>2, HeldType
<1>9. OwnRows' /\ OneHolder'
  BY <1>4, <1>8 DEF ClaimInv, OwnRows, OneHolder
<1>10. BatchOK'
  BY ReleaseBatch DEF ClaimInv
<1>11. InTime'
  <2>1. ASSUME NEW ce \in Held(w)' PROVE age'[ce.id] <= Settled(w)' * Deadline + elapsed'[w]
    <3>1. age'[ce.id] = age[ce.id] /\ age[ce.id] \in Nat
      BY <1>4, <1>8, WebhookAssumption DEF TypeInv, TypeOK, RowsTyped
    <3>2. age[ce.id] <= Settled(w) * Deadline + elapsed[w]
      BY <1>8 DEF ClaimInv, InTime
    <3>3. elapsed[w] \in Nat
      BY WebhookAssumption DEF TypeInv, TypeOK, WorkersTyped
    <3>4. (Settled(w) + 1) * Deadline = Settled(w) * Deadline + Deadline /\ Settled(w) * Deadline \in Nat
      BY <1>7, OneMore, WebhookAssumption
    <3>5. elapsed'[w] = elapsed[w] /\ Settled(w)' * Deadline = Settled(w) * Deadline + Deadline
      <4>1. elapsed'[w] = elapsed[w]
        BY <1>3
      <4>2. Settled(w)' * Deadline = (Settled(w) + 1) * Deadline
        BY <1>7
      <4>3. QED
        BY <4>1, <4>2, <3>4
    <3>6. QED
      BY <3>1, <3>2, <3>3, <3>4, <3>5, WebhookAssumption
  <2>2. ASSUME NEW v \in Workers \ {w}, NEW ce \in Held(v)'
        PROVE  age'[ce.id] <= Settled(v)' * Deadline + elapsed'[v]
    <3>1. Settled(v)' = Settled(v)
      BY <1>3, <1>5 DEF Settled
    <3>2. QED
      BY <3>1, <1>3, <1>4, <1>8 DEF ClaimInv, InTime
  <2>3. QED
    BY <2>1, <2>2 DEF InTime
<1>12. QED
  BY <1>9, <1>10, <1>11 DEF ClaimInv

\* Time passes for a held row and for its holder alike.
LEMMA TickStep ==
  ASSUME TypeInv, ClaimInv, Tick
  PROVE  ClaimInv'
<1>1. UNCHANGED <<status, attempt, todo, cur>>
  BY DEF Tick
<1>2. \A v \in Workers : /\ Held(v)' = Held(v)
                         /\ Attempting(v)' = Attempting(v)
                         /\ Settled(v)' = Settled(v)
  BY <1>1 DEF Held, Attempting, Settled
<1>3. OwnRows' /\ OneHolder' /\ BatchOK'
  BY <1>1, <1>2 DEF ClaimInv, OwnRows, OneHolder, BatchOK
<1>4. ASSUME NEW v \in Workers, NEW cd \in Held(v)
      PROVE  age'[cd.id] <= Settled(v)' * Deadline + elapsed'[v]
  <2>1. cd.id \in Deliveries /\ pc[v] \in Busy
    BY HeldType
  <2>2. elapsed'[v] = elapsed[v] + 1
    BY <2>1 DEF Tick
  <2>3. age[cd.id] \in Nat /\ age'[cd.id] \in {age[cd.id], age[cd.id] + 1}
    BY <2>1, WebhookAssumption DEF Tick, TypeInv, TypeOK, RowsTyped
  <2>4. age[cd.id] <= Settled(v) * Deadline + elapsed[v]
    BY DEF ClaimInv, InTime
  <2>5. Settled(v) * Deadline \in Nat /\ elapsed[v] \in Nat
    BY CardTodo, WebhookAssumption DEF ClaimInv, TypeInv, TypeOK, WorkersTyped
  <2>6. QED
    BY <1>2, <2>2, <2>3, <2>4, <2>5
<1>5. InTime'
  BY <1>2, <1>4 DEF InTime
<1>6. QED
  BY <1>3, <1>5 DEF ClaimInv

\* The claims invariant is inductive as long as a batch is timely: the reaper
\* is the only other statement that takes a delivering row.
LEMMA ClaimStep == TimelyBatches /\ TypeInv /\ ClaimInv /\ [Next]_vars => ClaimInv'
<1> SUFFICES ASSUME TimelyBatches, TypeInv, ClaimInv, [Next]_vars PROVE ClaimInv'
  OBVIOUS
<1>a. \A w \in Workers : \A cd \in Held(w) : cd.id \in Deliveries /\ status[cd.id] = "delivering"
  BY HeldType DEF ClaimInv, OwnRows
<1>b. UNCHANGED <<todo, cur>> => \A w \in Workers : Held(w)' = Held(w)
  BY DEF Held
<1>1. ASSUME NEW S \in SUBSET Deliveries, Enqueue(S) PROVE ClaimInv'
  <2>1. \A w \in Workers : \A cd \in Held(w) : status'[cd.id] = status[cd.id]
    BY <1>1, <1>a DEF Enqueue
  <2>2. QED
    BY <1>1, <1>b, <2>1, KeepClaims DEF Enqueue, workerVars
<1>2. ASSUME NEW d \in Deliveries, RetryDelivery(d) PROVE ClaimInv'
  <2>1. \A w \in Workers : \A cd \in Held(w) :
           cd.id # d /\ status'[cd.id] = status[cd.id] /\ attempt'[cd.id] = attempt[cd.id]
             /\ age'[cd.id] = age[cd.id]
    BY <1>2, <1>a DEF RetryDelivery, TypeInv, TypeOK, RowsTyped
  <2>2. QED
    BY <1>2, <1>b, <2>1, KeepClaims DEF RetryDelivery, workerVars
<1>3. ASSUME NEW w \in Workers, Start(w) \/ Wake(w) \/ BeginRelease(w) \/ Stop(w) PROVE ClaimInv'
  BY <1>3, <1>b, KeepClaims DEF Start, Wake, BeginRelease, Stop, rowVars
<1>4. ASSUME NEW w \in Workers, Reap(w) PROVE ClaimInv'
  <2>1. \A v \in Workers : \A cd \in Held(v) : cd.id \notin Overdue
    BY HeldNotOverdue
  <2>2. \A v \in Workers : \A cd \in Held(v) :
           status'[cd.id] = status[cd.id] /\ attempt'[cd.id] = attempt[cd.id]
             /\ age'[cd.id] = age[cd.id]
    BY <1>4, <1>a, <2>1 DEF Reap, Return, rowVars
  <2>3. QED
    BY <1>4, <1>b, <2>2, KeepClaims DEF Reap
<1>5. ASSUME NEW w \in Workers, Purge(w) PROVE ClaimInv'
  <2>1. \A v \in Workers : \A cd \in Held(v) : status'[cd.id] = status[cd.id]
    BY <1>5, <1>a DEF Purge, Terminal
  <2>2. QED
    BY <1>5, <1>b, <2>1, KeepClaims DEF Purge
<1>6. ASSUME NEW w \in Workers, ClaimFails(w) \/ ClaimCut(w) PROVE ClaimInv'
  <2>1. \A v \in Workers : \A cd \in Held(v) :
           status'[cd.id] = status[cd.id] /\ attempt'[cd.id] = attempt[cd.id]
             /\ age'[cd.id] = age[cd.id]
    BY <1>6, <1>a DEF ClaimFails, ClaimCut, Claimable, Due, MarkDelivering, rowVars
  <2>2. QED
    BY <1>6, <1>b, <2>1, KeepClaims DEF ClaimFails, ClaimCut
<1>7. ASSUME NEW w \in Workers, NEW o \in Outcomes, Respond(w, o) PROVE ClaimInv'
  BY <1>7, <1>b, KeepClaims DEF Respond, rowVars
<1>8. ASSUME NEW w \in Workers, BatchDone(w) \/ ReleaseDone(w) PROVE ClaimInv'
  <2>1. todo[w] = {} /\ cur[w] = NoClaim /\ UNCHANGED <<rowVars, todo, cur>>
    BY <1>8 DEF BatchDone, ReleaseDone, TypeInv, StageOK
  <2>2. \A v \in Workers \ {w} : elapsed'[v] = elapsed[v]
    BY <1>8 DEF BatchDone, ReleaseDone, TypeInv, TypeOK, WorkersTyped
  <2>3. QED
    BY <2>1, <2>2, KeepClaims DEF rowVars
<1>9. ASSUME NEW w \in Workers, Stopped(w) \/ Crash(w) PROVE ClaimInv'
  <2>1. Forgotten(w) /\ UNCHANGED rowVars
    BY <1>9 DEF Stopped, Crash
  <2>2. /\ todo'[w] = {} /\ cur'[w] = NoClaim
        /\ \A v \in Workers \ {w} : todo'[v] = todo[v] /\ cur'[v] = cur[v] /\ elapsed'[v] = elapsed[v]
    BY <2>1 DEF Forgotten, TypeInv, TypeOK, WorkersTyped
  <2>3. QED
    BY <2>1, <2>2, KeepClaims DEF rowVars
<1>10. CASE UNCHANGED vars
  BY <1>10, <1>b, KeepClaims DEF vars, rowVars, workerVars
<1>11. QED
  BY <1>1, <1>2, <1>3, <1>4, <1>5, <1>6, <1>7, <1>8, <1>9, <1>10, ClaimDueStep, AttemptStep,
     RecordStep, ReleaseStep, TickStep DEF Next, Steps

\* With timely batches every row a live worker holds is its own, for any
\* number of instances and rows: the promise MarkResult and Release rely on.
THEOREM ExclusiveClaims ==
  ASSUME TimelyBatches
  PROVE  Spec => []ClaimsExclusive
<1>1. Init => ClaimInv
  BY ClaimInit
<1>2. TypeInv /\ ClaimInv /\ [Next]_vars => ClaimInv'
  BY ClaimStep
<1>3. ClaimInv => ClaimsExclusive
  BY ClaimInvImpliesExclusive
<1>4. QED
  BY <1>1, <1>2, <1>3, TypeInvHolds, PTL DEF Spec

\* With timely batches the reaper never takes a row whose request is running:
\* what the threshold is for, under the condition it needs.
THEOREM ReaperSpares ==
  ASSUME TimelyBatches
  PROVE  Spec => []ReaperSparesRunning
<1>1. Init => ClaimInv
  BY ClaimInit
<1>2. TypeInv /\ ClaimInv /\ [Next]_vars => ClaimInv'
  BY ClaimStep
<1>3. TypeInv /\ ClaimInv => ReaperSparesRunning
  BY CurType, HeldNotOverdue, WebhookAssumption DEF ReaperSparesRunning, Held
<1>4. QED
  BY <1>1, <1>2, <1>3, TypeInvHolds, PTL DEF Spec

-----------------------------------------------------------------------------
(* Few are stranded.  A worker lets go of a delivering row only by writing   *)
(* its result or handing it back, unless a statement fails, the process      *)
(* dies or a stop cuts its claim short; each of these loses a batch at most. *)

\* No worker holds anything at the start.
LEMMA BatchInit == Init => BatchOK
  BY FS_EmptySet, WebhookAssumption DEF Init, BatchOK, Attempting

\* What a worker holds names a batch of rows at most.
LEMMA HeldSmall ==
  ASSUME TypeInv, BatchOK, NEW w \in Workers
  PROVE  /\ {cd.id : cd \in Held(w)} \in SUBSET Deliveries
         /\ Cardinality({cd.id : cd \in Held(w)}) <= Batch
<1> DEFINE ids == {cd.id : cd \in Held(w)}
           f   == [cd \in Held(w) |-> cd.id]
<1>1. ids \in SUBSET Deliveries
  BY HeldType
<1>2. IsFiniteSet(Held(w)) /\ Cardinality(Held(w)) <= Batch
  <2>1. CASE cur[w] = NoClaim
    <3>1. Held(w) = todo[w] /\ Attempting(w) = 0
      BY <2>1 DEF Held, Attempting
    <3>2. QED
      BY <3>1, FS_CardinalityType, WebhookAssumption DEF BatchOK
  <2>2. CASE cur[w] # NoClaim
    <3>1. Held(w) = todo[w] \cup {cur[w]} /\ Attempting(w) = 1
      BY <2>2 DEF Held, Attempting
    <3>2. Cardinality(todo[w] \cup {cur[w]}) = Cardinality(todo[w]) + 1
      BY FS_AddElement DEF BatchOK
    <3>3. QED
      BY <3>1, <3>2, FS_AddElement DEF BatchOK
  <2>3. QED
    BY <2>1, <2>2
<1>3. f \in Surjection(Held(w), ids)
  BY DEF Surjection
<1>4. IsFiniteSet(ids) /\ Cardinality(ids) <= Cardinality(Held(w))
  BY <1>2, <1>3, FS_Surjection
<1>5. Cardinality(ids) \in Nat /\ Cardinality(Held(w)) \in Nat
  BY <1>2, <1>4, FS_CardinalityType
<1>6. QED
  BY <1>1, <1>2, <1>4, <1>5, WebhookAssumption

LEMMA OneRow == \A d \in Deliveries : Cardinality({d}) <= Batch
<1>1. \A d \in Deliveries : Cardinality({d}) = 1
  BY FS_Singleton
<1>2. QED
  BY <1>1, WebhookAssumption

\* Losing nothing: every row without a holder was without one before.
LEMMA LoseNone ==
  ASSUME TypeInv, FewStranded, Stranded' \subseteq Stranded, UNCHANGED <<faults, cuts>>
  PROVE  FewStranded'
<1>1. Stranded \in SUBSET Deliveries /\ Stranded' \in SUBSET Deliveries
  BY DEF Stranded
<1>2. IsFiniteSet(Stranded)
  BY <1>1, FS_Subset, WebhookAssumption
<1>3. Cardinality(Stranded') <= Cardinality(Stranded) /\ IsFiniteSet(Stranded')
  BY <1>2, FS_Subset
<1>4. Cardinality(Stranded') \in Nat /\ Cardinality(Stranded) \in Nat
  BY <1>2, <1>3, FS_CardinalityType
<1>5. Cardinality(Stranded)' = Cardinality(Stranded')
  OBVIOUS
<1>6. Cardinality(Stranded') <= Batch * (faults + cuts)
  <2>1. Batch * (faults + cuts) \in Nat
    BY WebhookAssumption DEF TypeInv, TypeOK, BudgetsTyped
  <2>2. QED
    BY <1>3, <1>4, <2>1 DEF FewStranded
<1>7. QED
  BY <1>5, <1>6 DEF FewStranded

\* Losing a batch, at the price of a fault or of a claim cut short.
LEMMA LoseBatch ==
  ASSUME TypeInv, FewStranded, NEW L \in SUBSET Deliveries, Cardinality(L) <= Batch,
         Stranded' \subseteq Stranded \cup L,
         \/ Fault /\ UNCHANGED cuts
         \/ UNCHANGED faults /\ cuts' = cuts + 1
  PROVE  FewStranded'
<1>1. Stranded \in SUBSET Deliveries
  BY DEF Stranded
<1>2. IsFiniteSet(Stranded) /\ IsFiniteSet(L) /\ IsFiniteSet(Stranded \cap L)
  BY <1>1, FS_Subset, WebhookAssumption
<1>3. /\ IsFiniteSet(Stranded \cup L)
      /\ Cardinality(Stranded \cup L)
            = Cardinality(Stranded) + Cardinality(L) - Cardinality(Stranded \cap L)
  BY <1>2, FS_Union
<1>4. /\ Cardinality(Stranded) \in Nat /\ Cardinality(L) \in Nat
      /\ Cardinality(Stranded \cap L) \in Nat /\ Cardinality(Stranded \cup L) \in Nat
  BY <1>2, <1>3, FS_CardinalityType
<1>5. IsFiniteSet(Stranded') /\ Cardinality(Stranded') <= Cardinality(Stranded \cup L)
  BY <1>3, FS_Subset
<1>6. Cardinality(Stranded') \in Nat
  BY <1>5, FS_CardinalityType
<1>7. faults + cuts \in Nat /\ faults' + cuts' = (faults + cuts) + 1
  BY WebhookAssumption DEF TypeInv, TypeOK, BudgetsTyped, Fault
<1>8. ((faults + cuts) + 1) * Batch = (faults + cuts) * Batch + Batch /\ (faults + cuts) * Batch \in Nat
  BY <1>7, OneMore, WebhookAssumption
<1>9. Batch * (faults + cuts) = (faults + cuts) * Batch
  BY <1>7, WebhookAssumption
<1>10. Batch * ((faults + cuts) + 1) = ((faults + cuts) + 1) * Batch
  BY <1>7, WebhookAssumption
<1>11. Batch * (faults' + cuts') = (faults + cuts) * Batch + Batch
  BY <1>7, <1>8, <1>10
<1>12. Cardinality(Stranded) <= (faults + cuts) * Batch
  BY <1>9 DEF FewStranded
<1>13. Cardinality(Stranded') <= Batch * (faults' + cuts')
  BY <1>3, <1>4, <1>5, <1>6, <1>8, <1>11, <1>12, WebhookAssumption
<1>14. QED
  BY <1>13 DEF FewStranded

\* A row outside L keeps its holders, and is not taken into delivery.
LEMMA KeepHolders ==
  ASSUME NEW L \in SUBSET Deliveries,
         \A d \in Deliveries \ L : status'[d] = "delivering" =>
            /\ status[d] = "delivering"
            /\ \A w \in Workers : \A cd \in Held(w) :
                  cd.id = d => \E ce \in Held(w)' : ce.id = d
  PROVE  Stranded' \subseteq Stranded \cup L
<1> SUFFICES ASSUME NEW d \in Stranded', d \notin L
             PROVE  \A w \in Workers : \A cd \in Held(w) : cd.id # d
  BY DEF Stranded
<1>1. d \in Deliveries \ L /\ status'[d] = "delivering"
  BY DEF Stranded
<1>2. \A w \in Workers : \A ce \in Held(w)' : ce.id # d
  BY DEF Stranded
<1>3. QED
  BY <1>1, <1>2

\* The claim: each row taken is held by the worker that took it.
LEMMA ClaimDueHolds ==
  ASSUME TypeInv, FewStranded, NEW w \in Workers, ClaimDue(w)
  PROVE  FewStranded'
<1>1. PICK S \in SUBSET Deliveries :
        /\ MarkDelivering(S)
        /\ todo' = [todo EXCEPT ![w] = {[id |-> x, attempt |-> attempt[x]] : x \in S}]
  BY DEF ClaimDue
<1>2. cur' = cur /\ Held(w) = {} /\ UNCHANGED <<faults, cuts>>
  BY DEF ClaimDue, budgetVars, TypeInv, StageOK, Busy, Held
<1>3. \A v \in Workers \ {w} : Held(v)' = Held(v)
  BY <1>1, <1>2 DEF Held, TypeInv, TypeOK, WorkersTyped
<1>4. ASSUME NEW d \in Stranded' PROVE d \in Stranded
  <2>1. d \in Deliveries /\ status'[d] = "delivering" /\ \A v \in Workers : \A cd \in Held(v)' : cd.id # d
    BY <1>4 DEF Stranded
  <2>2. d \notin S
    <3>1. ASSUME d \in S PROVE FALSE
      <4>1. [id |-> d, attempt |-> attempt[d]] \in Held(w)'
        BY <1>1, <3>1 DEF Held, TypeInv, TypeOK, WorkersTyped
      <4>2. QED
        BY <2>1, <4>1
    <3>2. QED
      BY <3>1
  <2>3. status[d] = "delivering"
    BY <1>1, <2>1, <2>2 DEF MarkDelivering
  <2>4. QED
    BY <1>2, <1>3, <2>1, <2>3 DEF Stranded
<1>5. QED
  BY <1>2, <1>4, LoseNone

\* A recorded row is no longer delivering, whoever it belongs to by then; a
\* result that could not be written loses one row.
LEMMA RecordHolds ==
  ASSUME TypeInv, FewStranded, NEW w \in Workers, Record(w)
  PROVE  FewStranded'
<1>1. cur[w] \in ClaimedDelivery /\ cur[w].id \in Deliveries /\ outcome[w] \in Outcomes
  BY CurType DEF Record, TypeInv, TypeOK, WorkersTyped
<1>2. todo' = todo /\ \A v \in Workers \ {w} : cur'[v] = cur[v]
  BY DEF Record, TypeInv, TypeOK, WorkersTyped
<1>3. \A v \in Workers : \A cd \in Held(v) : cd.id # cur[w].id => cd \in Held(v)'
  BY <1>2 DEF Held
<1>4. UNCHANGED cuts
  BY DEF Record
<1>5. CASE MarkResult(cur[w], outcome[w]) /\ NoFault
  <2>1. status' = [status EXCEPT ![cur[w].id] = Verdict(cur[w], outcome[w]).status]
    BY <1>5 DEF MarkResult
  <2>2. Verdict(cur[w], outcome[w]).status # "delivering"
    BY <1>1, VerdictType
  <2>3. \A d \in Deliveries : status'[d] = "delivering" => status[d] = "delivering" /\ d # cur[w].id
    BY <1>1, <2>1, <2>2 DEF TypeInv, TypeOK, RowsTyped
  <2>4. Stranded' \subseteq Stranded \cup {}
    BY <1>3, <2>3, KeepHolders
  <2>5. QED
    BY <1>4, <1>5, <2>4, LoseNone DEF NoFault
<1>6. CASE status[cur[w].id] # "delivering" /\ UNCHANGED rowVars /\ NoFault
  <2>1. Stranded' \subseteq Stranded \cup {}
    BY <1>3, <1>6, KeepHolders DEF rowVars
  <2>2. QED
    BY <1>4, <1>6, <2>1, LoseNone DEF NoFault
<1>7. CASE UNCHANGED rowVars /\ Fault
  <2> DEFINE L == {cur[w].id}
  <2>1. L \in SUBSET Deliveries /\ Cardinality(L) <= Batch
    BY <1>1, OneRow
  <2>2. \A d \in Deliveries \ L : d # cur[w].id
    OBVIOUS
  <2> HIDE DEF L
  <2>3. Stranded' \subseteq Stranded \cup L
    BY <1>3, <1>7, <2>1, <2>2, KeepHolders DEF rowVars
  <2>4. QED
    BY <1>4, <1>7, <2>1, <2>3, LoseBatch
<1>8. QED
  BY <1>5, <1>6, <1>7 DEF Record

\* So is a row handed back.
LEMMA ReleaseHolds ==
  ASSUME TypeInv, FewStranded, NEW w \in Workers, Release(w)
  PROVE  FewStranded'
<1>1. PICK cd \in todo[w] :
         /\ todo' = [todo EXCEPT ![w] = @ \ {cd}]
         /\ \/ Return({cd.id} \ {d \in Deliveries : status[d] # "delivering"}) /\ NoFault
            \/ UNCHANGED rowVars /\ Fault
  BY DEF Release
<1>2. cd.id \in Deliveries /\ cur' = cur /\ UNCHANGED cuts
  BY DEF Release, TypeInv, TypeOK, WorkersTyped, ClaimedDelivery
<1>3. \A v \in Workers : \A ce \in Held(v) : ce.id # cd.id => ce \in Held(v)'
  BY <1>1, <1>2 DEF Held, TypeInv, TypeOK, WorkersTyped
<1>4. CASE Return({cd.id} \ {d \in Deliveries : status[d] # "delivering"}) /\ NoFault
  <2>1. \A d \in Deliveries : status'[d] = "delivering" => status[d] = "delivering" /\ d # cd.id
    BY <1>2, <1>4 DEF Return
  <2>2. Stranded' \subseteq Stranded \cup {}
    BY <1>3, <2>1, KeepHolders
  <2>3. QED
    BY <1>2, <1>4, <2>2, LoseNone DEF NoFault
<1>5. CASE UNCHANGED rowVars /\ Fault
  <2> DEFINE L == {cd.id}
  <2>1. L \in SUBSET Deliveries /\ Cardinality(L) <= Batch
    BY <1>2, OneRow
  <2>2. \A d \in Deliveries \ L : d # cd.id
    OBVIOUS
  <2> HIDE DEF L
  <2>3. Stranded' \subseteq Stranded \cup L
    BY <1>3, <1>5, <2>1, <2>2, KeepHolders DEF rowVars
  <2>4. QED
    BY <1>2, <1>5, <2>1, <2>3, LoseBatch
<1>6. QED
  BY <1>1, <1>4, <1>5

\* A claim that committed for nobody loses its batch, and nothing else.
LEMMA LostClaim ==
  ASSUME TypeInv, FewStranded, NEW S \in SUBSET Deliveries, Claimable(S), MarkDelivering(S),
         UNCHANGED <<todo, cur>>,
         \/ Fault /\ UNCHANGED cuts
         \/ UNCHANGED faults /\ cuts' = cuts + 1
  PROVE  FewStranded'
<1>1. \A w \in Workers : Held(w)' = Held(w)
  BY DEF Held
<1>2. Stranded' \subseteq Stranded \cup S
  BY <1>1, KeepHolders DEF MarkDelivering
<1>3. Cardinality(S) <= Batch
  BY ClaimableSmall
<1>4. QED
  BY <1>2, <1>3, LoseBatch

\* A process that dies loses what it held.
LEMMA CrashHolds ==
  ASSUME TypeInv, BatchOK, FewStranded, NEW w \in Workers, Crash(w)
  PROVE  FewStranded'
<1> DEFINE L == {cd.id : cd \in Held(w)}
<1>1. L \in SUBSET Deliveries /\ Cardinality(L) <= Batch
  BY HeldSmall
<1>2. \A v \in Workers \ {w} : Held(v)' = Held(v)
  BY DEF Crash, Forgotten, Held, TypeInv, TypeOK, WorkersTyped
<1>3. status' = status /\ Fault /\ UNCHANGED cuts
  BY DEF Crash, rowVars
<1>4. ASSUME NEW d \in Deliveries \ L, NEW v \in Workers, NEW cd \in Held(v), cd.id = d
      PROVE  cd \in Held(v)'
  <2>1. v # w
    BY <1>4
  <2>2. QED
    BY <1>2, <2>1
<1> HIDE DEF L
<1>5. Stranded' \subseteq Stranded \cup L
  BY <1>1, <1>3, <1>4, KeepHolders
<1>6. QED
  BY <1>1, <1>3, <1>5, LoseBatch

\* One step per action of Next.
LEMMA StrandedStep == TypeInv /\ BatchOK /\ FewStranded /\ [Next]_vars => FewStranded'
<1> SUFFICES ASSUME TypeInv, BatchOK, FewStranded, [Next]_vars PROVE FewStranded'
  OBVIOUS
<1>b. UNCHANGED <<todo, cur>> => \A w \in Workers : Held(w)' = Held(w)
  BY DEF Held
<1>c. ASSUME \A w \in Workers : Held(w)' = Held(w), UNCHANGED cuts,
             \A d \in Deliveries : status'[d] = "delivering" => status[d] = "delivering",
             UNCHANGED faults \/ Fault
      PROVE  FewStranded'
  <2>1. Stranded' \subseteq Stranded \cup {}
    BY <1>c, KeepHolders
  <2>2. Cardinality({}) <= Batch
    BY FS_EmptySet, WebhookAssumption
  <2>3. QED
    BY <1>c, <2>1, <2>2, LoseNone, LoseBatch
<1>1. ASSUME NEW S \in SUBSET Deliveries, Enqueue(S) PROVE FewStranded'
  BY <1>1, <1>b, <1>c DEF Enqueue, workerVars, budgetVars
<1>2. ASSUME NEW d \in Deliveries, RetryDelivery(d) PROVE FewStranded'
  BY <1>2, <1>b, <1>c DEF RetryDelivery, workerVars, TypeInv, TypeOK, RowsTyped
<1>3. ASSUME NEW w \in Workers,
             Start(w) \/ Wake(w) \/ BeginRelease(w) \/ BatchDone(w) \/ ReleaseDone(w) \/ Stop(w)
      PROVE  FewStranded'
  BY <1>3, <1>b, <1>c DEF Start, Wake, BeginRelease, BatchDone, ReleaseDone, Stop, rowVars, budgetVars
<1>4. ASSUME NEW w \in Workers, Reap(w) PROVE FewStranded'
  BY <1>4, <1>b, <1>c DEF Reap, Return, NoFault, rowVars
<1>5. ASSUME NEW w \in Workers, Purge(w) PROVE FewStranded'
  BY <1>5, <1>b, <1>c DEF Purge, budgetVars
<1>6. ASSUME NEW w \in Workers, ClaimFails(w) PROVE FewStranded'
  <2>1. UNCHANGED <<todo, cur, cuts>>
    BY <1>6 DEF ClaimFails
  <2>2. CASE UNCHANGED rowVars /\ (Fault \/ NoFault)
    BY <2>1, <2>2, <1>b, <1>c DEF NoFault, rowVars
  <2>3. CASE (\E S \in SUBSET Deliveries : Claimable(S) /\ MarkDelivering(S)) /\ Fault
    BY <2>1, <2>3, LostClaim
  <2>4. QED
    BY <1>6, <2>2, <2>3 DEF ClaimFails
<1>7. ASSUME NEW w \in Workers, ClaimCut(w) PROVE FewStranded'
  BY <1>7, LostClaim DEF ClaimCut
<1>8. ASSUME NEW w \in Workers, NEW o \in Outcomes, Respond(w, o) PROVE FewStranded'
  BY <1>8, <1>b, <1>c DEF Respond, rowVars, budgetVars
<1>9. ASSUME NEW w \in Workers, Attempt(w) PROVE FewStranded'
  <2>1. PICK cd \in todo[w] : todo' = [todo EXCEPT ![w] = @ \ {cd}] /\ cur' = [cur EXCEPT ![w] = cd]
    BY <1>9 DEF Attempt
  <2>2. cur[w] = NoClaim /\ cd # NoClaim
    BY <1>9, WebhookAssumption DEF Attempt, TypeInv, TypeOK, WorkersTyped, StageOK
  <2>3. \A v \in Workers : Held(v)' = Held(v)
    BY <2>1, <2>2 DEF Held, TypeInv, TypeOK, WorkersTyped
  <2>4. QED
    BY <1>9, <2>3, <1>c DEF Attempt, rowVars, budgetVars
<1>10. ASSUME NEW w \in Workers, Stopped(w) PROVE FewStranded'
  <2>1. todo[w] = {} /\ cur[w] = NoClaim /\ Forgotten(w) /\ UNCHANGED <<rowVars, budgetVars>>
    BY <1>10 DEF Stopped, TypeInv, StageOK, Busy
  <2>2. todo' = todo /\ cur' = cur
    BY <2>1 DEF Forgotten, TypeInv, TypeOK, WorkersTyped
  <2>3. QED
    BY <2>1, <2>2, <1>b, <1>c DEF rowVars, budgetVars
<1>11. CASE Tick
  BY <1>11, <1>b, <1>c DEF Tick, budgetVars
<1>12. CASE UNCHANGED vars
  BY <1>12, <1>b, <1>c DEF vars, rowVars, workerVars, budgetVars
<1>13. QED
  BY <1>1, <1>2, <1>3, <1>4, <1>5, <1>6, <1>7, <1>8, <1>9, <1>10, <1>11, <1>12, ClaimDueHolds,
     RecordHolds, ReleaseHolds, CrashHolds DEF Next, Steps

\* A graceful stop hands back all a worker holds: rows are left to the reaper
\* by a crash, a failed statement or a stop that cuts a claim short, a batch
\* at most each time.  For any number of instances and rows, whatever the
\* batch and the reap threshold.
THEOREM FewAreStranded == Spec => []FewStranded
<1>1. Init => FewStranded
  <2>1. Init => Stranded = {}
    BY DEF Init, Stranded
  <2>2. Init => Cardinality(Stranded) = 0 /\ Batch * (faults + cuts) = 0
    <3>1. Cardinality({}) = 0 /\ Batch * (0 + 0) = 0
      BY FS_EmptySet, WebhookAssumption
    <3>2. Init => faults = 0 /\ cuts = 0
      BY DEF Init
    <3>3. QED
      BY <2>1, <3>1, <3>2
  <2>3. QED
    BY <2>2 DEF FewStranded
<1>2. QED
  BY <1>1, BatchInit, BatchStep, StrandedStep, TypeInvHolds, PTL DEF Spec

-----------------------------------------------------------------------------
(* Calls.  A row that is being attempted, or that is settled, may have been  *)
(* sent once more than it has retries; a row at rest in the queue may not.   *)
(* A crash or a failed write loses the count of at most one call.            *)

Flying(d) == \E w \in Workers : cur[w] # NoClaim /\ cur[w].id = d

Allowance(d) ==
    IF status[d] \in {"none", "pending"} \/ (status[d] = "delivering" /\ ~Flying(d))
    THEN 0 ELSE 1

SendsInv == \A d \in Deliveries : sends[d] <= attempt[d] + Allowance(d) + faults

\* The counters of one row are numbers.
LEMMA CountersType ==
  ASSUME TypeInv, NEW d \in Deliveries
  PROVE  /\ sends[d] \in Nat /\ attempt[d] \in Nat /\ faults \in Nat
         /\ Allowance(d) \in {0, 1}
  BY WebhookAssumption DEF TypeInv, TypeOK, SeenTyped, RowsTyped, BudgetsTyped, Allowance

\* The allowance is what SendsBounded grants every row.
LEMMA SendsInvImpliesBounded == TypeInv /\ SendsInv => SendsBounded
  BY CountersType DEF SendsInv, SendsBounded

\* Nothing is sent at the start.
LEMMA SendsInit == Init => SendsInv
  BY DEF Init, SendsInv, Allowance

\* A row that is sent no more and loses nothing it may count on stays in
\* bounds.
LEMMA KeepSends ==
  ASSUME TypeInv, TypeInv', SendsInv,
         \A d \in Deliveries :
            /\ sends'[d] = sends[d] /\ attempt'[d] = attempt[d]
            /\ Allowance(d) + faults <= Allowance(d)' + faults'
  PROVE  SendsInv'
<1>1. ASSUME NEW d \in Deliveries
      PROVE  sends'[d] <= attempt'[d] + Allowance(d)' + faults'
  <2>1. sends[d] \in Nat /\ attempt[d] \in Nat /\ faults \in Nat /\ Allowance(d) \in {0, 1}
    BY CountersType
  <2>2. faults' \in Nat
    BY WebhookAssumption DEF TypeInv, TypeOK, BudgetsTyped
  <2>3. Allowance(d)' \in {0, 1}
    BY DEF Allowance
  <2>4. sends[d] <= attempt[d] + Allowance(d) + faults
    BY DEF SendsInv
  <2>5. sends'[d] = sends[d] /\ attempt'[d] = attempt[d] /\ Allowance(d) + faults <= Allowance(d)' + faults'
    OBVIOUS
  <2>6. QED
    BY <2>1, <2>2, <2>3, <2>4, <2>5
<1>2. QED
  BY <1>1 DEF SendsInv

\* With no claim taken up or dropped, only a delivering row that is being
\* attempted can lose its allowance.
LEMMA SameFlight ==
  ASSUME cur' = cur, NEW d \in Deliveries,
         status'[d] = status[d] \/ (status[d] = "none" /\ status'[d] = "pending")
            \/ (status[d] \in {"succeeded", "failed"} /\ status'[d] = "purged")
            \/ (status[d] = "pending" /\ status'[d] = "delivering" /\ ~Flying(d))
            \/ (status[d] = "delivering" /\ status'[d] = "pending" /\ ~Flying(d))
  PROVE  Allowance(d)' = Allowance(d)
<1>1. Flying(d)' <=> Flying(d)
  BY DEF Flying
<1>2. QED
  BY <1>1 DEF Allowance

\* A row in flight is the claim of a live worker, so it is delivering.
LEMMA FlyingHeld ==
  ASSUME NEW w \in Workers, cur[w] # NoClaim
  PROVE  cur[w] \in Held(w)
  BY DEF Held

\* The call goes out: the row was held by this worker and not in flight.
LEMMA AttemptSends ==
  ASSUME TypeInv, TypeInv', ClaimInv, SendsInv, NEW w \in Workers, Attempt(w)
  PROVE  SendsInv'
<1>1. PICK cd \in todo[w] :
         /\ cur'  = [cur EXCEPT ![w] = cd]
         /\ sends' = [sends EXCEPT ![cd.id] = @ + 1] \/ sends' = sends
  BY DEF Attempt
<1>2. cur[w] = NoClaim /\ cd \in ClaimedDelivery /\ cd # NoClaim /\ cd.id \in Deliveries
  <2>1. cur[w] = NoClaim /\ cd \in ClaimedDelivery
    BY DEF Attempt, TypeInv, TypeOK, WorkersTyped, StageOK
  <2>2. QED
    BY <2>1, WebhookAssumption DEF ClaimedDelivery
<1>3. cur'[w] = cd /\ \A v \in Workers \ {w} : cur'[v] = cur[v]
  BY <1>1 DEF TypeInv, TypeOK, WorkersTyped
<1>4. UNCHANGED <<status, attempt, faults>>
  BY DEF Attempt, rowVars, budgetVars
<1>5. cd \in Held(w) /\ status[cd.id] = "delivering"
  BY DEF Held, ClaimInv, OwnRows
<1>6. ~Flying(cd.id)
  BY <1>2, <1>5, FlyingHeld DEF Flying, ClaimInv, OneHolder
<1>7. Flying(cd.id)' /\ \A d \in Deliveries \ {cd.id} : Flying(d)' <=> Flying(d)
  BY <1>2, <1>3 DEF Flying
<1>8. ASSUME NEW d \in Deliveries
      PROVE  sends'[d] <= attempt'[d] + Allowance(d)' + faults'
  <2>1. /\ sends[d] \in Nat /\ attempt[d] \in Nat /\ faults \in Nat /\ Allowance(d) \in {0, 1}
        /\ sends[d] <= attempt[d] + Allowance(d) + faults
    BY CountersType DEF SendsInv
  <2>2. CASE d = cd.id
    <3>1. Allowance(d) = 0 /\ Allowance(d)' = 1
      BY <2>2, <1>4, <1>5, <1>6, <1>7 DEF Allowance
    <3>2. sends'[d] \in {sends[d], sends[d] + 1}
      BY <2>2, <1>1, <1>2 DEF TypeInv, TypeOK, SeenTyped
    <3>3. QED
      BY <2>1, <3>1, <3>2, <1>4
  <2>3. CASE d # cd.id
    <3>1. Allowance(d)' = Allowance(d)
      BY <2>3, <1>4, <1>7 DEF Allowance
    <3>2. sends'[d] = sends[d]
      BY <2>3, <1>1, <1>2 DEF TypeInv, TypeOK, SeenTyped
    <3>3. QED
      BY <2>1, <3>1, <3>2, <1>4
  <2>4. QED
    BY <2>2, <2>3
<1>9. QED
  BY <1>8 DEF SendsInv

\* The result is written: another try is counted, or the row is settled and
\* keeps its one; a lost write is paid for by the fault.
LEMMA RecordSends ==
  ASSUME TypeInv, TypeInv', ClaimInv, SendsInv, NEW w \in Workers, Record(w)
  PROVE  SendsInv'
<1>0. cur[w] \in ClaimedDelivery /\ cur[w] # NoClaim /\ outcome[w] \in Outcomes
  BY CurType, WebhookAssumption DEF Record, TypeInv, TypeOK, WorkersTyped
<1>1. PICK x \in Deliveries : x = cur[w].id
  BY CurType DEF Record
<1>2. status[x] = "delivering" /\ attempt[x] = cur[w].attempt
  BY <1>0, <1>1, FlyingHeld DEF ClaimInv, OwnRows
<1>3. cur'[w] = NoClaim /\ sends' = sends /\ \A v \in Workers \ {w} : cur'[v] = cur[v]
  BY DEF Record, seenVars, TypeInv, TypeOK, WorkersTyped
<1>4. ~Flying(x)' /\ \A d \in Deliveries \ {x} : Flying(d)' <=> Flying(d)
  <2>1. \A v \in Workers \ {w} : cur[v] # NoClaim => cur[v].id # x
    BY <1>0, <1>1, FlyingHeld DEF ClaimInv, OneHolder
  <2>2. QED
    BY <1>0, <1>1, <1>3, <2>1 DEF Flying
<1>5. \/ MarkResult(cur[w], outcome[w]) /\ NoFault
      \/ UNCHANGED rowVars /\ Fault
  BY <1>1, <1>2 DEF Record
<1> DEFINE verdict == Verdict(cur[w], outcome[w])
<1>6. \/ verdict.status \in {"succeeded", "failed"} /\ verdict.attempt = attempt[x]
      \/ verdict.status = "pending" /\ verdict.attempt = attempt[x] + 1
  BY <1>0, <1>1, <1>2 DEF Verdict
<1>7. MarkResult(cur[w], outcome[w]) => /\ status'  = [status EXCEPT ![x] = verdict.status]
                                        /\ attempt' = [attempt EXCEPT ![x] = verdict.attempt]
  BY <1>1 DEF MarkResult
<1> HIDE DEF verdict
<1>8. ASSUME NEW d \in Deliveries
      PROVE  sends'[d] <= attempt'[d] + Allowance(d)' + faults'
  <2>1. /\ sends[d] \in Nat /\ attempt[d] \in Nat /\ faults \in Nat /\ Allowance(d) \in {0, 1}
        /\ sends[d] <= attempt[d] + Allowance(d) + faults
    BY CountersType DEF SendsInv
  <2>2. CASE d = x /\ MarkResult(cur[w], outcome[w]) /\ NoFault
    <3>1. status'[d] = verdict.status /\ attempt'[d] = verdict.attempt /\ faults' = faults
      BY <1>1, <1>7, <2>2 DEF NoFault, TypeInv, TypeOK, RowsTyped
    <3>2. CASE verdict.status \in {"succeeded", "failed"} /\ verdict.attempt = attempt[x]
      <4>1. Allowance(d)' = 1
        BY <3>1, <3>2 DEF Allowance
      <4>2. QED
        BY <4>1, <3>1, <3>2, <2>1, <2>2, <1>3
    <3>3. CASE verdict.status = "pending" /\ verdict.attempt = attempt[x] + 1
      <4>1. Allowance(d)' = 0
        BY <3>1, <3>3 DEF Allowance
      <4>2. QED
        BY <4>1, <3>1, <3>3, <2>1, <2>2, <1>3
    <3>4. QED
      BY <1>6, <3>2, <3>3
  <2>3. CASE UNCHANGED rowVars /\ Fault
    <3>1. attempt'[d] = attempt[d] /\ faults' = faults + 1 /\ Allowance(d)' \in {0, 1}
      BY <2>3 DEF Fault, rowVars, Allowance
    <3>2. QED
      BY <3>1, <2>1, <1>3
  <2>4. CASE d # x /\ MarkResult(cur[w], outcome[w]) /\ NoFault
    <3>1. status'[d] = status[d] /\ attempt'[d] = attempt[d] /\ faults' = faults
      BY <1>7, <2>4 DEF NoFault, TypeInv, TypeOK, RowsTyped
    <3>2. Allowance(d)' = Allowance(d)
      BY <1>4, <2>4, <3>1 DEF Allowance
    <3>3. QED
      BY <3>1, <3>2, <2>1, <1>3
  <2>5. QED
    BY <1>5, <2>2, <2>3, <2>4
<1>9. QED
  BY <1>8 DEF SendsInv

\* A row handed back was waiting for its turn, not in flight.
LEMMA ReleaseSends ==
  ASSUME TypeInv, TypeInv', ClaimInv, SendsInv, NEW w \in Workers, Release(w)
  PROVE  SendsInv'
<1>1. PICK cd \in todo[w] :
         \/ Return({cd.id} \ {d \in Deliveries : status[d] # "delivering"}) /\ NoFault
         \/ UNCHANGED rowVars /\ Fault
  BY DEF Release
<1>2. cur[w] = NoClaim /\ cd \in Held(w) /\ cd.id \in Deliveries
  BY DEF Release, TypeInv, TypeOK, WorkersTyped, StageOK, ClaimedDelivery, Held
<1>3. ~Flying(cd.id)
  BY <1>2, FlyingHeld DEF Flying, ClaimInv, OneHolder
<1>4. UNCHANGED <<cur, sends, attempt>>
  BY <1>1 DEF Release, Return, rowVars, seenVars
<1>5. ASSUME NEW d \in Deliveries PROVE Allowance(d) + faults <= Allowance(d)' + faults'
  <2>1. Allowance(d)' = Allowance(d)
    BY <1>1, <1>3, <1>4, SameFlight DEF Return, rowVars
  <2>2. faults \in Nat /\ faults' \in {faults, faults + 1} /\ Allowance(d) \in {0, 1}
    BY <1>1, CountersType DEF Fault, NoFault
  <2>3. QED
    BY <2>1, <2>2
<1>6. QED
  BY <1>4, <1>5, KeepSends

\* One step per action of Next.
LEMMA SendsStep ==
  TimelyBatches /\ TypeInv /\ TypeInv' /\ ClaimInv /\ SendsInv /\ [Next]_vars => SendsInv'
<1> SUFFICES ASSUME TimelyBatches, TypeInv, TypeInv', ClaimInv, SendsInv, [Next]_vars
             PROVE  SendsInv'
  OBVIOUS
<1>a. ASSUME cur' = cur, UNCHANGED <<sends, attempt>>,
             faults' = faults \/ Fault,
             \A d \in Deliveries :
                status'[d] = status[d] \/ (status[d] = "none" /\ status'[d] = "pending")
                  \/ (status[d] \in {"succeeded", "failed"} /\ status'[d] = "purged")
                  \/ (status[d] = "pending" /\ status'[d] = "delivering" /\ ~Flying(d))
                  \/ (status[d] = "delivering" /\ status'[d] = "pending" /\ ~Flying(d))
      PROVE  SendsInv'
  <2>1. ASSUME NEW d \in Deliveries PROVE Allowance(d) + faults <= Allowance(d)' + faults'
    <3>1. Allowance(d)' = Allowance(d)
      BY <1>a, SameFlight
    <3>2. faults \in Nat /\ faults' \in {faults, faults + 1} /\ Allowance(d) \in {0, 1}
      BY <1>a, CountersType DEF Fault
    <3>3. QED
      BY <3>1, <3>2
  <2>2. QED
    BY <1>a, <2>1, KeepSends
<1>b. \A d \in Deliveries : Flying(d) => status[d] = "delivering" /\ d \notin Overdue
  BY FlyingHeld, HeldNotOverdue DEF Flying, ClaimInv, OwnRows
<1>1. ASSUME NEW S \in SUBSET Deliveries, Enqueue(S) PROVE SendsInv'
  BY <1>1, <1>a DEF Enqueue, workerVars, seenVars, budgetVars
<1>2. ASSUME NEW d \in Deliveries, RetryDelivery(d) PROVE SendsInv'
  <2>1. /\ sends'[d] = 0 /\ attempt'[d] = 0 /\ cur' = cur /\ faults' = faults
        /\ \A e \in Deliveries \ {d} : /\ sends'[e] = sends[e] /\ attempt'[e] = attempt[e]
                                       /\ status'[e] = status[e]
    BY <1>2 DEF RetryDelivery, workerVars, TypeInv, TypeOK, RowsTyped, SeenTyped
  <2>2. ASSUME NEW e \in Deliveries \ {d}
        PROVE  sends'[e] <= attempt'[e] + Allowance(e)' + faults'
    BY <2>1, SameFlight DEF SendsInv
  <2>3. sends'[d] <= attempt'[d] + Allowance(d)' + faults'
    <3>1. faults \in Nat /\ Allowance(d)' \in {0, 1}
      BY CountersType DEF Allowance
    <3>2. QED
      BY <2>1, <3>1
  <2>4. QED
    BY <2>2, <2>3 DEF SendsInv
<1>3. ASSUME NEW w \in Workers,
             Start(w) \/ Wake(w) \/ BeginRelease(w) \/ BatchDone(w) \/ ReleaseDone(w) \/ Stop(w)
      PROVE  SendsInv'
  BY <1>3, <1>a DEF Start, Wake, BeginRelease, BatchDone, ReleaseDone, Stop, rowVars, seenVars,
                    budgetVars
<1>4. ASSUME NEW w \in Workers, Reap(w) PROVE SendsInv'
  <2>1. UNCHANGED <<cur, sends, attempt>> /\ (faults' = faults \/ Fault)
    BY <1>4 DEF Reap, Return, rowVars, seenVars, NoFault
  <2>2. \A d \in Deliveries : \/ status'[d] = status[d]
                              \/ status[d] = "delivering" /\ status'[d] = "pending" /\ d \in Overdue
    BY <1>4 DEF Reap, Return, rowVars, Overdue
  <2>3. QED
    BY <2>1, <2>2, <1>a, <1>b
<1>5. ASSUME NEW w \in Workers, Purge(w) PROVE SendsInv'
  BY <1>5, <1>a DEF Purge, Terminal, seenVars, budgetVars
<1>6. ASSUME NEW w \in Workers, ClaimDue(w) \/ ClaimFails(w) \/ ClaimCut(w) PROVE SendsInv'
  <2>1. UNCHANGED <<cur, sends, attempt>> /\ (faults' = faults \/ Fault)
    BY <1>6 DEF ClaimDue, ClaimFails, ClaimCut, MarkDelivering, rowVars, seenVars, budgetVars, NoFault
  <2>2. \A d \in Deliveries : \/ status'[d] = status[d]
                              \/ status[d] = "pending" /\ status'[d] = "delivering"
    BY <1>6 DEF ClaimDue, ClaimFails, ClaimCut, MarkDelivering, Claimable, Due, rowVars
  <2>3. QED
    BY <2>1, <2>2, <1>a, <1>b
<1>7. ASSUME NEW w \in Workers, NEW o \in Outcomes, Respond(w, o) PROVE SendsInv'
  BY <1>7, <1>a DEF Respond, rowVars, budgetVars
<1>8. ASSUME NEW w \in Workers, Stopped(w) PROVE SendsInv'
  <2>1. cur[w] = NoClaim /\ Forgotten(w) /\ UNCHANGED <<rowVars, seenVars, budgetVars>>
    BY <1>8 DEF Stopped, TypeInv, StageOK
  <2>2. cur' = cur
    BY <2>1 DEF Forgotten, TypeInv, TypeOK, WorkersTyped
  <2>3. QED
    BY <2>1, <2>2, <1>a DEF rowVars, seenVars, budgetVars
<1>9. ASSUME NEW w \in Workers, Crash(w) PROVE SendsInv'
  <2>1. ASSUME NEW d \in Deliveries PROVE Allowance(d) + faults <= Allowance(d)' + faults'
    <3>1. faults \in Nat /\ faults' = faults + 1 /\ Allowance(d) \in {0, 1}
      BY <1>9, CountersType DEF Crash, Fault
    <3>2. Allowance(d)' \in {0, 1}
      BY DEF Allowance
    <3>3. QED
      BY <3>1, <3>2
  <2>2. QED
    BY <1>9, <2>1, KeepSends DEF Crash, rowVars, seenVars
<1>10. CASE Tick
  BY <1>10, <1>a DEF Tick, seenVars, budgetVars
<1>11. CASE UNCHANGED vars
  BY <1>11, <1>a DEF vars, rowVars, workerVars, seenVars, budgetVars
<1>12. QED
  BY <1>1, <1>2, <1>3, <1>4, <1>5, <1>6, <1>7, <1>8, <1>9, <1>10, <1>11, AttemptSends,
     RecordSends, ReleaseSends DEF Next, Steps

\* With timely batches a row is sent at most once more than its retries, plus
\* once for each crash or failed statement: at least once, and not much more.
THEOREM FewCalls ==
  ASSUME TimelyBatches
  PROVE  Spec => []SendsBounded
<1>1. Init => ClaimInv /\ SendsInv
  BY ClaimInit, SendsInit
<1>2. TypeInv /\ TypeInv' /\ ClaimInv /\ SendsInv /\ [Next]_vars => ClaimInv' /\ SendsInv'
  BY ClaimStep, SendsStep
<1>3. TypeInv /\ SendsInv => SendsBounded
  BY SendsInvImpliesBounded
<1>4. QED
  BY <1>1, <1>2, <1>3, TypeInvHolds, PTL DEF Spec

-----------------------------------------------------------------------------
(* The promise.  A row is closed on what was heard about it, so what a       *)
(* worker carries from the answer to the write must have been heard since    *)
(* the row was last opened, and each retry counted must have been sent.      *)

TriesCounted ==
    \A d \in Deliveries :
        status[d] \in {"none", "pending", "delivering"} => attempt[d] <= sends[d]

OutcomeHeard ==
    \A w \in Workers :
        /\ pc[w] = "send" \/ (pc[w] = "record" /\ outcome[w] # "broken") =>
              attempt[cur[w].id] < sends[cur[w].id]
        /\ pc[w] = "record" => outcome[w] \in heard[cur[w].id]

Evidence == TriesCounted /\ OutcomeHeard

\* At the start nothing was sent and nothing heard.
LEMMA EvidenceInit == Init => Evidence
  BY DEF Init, Evidence, TriesCounted, OutcomeHeard

\* A step that makes no call, counts no retry and carries no new answer, and
\* opens no closed row.
LEMMA KeepEvidence ==
  ASSUME Evidence, UNCHANGED <<sends, attempt, heard>>,
         \A d \in Deliveries :
            status'[d] \in {"none", "pending", "delivering"} =>
               status[d] \in {"none", "pending", "delivering"},
         \A w \in Workers : \/ pc'[w] = pc[w] /\ cur'[w] = cur[w] /\ outcome'[w] = outcome[w]
                            \/ pc'[w] \notin {"send", "record"}
  PROVE  Evidence'
<1>1. TriesCounted'
  BY DEF Evidence, TriesCounted
<1>2. OutcomeHeard'
  BY DEF Evidence, OutcomeHeard
<1>3. QED
  BY <1>1, <1>2 DEF Evidence

\* The row a worker attempts is delivering and attempted by no other worker.
LEMMA AttemptedAlone ==
  ASSUME TypeInv, ClaimInv, NEW w \in Workers, pc[w] \in {"send", "record"}
  PROVE  /\ cur[w] \in ClaimedDelivery /\ cur[w].id \in Deliveries
         /\ status[cur[w].id] = "delivering" /\ attempt[cur[w].id] = cur[w].attempt
         /\ \A v \in Workers \ {w} : \A cd \in Held(v) : cd.id # cur[w].id
<1>1. cur[w] \in ClaimedDelivery /\ cur[w].id \in Deliveries /\ cur[w] # NoClaim
  BY CurType, WebhookAssumption
<1>2. cur[w] \in Held(w)
  BY <1>1, FlyingHeld
<1>3. QED
  BY <1>1, <1>2 DEF ClaimInv, OwnRows, OneHolder

\* A call more, or a delivery that cannot be sent at all.
LEMMA AttemptEvidence ==
  ASSUME TypeInv, ClaimInv, Evidence, NEW w \in Workers, Attempt(w)
  PROVE  Evidence'
<1>1. PICK cd \in todo[w] :
        /\ cur'  = [cur EXCEPT ![w] = cd]
        /\ \/ /\ Goto(w, "send")
              /\ sends' = [sends EXCEPT ![cd.id] = @ + 1]
              /\ UNCHANGED <<outcome, heard>>
           \/ /\ Goto(w, "record")
              /\ outcome' = [outcome EXCEPT ![w] = "broken"]
              /\ heard'   = [heard EXCEPT ![cd.id] = @ \cup {"broken"}]
              /\ UNCHANGED sends
  BY DEF Attempt
<1>2. cd.id \in Deliveries /\ status[cd.id] = "delivering"
  BY DEF Held, ClaimInv, OwnRows, TypeInv, TypeOK, WorkersTyped, ClaimedDelivery
<1>3. UNCHANGED <<status, attempt>> /\ cur'[w] = cd /\ pc'[w] \in {"send", "record"}
  BY <1>1 DEF Attempt, rowVars, Goto, TypeInv, TypeOK, WorkersTyped
<1>4. \A v \in Workers \ {w} : pc'[v] = pc[v] /\ cur'[v] = cur[v] /\ outcome'[v] = outcome[v]
  BY <1>1 DEF Goto, TypeInv, TypeOK, WorkersTyped
<1>5. \A d \in Deliveries : /\ sends[d] \in Nat /\ sends'[d] \in Nat /\ sends[d] <= sends'[d]
                            /\ attempt[d] \in Nat /\ heard[d] \subseteq heard'[d]
  <2>1. sends \in [Deliveries -> Nat] /\ heard \in [Deliveries -> SUBSET Outcomes]
          /\ \A d \in Deliveries : attempt[d] \in Nat
    BY WebhookAssumption DEF TypeInv, TypeOK, SeenTyped, RowsTyped
  <2>2. \/ sends' = [sends EXCEPT ![cd.id] = @ + 1] /\ heard' = heard
        \/ sends' = sends /\ heard' = [heard EXCEPT ![cd.id] = @ \cup {"broken"}]
    BY <1>1
  <2>3. QED
    BY <2>1, <2>2, <1>2
<1>6. TriesCounted'
  BY <1>3, <1>5 DEF Evidence, TriesCounted
<1>7. ASSUME NEW v \in Workers \ {w}
      PROVE  /\ pc'[v] = "send" \/ (pc'[v] = "record" /\ outcome'[v] # "broken") =>
                   attempt'[cur'[v].id] < sends'[cur'[v].id]
             /\ pc'[v] = "record" => outcome'[v] \in heard'[cur'[v].id]
  <2>1. pc[v] \in {"send", "record"} => cur[v].id \in Deliveries
    BY CurType
  <2>2. QED
    BY <2>1, <1>3, <1>4, <1>5 DEF Evidence, OutcomeHeard
<1>8. /\ pc'[w] = "send" \/ (pc'[w] = "record" /\ outcome'[w] # "broken") =>
            attempt'[cur'[w].id] < sends'[cur'[w].id]
      /\ pc'[w] = "record" => outcome'[w] \in heard'[cur'[w].id]
  <2>1. attempt[cd.id] <= sends[cd.id]
    BY <1>2 DEF Evidence, TriesCounted
  <2>2. CASE Goto(w, "send") /\ sends' = [sends EXCEPT ![cd.id] = @ + 1]
    <3>1. pc'[w] = "send" /\ sends'[cd.id] = sends[cd.id] + 1
      BY <2>2, <1>2 DEF Goto, TypeInv, TypeOK, WorkersTyped, SeenTyped
    <3>2. QED
      BY <3>1, <2>1, <1>2, <1>3, <1>5
  <2>3. CASE /\ Goto(w, "record")
             /\ outcome' = [outcome EXCEPT ![w] = "broken"]
             /\ heard'   = [heard EXCEPT ![cd.id] = @ \cup {"broken"}]
    <3>1. pc'[w] = "record" /\ outcome'[w] = "broken" /\ "broken" \in heard'[cd.id]
      BY <2>3, <1>2 DEF Goto, TypeInv, TypeOK, WorkersTyped, SeenTyped
    <3>2. QED
      BY <3>1, <1>3
  <2>4. QED
    BY <1>1, <2>2, <2>3
<1>9. OutcomeHeard'
  BY <1>7, <1>8 DEF OutcomeHeard
<1>10. QED
  BY <1>6, <1>9 DEF Evidence

\* The answer is heard and carried to the write.
LEMMA RespondEvidence ==
  ASSUME TypeInv, Evidence, NEW w \in Workers, NEW o \in Outcomes, Respond(w, o)
  PROVE  Evidence'
<1>1. PICK x \in Deliveries : x = cur[w].id
  BY CurType DEF Respond
<1>2. /\ UNCHANGED <<status, attempt, sends, cur>> /\ pc[w] = "send"
      /\ pc'[w] = "record" /\ outcome'[w] = o /\ heard' = [heard EXCEPT ![x] = @ \cup {o}]
      /\ \A v \in Workers \ {w} : pc'[v] = pc[v] /\ outcome'[v] = outcome[v]
  BY <1>1 DEF Respond, rowVars, Goto, TypeInv, TypeOK, WorkersTyped
<1>3. \A d \in Deliveries : heard[d] \subseteq heard'[d]
  BY <1>2 DEF TypeInv, TypeOK, SeenTyped
<1>4. o \in heard'[x]
  BY <1>2 DEF TypeInv, TypeOK, SeenTyped
<1>5. TriesCounted'
  BY <1>2 DEF Evidence, TriesCounted
<1>6. ASSUME NEW v \in Workers
      PROVE  /\ pc'[v] = "send" \/ (pc'[v] = "record" /\ outcome'[v] # "broken") =>
                   attempt'[cur'[v].id] < sends'[cur'[v].id]
             /\ pc'[v] = "record" => outcome'[v] \in heard'[cur'[v].id]
  <2>1. pc[v] \in {"send", "record"} => cur[v].id \in Deliveries
    BY CurType
  <2>2. CASE v = w
    BY <2>2, <1>1, <1>2, <1>4 DEF Evidence, OutcomeHeard
  <2>3. CASE v # w
    BY <2>1, <2>3, <1>2, <1>3 DEF Evidence, OutcomeHeard
  <2>4. QED
    BY <2>2, <2>3
<1>7. QED
  BY <1>5, <1>6 DEF Evidence, OutcomeHeard

\* A retry is counted only for a call that was made.
LEMMA RecordEvidence ==
  ASSUME TypeInv, ClaimInv, Evidence, NEW w \in Workers, Record(w)
  PROVE  Evidence'
<1>1. PICK x \in Deliveries : x = cur[w].id
  BY CurType DEF Record
<1>2. /\ cur[w] \in ClaimedDelivery /\ outcome[w] \in Outcomes
      /\ status[x] = "delivering" /\ attempt[x] = cur[w].attempt
      /\ \A v \in Workers \ {w} : \A cd \in Held(v) : cd.id # x
  BY <1>1, AttemptedAlone DEF Record, TypeInv, TypeOK, WorkersTyped
<1>3. /\ UNCHANGED <<sends, heard>> /\ pc'[w] = "loop"
      /\ \A v \in Workers \ {w} : pc'[v] = pc[v] /\ cur'[v] = cur[v] /\ outcome'[v] = outcome[v]
  BY DEF Record, seenVars, Goto, TypeInv, TypeOK, WorkersTyped
<1>4. /\ outcome[w] \in heard[x]
      /\ outcome[w] # "broken" => attempt[x] < sends[x]
      /\ attempt[x] \in Nat /\ sends[x] \in Nat
  BY <1>1, WebhookAssumption DEF Record, Evidence, OutcomeHeard, TypeInv, TypeOK, RowsTyped, SeenTyped
<1> DEFINE verdict == Verdict(cur[w], outcome[w])
<1>5. verdict.status = "pending" => verdict.attempt <= sends[x]
  BY <1>2, <1>4 DEF Verdict
<1>6. verdict.status \in {"pending", "succeeded", "failed"}
  BY <1>2, VerdictType
<1>7. \/ UNCHANGED rowVars
      \/ /\ status'  = [status EXCEPT ![x] = verdict.status]
         /\ attempt' = [attempt EXCEPT ![x] = verdict.attempt]
  BY <1>1 DEF Record, MarkResult
<1> HIDE DEF verdict
<1>8. TriesCounted'
  <2>1. CASE UNCHANGED rowVars
    BY <2>1, <1>3 DEF rowVars, Evidence, TriesCounted
  <2>2. CASE /\ status'  = [status EXCEPT ![x] = verdict.status]
             /\ attempt' = [attempt EXCEPT ![x] = verdict.attempt]
    <3>1. status'[x] = verdict.status /\ attempt'[x] = verdict.attempt
      BY <2>2 DEF TypeInv, TypeOK, RowsTyped
    <3>2. \A d \in Deliveries \ {x} : status'[d] = status[d] /\ attempt'[d] = attempt[d]
      BY <2>2 DEF TypeInv, TypeOK, RowsTyped
    <3>3. ASSUME NEW d \in Deliveries, status'[d] \in {"none", "pending", "delivering"}
          PROVE  attempt'[d] <= sends'[d]
      <4>1. CASE d = x
        BY <4>1, <3>1, <3>3, <1>3, <1>5, <1>6
      <4>2. CASE d # x
        BY <4>2, <3>2, <3>3, <1>3 DEF Evidence, TriesCounted
      <4>3. QED
        BY <4>1, <4>2
    <3>4. QED
      BY <3>3 DEF TriesCounted
  <2>3. QED
    BY <1>7, <2>1, <2>2
<1>9. OutcomeHeard'
  <2>1. ASSUME NEW v \in Workers \ {w}, pc[v] \in {"send", "record"}
        PROVE  attempt'[cur[v].id] = attempt[cur[v].id]
    <3>1. cur[v].id \in Deliveries /\ cur[v] # NoClaim
      BY <2>1, CurType, WebhookAssumption
    <3>2. cur[v].id # x
      BY <3>1, <1>2, FlyingHeld
    <3>3. QED
      BY <3>1, <3>2, <1>7 DEF rowVars, TypeInv, TypeOK, RowsTyped
  <2>2. QED
    BY <2>1, <1>3 DEF Evidence, OutcomeHeard
<1>10. QED
  BY <1>8, <1>9 DEF Evidence

\* One step per action of Next.
LEMMA EvidenceStep == TypeInv /\ ClaimInv /\ Evidence /\ [Next]_vars => Evidence'
<1> SUFFICES ASSUME TypeInv, ClaimInv, Evidence, [Next]_vars PROVE Evidence'
  OBVIOUS
<1>1. ASSUME NEW S \in SUBSET Deliveries, Enqueue(S) PROVE Evidence'
  BY <1>1, KeepEvidence DEF Enqueue, workerVars, seenVars
<1>2. ASSUME NEW d \in Deliveries, RetryDelivery(d) PROVE Evidence'
  <2>1. /\ sends'[d] = 0 /\ attempt'[d] = 0 /\ UNCHANGED <<pc, cur, outcome>>
        /\ \A e \in Deliveries \ {d} : /\ sends'[e] = sends[e] /\ attempt'[e] = attempt[e]
                                       /\ status'[e] = status[e] /\ heard'[e] = heard[e]
    BY <1>2 DEF RetryDelivery, workerVars, TypeInv, TypeOK, RowsTyped, SeenTyped
  <2>2. \A w \in Workers : pc[w] \in {"send", "record"} => cur[w].id \in Deliveries \ {d}
    BY <1>2, AttemptedAlone DEF RetryDelivery
  <2>3. TriesCounted'
    BY <2>1 DEF Evidence, TriesCounted
  <2>4. OutcomeHeard'
    BY <2>1, <2>2 DEF Evidence, OutcomeHeard
  <2>5. QED
    BY <2>3, <2>4 DEF Evidence
<1>3. ASSUME NEW w \in Workers,
             Start(w) \/ Wake(w) \/ BeginRelease(w) \/ BatchDone(w) \/ ReleaseDone(w) \/ Stop(w)
      PROVE  Evidence'
  BY <1>3, KeepEvidence DEF Start, Wake, BeginRelease, BatchDone, ReleaseDone, Stop, rowVars,
       seenVars, Goto, TypeInv, TypeOK, WorkersTyped
<1>4. ASSUME NEW w \in Workers, Reap(w) PROVE Evidence'
  <2>1. UNCHANGED <<sends, heard, attempt, cur, outcome>>
    BY <1>4 DEF Reap, Return, rowVars, seenVars
  <2>2. \A d \in Deliveries : status'[d] = status[d] \/ status[d] = "delivering"
    BY <1>4 DEF Reap, Return, rowVars, Overdue
  <2>3. \A v \in Workers : pc'[v] = pc[v] \/ pc'[v] = "purge"
    BY <1>4 DEF Reap, Goto, TypeInv, TypeOK, WorkersTyped
  <2>4. QED
    BY <2>1, <2>2, <2>3, KeepEvidence
<1>5. ASSUME NEW w \in Workers, Purge(w) PROVE Evidence'
  BY <1>5, KeepEvidence DEF Purge, seenVars, Goto, TypeInv, TypeOK, WorkersTyped
<1>6. ASSUME NEW w \in Workers, ClaimDue(w) \/ ClaimFails(w) \/ ClaimCut(w) PROVE Evidence'
  <2>1. UNCHANGED <<sends, heard, attempt, cur, outcome>>
    BY <1>6 DEF ClaimDue, ClaimFails, ClaimCut, MarkDelivering, rowVars, seenVars
  <2>2. \A d \in Deliveries : status'[d] = status[d] \/ status[d] = "pending"
    BY <1>6 DEF ClaimDue, ClaimFails, ClaimCut, MarkDelivering, Claimable, Due, rowVars
  <2>3. \A v \in Workers : pc'[v] = pc[v] \/ pc'[v] \in {"loop", "sleep"}
    BY <1>6 DEF ClaimDue, ClaimFails, ClaimCut, Goto, TypeInv, TypeOK, WorkersTyped
  <2>4. QED
    BY <2>1, <2>2, <2>3, KeepEvidence
<1>7. ASSUME NEW w \in Workers, Release(w) PROVE Evidence'
  <2>1. PICK S \in SUBSET Deliveries :
          (Return(S) /\ S \subseteq {d \in Deliveries : status[d] = "delivering"}) \/ UNCHANGED rowVars
    BY <1>7 DEF Release, TypeInv, TypeOK, WorkersTyped, ClaimedDelivery
  <2>2. UNCHANGED <<sends, heard, attempt, pc, cur, outcome>>
    BY <1>7, <2>1 DEF Release, Return, rowVars, seenVars
  <2>3. \A d \in Deliveries : status'[d] = status[d] \/ status[d] = "delivering"
    BY <2>1 DEF Return, rowVars
  <2>4. QED
    BY <2>2, <2>3, KeepEvidence
<1>8. ASSUME NEW w \in Workers, Stopped(w) \/ Crash(w) PROVE Evidence'
  BY <1>8, KeepEvidence DEF Stopped, Crash, Forgotten, rowVars, seenVars, TypeInv, TypeOK, WorkersTyped
<1>9. CASE Tick
  BY <1>9, KeepEvidence DEF Tick, seenVars
<1>10. CASE UNCHANGED vars
  BY <1>10, KeepEvidence DEF vars, rowVars, workerVars, seenVars
<1>11. QED
  BY <1>1, <1>2, <1>3, <1>4, <1>5, <1>6, <1>7, <1>8, <1>9, <1>10, AttemptEvidence,
     RespondEvidence, RecordEvidence DEF Next, Steps

\* The queue starts where the promise does.
LEMMA PromiseInit == Init => Promise!Init
  BY DEF Init, Promise!Init, Phase

\* The write closes a row only on evidence, and reopens none.
LEMMA RecordPromise ==
  ASSUME TypeInv, ClaimInv, Evidence, NEW w \in Workers, Record(w)
  PROVE  [Promise!Next]_(Promise!promiseVars)
<1> USE DEF Phase
<1>1. PICK x \in Deliveries : x = cur[w].id
  BY CurType DEF Record
<1>2. /\ cur[w] \in ClaimedDelivery /\ outcome[w] \in Outcomes
      /\ status[x] = "delivering" /\ attempt[x] = cur[w].attempt
  BY <1>1, AttemptedAlone DEF Record, TypeInv, TypeOK, WorkersTyped
<1>3. /\ outcome[w] \in heard[x]
      /\ outcome[w] # "broken" => attempt[x] < sends[x]
      /\ attempt[x] \in Nat /\ sends[x] \in Nat /\ MaxAttempts \in Nat
  BY <1>1, WebhookAssumption DEF Record, Evidence, OutcomeHeard, TypeInv, TypeOK, RowsTyped, SeenTyped
<1> DEFINE verdict == Verdict(cur[w], outcome[w])
<1>4. \/ verdict.status = "pending"
      \/ verdict.status = "succeeded" /\ "ok" \in heard[x]
      \/ verdict.status = "failed" /\ (heard[x] \cap {"refused", "broken"} # {} \/ sends[x] > MaxAttempts)
  BY <1>2, <1>3 DEF Verdict
<1>5. UNCHANGED <<sends, heard>>
  BY DEF Record, seenVars
<1>6. UNCHANGED status \/ status' = [status EXCEPT ![x] = verdict.status]
  BY <1>1 DEF Record, MarkResult, rowVars
<1> HIDE DEF verdict
<1>7. CASE UNCHANGED status
  BY <1>5, <1>7 DEF Promise!promiseVars
<1>8. CASE status' = [status EXCEPT ![x] = verdict.status]
  <2>1. status'[x] = verdict.status /\ \A d \in Deliveries \ {x} : status'[d] = status[d]
    BY <1>8 DEF TypeInv, TypeOK, RowsTyped
  <2>2. CASE verdict.status = "pending"
    BY <2>1, <2>2, <1>2, <1>5 DEF Promise!promiseVars
  <2>3. CASE verdict.status = "succeeded" /\ "ok" \in heard[x]
    <3>1. Promise!Succeed(x)
      BY <2>1, <2>3, <1>2, <1>5 DEF Promise!Succeed
    <3>2. QED
      BY <3>1 DEF Promise!Next
  <2>4. CASE verdict.status = "failed" /\ (heard[x] \cap {"refused", "broken"} # {} \/ sends[x] > MaxAttempts)
    <3>1. Promise!Fail(x)
      BY <2>1, <2>4, <1>2, <1>5 DEF Promise!Fail
    <3>2. QED
      BY <3>1 DEF Promise!Next
  <2>5. QED
    BY <1>4, <2>2, <2>3, <2>4
<1>9. QED
  BY <1>6, <1>7, <1>8

\* Every other step is one of the promise or none of its business.
LEMMA PromiseStep ==
  TypeInv /\ ClaimInv /\ Evidence /\ [Next]_vars => [Promise!Next]_(Promise!promiseVars)
<1> SUFFICES ASSUME TypeInv, ClaimInv, Evidence, [Next]_vars
             PROVE  [Promise!Next]_(Promise!promiseVars)
  OBVIOUS
<1> USE DEF Phase
<1>a. ASSUME UNCHANGED seenVars,
             \A d \in Deliveries :
                \/ status'[d] = status[d]
                \/ status[d] \in {"pending", "delivering"} /\ status'[d] \in {"pending", "delivering"}
      PROVE  UNCHANGED Promise!promiseVars
  BY <1>a DEF seenVars, Promise!promiseVars
<1>1. ASSUME NEW S \in SUBSET Deliveries, Enqueue(S) PROVE Promise!Next
  <2>1. Promise!Accept(S)
    BY <1>1 DEF Enqueue, seenVars, Promise!Accept
  <2>2. QED
    BY <2>1 DEF Promise!Next
<1>2. ASSUME NEW d \in Deliveries, RetryDelivery(d) PROVE Promise!Next
  <2>1. Promise!Reopen(d)
    BY <1>2 DEF RetryDelivery, Promise!Reopen, TypeInv, TypeOK, RowsTyped
  <2>2. QED
    BY <2>1 DEF Promise!Next
<1>3. ASSUME NEW w \in Workers,
             \/ Start(w) \/ Wake(w) \/ BeginRelease(w) \/ BatchDone(w) \/ ReleaseDone(w)
             \/ Stop(w) \/ Stopped(w) \/ Crash(w)
      PROVE  UNCHANGED Promise!promiseVars
  BY <1>3, <1>a DEF Start, Wake, BeginRelease, BatchDone, ReleaseDone, Stop, Stopped, Crash, rowVars
<1>4. ASSUME NEW w \in Workers, Reap(w) PROVE UNCHANGED Promise!promiseVars
  BY <1>4, <1>a DEF Reap, Return, Overdue, rowVars
<1>5. ASSUME NEW w \in Workers, Purge(w) PROVE Promise!Next
  <2>1. PICK S \in SUBSET Terminal :
          status' = [d \in Deliveries |-> IF d \in S THEN "purged" ELSE status[d]]
    BY <1>5 DEF Purge
  <2>2. S \in SUBSET Deliveries /\ \A d \in S : status[d] \in {"succeeded", "failed"}
    BY DEF Terminal
  <2>3. Promise!Forget(S)
    BY <1>5, <2>1, <2>2 DEF Purge, seenVars, Promise!Forget
  <2>4. QED
    BY <2>2, <2>3 DEF Promise!Next
<1>6. ASSUME NEW w \in Workers, ClaimDue(w) \/ ClaimFails(w) \/ ClaimCut(w) PROVE UNCHANGED Promise!promiseVars
  BY <1>6, <1>a DEF ClaimDue, ClaimFails, ClaimCut, MarkDelivering, Claimable, Due, rowVars
<1>7. ASSUME NEW w \in Workers, Attempt(w) PROVE Promise!Next
  <2>1. PICK cd \in todo[w] :
          \/ sends' = [sends EXCEPT ![cd.id] = @ + 1] /\ UNCHANGED heard
          \/ heard' = [heard EXCEPT ![cd.id] = @ \cup {"broken"}] /\ UNCHANGED sends
    BY <1>7 DEF Attempt
  <2>2. cd.id \in Deliveries /\ status[cd.id] = "delivering"
    BY DEF Held, ClaimInv, OwnRows, TypeInv, TypeOK, WorkersTyped, ClaimedDelivery
  <2>3. status' = status
    BY <1>7 DEF Attempt, rowVars
  <2>4. Promise!Try(cd.id) \/ Promise!Hear(cd.id, "broken")
    BY <2>1, <2>2, <2>3 DEF Promise!Try, Promise!Hear
  <2>5. QED
    BY <2>2, <2>4 DEF Promise!Next, Promise!Outcomes
<1>8. ASSUME NEW w \in Workers, NEW o \in Outcomes, Respond(w, o) PROVE Promise!Next
  <2>1. cur[w].id \in Deliveries /\ status[cur[w].id] = "delivering"
    BY <1>8, AttemptedAlone DEF Respond
  <2>2. Promise!Hear(cur[w].id, o)
    BY <1>8, <2>1 DEF Respond, rowVars, Promise!Hear
  <2>3. QED
    BY <2>1, <2>2 DEF Promise!Next, Promise!Outcomes, Outcomes
<1>9. ASSUME NEW w \in Workers, Release(w) PROVE UNCHANGED Promise!promiseVars
  BY <1>9, <1>a DEF Release, Return, rowVars
<1>10. CASE Tick
  BY <1>10, <1>a DEF Tick
<1>11. CASE UNCHANGED vars
  BY <1>11, <1>a DEF vars, rowVars
<1>12. QED
  BY <1>1, <1>2, <1>3, <1>4, <1>5, <1>6, <1>7, <1>8, <1>9, <1>10, <1>11, RecordPromise DEF Next, Steps

\* With timely batches the queue, with its claims, crashes and lost writes,
\* implements the promise made about each delivery: closed once, and only on
\* evidence gathered since it was last opened.
THEOREM PromiseKept ==
  ASSUME TimelyBatches
  PROVE  Spec => KeepsPromise
<1>1. Init => ClaimInv /\ Evidence /\ Promise!Init
  BY ClaimInit, EvidenceInit, PromiseInit
<1>2. TypeInv /\ ClaimInv /\ Evidence /\ [Next]_vars => ClaimInv' /\ Evidence'
  BY ClaimStep, EvidenceStep
<1>3. TypeInv /\ ClaimInv /\ Evidence /\ [Next]_vars => [Promise!Next]_(Promise!promiseVars)
  BY PromiseStep
<1>4. QED
  BY <1>1, <1>2, <1>3, TypeInvHolds, PTL DEF Spec, KeepsPromise, Promise!Spec
=============================================================================
