---------------------------- MODULE OutboxProofs ----------------------------
(***************************************************************************)
(* Theorems about Outbox for any number of events, overlapping job runs,   *)
(* batch sizes, retry limits and faults.                                   *)
(***************************************************************************)
EXTENDS Outbox, TLAPS

\* A step that leaves the history variables alone leaves each of them alone.
USE DEF history

(* The entity a run is dealing with is not a missing row.                   *)
LEMMA AtUnique ==
  ASSUME NEW p \in Runs, NEW e \in Events, NEW f \in Events, At(p, e), At(p, f)
  PROVE  e = f
<1>1. e <= f /\ f <= e
  BY DEF At, Held
<1>2. e \in Nat /\ f \in Nat
  BY DEF Events
<1> QED
  BY <1>1, <1>2

(* Events are natural numbers and runs are processors or retriers.          *)
LEMMA Basics ==
  /\ Procs \subseteq Runs /\ Retriers \subseteq Runs
  /\ Events \subseteq Nat
  /\ NoRow \in Row /\ NewRow \in Row
BY DEF Runs, Events, NoRow, NewRow, Row, Status

(* Assigning a field of a table row gives a table row.                      *)
LEMMA RowFields ==
  \A r \in Row :
    /\ r.retries \in Nat /\ r.status \in Status /\ r.old \in BOOLEAN
    /\ \A s \in Status : /\ [r EXCEPT !.status = s] \in Row
                         /\ [r EXCEPT !.status = s].status = s
                         /\ [r EXCEPT !.status = s].retries = r.retries
    /\ [r EXCEPT !.old = TRUE] \in Row
BY DEF Row

LEMMA TwoFields ==
  ASSUME NEW r \in Row, NEW n \in Nat
  PROVE  [r EXCEPT !.status = "FAILED", !.retries = n] \in Row
BY DEF Row, Status

LEMMA RowFailure ==
  ASSUME NEW r \in Row
  PROVE  LET f == [r EXCEPT !.status = "FAILED", !.retries = r.retries + 1]
         IN  f \in Row /\ f.status = "FAILED" /\ f.retries = r.retries + 1
<1> DEFINE f == [r EXCEPT !.status = "FAILED", !.retries = r.retries + 1]
<1>1. r.retries + 1 \in Nat
  BY DEF Row
<1>2. f \in Row
  BY <1>1, TwoFields
<1>3. f.status = "FAILED" /\ f.retries = r.retries + 1
  BY DEF Row
<1> QED
  BY <1>2, <1>3

(* Writing an entity into the copies of one run keeps them well typed.      *)
LEMMA CopyUpdate ==
  ASSUME NEW c \in [Runs -> [Events -> Row]], NEW p \in Runs, NEW e \in Events,
         NEW r \in Row
  PROVE  [c EXCEPT ![p] = [c[p] EXCEPT ![e] = r]] \in [Runs -> [Events -> Row]]
OBVIOUS

-----------------------------------------------------------------------------
(* What the steps that save an entity do, with the saved row named.         *)

MarksWith(p, e, r) ==
  /\ At(p, e)
  /\ r.status = "PROCESSING" /\ r.retries = copy[p][e].retries
  /\ copy' = [copy EXCEPT ![p] = [copy[p] EXCEPT ![e] = r]]
  /\ row' = [row EXCEPT ![e] = r]

EmitsWith(p, e, r) ==
  /\ At(p, e)
  /\ copy' = [copy EXCEPT ![p] = [copy[p] EXCEPT ![e] = r]]
  /\ \/ /\ r.status = "DELIVERED" /\ r.retries = copy[p][e].retries
        /\ handled' = handled \cup {e}
     \/ /\ r.status = "FAILED" /\ r.retries = copy[p][e].retries + 1
        /\ handled' = handled

RequeuesWith(p, e, r) ==
  /\ At(p, e)
  /\ r.status = "PENDING" /\ r.retries = copy[p][e].retries
  /\ row' = [row EXCEPT ![e] = r]
  /\ Advance(p, e, "requeue")

LEMMA MarkStep ==
  ASSUME TypeOK, NEW p \in Procs, Mark(p)
  PROVE  \E e \in Events, r \in Row : MarksWith(p, e, r)
<1>1. PICK e \in Events :
        /\ At(p, e)
        /\ copy' = [copy EXCEPT ![p][e].status = "PROCESSING"]
        /\ row' = [row EXCEPT ![e] = [copy[p][e] EXCEPT !.status = "PROCESSING"]]
  BY DEF Mark
<1> DEFINE r == [copy[p][e] EXCEPT !.status = "PROCESSING"]
<1>2. copy[p] \in [Events -> Row] /\ copy[p][e] \in Row
  BY Basics DEF TypeOK
<1>3. r \in Row /\ r.status = "PROCESSING" /\ r.retries = copy[p][e].retries
  BY <1>2, RowFields DEF Status
<1>4. copy' = [copy EXCEPT ![p] = [copy[p] EXCEPT ![e] = r]]
  BY <1>1
<1> QED
  BY <1>1, <1>3, <1>4 DEF MarksWith

LEMMA EmitStep ==
  ASSUME TypeOK, NEW p \in Procs, Emit(p)
  PROVE  \E e \in Events, r \in Row : EmitsWith(p, e, r)
<1>1. PICK e \in Events : At(p, e) /\ (EmitOk(p, e) \/ EmitFail(p, e))
  BY DEF Emit
<1>2. copy[p] \in [Events -> Row] /\ copy[p][e] \in Row
  BY Basics DEF TypeOK
<1>5. copy[p][e].retries \in Nat
  BY <1>2, RowFields
<1>3. CASE EmitOk(p, e)
  <2> DEFINE r == [copy[p][e] EXCEPT !.status = "DELIVERED"]
  <2>1. r \in Row /\ r.status = "DELIVERED" /\ r.retries = copy[p][e].retries
    BY <1>2, RowFields DEF Status
  <2>2. copy' = [copy EXCEPT ![p] = [copy[p] EXCEPT ![e] = r]]
    BY <1>3 DEF EmitOk
  <2> QED
    BY <1>1, <1>3, <2>1, <2>2 DEF EmitsWith, EmitOk
<1>4. CASE EmitFail(p, e)
  <2> DEFINE r == [copy[p][e] EXCEPT !.status = "FAILED",
                                     !.retries = copy[p][e].retries + 1]
  <2>1. r \in Row /\ r.status = "FAILED" /\ r.retries = copy[p][e].retries + 1
    BY <1>2, RowFailure
  <2>2. copy' = [copy EXCEPT ![p] = [copy[p] EXCEPT ![e] = r]]
    BY <1>2, <1>4 DEF EmitFail, Row
  <2> QED
    BY <1>1, <1>4, <2>1, <2>2 DEF EmitsWith, EmitFail
<1> QED
  BY <1>1, <1>3, <1>4

LEMMA RequeueStep ==
  ASSUME TypeOK, NEW p \in Retriers, Requeue(p)
  PROVE  \E e \in Events, r \in Row : RequeuesWith(p, e, r)
<1>1. PICK e \in Events :
        /\ At(p, e)
        /\ row' = [row EXCEPT ![e] = [copy[p][e] EXCEPT !.status = "PENDING"]]
        /\ Advance(p, e, "requeue")
  BY DEF Requeue
<1> DEFINE r == [copy[p][e] EXCEPT !.status = "PENDING"]
<1>2. copy[p] \in [Events -> Row] /\ copy[p][e] \in Row
  BY Basics DEF TypeOK
<1>3. r \in Row /\ r.status = "PENDING" /\ r.retries = copy[p][e].retries
  <2>1. "PENDING" \in Status
    BY DEF Status
  <2> QED
    BY <1>2, <2>1, RowFields
<1> QED
  BY <1>1, <1>3 DEF RequeuesWith

-----------------------------------------------------------------------------
LEMMA InitTypeOK == Init => TypeOK
<1> SUFFICES ASSUME Init PROVE TypeOK
  OBVIOUS
<1>1. row \in [Events -> Row] /\ copy \in [Runs -> [Events -> Row]]
  BY Basics DEF Init
<1>2. attempts \in [Events -> 0..AttemptCap] /\ faults \in 0..MaxFaults
  BY OutboxAssumption DEF Init, OutboxAssumption, AttemptCap
<1> QED
  BY <1>1, <1>2 DEF Init, TypeOK

LEMMA TypeStep == TypeOK /\ [Next]_vars => TypeOK'
<1> SUFFICES ASSUME TypeOK, [Next]_vars PROVE TypeOK'
  OBVIOUS
<1> USE Basics, OutboxAssumption DEF OutboxAssumption
<1>1. ASSUME NEW e \in Events, PublishSave(e) PROVE TypeOK'
  BY <1>1 DEF TypeOK, PublishSave
<1>2. ASSUME NEW e \in Events, PublishEmit(e) PROVE TypeOK'
  BY <1>2 DEF TypeOK, PublishEmit
<1>3. ASSUME NEW e \in Events, Age(e) PROVE TypeOK'
  BY <1>3 DEF TypeOK, Age, Row
<1>4. ASSUME NEW p \in Procs, StartRun(p) PROVE TypeOK'
  BY <1>4 DEF TypeOK, StartRun
<1>5. ASSUME NEW p \in Procs, Mark(p) PROVE TypeOK'
  <2>1. PICK e \in Events, r \in Row : MarksWith(p, e, r)
    BY <1>5, MarkStep
  <2> QED
    BY <1>5, <2>1, CopyUpdate DEF TypeOK, MarksWith, Mark
<1>6. ASSUME NEW p \in Procs, Emit(p) PROVE TypeOK'
  <2>1. PICK e \in Events, r \in Row : EmitsWith(p, e, r)
    BY <1>6, EmitStep
  <2>2. attempts' \in [Events -> 0..AttemptCap]
    BY <1>6 DEF TypeOK, Emit, AttemptCap
  <2> QED
    BY <1>6, <2>1, <2>2, CopyUpdate DEF TypeOK, EmitsWith, Emit
<1>7. ASSUME NEW p \in Procs, Finish(p) PROVE TypeOK'
  BY <1>7 DEF TypeOK, Finish, Advance
<1>8. ASSUME NEW r \in Retriers, StartRetry(r) PROVE TypeOK'
  BY <1>8 DEF TypeOK, StartRetry
<1>9. ASSUME NEW r \in Retriers, Requeue(r) PROVE TypeOK'
  <2>1. PICK e \in Events, s \in Row : RequeuesWith(r, e, s)
    BY <1>9, RequeueStep
  <2> QED
    BY <1>9, <2>1 DEF TypeOK, RequeuesWith, Requeue, Advance
<1>10. ASSUME Cleanup PROVE TypeOK'
  BY <1>10 DEF TypeOK, Cleanup
<1>11. ASSUME NEW p \in Runs, DbError(p) PROVE TypeOK'
  BY <1>11 DEF TypeOK, DbError
<1>12. ASSUME Crash PROVE TypeOK'
  BY <1>12 DEF TypeOK, Crash
<1>13. CASE UNCHANGED vars
  BY <1>13 DEF TypeOK, vars
<1> QED
  BY <1>1, <1>2, <1>3, <1>4, <1>5, <1>6, <1>7, <1>8, <1>9, <1>10, <1>11,
     <1>12, <1>13 DEF Next, ProcStep

(* Type correctness of the outbox model.                                    *)
THEOREM TypeCorrect == Spec => []TypeOK
BY InitTypeOK, TypeStep, PTL DEF Spec

-----------------------------------------------------------------------------
(* The retry limit.  RetryBudget speaks of the rows; a run writes a row     *)
(* from a copy it took earlier, so the copies need a bound of their own:    *)
(* what a run still has to do is below the limit, and only the event whose  *)
(* outcome waits to be saved may have reached it.                           *)

CopyBudget ==
  \A p \in Runs, e \in Events :
    pc[p] # "idle" =>
      /\ copy[p][e].retries <= MaxRetries
      /\ ~(pc[p] = "finish" /\ At(p, e)) => copy[p][e].retries < MaxRetries

OutcomeKnown ==
  \A p \in Runs, e \in Events :
    pc[p] = "finish" /\ At(p, e) => copy[p][e].status \in {"DELIVERED", "FAILED"}

BudgetInv == TypeOK /\ RetryBudget /\ CopyBudget /\ OutcomeKnown

(* What a step of run p leaves alone, it leaves alone for all other runs.   *)
LEMMA AtPrimed ==
  ASSUME NEW p \in Runs, copy'[p] = copy[p]
  PROVE  \A e \in Events : At(p, e)' <=> At(p, e)
BY DEF At, Held

(* Replacing one held entity by another leaves the run at the same event.   *)
LEMMA AtKept ==
  ASSUME TypeOK, NEW p \in Runs, NEW e \in Events, NEW r \in Row,
         At(p, e), r.status # "ABSENT",
         copy' = [copy EXCEPT ![p] = [copy[p] EXCEPT ![e] = r]]
  PROVE  \A f \in Events : At(p, f)' <=> At(p, f)
<1>1. copy'[p] = [copy[p] EXCEPT ![e] = r] /\ copy[p] \in [Events -> Row]
  BY DEF TypeOK
<1>2. r # NoRow
  BY DEF NoRow
<1>3. \A f \in Events : copy'[p][f] # NoRow <=> copy[p][f] # NoRow
  BY <1>1, <1>2 DEF At, Held
<1> QED
  BY <1>3 DEF At, Held

LEMMA BudgetStep == BudgetInv /\ TypeOK' /\ [Next]_vars => BudgetInv'
<1> SUFFICES ASSUME BudgetInv, TypeOK', [Next]_vars
             PROVE  (RetryBudget /\ CopyBudget /\ OutcomeKnown)'
  BY DEF BudgetInv
<1> USE Basics, OutboxAssumption DEF OutboxAssumption
<1>1. ASSUME NEW e \in Events, PublishSave(e)
      PROVE  (RetryBudget /\ CopyBudget /\ OutcomeKnown)'
  <2>1. RetryBudget'
    BY <1>1 DEF BudgetInv, TypeOK, RetryBudget, PublishSave, NewRow
  <2> QED
    BY <1>1, <2>1 DEF BudgetInv, CopyBudget, OutcomeKnown, At, Held, PublishSave
<1>2. ASSUME NEW e \in Events, PublishEmit(e)
      PROVE  (RetryBudget /\ CopyBudget /\ OutcomeKnown)'
  BY <1>2 DEF BudgetInv, RetryBudget, CopyBudget, OutcomeKnown, At, Held, PublishEmit
<1>3. ASSUME NEW e \in Events, Age(e)
      PROVE  (RetryBudget /\ CopyBudget /\ OutcomeKnown)'
  <2>1. RetryBudget'
    BY <1>3 DEF BudgetInv, TypeOK, RetryBudget, Age, Row
  <2> QED
    BY <1>3, <2>1 DEF BudgetInv, CopyBudget, OutcomeKnown, At, Held, Age
<1>4. ASSUME NEW p \in Procs, StartRun(p)
      PROVE  (RetryBudget /\ CopyBudget /\ OutcomeKnown)'
  <2>1. pc'[p] = "mark" /\ \A e \in Events : copy'[p][e].retries < MaxRetries
    BY <1>4 DEF BudgetInv, TypeOK, RetryBudget, StartRun, Oldest, Pending, NoRow
  <2>2. \A e \in Events : copy'[p][e].retries <= MaxRetries
    BY <2>1 DEF TypeOK, Row
  <2>3. \A q \in Runs \ {p} : copy'[q] = copy[q] /\ pc'[q] = pc[q]
    BY <1>4 DEF BudgetInv, TypeOK, StartRun
  <2>4. CopyBudget' /\ OutcomeKnown'
    BY <2>1, <2>2, <2>3, AtPrimed DEF BudgetInv, CopyBudget, OutcomeKnown
  <2> QED
    BY <1>4, <2>4 DEF BudgetInv, RetryBudget, StartRun
<1>5. ASSUME NEW p \in Procs, Mark(p)
      PROVE  (RetryBudget /\ CopyBudget /\ OutcomeKnown)'
  <2>1. PICK e \in Events, r \in Row : MarksWith(p, e, r)
    BY <1>5, MarkStep DEF BudgetInv
  <2>2. pc[p] = "mark" /\ pc' = [pc EXCEPT ![p] = "emit"]
    BY <1>5 DEF Mark
  <2>3. \A f \in Events : copy[p][f].retries < MaxRetries
    BY <2>2 DEF BudgetInv, CopyBudget
  <2>4. RetryBudget'
    BY <2>1, <2>3 DEF BudgetInv, TypeOK, RetryBudget, MarksWith, Row
  <2>5. pc'[p] = "emit" /\ \A f \in Events : copy'[p][f].retries < MaxRetries
    BY <2>1, <2>2, <2>3 DEF BudgetInv, TypeOK, MarksWith
  <2>6. \A f \in Events : copy'[p][f].retries <= MaxRetries
    BY <2>5 DEF TypeOK, Row
  <2>7. \A q \in Runs \ {p} : copy'[q] = copy[q] /\ pc'[q] = pc[q]
    BY <2>1, <2>2 DEF BudgetInv, TypeOK, MarksWith
  <2> QED
    BY <2>4, <2>5, <2>6, <2>7, AtPrimed DEF BudgetInv, CopyBudget, OutcomeKnown
<1>6. ASSUME NEW p \in Procs, Emit(p)
      PROVE  (RetryBudget /\ CopyBudget /\ OutcomeKnown)'
  <2>1. PICK e \in Events, r \in Row : EmitsWith(p, e, r)
    BY <1>6, EmitStep DEF BudgetInv
  <2>2. pc[p] = "emit" /\ pc' = [pc EXCEPT ![p] = "finish"] /\ row' = row
    BY <1>6 DEF Emit
  <2>3. \A f \in Events : copy[p][f].retries < MaxRetries
    BY <2>2 DEF BudgetInv, CopyBudget
  <2>4. copy'[p] = [copy[p] EXCEPT ![e] = r] /\ copy[p] \in [Events -> Row]
    BY <2>1 DEF BudgetInv, TypeOK, EmitsWith
  <2>5. At(p, e)' /\ \A f \in Events : At(p, f)' => f = e
    <3>1. \A f \in Events : At(p, f)' <=> At(p, f)
      BY <2>1, AtKept DEF BudgetInv, EmitsWith
    <3> QED
      BY <2>1, <3>1, AtUnique DEF EmitsWith
  <2>6. r.retries <= MaxRetries /\ r.status \in {"DELIVERED", "FAILED"}
    <3>1. copy[p][e].retries \in Nat /\ copy[p][e].retries < MaxRetries
      BY <2>3, <2>4, RowFields
    <3> QED
      BY <2>1, <3>1 DEF EmitsWith
  <2>7. \A f \in Events : /\ copy'[p][f].retries <= MaxRetries
                          /\ f # e => copy'[p][f].retries < MaxRetries
    BY <2>3, <2>4, <2>6 DEF Row
  <2>8. copy'[p][e].status \in {"DELIVERED", "FAILED"}
    BY <2>4, <2>6
  <2>9. \A q \in Runs \ {p} : copy'[q] = copy[q] /\ pc'[q] = pc[q]
    BY <2>1, <2>2 DEF BudgetInv, TypeOK, EmitsWith
  <2>10. CopyBudget'
    <3> SUFFICES ASSUME NEW q \in Runs, NEW f \in Events, pc'[q] # "idle"
                 PROVE  /\ copy'[q][f].retries <= MaxRetries
                        /\ ~(pc'[q] = "finish" /\ At(q, f)')
                             => copy'[q][f].retries < MaxRetries
      BY DEF CopyBudget
    <3>1. CASE q = p
      <4>1. pc'[p] = "finish"
        BY <2>2 DEF BudgetInv, TypeOK
      <4> QED
        BY <3>1, <4>1, <2>5, <2>7
    <3>2. CASE q # p
      BY <3>2, <2>9, AtPrimed DEF BudgetInv, CopyBudget
    <3> QED
      BY <3>1, <3>2
  <2>11. OutcomeKnown'
    BY <2>5, <2>8, <2>9, AtPrimed DEF BudgetInv, OutcomeKnown
  <2> QED
    BY <2>2, <2>10, <2>11 DEF BudgetInv, RetryBudget
<1>7. ASSUME NEW p \in Procs, Finish(p)
      PROVE  (RetryBudget /\ CopyBudget /\ OutcomeKnown)'
  <2>1. PICK e \in Events : /\ At(p, e)
                            /\ row' = [row EXCEPT ![e] = copy[p][e]]
                            /\ Advance(p, e, "mark")
    BY <1>7 DEF Finish
  <2>2. pc[p] = "finish"
    BY <1>7 DEF Finish
  <2>3. RetryBudget'
    BY <2>1, <2>2 DEF BudgetInv, TypeOK, RetryBudget, CopyBudget, OutcomeKnown
  <2>4. copy'[p] = [copy[p] EXCEPT ![e] = NoRow] /\ copy[p] \in [Events -> Row]
    BY <2>1 DEF BudgetInv, TypeOK, Advance
  <2>5. \A f \in Events : f # e => copy[p][f].retries < MaxRetries
    BY <2>1, <2>2, AtUnique DEF BudgetInv, CopyBudget
  <2>6. \A f \in Events : copy'[p][f].retries < MaxRetries
    BY <2>4, <2>5 DEF NoRow
  <2>7. \A f \in Events : copy'[p][f].retries <= MaxRetries
    BY <2>6 DEF TypeOK, Row
  <2>8. pc'[p] \in {"idle", "mark"}
    BY <2>1 DEF BudgetInv, TypeOK, Advance
  <2>9. \A q \in Runs \ {p} : copy'[q] = copy[q] /\ pc'[q] = pc[q]
    BY <2>1 DEF BudgetInv, TypeOK, Advance
  <2> QED
    BY <2>3, <2>6, <2>7, <2>8, <2>9, AtPrimed DEF BudgetInv, CopyBudget, OutcomeKnown
<1>8. ASSUME NEW r \in Retriers, StartRetry(r)
      PROVE  (RetryBudget /\ CopyBudget /\ OutcomeKnown)'
  <2>1. pc'[r] = "requeue" /\ \A e \in Events : copy'[r][e].retries < MaxRetries
    BY <1>8 DEF BudgetInv, TypeOK, StartRetry, Oldest, Retriable, NoRow
  <2>2. \A e \in Events : copy'[r][e].retries <= MaxRetries
    BY <2>1 DEF TypeOK, Row
  <2>3. \A q \in Runs \ {r} : copy'[q] = copy[q] /\ pc'[q] = pc[q]
    BY <1>8 DEF BudgetInv, TypeOK, StartRetry
  <2>4. CopyBudget' /\ OutcomeKnown'
    BY <2>1, <2>2, <2>3, AtPrimed DEF BudgetInv, CopyBudget, OutcomeKnown
  <2> QED
    BY <1>8, <2>4 DEF BudgetInv, RetryBudget, StartRetry
<1>9. ASSUME NEW r \in Retriers, Requeue(r)
      PROVE  (RetryBudget /\ CopyBudget /\ OutcomeKnown)'
  <2>1. PICK e \in Events, s \in Row : RequeuesWith(r, e, s)
    BY <1>9, RequeueStep DEF BudgetInv
  <2>2. \A f \in Events : copy[r][f].retries < MaxRetries
    BY <1>9 DEF BudgetInv, CopyBudget, Requeue
  <2>3. RetryBudget'
    BY <2>1, <2>2 DEF BudgetInv, TypeOK, RetryBudget, RequeuesWith, Row
  <2>4. \A f \in Events : copy'[r][f].retries < MaxRetries
    BY <2>1, <2>2 DEF BudgetInv, TypeOK, RequeuesWith, Advance, NoRow
  <2>5. \A f \in Events : copy'[r][f].retries <= MaxRetries
    BY <2>4 DEF TypeOK, Row
  <2>6. pc'[r] \in {"idle", "requeue"}
    BY <2>1 DEF BudgetInv, TypeOK, RequeuesWith, Advance
  <2>7. \A q \in Runs \ {r} : copy'[q] = copy[q] /\ pc'[q] = pc[q]
    BY <2>1 DEF BudgetInv, TypeOK, RequeuesWith, Advance
  <2> QED
    BY <2>3, <2>4, <2>5, <2>6, <2>7, AtPrimed DEF BudgetInv, CopyBudget, OutcomeKnown
<1>10. ASSUME Cleanup
       PROVE  (RetryBudget /\ CopyBudget /\ OutcomeKnown)'
  <2>1. \A e \in Events : row'[e] = row[e] \/ row'[e] = NoRow
    BY <1>10 DEF Cleanup
  <2>2. NoRow.retries <= MaxRetries /\ NoRow.status = "ABSENT"
    BY DEF NoRow
  <2>3. RetryBudget'
    BY <2>1, <2>2 DEF BudgetInv, RetryBudget
  <2> QED
    BY <1>10, <2>3 DEF BudgetInv, CopyBudget, OutcomeKnown, At, Held, Cleanup
<1>11. ASSUME NEW p \in Runs, DbError(p)
       PROVE  (RetryBudget /\ CopyBudget /\ OutcomeKnown)'
  <2>1. pc'[p] = "idle"
    BY <1>11 DEF BudgetInv, TypeOK, DbError
  <2>2. \A q \in Runs \ {p} : copy'[q] = copy[q] /\ pc'[q] = pc[q]
    BY <1>11 DEF BudgetInv, TypeOK, DbError
  <2>3. CopyBudget' /\ OutcomeKnown'
    BY <2>1, <2>2, AtPrimed DEF BudgetInv, CopyBudget, OutcomeKnown
  <2> QED
    BY <1>11, <2>3 DEF BudgetInv, RetryBudget, DbError
<1>12. ASSUME Crash
       PROVE  (RetryBudget /\ CopyBudget /\ OutcomeKnown)'
  BY <1>12 DEF BudgetInv, RetryBudget, CopyBudget, OutcomeKnown, Crash
<1>13. CASE UNCHANGED vars
  BY <1>13 DEF BudgetInv, RetryBudget, CopyBudget, OutcomeKnown, At, Held, vars
<1> QED
  BY <1>1, <1>2, <1>3, <1>4, <1>5, <1>6, <1>7, <1>8, <1>9, <1>10, <1>11,
     <1>12, <1>13 DEF Next, ProcStep

LEMMA InitBudget == Init => BudgetInv
<1> SUFFICES ASSUME Init PROVE BudgetInv
  OBVIOUS
<1>1. TypeOK
  BY InitTypeOK
<1>2. \A e \in Events : row[e].retries = 0 /\ row[e].status = "ABSENT"
  BY DEF Init, NoRow
<1>3. RetryBudget
  BY <1>2, OutboxAssumption DEF RetryBudget, OutboxAssumption
<1> QED
  BY <1>1, <1>3 DEF Init, BudgetInv, CopyBudget, OutcomeKnown

LEMMA BudgetInvariant == Spec => []BudgetInv
<1>1. BudgetInv /\ [Next]_vars => BudgetInv'
  BY BudgetStep, TypeStep DEF BudgetInv
<1> QED
  BY <1>1, InitBudget, PTL DEF Spec

(* Saves of stale copies never take an event past the retry limit           *)
(* (processPendingEvents, retryFailedEvents).                               *)
THEOREM RetryBudgetHolds == Spec => []RetryBudget
<1>1. BudgetInv => RetryBudget
  BY DEF BudgetInv
<1> QED
  BY <1>1, BudgetInvariant, PTL

-----------------------------------------------------------------------------
(* Delivery.  A row becomes DELIVERED by the save of a copy that says so,   *)
(* and a copy says so only once its emission has succeeded: what a run      *)
(* loads is PENDING or FAILED.                                              *)

CopyHandled ==
  \A p \in Runs, e \in Events : copy[p][e].status = "DELIVERED" => e \in handled

HandledInv == DeliveredWasHandled /\ CopyHandled

LEMMA HandledStep == BudgetInv /\ HandledInv /\ [Next]_vars => HandledInv'
<1> SUFFICES ASSUME BudgetInv, HandledInv, [Next]_vars PROVE HandledInv'
  OBVIOUS
<1> USE Basics DEF HandledInv
<1>0. TypeOK
  BY DEF BudgetInv
<1>1. ASSUME NEW e \in Events, PublishSave(e) PROVE HandledInv'
  <2>1. \A f \in Events : Published(f)' /\ row'[f].status \in {"DELIVERED", "ABSENT"}
                           => f # e /\ Published(f) /\ row'[f] = row[f]
    BY <1>0, <1>1 DEF PublishSave, Published, TypeOK, NewRow
  <2> QED
    BY <1>1, <2>1 DEF DeliveredWasHandled, CopyHandled, PublishSave
<1>2. ASSUME NEW e \in Events, PublishEmit(e) PROVE HandledInv'
  BY <1>0, <1>2 DEF PublishEmit, DeliveredWasHandled, CopyHandled, Published, TypeOK
<1>3. ASSUME NEW e \in Events, Age(e) PROVE HandledInv'
  <2>1. \A f \in Events : row'[f].status = row[f].status
    BY <1>0, <1>3 DEF Age, TypeOK, Row
  <2> QED
    BY <1>3, <2>1 DEF Age, DeliveredWasHandled, CopyHandled, Published
<1>4. ASSUME NEW p \in Procs, StartRun(p) PROVE HandledInv'
  <2>1. \A e \in Events : copy'[p][e].status # "DELIVERED"
    BY <1>0, <1>4 DEF StartRun, Oldest, Pending, NoRow, TypeOK
  <2>2. \A q \in Runs \ {p} : copy'[q] = copy[q]
    BY <1>0, <1>4 DEF StartRun, TypeOK
  <2> QED
    BY <1>4, <2>1, <2>2 DEF StartRun, DeliveredWasHandled, CopyHandled, Published
<1>5. ASSUME NEW p \in Procs, Mark(p) PROVE HandledInv'
  <2>1. PICK e \in Events, r \in Row : MarksWith(p, e, r)
    BY <1>0, <1>5, MarkStep
  <2>2. CopyHandled'
    BY <1>0, <1>5, <2>1 DEF CopyHandled, TypeOK, MarksWith, Mark
  <2>3. DeliveredWasHandled'
    BY <1>0, <1>5, <2>1 DEF DeliveredWasHandled, Published, TypeOK, MarksWith, Mark
  <2> QED
    BY <2>2, <2>3
<1>6. ASSUME NEW p \in Procs, Emit(p) PROVE HandledInv'
  <2>1. PICK e \in Events, r \in Row : EmitsWith(p, e, r)
    BY <1>0, <1>6, EmitStep
  <2>2. CopyHandled'
    BY <1>0, <2>1 DEF CopyHandled, TypeOK, EmitsWith
  <2>3. DeliveredWasHandled'
    BY <1>6, <2>1 DEF DeliveredWasHandled, Published, EmitsWith, Emit
  <2> QED
    BY <2>2, <2>3
<1>7. ASSUME NEW p \in Procs, Finish(p) PROVE HandledInv'
  <2>1. PICK e \in Events : /\ At(p, e)
                            /\ row' = [row EXCEPT ![e] = copy[p][e]]
                            /\ Advance(p, e, "mark")
    BY <1>7 DEF Finish
  <2>2. copy[p][e].status = "DELIVERED" => e \in handled
    BY DEF CopyHandled
  <2>3. copy[p][e].status # "ABSENT"
    BY <1>7, <2>1 DEF BudgetInv, OutcomeKnown, Finish
  <2>4. DeliveredWasHandled'
    BY <1>0, <1>7, <2>1, <2>2, <2>3 DEF DeliveredWasHandled, Published, TypeOK, Finish
  <2>5. CopyHandled'
    BY <1>0, <1>7, <2>1 DEF CopyHandled, TypeOK, Advance, NoRow, Finish
  <2> QED
    BY <2>4, <2>5
<1>8. ASSUME NEW r \in Retriers, StartRetry(r) PROVE HandledInv'
  <2>1. \A e \in Events : copy'[r][e].status # "DELIVERED"
    BY <1>0, <1>8 DEF StartRetry, Oldest, Retriable, NoRow, TypeOK
  <2>2. \A q \in Runs \ {r} : copy'[q] = copy[q]
    BY <1>0, <1>8 DEF StartRetry, TypeOK
  <2> QED
    BY <1>8, <2>1, <2>2 DEF StartRetry, DeliveredWasHandled, CopyHandled, Published
<1>9. ASSUME NEW r \in Retriers, Requeue(r) PROVE HandledInv'
  <2>1. PICK e \in Events, s \in Row : RequeuesWith(r, e, s)
    BY <1>0, <1>9, RequeueStep
  <2>2. DeliveredWasHandled'
    BY <1>0, <1>9, <2>1 DEF DeliveredWasHandled, Published, TypeOK, RequeuesWith, Requeue
  <2>3. CopyHandled'
    BY <1>0, <1>9, <2>1 DEF CopyHandled, TypeOK, RequeuesWith, Advance, NoRow, Requeue
  <2> QED
    BY <2>2, <2>3
<1>10. ASSUME Cleanup PROVE HandledInv'
  <2>1. \A e \in Events : row'[e] = row[e] \/ row[e].status = "DELIVERED"
    BY <1>10 DEF Cleanup, Expired
  <2> QED
    BY <1>10, <2>1 DEF Cleanup, DeliveredWasHandled, CopyHandled, Published
<1>11. ASSUME NEW p \in Runs, DbError(p) PROVE HandledInv'
  BY <1>0, <1>11 DEF DbError, DeliveredWasHandled, CopyHandled, Published, TypeOK, NoRow
<1>12. ASSUME Crash PROVE HandledInv'
  BY <1>0, <1>12 DEF Crash, DeliveredWasHandled, CopyHandled, Published, TypeOK, NoRow
<1>13. CASE UNCHANGED vars
  BY <1>13 DEF vars, DeliveredWasHandled, CopyHandled, Published
<1> QED
  BY <1>1, <1>2, <1>3, <1>4, <1>5, <1>6, <1>7, <1>8, <1>9, <1>10, <1>11,
     <1>12, <1>13 DEF Next, ProcStep

(* An event is called delivered, or removed by the clean-up, only after one *)
(* of its emissions to the subscribers has succeeded.                       *)
THEOREM DeliveredWasHandledHolds == Spec => []DeliveredWasHandled
<1>1. Init => HandledInv
  BY DEF Init, HandledInv, DeliveredWasHandled, CopyHandled, Published, NoRow
<1>2. HandledInv => DeliveredWasHandled
  BY DEF HandledInv
<1> QED
  BY <1>1, <1>2, HandledStep, BudgetInvariant, PTL DEF Spec

-----------------------------------------------------------------------------
(* Who works on a row that says PROCESSING.                                 *)

Owns(p, e) == pc[p] \in {"emit", "finish"} /\ At(p, e)

\* Steps that leave all the runs alone.
LEMMA OwnerByRows ==
  ASSUME ProcessingHasOwner, faults' = faults, pc' = pc, copy' = copy,
         \A e \in Events : row'[e].status = "PROCESSING" => row[e].status = "PROCESSING"
  PROVE  ProcessingHasOwner'
BY DEF ProcessingHasOwner, At, Held

\* Steps of a run p that save event e, and of no other row.
LEMMA OwnerByStep ==
  ASSUME ProcessingHasOwner, faults' = faults, NEW p \in Runs,
         \A q \in Runs \ {p} : copy'[q] = copy[q] /\ pc'[q] = pc[q],
         \A f \in Events : row'[f].status = "PROCESSING" =>
            \/ row[f].status = "PROCESSING" /\ ~Owns(p, f)
            \/ p \in Procs /\ Owns(p, f)'
  PROVE  ProcessingHasOwner'
<1> SUFFICES ASSUME faults = 0, NEW f \in Events, row'[f].status = "PROCESSING"
             PROVE  \E q \in Procs : Owns(q, f)'
  BY DEF ProcessingHasOwner, Owns
<1>1. CASE p \in Procs /\ Owns(p, f)'
  BY <1>1
<1>2. CASE row[f].status = "PROCESSING" /\ ~Owns(p, f)
  <2>1. PICK q \in Procs : Owns(q, f)
    BY <1>2 DEF ProcessingHasOwner, Owns
  <2>2. q \in Runs \ {p}
    BY <1>2, <2>1 DEF Runs
  <2> QED
    BY <2>1, <2>2, AtPrimed DEF Owns
<1> QED
  BY <1>1, <1>2

LEMMA OwnerStep == BudgetInv /\ ProcessingHasOwner /\ [Next]_vars => ProcessingHasOwner'
<1> SUFFICES ASSUME BudgetInv, ProcessingHasOwner, [Next]_vars PROVE ProcessingHasOwner'
  OBVIOUS
<1> USE Basics
<1>0. TypeOK
  BY DEF BudgetInv
<1>1. ASSUME NEW e \in Events, PublishSave(e) PROVE ProcessingHasOwner'
  BY <1>0, <1>1, OwnerByRows DEF PublishSave, TypeOK, NewRow
<1>2. ASSUME NEW e \in Events, PublishEmit(e) PROVE ProcessingHasOwner'
  BY <1>2, OwnerByRows DEF PublishEmit
<1>3. ASSUME NEW e \in Events, Age(e) PROVE ProcessingHasOwner'
  <2>1. \A f \in Events : row'[f].status = row[f].status
    BY <1>0, <1>3 DEF Age, TypeOK, Row
  <2> QED
    BY <1>3, <2>1, OwnerByRows DEF Age
<1>4. ASSUME NEW p \in Procs, StartRun(p) PROVE ProcessingHasOwner'
  <2>1. \A q \in Runs \ {p} : copy'[q] = copy[q] /\ pc'[q] = pc[q]
    BY <1>0, <1>4 DEF StartRun, TypeOK
  <2>2. \A f \in Events : ~Owns(p, f)
    BY <1>4 DEF StartRun, Owns
  <2> QED
    BY <1>4, <2>1, <2>2, OwnerByStep DEF StartRun
<1>5. ASSUME NEW p \in Procs, Mark(p) PROVE ProcessingHasOwner'
  <2>1. PICK e \in Events, r \in Row : MarksWith(p, e, r)
    BY <1>0, <1>5, MarkStep
  <2>2. \A q \in Runs \ {p} : copy'[q] = copy[q] /\ pc'[q] = pc[q]
    BY <1>0, <1>5, <2>1 DEF TypeOK, MarksWith, Mark
  <2>3. Owns(p, e)'
    <3>1. At(p, e)'
      BY <1>0, <2>1, AtKept DEF MarksWith
    <3> QED
      BY <1>0, <1>5, <3>1 DEF Owns, TypeOK, Mark
  <2>4. \A f \in Events : f # e => row'[f] = row[f] /\ ~Owns(p, f)
    BY <1>0, <1>5, <2>1 DEF Owns, TypeOK, MarksWith, Mark
  <2> QED
    BY <1>5, <2>2, <2>3, <2>4, OwnerByStep DEF Mark
<1>6. ASSUME NEW p \in Procs, Emit(p) PROVE ProcessingHasOwner'
  <2>1. PICK e \in Events, r \in Row : EmitsWith(p, e, r)
    BY <1>0, <1>6, EmitStep
  <2>2. \A q \in Runs \ {p} : copy'[q] = copy[q] /\ pc'[q] = pc[q]
    BY <1>0, <1>6, <2>1 DEF TypeOK, EmitsWith, Emit
  <2>3. \A f \in Events : At(p, f)' <=> At(p, f)
    BY <1>0, <2>1, AtKept DEF EmitsWith
  <2>4. \A f \in Events : Owns(p, f) => Owns(p, f)'
    BY <1>0, <1>6, <2>3 DEF Owns, TypeOK, Emit
  <2> QED
    BY <1>6, <2>2, <2>4, OwnerByStep DEF Emit
<1>7. ASSUME NEW p \in Procs, Finish(p) PROVE ProcessingHasOwner'
  <2>1. PICK e \in Events : /\ At(p, e)
                            /\ row' = [row EXCEPT ![e] = copy[p][e]]
                            /\ Advance(p, e, "mark")
    BY <1>7 DEF Finish
  <2>2. \A q \in Runs \ {p} : copy'[q] = copy[q] /\ pc'[q] = pc[q]
    BY <1>0, <2>1 DEF TypeOK, Advance
  <2>3. copy[p][e].status # "PROCESSING"
    BY <1>7, <2>1 DEF BudgetInv, OutcomeKnown, Finish
  <2>4. \A f \in Events : row'[f].status = "PROCESSING" => f # e /\ row'[f] = row[f]
    BY <1>0, <2>1, <2>3 DEF TypeOK
  <2>5. \A f \in Events : f # e => ~Owns(p, f)
    BY <2>1, AtUnique DEF Owns
  <2> QED
    BY <1>7, <2>2, <2>4, <2>5, OwnerByStep DEF Finish
<1>8. ASSUME NEW r \in Retriers, StartRetry(r) PROVE ProcessingHasOwner'
  <2>1. \A q \in Runs \ {r} : copy'[q] = copy[q] /\ pc'[q] = pc[q]
    BY <1>0, <1>8 DEF StartRetry, TypeOK
  <2>2. \A f \in Events : ~Owns(r, f)
    BY <1>8 DEF StartRetry, Owns
  <2> QED
    BY <1>8, <2>1, <2>2, OwnerByStep DEF StartRetry
<1>9. ASSUME NEW r \in Retriers, Requeue(r) PROVE ProcessingHasOwner'
  <2>1. PICK e \in Events, s \in Row : RequeuesWith(r, e, s)
    BY <1>0, <1>9, RequeueStep
  <2>2. \A q \in Runs \ {r} : copy'[q] = copy[q] /\ pc'[q] = pc[q]
    BY <1>0, <2>1 DEF TypeOK, RequeuesWith, Advance
  <2>3. \A f \in Events : ~Owns(r, f)
    BY <1>9 DEF Requeue, Owns
  <2>4. \A f \in Events : row'[f].status = "PROCESSING" => row[f].status = "PROCESSING"
    BY <1>0, <2>1 DEF TypeOK, RequeuesWith
  <2> QED
    BY <1>9, <2>2, <2>3, <2>4, OwnerByStep DEF Requeue
<1>10. ASSUME Cleanup PROVE ProcessingHasOwner'
  <2>1. \A e \in Events : row'[e] = row[e] \/ row'[e].status = "ABSENT"
    BY <1>10 DEF Cleanup, NoRow
  <2> QED
    BY <1>10, <2>1, OwnerByRows DEF Cleanup
<1>11. ASSUME NEW p \in Runs, DbError(p) PROVE ProcessingHasOwner'
  BY <1>0, <1>11, OutboxAssumption DEF DbError, ProcessingHasOwner, TypeOK, OutboxAssumption
<1>12. ASSUME Crash PROVE ProcessingHasOwner'
  BY <1>0, <1>12, OutboxAssumption DEF Crash, ProcessingHasOwner, TypeOK, OutboxAssumption
<1>13. CASE UNCHANGED vars
  BY <1>13 DEF vars, ProcessingHasOwner, At, Held
<1> QED
  BY <1>1, <1>2, <1>3, <1>4, <1>5, <1>6, <1>7, <1>8, <1>9, <1>10, <1>11,
     <1>12, <1>13 DEF Next, ProcStep

(* Before the first fault, every row marked PROCESSING has a run that is    *)
(* going to save its outcome: overlapping runs leave no row behind.         *)
THEOREM ProcessingHasOwnerHolds == Spec => []ProcessingHasOwner
<1>1. Init => ProcessingHasOwner
  BY DEF Init, ProcessingHasOwner, NoRow
<1> QED
  BY <1>1, OwnerStep, BudgetInvariant, PTL DEF Spec
-----------------------------------------------------------------------------
(* Runs that do not overlap.  As long as no two runs of one job have been   *)
(* in flight together, what a run holds is what the table says, so that the *)
(* counter in the row keeps up with the emissions; the retry job may work   *)
(* beside the processor, because each of them holds rows of other statuses. *)

Active(p) == pc[p] # "idle"

OneRunEach ==
  /\ \A p \in Procs, q \in Procs : Active(p) /\ Active(q) => p = q
  /\ \A p \in Retriers, q \in Retriers : Active(p) /\ Active(q) => p = q

\* What a processor run relies on for an event it still holds.
InWork(p, e) ==
  IF At(p, e) /\ pc[p] \in {"emit", "finish"}
  THEN /\ row[e].status = "PROCESSING"
       /\ pc[p] = "emit" => row[e] = copy[p][e] /\ attempts[e] <= row[e].retries
       /\ copy[p][e].status = "FAILED" => attempts[e] <= copy[p][e].retries
  ELSE row[e].status = "PENDING" /\ row[e] = copy[p][e]

ToRequeue(r, e) == row[e].status = "FAILED" /\ row[e] = copy[r][e]

Fresh(p) ==
  Active(p) => \A e \in Held(p) : /\ p \in Procs => InWork(p, e)
                                  /\ p \in Retriers => ToRequeue(p, e)

Counted(e) ==
  /\ pub[e] = "none" => attempts[e] = 0 /\ row[e].status = "ABSENT"
  /\ row[e].status \in {"PENDING", "FAILED"} => attempts[e] <= row[e].retries
  /\ row[e].status = "PROCESSING" => attempts[e] <= row[e].retries + 1
  /\ attempts[e] <= MaxRetries

AllFresh == \A p \in Runs : Fresh(p)

AllCounted == \A e \in Events : Counted(e)

SerialInv == ~overlapped => OneRunEach /\ AllFresh /\ AllCounted

\* Row and counter of what a run holds untouched: it stays up to date.
LEMMA FreshKept ==
  ASSUME NEW q \in Runs, Fresh(q), copy'[q] = copy[q], pc'[q] = pc[q],
         Active(q) => \A f \in Held(q) : row'[f] = row[f] /\ attempts'[f] = attempts[f]
  PROVE  Fresh(q)'
BY DEF Fresh, InWork, ToRequeue, Active, At, Held

\* A run at an event of a status that its job works on has it to itself.
LEMMA Alone ==
  ASSUME OneRunEach, AllFresh, NEW p \in Runs, Active(p), NEW e \in Held(p),
         NEW q \in Runs \ {p}, Active(q)
  PROVE  e \notin Held(q)
<1>. /\ p \in Procs => row[e].status \in {"PENDING", "PROCESSING"}
     /\ p \in Retriers => row[e].status = "FAILED"
  BY DEF AllFresh, Fresh, InWork, ToRequeue
<1>. /\ q \in Procs /\ e \in Held(q) => row[e].status \in {"PENDING", "PROCESSING"}
     /\ q \in Retriers /\ e \in Held(q) => row[e].status = "FAILED"
  BY DEF AllFresh, Fresh, InWork, ToRequeue
<1>. (p \in Procs => q \notin Procs) /\ (p \in Retriers => q \notin Retriers)
  BY DEF OneRunEach
<1>. QED  BY DEF Runs

\* A step of run p on event e alone.
LEMMA SerialByStep ==
  ASSUME OneRunEach, AllFresh, AllCounted, NEW p \in Runs, NEW e \in Held(p), Active(p),
         \A q \in Runs \ {p} : copy'[q] = copy[q] /\ pc'[q] = pc[q],
         \A f \in Events \ {e} : row'[f] = row[f] /\ attempts'[f] = attempts[f],
         pub' = pub, Fresh(p)', Counted(e)'
  PROVE  (OneRunEach /\ AllFresh /\ AllCounted)'
<1>. e \in Events
  BY DEF Held
<1>1. OneRunEach'
  BY DEF OneRunEach, Active, Runs
<1>2. ASSUME NEW q \in Runs PROVE Fresh(q)'
  <2>1. CASE q = p
    BY <2>1
  <2>2. CASE q # p
    <3>1. Active(q) => \A f \in Held(q) : row'[f] = row[f] /\ attempts'[f] = attempts[f]
      BY <2>2, Alone DEF Held
    <3>. QED  BY <2>2, <3>1, FreshKept DEF AllFresh
  <2>. QED  BY <2>1, <2>2
<1>3. AllCounted'
  BY DEF AllCounted, Counted
<1>. QED  BY <1>1, <1>2, <1>3 DEF AllFresh

\* A step that leaves alone what active runs hold, and starts no run.
LEMMA SerialByRows ==
  ASSUME OneRunEach, AllFresh, AllCounted',
         \A q \in Runs : pc'[q] = "idle" \/ (copy'[q] = copy[q] /\ pc'[q] = pc[q]),
         \A q \in Runs : Active(q) =>
            \A f \in Held(q) : row'[f] = row[f] /\ attempts'[f] = attempts[f]
  PROVE  (OneRunEach /\ AllFresh /\ AllCounted)'
<1>1. OneRunEach'
  BY DEF OneRunEach, Active, Runs
<1>2. ASSUME NEW q \in Runs PROVE Fresh(q)'
  <2>1. CASE pc'[q] = "idle"
    BY <2>1 DEF Fresh, Active
  <2>2. CASE copy'[q] = copy[q] /\ pc'[q] = pc[q]
    BY <2>2, FreshKept DEF AllFresh
  <2>. QED  BY <2>1, <2>2
<1>. QED  BY <1>1, <1>2 DEF AllFresh

\* What an active run holds is waiting, in work or failed.
LEMMA HeldStatus ==
  ASSUME AllFresh, NEW q \in Runs, Active(q), NEW f \in Held(q)
  PROVE  row[f].status \in {"PENDING", "PROCESSING", "FAILED"}
BY DEF AllFresh, Fresh, InWork, ToRequeue, Runs

\* A run starts while no other of its job is active, with fresh copies.
LEMMA SerialByStart ==
  ASSUME OneRunEach, AllFresh, AllCounted, NEW p \in Runs,
         \A q \in Runs \ {p} : copy'[q] = copy[q] /\ pc'[q] = pc[q],
         row' = row, attempts' = attempts, pub' = pub,
         p \in Procs => \A q \in Procs \ {p} : ~Active(q),
         p \in Retriers => \A q \in Retriers \ {p} : ~Active(q),
         Fresh(p)'
  PROVE  (OneRunEach /\ AllFresh /\ AllCounted)'
<1>1. OneRunEach'
  BY DEF OneRunEach, Active, Runs
<1>2. ASSUME NEW q \in Runs PROVE Fresh(q)'
  <2>1. CASE q = p
    BY <2>1
  <2>2. CASE q # p
    BY <2>2, FreshKept DEF AllFresh
  <2>. QED  BY <2>1, <2>2
<1>3. AllCounted'
  BY DEF AllCounted, Counted
<1>. QED  BY <1>1, <1>2, <1>3 DEF AllFresh

LEMMA SerialStep == BudgetInv /\ BudgetInv' /\ SerialInv /\ [Next]_vars => SerialInv'
<1> SUFFICES ASSUME BudgetInv, BudgetInv', SerialInv, [Next]_vars, ~overlapped'
             PROVE  (OneRunEach /\ AllFresh /\ AllCounted)'
  BY DEF SerialInv
<1> USE Basics, OutboxAssumption DEF OutboxAssumption
<1>a. TypeOK /\ TypeOK'
  BY DEF BudgetInv
<1>b. overlapped => overlapped'
  BY DEF Next, ProcStep, PublishSave, PublishEmit, Age, StartRun, Mark, Emit, Finish,
         StartRetry, Requeue, Cleanup, DbError, Crash, vars
<1>c. OneRunEach /\ AllFresh /\ AllCounted
  BY <1>b DEF SerialInv
<1>d. /\ \A e \in Events : attempts[e] \in Nat /\ row[e].retries \in Nat
      /\ \A e \in Events : attempts'[e] \in Nat
      /\ \A p \in Runs, e \in Events : copy[p][e] \in Row /\ copy[p][e].retries \in Nat
  <2>1. \A e \in Events : row[e] \in Row /\ attempts[e] \in Nat /\ attempts'[e] \in Nat
    BY <1>a DEF TypeOK, AttemptCap
  <2>2. \A p \in Runs, e \in Events : copy[p][e] \in Row
    BY <1>a DEF TypeOK
  <2>. QED  BY <2>1, <2>2, RowFields
<1>1. ASSUME NEW e \in Events, PublishSave(e) PROVE (OneRunEach /\ AllFresh /\ AllCounted)'
  <2>1. row[e].status = "ABSENT" /\ attempts[e] = 0
    BY <1>c, <1>1 DEF AllCounted, Counted, PublishSave
  <2>2. \A q \in Runs : Active(q) => e \notin Held(q)
    BY <1>c, <2>1, HeldStatus
  <2>3. \A q \in Runs : Active(q) =>
          \A f \in Held(q) : row'[f] = row[f] /\ attempts'[f] = attempts[f]
    BY <1>a, <1>1, <2>2 DEF PublishSave, TypeOK, Held
  <2>4. AllCounted'
    BY <1>a, <1>c, <1>1, <2>1 DEF AllCounted, Counted, PublishSave, TypeOK, NewRow
  <2>. QED  BY <1>c, <1>1, <2>3, <2>4, SerialByRows DEF PublishSave
<1>2. ASSUME NEW e \in Events, PublishEmit(e) PROVE (OneRunEach /\ AllFresh /\ AllCounted)'
  <2>1. AllCounted'
    BY <1>a, <1>c, <1>2 DEF AllCounted, Counted, PublishEmit, TypeOK
  <2>. QED  BY <1>c, <1>2, <2>1, SerialByRows DEF PublishEmit
<1>3. ASSUME NEW e \in Events, Age(e) PROVE (OneRunEach /\ AllFresh /\ AllCounted)'
  <2>1. \A f \in Events : row'[f].status = row[f].status /\ row'[f].retries = row[f].retries
    BY <1>a, <1>3 DEF Age, TypeOK, Row
  <2>2. AllCounted'
    BY <1>c, <1>3, <2>1 DEF AllCounted, Counted, Age
  <2>3. \A q \in Runs : \A f \in Held(q) : row'[f] = row[f] /\ attempts'[f] = attempts[f]
    BY <1>a, <1>3 DEF Age, TypeOK, Held
  <2>. QED  BY <1>c, <1>3, <2>2, <2>3, SerialByRows DEF Age
<1>4. ASSUME NEW p \in Procs, StartRun(p) PROVE (OneRunEach /\ AllFresh /\ AllCounted)'
  <2>1. /\ \A q \in Runs \ {p} : copy'[q] = copy[q] /\ pc'[q] = pc[q]
        /\ p \notin Retriers
        /\ \A q \in Procs \ {p} : ~Active(q)
        /\ row' = row /\ attempts' = attempts /\ pub' = pub
    BY <1>a, <1>4 DEF StartRun, TypeOK, Active
  <2>2. pc'[p] = "mark" /\ \A e \in Events : copy'[p][e] # NoRow =>
                                copy'[p][e] = row[e] /\ row[e].status = "PENDING"
    BY <1>a, <1>4 DEF StartRun, TypeOK, Oldest, Pending
  <2>3. Fresh(p)'
    BY <2>1, <2>2 DEF Fresh, InWork, Held
  <2>. QED  BY <1>c, <2>1, <2>3, SerialByStart
<1>5. ASSUME NEW p \in Procs, Mark(p) PROVE (OneRunEach /\ AllFresh /\ AllCounted)'
  <2>1. PICK e \in Events :
          /\ At(p, e)
          /\ copy' = [copy EXCEPT ![p][e].status = "PROCESSING"]
          /\ row' = [row EXCEPT ![e] = [copy[p][e] EXCEPT !.status = "PROCESSING"]]
    BY <1>5 DEF Mark
  <2> DEFINE r == [copy[p][e] EXCEPT !.status = "PROCESSING"]
  <2>2. r \in Row /\ r.status = "PROCESSING" /\ r.retries = copy[p][e].retries
    BY <1>d, RowFields DEF Status
  <2>3. /\ copy' = [copy EXCEPT ![p] = [copy[p] EXCEPT ![e] = r]]
        /\ row' = [row EXCEPT ![e] = r]
    BY <2>1
  <2> HIDE DEF r
  <2>4. Active(p) /\ e \in Held(p) /\ pc[p] = "mark" /\ pc'[p] = "emit"
    BY <1>a, <1>5, <2>1 DEF Active, Mark, At, TypeOK
  <2>5. row[e].status = "PENDING" /\ row[e] = copy[p][e]
    BY <1>c, <2>4 DEF AllFresh, Fresh, InWork
  <2>6. attempts[e] <= r.retries /\ attempts' = attempts /\ pub' = pub
    BY <1>c, <1>5, <2>2, <2>5 DEF AllCounted, Counted, Mark, history
  <2>7. row'[e] = r /\ copy'[p][e] = r /\ \A f \in Events \ {e} :
           row'[f] = row[f] /\ copy'[p][f] = copy[p][f]
    BY <1>a, <2>3 DEF TypeOK
  <2>8. \A q \in Runs \ {p} : copy'[q] = copy[q] /\ pc'[q] = pc[q]
    BY <1>a, <1>5, <2>3 DEF TypeOK, Mark
  <2>9. \A f \in Events : At(p, f)' <=> At(p, f)
    BY <1>a, <2>1, <2>2, <2>3, AtKept
  <2>10. Fresh(p)'
    <3>1. ASSUME NEW f \in Events, f \in Held(p)' PROVE InWork(p, f)'
      <4>1. CASE f = e
        BY <2>1, <2>2, <2>4, <2>6, <2>7, <2>9, <4>1 DEF InWork
      <4>2. CASE f # e
        <5>1. ~At(p, f)' /\ f \in Held(p)
          BY <2>1, <2>7, <2>9, <3>1, <4>2, AtUnique DEF Held
        <5>2. row[f].status = "PENDING" /\ row[f] = copy[p][f]
          BY <1>c, <2>4, <5>1 DEF AllFresh, Fresh, InWork
        <5>. QED  BY <2>7, <4>2, <5>1, <5>2 DEF InWork
      <4>. QED  BY <4>1, <4>2
    <3>. QED  BY <3>1 DEF Fresh, Held
  <2>11. Counted(e)'
    BY <1>c, <1>d, <2>2, <2>5, <2>6, <2>7 DEF AllCounted, Counted
  <2>. QED  BY <1>c, <2>4, <2>6, <2>7, <2>8, <2>10, <2>11, SerialByStep
<1>6. ASSUME NEW p \in Procs, Emit(p) PROVE (OneRunEach /\ AllFresh /\ AllCounted)'
  <2>1. PICK e \in Events :
          /\ At(p, e)
          /\ EmitOk(p, e) \/ EmitFail(p, e)
          /\ attempts' = [attempts EXCEPT ![e] = IF @ < AttemptCap THEN @ + 1 ELSE @]
    BY <1>6 DEF Emit
  <2> DEFINE r == IF EmitOk(p, e) THEN [copy[p][e] EXCEPT !.status = "DELIVERED"]
                  ELSE [copy[p][e] EXCEPT !.status = "FAILED",
                                          !.retries = copy[p][e].retries + 1]
  <2>2. /\ r \in Row
        /\ \/ r.status = "DELIVERED"
           \/ r.status = "FAILED" /\ r.retries = copy[p][e].retries + 1
    <3>1. CASE EmitOk(p, e)
      <4>1. r = [copy[p][e] EXCEPT !.status = "DELIVERED"]
        BY <3>1
      <4>. HIDE DEF r
      <4>. QED  BY <1>d, <4>1, RowFields DEF Status
    <3>2. CASE ~EmitOk(p, e)
      <4>1. r = [copy[p][e] EXCEPT !.status = "FAILED", !.retries = copy[p][e].retries + 1]
        BY <3>2
      <4>. HIDE DEF r
      <4>. QED  BY <1>d, <4>1, RowFailure
    <3>. QED  BY <3>1, <3>2
  <2>3. copy' = [copy EXCEPT ![p] = [copy[p] EXCEPT ![e] = r]]
    BY <1>d, <2>1 DEF EmitOk, EmitFail, Row
  <2> HIDE DEF r
  <2>4. Active(p) /\ e \in Held(p) /\ pc[p] = "emit" /\ pc'[p] = "finish"
    BY <1>a, <1>6, <2>1 DEF Active, Emit, At, TypeOK
  <2>5. row[e].status = "PROCESSING" /\ row[e] = copy[p][e] /\ attempts[e] <= row[e].retries
    BY <1>c, <2>1, <2>4 DEF AllFresh, Fresh, InWork
  <2>6. row[e].retries < MaxRetries
    BY <2>5 DEF BudgetInv, RetryBudget
  <2>7. attempts'[e] <= row[e].retries + 1 /\ attempts'[e] <= MaxRetries
    BY <1>a, <1>d, <2>1, <2>5, <2>6 DEF AttemptCap, TypeOK
  <2>8. row' = row /\ pub' = pub /\ copy'[p][e] = r /\ \A f \in Events \ {e} :
           attempts'[f] = attempts[f] /\ copy'[p][f] = copy[p][f]
    BY <1>a, <1>6, <2>1, <2>3 DEF TypeOK, Emit
  <2>9. \A q \in Runs \ {p} : copy'[q] = copy[q] /\ pc'[q] = pc[q]
    BY <1>a, <1>6, <2>3 DEF TypeOK, Emit
  <2>10. \A f \in Events : At(p, f)' <=> At(p, f)
    BY <1>a, <2>1, <2>2, <2>3, AtKept
  <2>11. Fresh(p)'
    <3>1. ASSUME NEW f \in Events, f \in Held(p)' PROVE InWork(p, f)'
      <4>1. CASE f = e
        BY <2>1, <2>2, <2>4, <2>5, <2>7, <2>8, <2>10, <4>1 DEF InWork
      <4>2. CASE f # e
        <5>1. ~At(p, f)' /\ ~At(p, f) /\ f \in Held(p)
          BY <2>1, <2>8, <2>10, <3>1, <4>2, AtUnique DEF Held
        <5>2. row[f].status = "PENDING" /\ row[f] = copy[p][f]
          BY <1>c, <2>4, <5>1 DEF AllFresh, Fresh, InWork
        <5>. QED  BY <2>8, <4>2, <5>1, <5>2 DEF InWork
      <4>. QED  BY <4>1, <4>2
    <3>. QED  BY <3>1 DEF Fresh, Held
  <2>12. Counted(e)'
    BY <1>c, <1>d, <2>5, <2>7, <2>8 DEF AllCounted, Counted
  <2>. QED  BY <1>c, <2>4, <2>8, <2>9, <2>11, <2>12, SerialByStep
<1>7. ASSUME NEW p \in Procs, Finish(p) PROVE (OneRunEach /\ AllFresh /\ AllCounted)'
  <2>1. PICK e \in Events : /\ At(p, e)
                            /\ row' = [row EXCEPT ![e] = copy[p][e]]
                            /\ Advance(p, e, "mark")
    BY <1>7 DEF Finish
  <2>2. Active(p) /\ e \in Held(p) /\ pc[p] = "finish" /\ pc'[p] \in {"idle", "mark"}
    BY <1>a, <1>7, <2>1 DEF Active, Finish, At, Advance, TypeOK
  <2>3. copy[p][e].status = "DELIVERED" \/ copy[p][e].status = "FAILED"
    BY <2>1, <2>2 DEF BudgetInv, OutcomeKnown
  <2>4. row[e].status = "PROCESSING" /\
        (copy[p][e].status = "FAILED" => attempts[e] <= copy[p][e].retries)
    BY <1>c, <2>1, <2>2 DEF AllFresh, Fresh, InWork
  <2>5. attempts' = attempts /\ pub' = pub /\ row'[e] = copy[p][e] /\ copy'[p][e] = NoRow
        /\ \A f \in Events \ {e} : row'[f] = row[f] /\ copy'[p][f] = copy[p][f]
    BY <1>a, <1>7, <2>1 DEF TypeOK, Finish, Advance, history
  <2>6. \A q \in Runs \ {p} : copy'[q] = copy[q] /\ pc'[q] = pc[q]
    BY <1>a, <2>1 DEF TypeOK, Advance
  <2>7. Fresh(p)'
    <3>1. ASSUME NEW f \in Events, f \in Held(p)' PROVE InWork(p, f)'
      <4>1. f # e /\ ~At(p, f) /\ f \in Held(p)
        BY <2>1, <2>5, <3>1, AtUnique DEF Held
      <4>2. row[f].status = "PENDING" /\ row[f] = copy[p][f]
        BY <1>c, <2>2, <4>1 DEF AllFresh, Fresh, InWork
      <4>. QED  BY <2>2, <2>5, <4>1, <4>2 DEF InWork
    <3>. QED  BY <3>1 DEF Fresh, Held
  <2>8. Counted(e)'
    BY <1>c, <1>d, <2>3, <2>4, <2>5 DEF AllCounted, Counted
  <2>. QED  BY <1>c, <2>2, <2>5, <2>6, <2>7, <2>8, SerialByStep
<1>8. ASSUME NEW r \in Retriers, StartRetry(r) PROVE (OneRunEach /\ AllFresh /\ AllCounted)'
  <2>1. /\ \A q \in Runs \ {r} : copy'[q] = copy[q] /\ pc'[q] = pc[q]
        /\ r \notin Procs
        /\ \A q \in Retriers \ {r} : ~Active(q)
        /\ row' = row /\ attempts' = attempts /\ pub' = pub
    BY <1>a, <1>8 DEF StartRetry, TypeOK, Active
  <2>2. \A e \in Events : copy'[r][e] # NoRow => copy'[r][e] = row[e] /\ row[e].status = "FAILED"
    BY <1>a, <1>8 DEF StartRetry, TypeOK, Oldest, Retriable
  <2>3. Fresh(r)'
    BY <2>1, <2>2 DEF Fresh, ToRequeue, Held
  <2>. QED  BY <1>c, <2>1, <2>3, SerialByStart
<1>9. ASSUME NEW r \in Retriers, Requeue(r) PROVE (OneRunEach /\ AllFresh /\ AllCounted)'
  <2>1. PICK e \in Events, s \in Row : RequeuesWith(r, e, s)
    BY <1>a, <1>9, RequeueStep
  <2>2. Active(r) /\ e \in Held(r) /\ r \notin Procs
    BY <1>9, <2>1 DEF Active, Requeue, RequeuesWith, At
  <2>3. row[e].status = "FAILED" /\ row[e] = copy[r][e]
    BY <1>c, <2>2 DEF AllFresh, Fresh, ToRequeue
  <2>4. attempts' = attempts /\ pub' = pub /\ row'[e] = s /\ copy'[r][e] = NoRow
        /\ \A f \in Events \ {e} : row'[f] = row[f] /\ copy'[r][f] = copy[r][f]
    BY <1>a, <1>9, <2>1 DEF TypeOK, Requeue, RequeuesWith, Advance, history
  <2>5. \A q \in Runs \ {r} : copy'[q] = copy[q] /\ pc'[q] = pc[q]
    BY <1>a, <2>1 DEF TypeOK, RequeuesWith, Advance
  <2>6. Fresh(r)'
    <3>1. ASSUME NEW f \in Events, f \in Held(r)' PROVE ToRequeue(r, f)'
      <4>1. f # e /\ f \in Held(r)
        BY <2>4, <3>1 DEF Held
      <4>. QED  BY <1>c, <2>2, <2>4, <4>1 DEF AllFresh, Fresh, ToRequeue
    <3>. QED  BY <2>2, <3>1 DEF Fresh, Held
  <2>7. Counted(e)'
    BY <1>c, <1>d, <2>1, <2>3, <2>4 DEF AllCounted, Counted, RequeuesWith
  <2>. QED  BY <1>c, <2>2, <2>4, <2>5, <2>6, <2>7, SerialByStep
<1>10. ASSUME Cleanup PROVE (OneRunEach /\ AllFresh /\ AllCounted)'
  <2>1. \A e \in Events : row'[e] = row[e] \/ (row[e].status = "DELIVERED" /\ row'[e] = NoRow)
    <3>1. \A e \in Events : row'[e] = IF Expired(e) THEN NoRow ELSE row[e]
      BY <1>10 DEF Cleanup
    <3>. QED  BY <3>1 DEF Expired
  <2>2. AllCounted'
    BY <1>c, <1>10, <2>1 DEF AllCounted, Counted, Cleanup, NoRow
  <2>3. \A q \in Runs : Active(q) => \A f \in Held(q) : row'[f] = row[f]
    BY <1>c, <2>1, HeldStatus DEF Held
  <2>. QED  BY <1>c, <1>10, <2>2, <2>3, SerialByRows DEF Cleanup
<1>11. ASSUME NEW p \in Runs, DbError(p) PROVE (OneRunEach /\ AllFresh /\ AllCounted)'
  <2>1. \A q \in Runs : pc'[q] = "idle" \/ (copy'[q] = copy[q] /\ pc'[q] = pc[q])
    <3>1. \A q \in Runs \ {p} : copy'[q] = copy[q] /\ pc'[q] = pc[q]
      BY <1>a, <1>11 DEF DbError, TypeOK
    <3>2. pc'[p] = "idle"
      BY <1>a, <1>11 DEF DbError, TypeOK
    <3>. QED  BY <3>1, <3>2
  <2>2. AllCounted'
    BY <1>c, <1>11 DEF AllCounted, Counted, DbError
  <2>. QED  BY <1>c, <1>11, <2>1, <2>2, SerialByRows DEF DbError
<1>12. ASSUME Crash PROVE (OneRunEach /\ AllFresh /\ AllCounted)'
  <2>1. AllCounted'
    BY <1>a, <1>c, <1>12 DEF AllCounted, Counted, Crash, TypeOK
  <2>2. \A q \in Runs : pc'[q] = "idle"
    BY <1>12 DEF Crash
  <2>3. row' = row /\ attempts' = attempts
    BY <1>12 DEF Crash
  <2>. QED  BY <1>c, <2>1, <2>2, <2>3, SerialByRows
<1>13. CASE UNCHANGED vars
  <2>1. AllCounted'
    BY <1>c, <1>13 DEF AllCounted, Counted, vars
  <2>. QED  BY <1>c, <1>13, <2>1, SerialByRows DEF vars
<1> QED
  BY <1>1, <1>2, <1>3, <1>4, <1>5, <1>6, <1>7, <1>8, <1>9, <1>10, <1>11,
     <1>12, <1>13 DEF Next, ProcStep

LEMMA SerialInvariant == Spec => []SerialInv
<1>1. Init => SerialInv
  <2> SUFFICES ASSUME Init PROVE OneRunEach /\ AllFresh /\ AllCounted
    BY DEF SerialInv
  <2>1. OneRunEach /\ AllFresh
    BY Basics DEF Init, OneRunEach, AllFresh, Fresh, Active
  <2>2. AllCounted
    BY OutboxAssumption DEF OutboxAssumption, Init, AllCounted, Counted, NoRow
  <2>. QED  BY <2>1, <2>2
<1> QED
  BY <1>1, SerialStep, BudgetInvariant, PTL DEF Spec

(* While runs of a job do not overlap, an event is emitted to the outbox    *)
(* subscribers at most as often as the retry limit allows, also when a run  *)
(* is cut short after its emission (processPendingEvents,                   *)
(* retryFailedEvents).                                                      *)
THEOREM AttemptsWithinBudgetHolds == Spec => []AttemptsWithinBudget
<1>1. SerialInv => AttemptsWithinBudget
  BY DEF SerialInv, AllCounted, Counted, AttemptsWithinBudget
<1> QED
  BY <1>1, SerialInvariant, PTL

LEMMA FinalStep ==
  ASSUME BudgetInv, SerialInv, [Next]_vars, ~overlapped,
         NEW e \in Events, row[e].status = "DELIVERED"
  PROVE  row'[e].status \in {"DELIVERED", "ABSENT"}
<1> USE Basics
<1>a. TypeOK /\ OneRunEach /\ AllFresh /\ AllCounted
  BY DEF BudgetInv, SerialInv
<1>b. \A p \in Runs : Active(p) => e \notin Held(p)
  BY <1>a, HeldStatus
<1>1. ASSUME NEW f \in Events, PublishSave(f) PROVE row'[e] = row[e]
  BY <1>a, <1>1 DEF AllCounted, Counted, PublishSave, TypeOK
<1>2. ASSUME NEW f \in Events, Age(f) PROVE row'[e].status = row[e].status
  BY <1>a, <1>2 DEF Age, TypeOK, Row
<1>3. ASSUME NEW p \in Procs, Mark(p) PROVE row'[e] = row[e]
  BY <1>a, <1>b, <1>3 DEF Mark, TypeOK, At, Active
<1>4. ASSUME NEW p \in Procs, Finish(p) PROVE row'[e] = row[e]
  BY <1>a, <1>b, <1>4 DEF Finish, TypeOK, At, Active
<1>5. ASSUME NEW r \in Retriers, Requeue(r) PROVE row'[e] = row[e]
  BY <1>a, <1>b, <1>5 DEF Requeue, TypeOK, At, Active
<1>6. ASSUME Cleanup PROVE row'[e] = row[e] \/ row'[e].status = "ABSENT"
  BY <1>6 DEF Cleanup, NoRow
<1>7. \/ \E f \in Events : PublishSave(f) \/ Age(f)
      \/ \E p \in Procs : Mark(p) \/ Finish(p)
      \/ \E r \in Retriers : Requeue(r)
      \/ Cleanup
      \/ row' = row
  BY DEF Next, ProcStep, PublishEmit, StartRun, Emit, StartRetry, DbError, Crash, vars
<1> QED
  BY <1>1, <1>2, <1>3, <1>4, <1>5, <1>6, <1>7

(* While runs of a job do not overlap, a delivered event is never taken up  *)
(* again by either job, only cleaned up.                                    *)
THEOREM DeliveredIsFinalHolds == Spec => DeliveredIsFinal
<1>1. BudgetInv /\ SerialInv /\ [Next]_vars =>
        [~overlapped => \A e \in Events : row[e].status = "DELIVERED" =>
           row'[e].status \in {"DELIVERED", "ABSENT"}]_vars
  BY FinalStep
<1> QED
  BY <1>1, BudgetInvariant, SerialInvariant, PTL DEF Spec, DeliveredIsFinal
=============================================================================
