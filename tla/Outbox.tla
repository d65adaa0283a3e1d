------------------------------- MODULE Outbox -------------------------------
(***************************************************************************)
(* The event outbox of core-api: EventsService (publish, the polling       *)
(* processor, the retry job, the clean-up job) together with the cron jobs *)
(* of JobsService that call it.                                            *)
(*                                                                         *)
(* A cron job does not wait for its previous run, so several runs of the   *)
(* same job may be in flight.  A run loads entities, keeps these in-memory *)
(* copies across its awaits and writes each one back with Repository.save, *)
(* which overwrites every column and re-inserts a row that has gone.       *)
(* One action is one stretch of code between two awaits; a save is atomic. *)
(***************************************************************************)
EXTENDS Naturals, FiniteSets

CONSTANTS
  NumEvents,   \* bound: how many events are published
  Procs,       \* runs of the outbox-processor job that may be in flight
  Retriers,    \* runs of the outbox-retry job that may be in flight
  BatchSize,   \* rows a processor run takes (50)
  RetryBatch,  \* rows a retry run takes (20)
  MaxRetries,  \* failures after which an event is left FAILED (5)
  Fallible,    \* events with an `outbox.<type>' subscriber that may throw
  MaxFaults    \* bound: process crashes and failed database calls

Events == 1..NumEvents      \* numbered by createdAt

ASSUME OutboxAssumption ==
  /\ NumEvents \in Nat
  /\ Procs \cap Retriers = {}
  /\ BatchSize \in Nat \ {0}
  /\ RetryBatch \in Nat \ {0}
  /\ MaxRetries \in Nat \ {0}
  /\ Fallible \subseteq Events
  /\ MaxFaults \in Nat

VARIABLES
  row,       \* the outbox_events table
  pub,       \* how far the publish() call of each event has come
  pc,        \* where each run is suspended
  copy,      \* the entities each run still has to deal with
  handled,   \* history: events whose outbox emission succeeded at least once
  attempts,  \* history: outbox emissions per event, up to AttemptCap
  faults,    \* faults so far
  overlapped \* history: two runs of the same job have been in flight at once

vars == <<row, pub, pc, copy, handled, attempts, faults, overlapped>>

history == <<handled, attempts, overlapped>>

Runs == Procs \cup Retriers

Status == {"ABSENT", "PENDING", "PROCESSING", "DELIVERED", "FAILED"}

\* `old' abstracts processedAt: more than the clean-up's thirty days ago.
Row == [status : Status, retries : Nat, old : BOOLEAN]

NoRow == [status |-> "ABSENT", retries |-> 0, old |-> FALSE]

NewRow == [status |-> "PENDING", retries |-> 0, old |-> FALSE]

AttemptCap == MaxRetries + 1

-----------------------------------------------------------------------------
Init ==
  /\ row = [e \in Events |-> NoRow]
  /\ pub = [e \in Events |-> "none"]
  /\ pc = [p \in Runs |-> "idle"]
  /\ copy = [p \in Runs |-> [e \in Events |-> NoRow]]
  /\ handled = {}
  /\ attempts = [e \in Events |-> 0]
  /\ faults = 0
  /\ overlapped = FALSE

\* What a run has loaded and not finished with.
Held(p) == {e \in Events : copy[p][e] # NoRow}

\* ORDER BY createdAt ASC ... LIMIT n
Oldest(S, n) == {e \in S : Cardinality({f \in S : f < e}) < n}

\* The event the run's for loop is at.
At(p, e) == e \in Held(p) /\ \A f \in Held(p) : e <= f

\* Leave the loop body for event e: next iteration, or the end of the run.
Advance(p, e, first) ==
  /\ copy' = [copy EXCEPT ![p][e] = NoRow]
  /\ pc' = [pc EXCEPT ![p] = IF Held(p) = {e} THEN "idle" ELSE first]

-----------------------------------------------------------------------------
(* publish(): the row is saved first, the in-process emit follows the await. *)

PublishSave(e) ==
  /\ pub[e] = "none"
  /\ \A f \in Events : f < e => pub[f] # "none"
  /\ row' = [row EXCEPT ![e] = NewRow]
  /\ pub' = [pub EXCEPT ![e] = "saved"]
  /\ UNCHANGED <<pc, copy, history, faults>>

PublishEmit(e) ==
  /\ pub[e] = "saved"
  /\ pub' = [pub EXCEPT ![e] = "emitted"]
  /\ UNCHANGED <<row, pc, copy, history, faults>>

-----------------------------------------------------------------------------
(* processPendingEvents(): load a batch; for each event mark, emit, save.  *)

Pending == {e \in Events : row[e].status = "PENDING"}

StartRun(p) ==
  /\ pc[p] = "idle"
  /\ Pending # {}
  /\ pc' = [pc EXCEPT ![p] = "mark"]
  /\ copy' = [copy EXCEPT ![p] =
       [e \in Events |-> IF e \in Oldest(Pending, BatchSize) THEN row[e] ELSE NoRow]]
  /\ overlapped' = (overlapped \/ \E q \in Procs \ {p} : pc[q] # "idle")
  /\ UNCHANGED <<row, pub, handled, attempts, faults>>

\* Mutant: a status the table's enum does not have.
MarkUnknown(p) ==
  /\ pc[p] = "mark"
  /\ \E e \in Events :
       /\ At(p, e)
       /\ copy' = [copy EXCEPT ![p][e].status = "IN_PROGRESS"]
       /\ row' = [row EXCEPT ![e] = [copy[p][e] EXCEPT !.status = "IN_PROGRESS"]]
  /\ pc' = [pc EXCEPT ![p] = "emit"]
  /\ UNCHANGED <<pub, history, faults>>

Mark(p) ==
  /\ pc[p] = "mark"
  /\ \E e \in Events :
       /\ At(p, e)
       /\ copy' = [copy EXCEPT ![p][e].status = "PROCESSING"]
       /\ row' = [row EXCEPT ![e] = [copy[p][e] EXCEPT !.status = "PROCESSING"]]
  /\ pc' = [pc EXCEPT ![p] = "emit"]
  /\ UNCHANGED <<pub, history, faults>>

\* The subscribers of the re-emitted event all succeed; with none, at once.
EmitOk(p, e) ==
  /\ copy' = [copy EXCEPT ![p][e].status = "DELIVERED"]
  /\ handled' = handled \cup {e}

\* Mutant: a failure is not told from a success.
EmitFailSwallowed(p, e) ==
  /\ e \in Fallible
  /\ copy' = [copy EXCEPT ![p][e].status = "DELIVERED"]
  /\ UNCHANGED handled

\* Mutant: the failure is not counted.
EmitFailUncounted(p, e) ==
  /\ e \in Fallible
  /\ copy' = [copy EXCEPT ![p][e].status = "FAILED"]
  /\ UNCHANGED handled

\* One of them throws: the catch block counts the failure.
EmitFail(p, e) ==
  /\ e \in Fallible
  /\ copy' = [copy EXCEPT ![p][e].status = "FAILED", ![p][e].retries = @ + 1]
  /\ UNCHANGED handled

Emit(p) ==
  /\ pc[p] = "emit"
  /\ \E e \in Events :
       /\ At(p, e)
       /\ EmitOk(p, e) \/ EmitFail(p, e)
       /\ attempts' = [attempts EXCEPT ![e] = IF @ < AttemptCap THEN @ + 1 ELSE @]
  /\ pc' = [pc EXCEPT ![p] = "finish"]
  /\ UNCHANGED <<row, pub, faults, overlapped>>

\* Mutant: the run ends without saving the outcome of its last event.
FinishUnsaved(p) ==
  /\ pc[p] = "finish"
  /\ \E e \in Events :
       /\ At(p, e)
       /\ row' = IF Held(p) = {e} THEN row ELSE [row EXCEPT ![e] = copy[p][e]]
       /\ Advance(p, e, "mark")
  /\ UNCHANGED <<pub, history, faults>>

Finish(p) ==
  /\ pc[p] = "finish"
  /\ \E e \in Events :
       /\ At(p, e)
       /\ row' = [row EXCEPT ![e] = copy[p][e]]
       /\ Advance(p, e, "mark")
  /\ UNCHANGED <<pub, history, faults>>

-----------------------------------------------------------------------------
(* retryFailedEvents(): put failed events below the limit back to PENDING. *)

\* Mutant: off by one at the limit.
RetriableAtLimit == {e \in Events : row[e].status = "FAILED" /\ row[e].retries <= MaxRetries}

\* Mutant: the status is not part of the query.
RetriableAnyStatus == {e \in Events : row[e].status # "ABSENT" /\ row[e].retries < MaxRetries}

Retriable == {e \in Events : row[e].status = "FAILED" /\ row[e].retries < MaxRetries}

StartRetry(r) ==
  /\ pc[r] = "idle"
  /\ Retriable # {}
  /\ pc' = [pc EXCEPT ![r] = "requeue"]
  /\ copy' = [copy EXCEPT ![r] =
       [e \in Events |-> IF e \in Oldest(Retriable, RetryBatch) THEN row[e] ELSE NoRow]]
  /\ overlapped' = (overlapped \/ \E q \in Retriers \ {r} : pc[q] # "idle")
  /\ UNCHANGED <<row, pub, handled, attempts, faults>>

Requeue(r) ==
  /\ pc[r] = "requeue"
  /\ \E e \in Events :
       /\ At(r, e)
       /\ row' = [row EXCEPT ![e] = [copy[r][e] EXCEPT !.status = "PENDING"]]
       /\ Advance(r, e, "requeue")
  /\ UNCHANGED <<pub, history, faults>>

-----------------------------------------------------------------------------
(* cleanupDeliveredEvents() and the passage of time it depends on.  No run *)
(* lasts thirty days, so a row ages only while no run holds a copy of it.  *)

Age(e) ==
  /\ row[e].status = "DELIVERED" /\ ~row[e].old
  /\ \A p \in Runs : e \notin Held(p)
  /\ row' = [row EXCEPT ![e].old = TRUE]
  /\ UNCHANGED <<pub, pc, copy, history, faults>>

Expired(e) == row[e].status = "DELIVERED" /\ row[e].old

Cleanup ==
  /\ \E e \in Events : Expired(e)
  /\ row' = [e \in Events |-> IF Expired(e) THEN NoRow ELSE row[e]]
  /\ UNCHANGED <<pub, pc, copy, history, faults>>

-----------------------------------------------------------------------------
(* A save that rejects leaves the method, outside its try, and the cron    *)
(* job's catch ends the run.  A crash ends every run, and loses the        *)
(* in-process emit of the publish calls that wait for their save.          *)

DbError(p) ==
  /\ faults < MaxFaults
  /\ pc[p] \in {"mark", "finish", "requeue"}
  /\ pc' = [pc EXCEPT ![p] = "idle"]
  /\ copy' = [copy EXCEPT ![p] = [e \in Events |-> NoRow]]
  /\ faults' = faults + 1
  /\ UNCHANGED <<row, pub, history>>

Crash ==
  /\ faults < MaxFaults
  /\ pc' = [p \in Runs |-> "idle"]
  /\ copy' = [p \in Runs |-> [e \in Events |-> NoRow]]
  /\ pub' = [e \in Events |-> IF pub[e] = "saved" THEN "lost" ELSE pub[e]]
  /\ faults' = faults + 1
  /\ UNCHANGED <<row, history>>

-----------------------------------------------------------------------------
ProcStep(p) == Mark(p) \/ Emit(p) \/ Finish(p)

Next ==
  \/ \E e \in Events : PublishSave(e) \/ PublishEmit(e) \/ Age(e)
  \/ \E p \in Procs : StartRun(p) \/ ProcStep(p)
  \/ \E r \in Retriers : StartRetry(r) \/ Requeue(r)
  \/ Cleanup
  \/ \E p \in Runs : DbError(p)
  \/ Crash

Spec == Init /\ [][Next]_vars

\* The crons keep firing and the event loop resumes every await.
Fairness ==
  /\ \A e \in Events : WF_vars(PublishEmit(e))
  /\ \A p \in Procs : WF_vars(StartRun(p)) /\ WF_vars(ProcStep(p))
  /\ \A r \in Retriers : WF_vars(StartRetry(r)) /\ WF_vars(Requeue(r))

FairSpec == Spec /\ Fairness
-----------------------------------------------------------------------------
Published(e) == pub[e] # "none"

TypeOK ==
  /\ row \in [Events -> Row]
  /\ pub \in [Events -> {"none", "saved", "emitted", "lost"}]
  /\ pc \in [Runs -> {"idle", "mark", "emit", "finish", "requeue"}]
  /\ copy \in [Runs -> [Events -> Row]]
  /\ handled \subseteq Events
  /\ attempts \in [Events -> 0..AttemptCap]
  /\ faults \in 0..MaxFaults
  /\ overlapped \in BOOLEAN

(* An event whose row says DELIVERED, or whose row the clean-up removed, was *)
(* emitted to its subscribers without an error at least once, whatever stale *)
(* copies overlapping runs wrote back and wherever the process crashed.      *)
DeliveredWasHandled ==
  \A e \in Events :
    Published(e) /\ row[e].status \in {"DELIVERED", "ABSENT"} => e \in handled

(* Saves of stale copies may move the retry counter back, but never past the *)
(* limit: a row waiting or in work is below it, and a failed row at most at  *)
(* it, so an event at the limit stays FAILED until an operator looks at it.  *)
RetryBudget ==
  \A e \in Events :
    /\ row[e].retries <= MaxRetries
    /\ row[e].status \in {"PENDING", "PROCESSING"} => row[e].retries < MaxRetries

(* While nothing has failed, a row marked PROCESSING has a run that is at    *)
(* it, between the mark and the save of the outcome: no row is left behind,  *)
(* even when two runs work on the same event.                                *)
ProcessingHasOwner ==
  faults = 0 =>
    \A e \in Events : row[e].status = "PROCESSING" =>
      \E p \in Procs : pc[p] \in {"emit", "finish"} /\ At(p, e)

(* Until two runs of a job overlap, a DELIVERED row is never put back to     *)
(* work: the only thing left to happen to it is the clean-up.                *)
DeliveredIsFinal ==
  [][~overlapped => \A e \in Events : row[e].status = "DELIVERED" =>
       row'[e].status \in {"DELIVERED", "ABSENT"}]_vars

(* Until two runs of a job overlap, no event is emitted to the outbox        *)
(* subscribers more often than the retry limit allows.                       *)
AttemptsWithinBudget == ~overlapped => \A e \in Events : attempts[e] <= MaxRetries

Settled(e) ==
  \/ row[e].status = "FAILED" /\ row[e].retries >= MaxRetries
  \/ e \in handled /\ row[e].status \in {"DELIVERED", "ABSENT"}

(* Unless something failed, each published event ends up delivered, or       *)
(* FAILED with its retries used up.                                          *)
EventuallySettled ==
  \/ <>(faults > 0)
  \/ \A e \in Events : Published(e) ~> []Settled(e)

(* "This is the at-least-once guarantee layer" (EventsService): the same,    *)
(* whatever crashes in between.                                              *)
AtLeastOnce == \A e \in Events : Published(e) ~> Settled(e)
=============================================================================
