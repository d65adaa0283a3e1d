---------------------------- MODULE TripAppProofs ----------------------------
(* Proofs about TripApp, for any number of keys, calls and people: a        *)
(* deleted row stays deleted, reminders are right and complete, every       *)
(* variable keeps its type, a page shows what its own tab wrote but for two *)
(* named exceptions, a rule set keeps every rule of the last save, no row   *)
(* refers to one that is not there, and the last event about a row is true. *)
EXTENDS TripApp, ClientProofs, WellFoundedInduction, TLAPS

(* The steps that save, or lead to a save of, a row whose key the call      *)
(* knows from the start.                                                    *)
HoldingSteps == {"task.save", "doc.save", "doc.update", "item.day", "item.update",
                 "item.attach", "rules.set"}

(* A call that is at step, with c in hand, will save a row that had not     *)
(* been deleted when the call began, or has found no rule set to save.      *)
Holds(step, c) ==
  step \in HoldingSteps =>
    /\ c.key \in Keys
    /\ step = "rules.set" => c.key = RuleSetKey
    /\ c.key \notin c.gone \/ (step = "rules.set" /\ c.copy = None)

CallsInv ==
  /\ DOMAIN row = Keys /\ used \subseteq Keys
  /\ DOMAIN pc = Calls /\ DOMAIN loc = Calls
  /\ \A q \in Calls : Holds(pc[q], loc[q])

(* What DeletedStaysDeleted says of a step, and what a step of the call q   *)
(* must do to its tables for that.                                          *)
NoneReturns ==
  \A k \in used : row[k] = None /\ row'[k] # None =>
    \A q \in Calls : loc'[q] # loc[q] => k \notin loc[q].gone

Tame(q) ==
  /\ DOMAIN row' = Keys /\ used' \subseteq Keys
  /\ \A k \in used : row[k] = None /\ row'[k] # None => k \notin loc[q].gone

Sound == CallsInv' /\ NoneReturns

USE TripCallsAssumption, TasksAssumption, DocumentsAssumption, ItineraryAssumption,
    CollabAssumption, RulesAssumption

-----------------------------------------------------------------------------
(* Only the call whose step it is holds something else after it.            *)
LEMMA Continues ==
  ASSUME NEW q \in Calls, NEW step, NEW c, CallsInv, GoWith(q, step, c), Holds(step, c), Tame(q)
  PROVE  Sound
<1>1. /\ DOMAIN pc' = Calls /\ DOMAIN loc' = Calls /\ pc'[q] = step /\ loc'[q] = c
      /\ \A r \in Calls : r # q => pc'[r] = pc[r] /\ loc'[r] = loc[r]
  BY DEF CallsInv, GoWith
<1>2. \A r \in Calls : Holds(pc'[r], loc'[r])
  BY <1>1 DEF CallsInv
<1>. QED  BY <1>1, <1>2 DEF CallsInv, Tame, Sound, NoneReturns

LEMMA Begins ==
  ASSUME NEW q \in Calls, NEW step, NEW c, CallsInv, Begin(q, step, c),
         Holds(step, [c EXCEPT !.gone = Gone]), Tame(q)
  PROVE  Sound
<1>1. /\ DOMAIN pc' = Calls /\ DOMAIN loc' = Calls
      /\ pc'[q] = step /\ loc'[q] = [c EXCEPT !.gone = Gone]
      /\ \A r \in Calls : r # q => pc'[r] = pc[r] /\ loc'[r] = loc[r]
  BY DEF CallsInv, Begin
<1>2. \A r \in Calls : Holds(pc'[r], loc'[r])
  BY <1>1 DEF CallsInv
<1>. QED  BY <1>1, <1>2 DEF CallsInv, Tame, Sound, NoneReturns

LEMMA Ends ==
  ASSUME NEW q \in Calls, CallsInv, End(q), Tame(q)
  PROVE  Sound
BY Continues DEF End, Holds, HoldingSteps

(* What the steps do to the tables is tame.                                 *)
LEMMA ReadIsTame == ASSUME NEW q, CallsInv, UNCHANGED <<row, used>> PROVE Tame(q)
BY DEF CallsInv, Tame

LEMMA InsertIsTame ==
  ASSUME NEW q, NEW k \in Keys, NEW r, CallsInv, Insert(k, r) PROVE Tame(q)
BY DEF CallsInv, Tame, Insert

LEMMA RemoveIsTame == ASSUME NEW q, NEW k, CallsInv, RemoveRow(k) PROVE Tame(q)
BY DEF CallsInv, Tame, RemoveRow, SaveBack

LEMMA SaveIsTame ==
  ASSUME NEW q, NEW r, CallsInv, SaveBack(loc[q].key, r), loc[q].key \notin loc[q].gone
  PROVE  Tame(q)
BY DEF CallsInv, Tame, SaveBack

LEMMA PublishIsSound ==
  ASSUME NEW q \in Calls, NEW step, CallsInv, Publish(q, step) PROVE Sound
BY Ends, ReadIsTame DEF Publish

(* Most steps lead to no such save.                                         *)
LEMMA BeginsElse ==
  ASSUME NEW q \in Calls, NEW step, NEW c, CallsInv, Begin(q, step, c),
         step \notin HoldingSteps, Tame(q)
  PROVE  Sound
BY Begins DEF Holds

LEMMA ContinuesElse ==
  ASSUME NEW q \in Calls, NEW step, NEW c, CallsInv, GoWith(q, step, c),
         step \notin HoldingSteps, Tame(q)
  PROVE  Sound
BY Continues DEF Holds

(* What the others hold.                                                    *)
LEMMA NotGone ==
  ASSUME NEW q \in Calls, CallsInv, pc[q] \in HoldingSteps \ {"rules.set"}
  PROVE  loc[q].key \in Keys /\ loc[q].key \notin loc[q].gone
BY DEF CallsInv, Holds

-----------------------------------------------------------------------------
LEMMA TaskCalls == ASSUME CallsInv, TaskNext PROVE Sound
<1>1. ASSUME NEW q \in Calls, NEW k \in TaskKeys, TaskCreate(q, k) PROVE Sound
  <2>1. Tame(q)
    BY <1>1, InsertIsTame DEF TaskCreate
  <2>. QED  BY <1>1, <2>1, BeginsElse DEF TaskCreate, HoldingSteps
<1>2. ASSUME NEW q \in Calls, NEW k \in TaskKeys, TaskFindDoomed(q, k) PROVE Sound
  <2>1. Tame(q)
    BY <1>2, ReadIsTame DEF TaskFindDoomed, tableVars
  <2>. QED  BY <1>2, <2>1, BeginsElse DEF TaskFindDoomed, HoldingSteps
<1>3. ASSUME NEW q \in Calls, NEW k \in TaskKeys, NEW input \in TaskInput, TaskFind(q, k, input)
      PROVE  Sound
  <2>. DEFINE c == [NoLocals EXCEPT !.op = "TASK_UPDATED", !.key = k, !.input = input,
                                    !.copy = row[k]]
  <2>1. Tame(q)
    BY <1>3, ReadIsTame DEF TaskFind, tableVars
  <2>2. Holds("task.save", [c EXCEPT !.gone = Gone])
    BY <1>3 DEF TaskFind, Gone, NoLocals, Holds
  <2>3. Begin(q, "task.save", c)
    BY <1>3 DEF TaskFind
  <2>. QED  BY <2>1, <2>2, <2>3, Begins
<1>4. ASSUME NEW q \in Calls, TaskSave(q) PROVE Sound
  <2>1. Tame(q)
    BY <1>4, NotGone, SaveIsTame DEF TaskSave, HoldingSteps
  <2>. QED  BY <1>4, <2>1, ContinuesElse DEF TaskSave, HoldingSteps
<1>5. ASSUME NEW q \in Calls, TaskRemove(q) PROVE Sound
  <2>1. Tame(q)
    BY <1>5, RemoveIsTame DEF TaskRemove
  <2>. QED  BY <1>5, <2>1, ContinuesElse DEF TaskRemove, HoldingSteps
<1>. QED  BY <1>1, <1>2, <1>3, <1>4, <1>5, PublishIsSound DEF TaskNext, TaskPublish

LEMMA DocCalls == ASSUME CallsInv, DocNext PROVE Sound
<1>1. ASSUME NEW q \in Calls, NEW k \in DocKeys, NEW category \in DocumentCategory,
             DocUpload(q, k, category)
      PROVE  Sound
  <2>. DEFINE c == [NoLocals EXCEPT !.op = "DOCUMENT_UPLOADED", !.key = k,
                                    !.copy = [category |-> category]]
  <2>1. Tame(q)
    BY <1>1, ReadIsTame DEF DocUpload, tableVars
  <2>2. Holds("doc.save", [c EXCEPT !.gone = Gone])
    BY <1>1 DEF DocUpload, Gone, NoLocals, Holds
  <2>3. Begin(q, "doc.save", c)
    BY <1>1 DEF DocUpload
  <2>. QED  BY <2>1, <2>2, <2>3, Begins
<1>2. ASSUME NEW q \in Calls, DocSave(q) PROVE Sound
  <2>1. Tame(q)
    BY <1>2, NotGone, InsertIsTame DEF DocSave, HoldingSteps
  <2>. QED  BY <1>2, <2>1, ContinuesElse DEF DocSave, HoldingSteps
<1>3. ASSUME NEW q \in Calls, NEW k \in DocKeys, NEW input \in DocInput, DocFind(q, k, input)
      PROVE  Sound
  <2>. DEFINE c == [NoLocals EXCEPT !.op = "DOCUMENT_UPDATED", !.key = k, !.copy = row[k],
                                    !.input = input]
  <2>1. Tame(q)
    BY <1>3, ReadIsTame DEF DocFind, tableVars
  <2>2. Holds("doc.update", [c EXCEPT !.gone = Gone])
    BY <1>3 DEF DocFind, Gone, NoLocals, Holds
  <2>3. Begin(q, "doc.update", c)
    BY <1>3 DEF DocFind
  <2>. QED  BY <2>1, <2>2, <2>3, Begins
<1>4. ASSUME NEW q \in Calls, DocUpdate(q) PROVE Sound
  <2>1. Tame(q)
    BY <1>4, NotGone, SaveIsTame DEF DocUpdate, HoldingSteps
  <2>. QED  BY <1>4, <2>1, ContinuesElse DEF DocUpdate, HoldingSteps
<1>5. ASSUME NEW q \in Calls, NEW k \in DocKeys, DocFindDoomed(q, k) PROVE Sound
  <2>1. Tame(q)
    BY <1>5, ReadIsTame DEF DocFindDoomed, tableVars
  <2>. QED  BY <1>5, <2>1, BeginsElse DEF DocFindDoomed, HoldingSteps
<1>6. ASSUME NEW q \in Calls, DocDeleteObject(q) PROVE Sound
  <2>1. Tame(q)
    BY <1>6, ReadIsTame DEF DocDeleteObject, tableVars
  <2>. QED  BY <1>6, <2>1, ContinuesElse DEF DocDeleteObject, HoldingSteps
<1>7. ASSUME NEW q \in Calls, DocRemove(q) PROVE Sound
  <2>1. Tame(q)
    BY <1>7, RemoveIsTame DEF DocRemove
  <2>. QED  BY <1>7, <2>1, ContinuesElse DEF DocRemove, HoldingSteps
<1>. QED
  BY <1>1, <1>2, <1>3, <1>4, <1>5, <1>6, <1>7, PublishIsSound DEF DocNext, DocPublish

LEMMA DayCalls == ASSUME CallsInv, DayNext PROVE Sound
<1>1. ASSUME NEW q \in Calls, NEW date \in Dates, NEW index, DayFind(q, date, index)
      PROVE  Sound
  <2>1. Tame(q)
    BY <1>1, ReadIsTame DEF DayFind, tableVars
  <2>. QED  BY <1>1, <2>1, BeginsElse DEF DayFind, HoldingSteps
<1>2. ASSUME NEW q \in Calls, NEW k \in DayKeys, DaySave(q, k) PROVE Sound
  <2>1. Tame(q)
    BY <1>2, InsertIsTame, ReadIsTame DEF DaySave
  <2>. QED  BY <1>2, <2>1, ContinuesElse, Ends DEF DaySave, HoldingSteps
<1>. QED  BY <1>1, <1>2, PublishIsSound DEF DayNext

LEMMA ItemCalls == ASSUME CallsInv, ItemNext PROVE Sound
<1>1. ASSUME NEW q \in Calls, NEW day \in DayKeys \cup {None}, ItemFindDay(q, day) PROVE Sound
  <2>1. Tame(q)
    BY <1>1, ReadIsTame DEF ItemFindDay, tableVars
  <2>. QED  BY <1>1, <2>1, BeginsElse DEF ItemFindDay, HoldingSteps
<1>2. ASSUME NEW q \in Calls, NEW k \in ItemKeys, ItemSave(q, k) PROVE Sound
  <2>1. Tame(q)
    BY <1>2, InsertIsTame DEF ItemSave
  <2>. QED  BY <1>2, <2>1, ContinuesElse DEF ItemSave, HoldingSteps
<1>3. ASSUME NEW q \in Calls, NEW k \in ItemKeys, ItemFindDoomed(q, k) PROVE Sound
  <2>1. Tame(q)
    BY <1>3, ReadIsTame DEF ItemFindDoomed, tableVars
  <2>. QED  BY <1>3, <2>1, BeginsElse DEF ItemFindDoomed, HoldingSteps
<1>4. ASSUME NEW q \in Calls, NEW k \in ItemKeys, NEW input \in DayInput, ItemFind(q, k, input)
      PROVE  Sound
  <2>. DEFINE step == IF input \in DayKeys THEN "item.day" ELSE "item.update"
              c == [NoLocals EXCEPT !.op = "ITINERARY_ITEM_UPDATED", !.key = k,
                                    !.copy = row[k], !.input = input]
  <2>1. Tame(q)
    BY <1>4, ReadIsTame DEF ItemFind, tableVars
  <2>2. Holds(step, [c EXCEPT !.gone = Gone])
    BY <1>4 DEF ItemFind, Gone, NoLocals, Holds
  <2>3. Begin(q, step, c)
    BY <1>4 DEF ItemFind
  <2>. QED  BY <2>1, <2>2, <2>3, Begins
<1>5. ASSUME NEW q \in Calls, ItemDay(q) PROVE Sound
  <2>1. Tame(q)
    BY <1>5, ReadIsTame DEF ItemDay, tableVars
  <2>2. Holds("item.update", loc[q])
    BY <1>5, NotGone DEF ItemDay, HoldingSteps, Holds
  <2>. QED  BY <1>5, <2>1, <2>2, Continues, Ends DEF ItemDay
<1>6. ASSUME NEW q \in Calls, ItemUpdate(q) PROVE Sound
  <2>1. Tame(q)
    BY <1>6, NotGone, SaveIsTame DEF ItemUpdate, HoldingSteps
  <2>. QED  BY <1>6, <2>1, ContinuesElse DEF ItemUpdate, HoldingSteps
<1>7. ASSUME NEW q \in Calls, ItemRemove(q) PROVE Sound
  <2>1. Tame(q)
    BY <1>7 DEF ItemRemove, CommentsOf, Tame, CallsInv
  <2>. QED  BY <1>7, <2>1, ContinuesElse DEF ItemRemove, HoldingSteps
<1>. QED
  BY <1>1, <1>2, <1>3, <1>4, <1>5, <1>6, <1>7, PublishIsSound DEF ItemNext

LEMMA AttachCalls == ASSUME CallsInv, AttachNext PROVE Sound
<1>1. ASSUME NEW q \in Calls, NEW k \in ItemKeys, NEW b \in BookingKeys, AttachFind(q, k, b)
      PROVE  Sound
  <2>. DEFINE c == [NoLocals EXCEPT !.op = "BOOKING_ATTACHED", !.key = k,
                                    !.copy = [row[k] EXCEPT !.booking = b]]
  <2>1. Tame(q)
    BY <1>1, ReadIsTame DEF AttachFind, tableVars
  <2>2. Holds("item.attach", [c EXCEPT !.gone = Gone])
    BY <1>1 DEF AttachFind, Gone, NoLocals, Holds
  <2>3. Begin(q, "item.attach", c)
    BY <1>1 DEF AttachFind
  <2>. QED  BY <2>1, <2>2, <2>3, Begins
<1>2. ASSUME NEW q \in Calls, AttachSave(q) PROVE Sound
  <2>1. Tame(q)
    BY <1>2, NotGone, SaveIsTame DEF AttachSave, HoldingSteps
  <2>. QED  BY <1>2, <2>1, ContinuesElse DEF AttachSave, HoldingSteps
<1>. QED  BY <1>1, <1>2 DEF AttachNext

LEMMA CommentCalls == ASSUME CallsInv, CommentNext PROVE Sound
<1>1. ASSUME NEW q \in Calls, NEW item \in ItemKeys \cup {None}, CommentFind(q, item)
      PROVE  Sound
  <2>1. Tame(q)
    BY <1>1, ReadIsTame DEF CommentFind, tableVars
  <2>. QED  BY <1>1, <2>1, BeginsElse DEF CommentFind, HoldingSteps
<1>2. ASSUME NEW q \in Calls, NEW k \in CommentKeys, CommentSave(q, k) PROVE Sound
  <2>1. Tame(q)
    BY <1>2, InsertIsTame, ReadIsTame DEF CommentSave
  <2>. QED  BY <1>2, <2>1, ContinuesElse, Ends DEF CommentSave, HoldingSteps
<1>. QED  BY <1>1, <1>2, PublishIsSound DEF CommentNext

LEMMA CollabCalls == ASSUME CallsInv, CollabNext PROVE Sound
<1>1. ASSUME NEW q \in Calls, NEW k \in ProposalKeys, ProposalCreate(q, k) PROVE Sound
  <2>1. Tame(q)
    BY <1>1, InsertIsTame DEF ProposalCreate
  <2>. QED  BY <1>1, <2>1, BeginsElse DEF ProposalCreate, HoldingSteps
<1>2. ASSUME NEW q \in Calls, NEW k \in ProposalKeys, OptionFind(q, k) PROVE Sound
  <2>1. Tame(q)
    BY <1>2, ReadIsTame DEF OptionFind, tableVars
  <2>. QED  BY <1>2, <2>1, BeginsElse DEF OptionFind, HoldingSteps
<1>3. ASSUME NEW q \in Calls, NEW k \in OptionKeys, OptionSave(q, k) PROVE Sound
  <2>1. Tame(q)
    BY <1>3, InsertIsTame DEF OptionSave
  <2>. QED  BY <1>3, <2>1, ContinuesElse DEF OptionSave, HoldingSteps
<1>4. ASSUME NEW q \in Calls, NEW k \in OptionKeys, NEW u \in Voters, VoteCheck(q, u, k)
      PROVE  Sound
  <2>1. Tame(q)
    BY <1>4, ReadIsTame DEF VoteCheck, tableVars
  <2>. QED  BY <1>4, <2>1, BeginsElse DEF VoteCheck, HoldingSteps
<1>5. ASSUME NEW q \in Calls, NEW k \in VoteKeys, VoteSave(q, k) PROVE Sound
  <2>1. Tame(q)
    BY <1>5, InsertIsTame, ReadIsTame DEF VoteSave
  <2>. QED  BY <1>5, <2>1, ContinuesElse, Ends DEF VoteSave, HoldingSteps
<1>6. ASSUME NEW q \in Calls, VoteFind(q) PROVE Sound
  <2>1. Tame(q)
    BY <1>6, ReadIsTame DEF VoteFind, tableVars
  <2>. QED  BY <1>6, <2>1, ContinuesElse DEF VoteFind, HoldingSteps
<1>7. ASSUME NEW q \in Calls, VoteRemove(q) PROVE Sound
  <2>1. Tame(q)
    BY <1>7, RemoveIsTame DEF VoteRemove
  <2>. QED  BY <1>7, <2>1, ContinuesElse DEF VoteRemove, HoldingSteps
<1>. QED
  BY <1>1, <1>2, <1>3, <1>4, <1>5, <1>6, <1>7, PublishIsSound DEF CollabNext

LEMMA RuleCalls == ASSUME CallsInv, RuleNext PROVE Sound
<1>1. ASSUME NEW q \in Calls, NEW request \in Requests, UpsertFind(q, request) PROVE Sound
  <2>. DEFINE c == [NoLocals EXCEPT !.op = "RULESET_UPSERTED", !.key = RuleSetKey,
                                    !.copy = row[RuleSetKey], !.input = request]
  <2>1. Tame(q)
    BY <1>1, ReadIsTame DEF UpsertFind, tableVars
  <2>2. Holds("rules.set", [c EXCEPT !.gone = Gone])
    BY DEF Gone, NoLocals, Holds
  <2>3. Begin(q, "rules.set", c)
    BY <1>1 DEF UpsertFind
  <2>. QED  BY <2>1, <2>2, <2>3, Begins
<1>2. ASSUME NEW q \in Calls, UpsertSet(q) PROVE Sound
  <2>1. Tame(q)
    <3>1. CASE loc[q].copy = None
      BY <1>2, <3>1, InsertIsTame, ReadIsTame DEF UpsertSet
    <3>2. CASE loc[q].copy # None
      <4>1. loc[q].key = RuleSetKey /\ loc[q].key \notin loc[q].gone
        BY <1>2, <3>2 DEF UpsertSet, CallsInv, Holds, HoldingSteps
      <4>. QED  BY <1>2, <3>2, <4>1, SaveIsTame DEF UpsertSet
    <3>. QED  BY <3>1, <3>2
  <2>. QED  BY <1>2, <2>1, ContinuesElse, Ends DEF UpsertSet, HoldingSteps
<1>3. ASSUME NEW q \in Calls, UpsertDelete(q) PROVE Sound
  <2>1. Tame(q)
    BY <1>3, ReadIsTame DEF UpsertDelete, tableVars
  <2>. QED  BY <1>3, <2>1, ContinuesElse DEF UpsertDelete, HoldingSteps
<1>4. ASSUME NEW q \in Calls, UpsertSave(q) PROVE Sound
  <2>1. Tame(q)
    BY <1>4, ReadIsTame DEF UpsertSave, tableVars
  <2>. QED  BY <1>4, <2>1, ContinuesElse DEF UpsertSave, HoldingSteps
<1>5. ASSUME NEW q \in Calls, NEW broken \in SUBSET Enforced, EvalItem(q, broken) PROVE Sound
  <2>1. Tame(q)
    BY <1>5, ReadIsTame DEF EvalItem, tableVars
  <2>. QED  BY <1>5, <2>1, BeginsElse DEF EvalItem, HoldingSteps
<1>6. ASSUME NEW q \in Calls, EvalSet(q) PROVE Sound
  <2>1. Tame(q)
    BY <1>6, ReadIsTame DEF EvalSet, tableVars
  <2>. QED  BY <1>6, <2>1, ContinuesElse, Ends DEF EvalSet, HoldingSteps
<1>7. ASSUME NEW q \in Calls, EvalRules(q) PROVE Sound
  <2>1. Tame(q)
    BY <1>7, ReadIsTame DEF EvalRules, tableVars
  <2>. QED  BY <1>7, <2>1, ContinuesElse DEF EvalRules, HoldingSteps
<1>8. ASSUME NEW q \in Calls, NEW k \in EvaluationKeys, EvalSave(q, k) PROVE Sound
  <2>1. Tame(q)
    BY <1>8, InsertIsTame DEF EvalSave
  <2>. QED  BY <1>8, <2>1, ContinuesElse DEF EvalSave, HoldingSteps
<1>. QED
  BY <1>1, <1>2, <1>3, <1>4, <1>5, <1>6, <1>7, <1>8, PublishIsSound DEF RuleNext

-----------------------------------------------------------------------------
(* A call that is cut short holds nothing, and leaves the tables alone.     *)
LEMMA CutIsSound == ASSUME NEW Q \in SUBSET Calls, CallsInv, Cut(Q) PROVE Sound
<1>1. Holds("idle", NoLocals)
  BY DEF Holds, HoldingSteps
<1>. QED  BY <1>1 DEF Cut, tableVars, CallsInv, Sound, NoneReturns

LEMMA Initially == AppInit(Parts) => CallsInv
<1>. SUFFICES ASSUME ServicesInit PROVE CallsInv
  BY DEF AppInit
<1>1. Holds("idle", NoLocals)
  BY DEF Holds, HoldingSteps
<1>. QED  BY <1>1 DEF ServicesInit, CallsInit, CallsInv

LEMMA AppStep == CallsInv /\ [AppNext]_appVars => Sound
<1>. SUFFICES ASSUME CallsInv, [AppNext]_appVars PROVE Sound
  OBVIOUS
<1>1. ASSUME ServicesNext PROVE Sound
  BY <1>1, TaskCalls, DocCalls, DayCalls, ItemCalls, AttachCalls, CommentCalls, CollabCalls,
     RuleCalls, CutIsSound DEF ServicesNext
<1>2. ASSUME UNCHANGED serviceVars PROVE Sound
  BY <1>2 DEF serviceVars, tableVars, callVars, CallsInv, Sound, NoneReturns
<1>. QED  BY <1>1, <1>2 DEF AppNext, appVars

(* save() inserts a row again that was deleted after it was read.  But no   *)
(* call, of any of these services, brings back a row that had been deleted  *)
(* when the call began: the look-up with which each of them begins fails.   *)
THEOREM DeletedStaysDeletedHolds == AppSpec => DeletedStaysDeleted
<1>1. CallsInv /\ [AppNext]_appVars => CallsInv' /\ [NoneReturns]_appVars
  BY AppStep DEF Sound
<1>2. AppSpec => []CallsInv
  BY Initially, <1>1, PTL DEF AppSpec
<1>. QED
  BY <1>1, <1>2, PTL DEF AppSpec, DeletedStaysDeleted, NoneReturns
-----------------------------------------------------------------------------
(* The reminders.  A run works through what was due when it began, and the  *)
(* jobs run once a day, so that a reminder bears the day on which its       *)
(* subject was due, unless that was changed later.                          *)

OfJob(j) == IF j = "travel" THEN Travels ELSE Stays

\* What the job of today has still to send.
Pending(j, s, m) == s \in run[j].todo \/ (run[j].subject = s /\ m \in run[j].members)

RunFacts(j) ==
  /\ ran[j] \in {today - 1, today}
  /\ ran[j] # today => run[j] = NoRun
  /\ run[j].todo \subseteq OfJob(j)
  /\ run[j].subject # Nothing => run[j].subject \in OfJob(j)
  /\ run[j].subject = Nothing => run[j].members = {}
  /\ run[j].members \subseteq Active
  /\ \A s \in OfJob(j) :
       (s \in run[j].todo \/ s = run[j].subject) /\ steady[s] <= today => PossiblyDue(s, today)

\* A reminder of s that m got on day d was due, unless s was changed after the run began.
Rightly(s, m, d) ==
  /\ m \in Active
  /\ d <= ran[Job(s)]
  /\ steady[s] <= d => PossiblyDue(s, d)

\* Since the last change of s, every run has reminded m of it, or has still to.
Complete(s, m) ==
  \A d \in steady[s]..today : SurelyDue(s, d) /\ (d = today => ran[Job(s)] = today) =>
    d \in reminders[s][m] \/ (d = today /\ Pending(Job(s), s, m))

RemindersInv ==
  /\ RemindersTypeOK
  /\ \A j \in Jobs : RunFacts(j)
  /\ \A s \in Subjects, m \in Everybody : \A d \in reminders[s][m] : Rightly(s, m, d)
  /\ fails = 0 => \A s \in Subjects, m \in Active : Complete(s, m)
-----------------------------------------------------------------------------
LEMMA JobsAndSubjects ==
  /\ \A j \in Jobs : \A s \in OfJob(j) : s \in Subjects /\ s # Nothing /\ Job(s) = j
  /\ \A s \in Subjects : Job(s) \in Jobs /\ s \in OfJob(Job(s)) /\ s # Nothing
BY RemindersAssumption DEF Jobs, OfJob, Subjects, Job

LEMMA ClockTyped ==
  ASSUME RemindersTypeOK, NEW d \in 0..LastDay + 1
  PROVE  /\ utcOffset[d] \in Int /\ -720 <= utcOffset[d] /\ utcOffset[d] <= 840
         /\ utcOffset[d] % 15 = 0
         /\ MaxDelay \in Int /\ 0 <= MaxDelay /\ MaxDelay < 15
<1>1. utcOffset \in Clocks
  BY DEF RemindersTypeOK
<1>2. utcOffset[d] \in -720..840 /\ utcOffset[d] % 15 = 0
  BY <1>1, RemindersAssumption
<1>3. MaxDelay \in 0..14
  BY RemindersAssumption
<1>. QED  BY <1>2, <1>3

\* Printed in UTC, 9 in the morning of tomorrow is tomorrow, or today further east.
LEMMA TravelDueToday ==
  ASSUME RemindersTypeOK, NEW delay \in 0..MaxDelay
  PROVE  TravelDue(delay) = {t \in Travels \cap standing : starts[t] = TravelDay(today)}
<1>. DEFINE o == utcOffset[today + 1]
<1>1. today \in Int /\ today + 1 \in 0..LastDay + 1
  BY RemindersAssumption DEF RemindersTypeOK
<1>2. /\ o \in Int /\ -720 <= o /\ o <= 840 /\ o % 15 = 0
      /\ delay \in Int /\ 0 <= delay /\ delay < 15
  BY <1>1, ClockTyped
<1>3. o <= 540 \/ o >= 555
  BY <1>2
<1>4. Instant(today + 1, 9 * Hour + delay) = 1440 * (today + 1) + 540 + delay - o
  <2>1. Day = 1440 /\ 9 * Hour = 540
    BY DEF Day, Hour
  <2>. QED  BY <1>1, <1>2, <2>1 DEF Instant
<1>5. UtcDay(Instant(today + 1, 9 * Hour + delay)) = TravelDay(today)
  <2>. HIDE DEF o
  <2>1. CASE o <= 540
    <3>1. (1440 * (today + 1) + 540 + delay - o) \div 1440 = today + 1
      BY <1>1, <1>2, <2>1
    <3>. QED  BY <1>4, <2>1, <3>1 DEF UtcDay, TravelDay, Day, Hour, o
  <2>2. CASE o >= 555
    <3>1. (1440 * (today + 1) + 540 + delay - o) \div 1440 = today
      BY <1>1, <1>2, <2>2
    <3>2. ~(o <= 540)
      BY <1>2, <2>2
    <3>. QED  BY <1>4, <3>1, <3>2 DEF UtcDay, TravelDay, Day, Hour, o
  <2>. QED  BY <1>3, <2>1, <2>2
<1>. QED  BY <1>5 DEF TravelDue

\* What a run must find, and what it may find.
Covers(j, due) ==
  /\ due \subseteq OfJob(j)
  /\ \A s \in due : PossiblyDue(s, today)
  /\ \A s \in OfJob(j) : SurelyDue(s, today) => s \in due

LEMMA TravelsFound ==
  ASSUME RemindersTypeOK, NEW delay \in 0..MaxDelay PROVE Covers("travel", TravelDue(delay))
BY TravelDueToday, RemindersAssumption DEF Covers, OfJob, PossiblyDue, SurelyDue

LEMMA BookingsFound ==
  ASSUME RemindersTypeOK, NEW delay \in 0..MaxDelay PROVE Covers("booking", BookingDue(delay))
<1>. DEFINE eight == Instant(today, 8 * Hour)
            now   == Instant(today, 8 * Hour + delay)
<1>1. /\ today \in Int /\ utcOffset[today] \in Int /\ delay \in Int
      /\ 0 <= delay /\ delay <= MaxDelay /\ MaxDelay \in Int
  BY ClockTyped, RemindersAssumption DEF RemindersTypeOK
<1>2. eight \in Int /\ now = eight + delay
  BY <1>1 DEF Instant, Hour, Day
<1>3. \A b \in Stays : starts[b] \in Int
  BY DEF RemindersTypeOK, Subjects
<1>. HIDE DEF eight, now
<1>4. BookingDue(delay) = {b \in Stays \cap standing : now <= starts[b] /\ starts[b] <= now + Day}
  BY DEF BookingDue, now
<1>5. \A b \in Stays : now <= starts[b] /\ starts[b] <= now + 1440 =>
        starts[b] - eight \in 0..1440 + MaxDelay
  BY <1>1, <1>2, <1>3
<1>6. \A b \in Stays : starts[b] - eight \in MaxDelay..1440 =>
        now <= starts[b] /\ starts[b] <= now + 1440
  BY <1>1, <1>2, <1>3
<1>7. Day = 1440
  BY DEF Day, Hour
<1>8. \A b \in Stays : b \notin Travels
  BY RemindersAssumption
<1>. QED  BY <1>4, <1>5, <1>6, <1>7, <1>8 DEF Covers, OfJob, PossiblyDue, SurelyDue, eight

\* A step that changes no subject and reminds nobody, on the same day.
LEMMA SameDay ==
  ASSUME RemindersInv,
         UNCHANGED <<today, utcOffset, standing, starts, changes, steady, reminders>>,
         ran' \in [Jobs -> -1..LastDay], run' \in [Jobs -> Run], fails' \in 0..MaxFails,
         \A j \in Jobs : RunFacts(j)' /\ ran'[j] >= ran[j],
         fails' = 0 => /\ fails = 0
                       /\ \A j \in Jobs : \A s \in OfJob(j), m \in Active :
                            SurelyDue(s, today) /\ ran'[j] = today
                              => (ran[j] = today /\ (Pending(j, s, m) => Pending(j, s, m)'))
                                 \/ Pending(j, s, m)'
  PROVE  RemindersInv'
<1>1. RemindersTypeOK'
  BY DEF RemindersInv, RemindersTypeOK
<1>2. \A s \in Subjects, d \in Int : PossiblyDue(s, d)' = PossiblyDue(s, d)
                                  /\ SurelyDue(s, d)' = SurelyDue(s, d)
  BY DEF PossiblyDue, SurelyDue, TravelDay, Instant
<1>3. ASSUME NEW s \in Subjects, NEW m \in Everybody, NEW d \in reminders'[s][m]
      PROVE  Rightly(s, m, d)'
  <2>1. Rightly(s, m, d) /\ d \in Int
    BY <1>3, RemindersAssumption DEF RemindersInv, RemindersTypeOK
  <2>2. ran'[Job(s)] >= ran[Job(s)] /\ ran'[Job(s)] \in Int /\ ran[Job(s)] \in Int
    BY JobsAndSubjects, RemindersAssumption DEF RemindersInv, RemindersTypeOK
  <2>. QED  BY <1>2, <2>1, <2>2 DEF Rightly
<1>4. ASSUME fails' = 0, NEW s \in Subjects, NEW m \in Active PROVE Complete(s, m)'
  <2>1. Complete(s, m)
    BY <1>4 DEF RemindersInv
  <2>2. Job(s) \in Jobs /\ s \in OfJob(Job(s))
    BY JobsAndSubjects
  <2>3. SurelyDue(s, today) /\ ran'[Job(s)] = today =>
          \/ ran[Job(s)] = today /\ (Pending(Job(s), s, m) => Pending(Job(s), s, m)')
          \/ Pending(Job(s), s, m)'
    BY <1>4, <2>2
  <2>. SUFFICES ASSUME NEW d \in steady[s]..today, SurelyDue(s, d),
                       d = today => ran'[Job(s)] = today
                PROVE  d \in reminders[s][m] \/ (d = today /\ Pending(Job(s), s, m)')
    BY <1>2, <2>2 DEF Complete
  <2>. QED  BY <2>1, <2>3 DEF Complete
<1>. QED  BY <1>1, <1>3, <1>4 DEF RemindersInv

\* The facts of a run that the step leaves alone.
LEMMA OtherRun ==
  ASSUME NEW j \in Jobs, RunFacts(j), run'[j] = run[j], ran'[j] = ran[j],
         UNCHANGED <<today, utcOffset, standing, starts, steady>>
  PROVE  RunFacts(j)'
BY DEF RunFacts, OfJob, PossiblyDue, TravelDay, Instant

LEMMA StartStep ==
  ASSUME RemindersInv, NEW j \in Jobs, NEW due, Covers(j, due), Start(j, due) PROVE RemindersInv'
<1>. RemindersTypeOK /\ \A k \in Jobs : RunFacts(k)
  BY DEF RemindersInv
<1>1. /\ run'[j] = [todo |-> due, subject |-> Nothing, members |-> {}]
      /\ run' \in [Jobs -> Run] /\ \A k \in Jobs : k # j => run'[k] = run[k] /\ ran'[k] = ran[k]
      /\ ran' = [ran EXCEPT ![j] = today] /\ ran[j] < today
      /\ UNCHANGED <<today, utcOffset, standing, starts, changes, steady, reminders, fails>>
  <2>1. due \subseteq Subjects
    BY JobsAndSubjects DEF Covers
  <2>2. [NoRun EXCEPT !.todo = due] \in Run
    BY <2>1 DEF Run, NoRun
  <2>. QED  BY <2>2 DEF Start, RemindersTypeOK, NoRun
<1>2. ran' \in [Jobs -> -1..LastDay] /\ ran'[j] = today /\ \A k \in Jobs : ran'[k] >= ran[k]
  BY <1>1, RemindersAssumption DEF RemindersTypeOK
<1>3. \A k \in Jobs : RunFacts(k)'
  <2>1. ASSUME NEW k \in Jobs, k # j PROVE RunFacts(k)'
    BY <1>1, <2>1, OtherRun
  <2>2. RunFacts(j)'
    <3>1. due \subseteq OfJob(j) /\ \A s \in due : PossiblyDue(s, today)'
      BY <1>1 DEF Covers, PossiblyDue, TravelDay, Instant
    <3>2. \A s \in OfJob(j) : s # Nothing
      BY JobsAndSubjects
    <3>. QED  BY <1>1, <1>2, <3>1, <3>2 DEF RunFacts, OfJob
  <2>. QED  BY <2>1, <2>2
<1>4. \A k \in Jobs : \A s \in OfJob(k), m \in Active :
        SurelyDue(s, today) /\ ran'[k] = today
          => (ran[k] = today /\ (Pending(k, s, m) => Pending(k, s, m)')) \/ Pending(k, s, m)'
  BY <1>1 DEF Covers, Pending
<1>. QED  BY <1>1, <1>2, <1>3, <1>4, SameDay DEF RemindersTypeOK

LEMMA LoadStep ==
  ASSUME RemindersInv, NEW j \in Jobs, NEW s \in Subjects, LoadMembers(j, s) PROVE RemindersInv'
<1>. RemindersTypeOK /\ \A k \in Jobs : RunFacts(k)
  BY DEF RemindersInv
<1>1. /\ run' = [run EXCEPT ![j] = [todo |-> run[j].todo \ {s}, subject |-> s, members |-> Active]]
      /\ UNCHANGED <<today, utcOffset, standing, starts, changes, steady, ran, reminders, fails>>
      /\ s \in run[j].todo /\ run[j].subject = Nothing /\ run[j] \in Run
  BY DEF LoadMembers, RemindersTypeOK
<1>2. run' \in [Jobs -> Run]
  BY <1>1, RemindersAssumption DEF RemindersTypeOK, Run
<1>3. \A k \in Jobs : RunFacts(k)'
  <2>1. ASSUME NEW k \in Jobs, k # j PROVE RunFacts(k)'
    BY <1>1, <2>1, OtherRun DEF RemindersTypeOK
  <2>2. s \in OfJob(j) /\ s # Nothing /\ ran[j] = today
    BY <1>1, JobsAndSubjects DEF RunFacts, NoRun
  <2>3. run'[j] = [todo |-> run[j].todo \ {s}, subject |-> s, members |-> Active]
    BY <1>1 DEF RemindersTypeOK
  <2>4. \A u \in OfJob(j) : PossiblyDue(u, today)' = PossiblyDue(u, today)
    BY <1>1 DEF PossiblyDue, TravelDay, Instant
  <2>5. RunFacts(j)'
    BY <1>1, <2>2, <2>3, <2>4 DEF RunFacts, OfJob
  <2>. QED  BY <2>1, <2>5
<1>4. \A k \in Jobs : \A u \in OfJob(k), m \in Active : Pending(k, u, m) => Pending(k, u, m)'
  <2>1. \A k \in Jobs : \A u \in OfJob(k) : u # Nothing
    BY JobsAndSubjects
  <2>. QED  BY <1>1, <2>1 DEF RemindersTypeOK, Pending
<1>5. \A k \in Jobs : ran'[k] >= ran[k]
  BY <1>1, RemindersAssumption DEF RemindersTypeOK
<1>. QED  BY <1>1, <1>2, <1>3, <1>4, <1>5, SameDay DEF RemindersTypeOK

LEMMA NextSubjectStep ==
  ASSUME RemindersInv, NEW j \in Jobs, NextSubject(j) PROVE RemindersInv'
<1>. RemindersTypeOK /\ \A k \in Jobs : RunFacts(k)
  BY DEF RemindersInv
<1>1. /\ run' = [run EXCEPT ![j].subject = Nothing]
      /\ UNCHANGED <<today, utcOffset, standing, starts, changes, steady, ran, reminders, fails>>
      /\ run[j].subject # Nothing /\ run[j].members = {} /\ run[j] \in Run
  BY DEF NextSubject, RemindersTypeOK
<1>2. run' \in [Jobs -> Run]
  BY <1>1 DEF RemindersTypeOK, Run
<1>3. \A k \in Jobs : RunFacts(k)'
  <2>1. ASSUME NEW k \in Jobs, k # j PROVE RunFacts(k)'
    BY <1>1, <2>1, OtherRun DEF RemindersTypeOK
  <2>2. ran[j] = today
    BY <1>1 DEF RunFacts, NoRun
  <2>3. /\ run'[j].todo = run[j].todo /\ run'[j].subject = Nothing
        /\ run'[j].members = run[j].members
    BY <1>1 DEF RemindersTypeOK, Run
  <2>4. \A u \in OfJob(j) : PossiblyDue(u, today)' = PossiblyDue(u, today) /\ u # Nothing
    BY <1>1, JobsAndSubjects DEF PossiblyDue, TravelDay, Instant
  <2>5. RunFacts(j)'
    BY <1>1, <2>2, <2>3, <2>4 DEF RunFacts, OfJob
  <2>. QED  BY <2>1, <2>5
<1>4. \A k \in Jobs : \A u \in OfJob(k), m \in Active : Pending(k, u, m) => Pending(k, u, m)'
  BY <1>1 DEF RemindersTypeOK, Pending, Run
<1>5. \A k \in Jobs : ran'[k] >= ran[k]
  BY <1>1, RemindersAssumption DEF RemindersTypeOK
<1>. QED  BY <1>1, <1>2, <1>3, <1>4, <1>5, SameDay DEF RemindersTypeOK

LEMMA FailStep == ASSUME RemindersInv, NEW j \in Jobs, JobFails(j) PROVE RemindersInv'
<1>. RemindersTypeOK /\ \A k \in Jobs : RunFacts(k)
  BY DEF RemindersInv
<1>1. /\ run' = [run EXCEPT ![j] = NoRun] /\ ran' = [ran EXCEPT ![j] = today]
      /\ UNCHANGED <<today, utcOffset, standing, starts, changes, steady, reminders>>
      /\ fails' = fails + 1 /\ fails < MaxFails
  BY DEF JobFails
<1>2. ran' \in [Jobs -> -1..LastDay] /\ run' \in [Jobs -> Run]
  BY <1>1 DEF RemindersTypeOK, Run, NoRun
<1>3. \A k \in Jobs : RunFacts(k)'
  <2>1. ASSUME NEW k \in Jobs, k # j PROVE RunFacts(k)'
    BY <1>1, <2>1, OtherRun DEF RemindersTypeOK
  <2>2. run'[j] = NoRun /\ ran'[j] = today
    BY <1>1 DEF RemindersTypeOK
  <2>3. \A u \in OfJob(j) : u # Nothing
    BY JobsAndSubjects
  <2>4. RunFacts(j)'
    BY <1>1, <2>2, <2>3 DEF RunFacts, OfJob, NoRun
  <2>. QED  BY <2>1, <2>4
<1>4. fails' \in 0..MaxFails /\ fails' # 0
  BY <1>1, RemindersAssumption DEF RemindersTypeOK
<1>5. \A k \in Jobs : ran'[k] >= ran[k]
  <2>1. \A k \in Jobs : ran[k] \in Int /\ (ran'[k] = ran[k] \/ ran'[k] = today) /\ ran[k] <= today
    BY <1>1, RemindersAssumption DEF RemindersTypeOK, RunFacts
  <2>. QED  BY <2>1, RemindersAssumption DEF RemindersTypeOK
<1>. QED  BY <1>1, <1>2, <1>3, <1>4, <1>5, SameDay

LEMMA RemindStep ==
  ASSUME RemindersInv, NEW j \in Jobs, NEW m \in Everybody, Remind(j, m) PROVE RemindersInv'
<1>. RemindersTypeOK /\ \A k \in Jobs : RunFacts(k)
  BY DEF RemindersInv
<1>. DEFINE s == run[j].subject
<1>1. /\ run' = [run EXCEPT ![j].members = run[j].members \ {m}]
      /\ reminders' = [reminders EXCEPT ![s][m] = reminders[s][m] \cup {today}]
      /\ UNCHANGED <<today, utcOffset, standing, starts, changes, steady, ran, fails>>
      /\ run[j] \in Run /\ m \in run[j].members
  BY DEF Remind, RemindersTypeOK
<1>2. /\ s \in OfJob(j) /\ s \in Subjects /\ Job(s) = j /\ m \in Active /\ ran[j] = today
      /\ steady[s] <= today => PossiblyDue(s, today)
  BY <1>1, JobsAndSubjects DEF RunFacts, NoRun
<1>3. /\ reminders' \in [Subjects -> [Everybody -> SUBSET (0..LastDay)]]
      /\ \A t \in Subjects, n \in Everybody : reminders[t][n] \subseteq reminders'[t][n]
      /\ \A t \in Subjects, n \in Everybody :
           t # s \/ n # m => reminders'[t][n] = reminders[t][n]
      /\ reminders'[s][m] = reminders[s][m] \cup {today}
  BY <1>1, <1>2 DEF RemindersTypeOK
<1>4. RemindersTypeOK'
  <2>1. run' \in [Jobs -> Run]
    BY <1>1 DEF RemindersTypeOK, Run
  <2>. QED  BY <1>1, <1>3, <2>1 DEF RemindersTypeOK
<1>5. \A t \in Subjects, d \in Int : PossiblyDue(t, d)' = PossiblyDue(t, d)
                                  /\ SurelyDue(t, d)' = SurelyDue(t, d)
  BY <1>1 DEF PossiblyDue, SurelyDue, TravelDay, Instant
<1>6. /\ run'[j].todo = run[j].todo /\ run'[j].subject = s
      /\ run'[j].members = run[j].members \ {m}
      /\ \A k \in Jobs : k # j => run'[k] = run[k]
  BY <1>1 DEF RemindersTypeOK, Run
<1>7. \A k \in Jobs : RunFacts(k)'
  <2>1. ASSUME NEW k \in Jobs, k # j PROVE RunFacts(k)'
    BY <1>1, <1>6, <2>1, OtherRun
  <2>2. \A u \in OfJob(j) : PossiblyDue(u, today)' = PossiblyDue(u, today)
    BY <1>1 DEF PossiblyDue, TravelDay, Instant
  <2>3. s # Nothing
    BY <1>2, JobsAndSubjects
  <2>4. RunFacts(j)'
    BY <1>1, <1>2, <1>6, <2>2, <2>3 DEF RunFacts, OfJob
  <2>. QED  BY <2>1, <2>4
<1>8. ASSUME NEW t \in Subjects, NEW n \in Everybody, NEW d \in reminders'[t][n]
      PROVE  Rightly(t, n, d)'
  <2>1. today \in Int /\ d \in Int
    BY <1>3, <1>8, RemindersAssumption DEF RemindersTypeOK
  <2>2. CASE d \in reminders[t][n]
    <3>1. Rightly(t, n, d)
      BY <2>2 DEF RemindersInv
    <3>. QED  BY <1>1, <1>5, <2>1, <3>1 DEF Rightly
  <2>3. CASE t = s /\ n = m /\ d = today
    BY <1>1, <1>2, <1>5, <2>1, <2>3 DEF Rightly
  <2>. QED  BY <1>3, <2>2, <2>3
<1>9. ASSUME fails' = 0, NEW t \in Subjects, NEW n \in Active PROVE Complete(t, n)'
  <2>1. Complete(t, n) /\ n \in Everybody
    BY <1>1, <1>9, RemindersAssumption DEF RemindersInv
  <2>2. Pending(Job(t), t, n) => Pending(Job(t), t, n)' \/ today \in reminders'[t][n]
    <3>1. CASE Job(t) # j
      BY <1>6, <3>1, JobsAndSubjects DEF Pending
    <3>2. CASE Job(t) = j
      <4>1. today \in reminders'[s][m]
        BY <1>3
      <4>. QED  BY <1>6, <3>2, <4>1 DEF Pending
    <3>. QED  BY <3>1, <3>2
  <2>. SUFFICES ASSUME NEW d \in steady[t]..today, SurelyDue(t, d),
                       d = today => ran[Job(t)] = today
                PROVE  d \in reminders'[t][n] \/ (d = today /\ Pending(Job(t), t, n)')
    BY <1>1, <1>5 DEF Complete
  <2>3. d \in reminders[t][n] \/ (d = today /\ Pending(Job(t), t, n))
    BY <2>1 DEF Complete
  <2>. QED  BY <1>3, <2>1, <2>2, <2>3
<1>. QED  BY <1>4, <1>7, <1>8, <1>9 DEF RemindersInv

(* A change after today's run began takes effect tomorrow, one before it    *)
(* today: no reminder that was sent, or is still to be sent, bears a day    *)
(* from then on.                                                            *)
LEMMA ChangeStep ==
  ASSUME RemindersInv, NEW s \in Subjects, NEW start \in Int, Change(s, start),
         standing' \in {standing \cup {s}, standing \ {s}}
  PROVE  RemindersInv'
<1>. RemindersTypeOK /\ \A k \in Jobs : RunFacts(k)
  BY DEF RemindersInv
<1>1. /\ starts' = [starts EXCEPT ![s] = start]
      /\ changes' = changes + 1 /\ changes < MaxChanges
      /\ steady' = [steady EXCEPT ![s] = IF ran[Job(s)] < today THEN today ELSE today + 1]
      /\ UNCHANGED <<today, utcOffset, ran, run, reminders, fails>>
  BY DEF Change
<1>2. today \in Int /\ 0 <= today /\ today <= LastDay /\ LastDay \in Int
  BY RemindersAssumption DEF RemindersTypeOK
<1>3. Job(s) \in Jobs /\ ran[Job(s)] \in {today - 1, today}
  BY JobsAndSubjects DEF RunFacts
<1>4. /\ steady'[s] = IF ran[Job(s)] = today THEN today + 1 ELSE today
      /\ steady' \in [Subjects -> 0..LastDay + 1]
  BY <1>1, <1>2, <1>3 DEF RemindersTypeOK
<1>5. RemindersTypeOK'
  BY <1>1, <1>4, RemindersAssumption DEF RemindersTypeOK
<1>6. ASSUME NEW u \in Subjects, u # s
      PROVE  /\ steady'[u] = steady[u]
             /\ \A d \in Int : PossiblyDue(u, d)' = PossiblyDue(u, d)
                            /\ SurelyDue(u, d)' = SurelyDue(u, d)
  <2>1. starts'[u] = starts[u] /\ steady'[u] = steady[u] /\ (u \in standing') = (u \in standing)
    BY <1>1, <1>6 DEF RemindersTypeOK
  <2>. QED  BY <1>1, <2>1 DEF PossiblyDue, SurelyDue, TravelDay, Instant
<1>7. ASSUME NEW j \in Jobs PROVE RunFacts(j)'
  <2>1. ASSUME NEW u \in OfJob(j), u \in run[j].todo \/ u = run[j].subject, steady'[u] <= today
        PROVE  PossiblyDue(u, today)'
    <3>1. u \in Subjects /\ Job(u) = j /\ u # Nothing
      BY JobsAndSubjects
    <3>2. CASE u = s
      <4>1. ran[j] = today
        BY <2>1, <3>1 DEF RunFacts, NoRun
      <4>. QED  BY <1>2, <1>4, <2>1, <3>1, <3>2, <4>1
    <3>3. CASE u # s
      BY <1>1, <1>2, <1>6, <2>1, <3>1, <3>3 DEF RunFacts
    <3>. QED  BY <3>2, <3>3
  <2>. QED  BY <1>1, <2>1 DEF RunFacts, OfJob
<1>8. ASSUME NEW u \in Subjects, NEW m \in Everybody, NEW d \in reminders'[u][m]
      PROVE  Rightly(u, m, d)'
  <2>1. Rightly(u, m, d) /\ d \in Int
    BY <1>1, RemindersAssumption DEF RemindersInv, RemindersTypeOK
  <2>2. CASE u = s
    BY <1>1, <1>2, <1>3, <1>4, <2>1, <2>2 DEF Rightly
  <2>3. CASE u # s
    BY <1>1, <1>6, <2>1, <2>3 DEF Rightly
  <2>. QED  BY <2>2, <2>3
<1>9. ASSUME fails' = 0, NEW u \in Subjects, NEW m \in Active PROVE Complete(u, m)'
  <2>1. Complete(u, m)
    BY <1>1, <1>9 DEF RemindersInv
  <2>2. Pending(Job(u), u, m)' = Pending(Job(u), u, m)
    BY <1>1 DEF Pending
  <2>. SUFFICES ASSUME NEW d \in steady'[u]..today, SurelyDue(u, d)',
                       d = today => ran[Job(u)] = today
                PROVE  d \in reminders[u][m] \/ (d = today /\ Pending(Job(u), u, m))
    BY <1>1, <2>2 DEF Complete
  <2>3. CASE u = s
    BY <1>2, <1>3, <1>4, <2>3
  <2>4. CASE u # s
    BY <1>2, <1>6, <2>1, <2>4 DEF Complete
  <2>. QED  BY <2>3, <2>4
<1>. QED  BY <1>5, <1>7, <1>8, <1>9 DEF RemindersInv

LEMMA NextDayStep == ASSUME RemindersInv, NextDay PROVE RemindersInv'
<1>. RemindersTypeOK /\ \A k \in Jobs : RunFacts(k)
  BY DEF RemindersInv
<1>1. /\ today' = today + 1 /\ today < LastDay
      /\ UNCHANGED <<utcOffset, standing, starts, changes, steady, ran, run, reminders, fails>>
      /\ \A k \in Jobs : ran[k] = today /\ run[k] = NoRun
  BY DEF NextDay
<1>2. today \in Int /\ today' \in 0..LastDay /\ today' # today
  BY <1>1, RemindersAssumption DEF RemindersTypeOK
<1>3. RemindersTypeOK'
  BY <1>1, <1>2 DEF RemindersTypeOK
<1>4. ASSUME NEW k \in Jobs PROVE RunFacts(k)'
  <2>1. \A u \in OfJob(k) : u # Nothing
    BY JobsAndSubjects
  <2>2. ran[k] = today /\ ran' = ran /\ run' = run /\ run[k] = NoRun
    BY <1>1
  <2>3. ran'[k] = today' - 1
    BY <1>1, <1>2, <2>2
  <2>4. OfJob(k)' = OfJob(k)
    BY DEF OfJob
  <2>. QED  BY <2>1, <2>2, <2>3, <2>4 DEF RunFacts, NoRun
<1>5. \A s \in Subjects, d \in Int : PossiblyDue(s, d)' = PossiblyDue(s, d)
                                  /\ SurelyDue(s, d)' = SurelyDue(s, d)
  BY <1>1 DEF PossiblyDue, SurelyDue, TravelDay, Instant
<1>6. ASSUME NEW s \in Subjects, NEW m \in Everybody, NEW d \in reminders'[s][m]
      PROVE  Rightly(s, m, d)'
  <2>1. Rightly(s, m, d) /\ d \in Int
    BY <1>1, RemindersAssumption DEF RemindersInv, RemindersTypeOK
  <2>. QED  BY <1>1, <1>5, <2>1 DEF Rightly
<1>7. ASSUME fails' = 0, NEW s \in Subjects, NEW m \in Active PROVE Complete(s, m)'
  <2>1. Complete(s, m) /\ steady[s] \in Int
    BY <1>1, <1>7, RemindersAssumption DEF RemindersInv, RemindersTypeOK
  <2>2. Job(s) \in Jobs /\ ~Pending(Job(s), s, m)
    BY <1>1, JobsAndSubjects DEF Pending, NoRun
  <2>. SUFFICES ASSUME NEW d \in steady[s]..today', SurelyDue(s, d),
                       d = today' => ran[Job(s)] = today'
                PROVE  d \in reminders[s][m]
    BY <1>1, <1>2, <1>5, <2>1 DEF Complete
  <2>3. d \in steady[s]..today
    BY <1>1, <1>2, <2>1, <2>2
  <2>. QED  BY <1>1, <2>1, <2>2, <2>3 DEF Complete
<1>. QED  BY <1>3, <1>4, <1>6, <1>7 DEF RemindersInv

LEMMA RemindersStep == RemindersInv /\ [RemindersNext]_remVars => RemindersInv'
<1>. SUFFICES ASSUME RemindersInv, [RemindersNext]_remVars PROVE RemindersInv'
  OBVIOUS
<1>. RemindersTypeOK
  BY DEF RemindersInv
<1>1. CASE SendTravelReminders
  <2>1. PICK delay \in 0..MaxDelay : Start("travel", TravelDue(delay))
    BY <1>1 DEF SendTravelReminders
  <2>. QED  BY <2>1, TravelsFound, StartStep DEF Jobs
<1>2. CASE SendBookingReminders
  <2>1. PICK delay \in 0..MaxDelay : Start("booking", BookingDue(delay))
    BY <1>2 DEF SendBookingReminders
  <2>. QED  BY <2>1, BookingsFound, StartStep DEF Jobs
<1>3. CASE \E t \in Travels, d \in StartDays : NewTrip(t, d)
  BY <1>3, ChangeStep, RemindersAssumption DEF NewTrip, Subjects
<1>4. CASE \E b \in Stays, moment \in StartMoments : SaveBooking(b, moment)
  BY <1>4, ChangeStep, RemindersAssumption DEF SaveBooking, Subjects
<1>5. CASE UNCHANGED remVars
  BY <1>5 DEF remVars, RemindersInv, RemindersTypeOK, RunFacts, OfJob, Rightly, Complete,
     Pending, PossiblyDue, SurelyDue, TravelDay, Instant
<1>. QED  BY <1>1, <1>2, <1>3, <1>4, <1>5, LoadStep, RemindStep, NextSubjectStep, FailStep,
     NextDayStep DEF RemindersNext

LEMMA RemindersInitially == RemindersInit => RemindersInv
<1>. SUFFICES ASSUME RemindersInit PROVE RemindersInv
  OBVIOUS
<1>1. RemindersTypeOK
  BY RemindersAssumption DEF RemindersInit, RemindersTypeOK, Run, NoRun
<1>2. \A j \in Jobs : RunFacts(j)
  <2>1. \A j \in Jobs : \A s \in OfJob(j) : s # Nothing
    BY JobsAndSubjects
  <2>. QED  BY <2>1 DEF RemindersInit, RunFacts, NoRun
<1>3. \A s \in Subjects, m \in Active : Complete(s, m)
  BY DEF RemindersInit, Complete, SurelyDue
<1>4. \A s \in Subjects, m \in Everybody : reminders[s][m] = {}
  BY DEF RemindersInit
<1>. QED  BY <1>1, <1>2, <1>3, <1>4 DEF RemindersInv

LEMMA RemindersInvariant == AppSpec => []RemindersInv
<1>1. AppInit(Parts) => RemindersInv
  BY RemindersInitially DEF AppInit
<1>2. [AppNext]_appVars => [RemindersNext]_remVars
  BY DEF AppNext, OthersNext, otherVars, appVars
<1>. QED  BY <1>1, <1>2, RemindersStep, PTL DEF AppSpec

\* On a clock that is not changed, a day's run begins a day after the last.
LEMMA UnchangedDays ==
  ASSUME RemindersTypeOK, ClockUnchanged, NEW d \in 0..LastDay + 1
  PROVE  Instant(d, 480) = 1440 * d + 480 - utcOffset[0] /\ utcOffset[0] \in Int
<1>1. 0 \in 0..LastDay + 1
  BY RemindersAssumption
<1>2. utcOffset[d] = utcOffset[0] /\ utcOffset[0] \in Int
  BY <1>1, ClockTyped DEF ClockUnchanged
<1>. QED  BY <1>2 DEF Instant, Day, Hour

\* The windows of two days have only the minutes after 8 in common.
LEMMA OneDay ==
  ASSUME RemindersTypeOK, ClockUnchanged, NEW s \in Subjects, s \in Stays => ~OnTheHour(s),
         NEW d \in 0..LastDay, NEW e \in 0..LastDay, PossiblyDue(s, d), PossiblyDue(s, e)
  PROVE  ~(d < e)
<1>. SUFFICES ASSUME d < e PROVE FALSE
  OBVIOUS
<1>1. d \in Int /\ e \in Int /\ {d, d + 1, e, e + 1} \subseteq 0..LastDay + 1
  BY RemindersAssumption
<1>2. CASE s \in Travels
  <2>1. TravelDay(d) = TravelDay(e)
    BY <1>2 DEF PossiblyDue
  <2>2. utcOffset[d + 1] = utcOffset[e + 1]
    BY <1>1 DEF ClockUnchanged
  <2>. QED  BY <1>1, <2>1, <2>2 DEF TravelDay
<1>3. CASE s \in Stays
  <2>. DEFINE x == starts[s]
              o == utcOffset[0]
  <2>1. x \in Int /\ MaxDelay \in Int
    BY RemindersAssumption DEF RemindersTypeOK
  <2>2. /\ Instant(d, 480) = 1440 * d + 480 - o /\ Instant(e, 480) = 1440 * e + 480 - o
        /\ o \in Int
    BY <1>1, UnchangedDays
  <2>3. x - Instant(d, 480) \in 0..1440 + MaxDelay /\ x - Instant(e, 480) \in 0..1440 + MaxDelay
    BY <1>3 DEF PossiblyDue, Hour, Day
  <2>4. x - Instant(e, 480) \notin 0..MaxDelay
    BY <1>1, <1>3 DEF OnTheHour, Hour
  <2>. QED  BY <1>1, <2>1, <2>2, <2>3, <2>4
<1>. QED  BY <1>2, <1>3 DEF Subjects

\* A booking that starts between two runs is in the window of one of the days.
LEMMA SomeDay ==
  ASSUME RemindersTypeOK, ClockUnchanged, NEW b \in Stays \cap standing, BetweenRuns(b)
  PROVE  \E d \in steady[b]..today : d < today /\ SurelyDue(b, d)
<1>. DEFINE x == starts[b] + utcOffset[0] - 480
            d == x \div 1440
<1>1. /\ 0 <= steady[b] /\ LastDay \in Int
      /\ starts[b] \in Int /\ MaxDelay \in Int /\ today \in Int /\ steady[b] \in Int
      /\ {0, today, steady[b]} \subseteq 0..LastDay + 1 /\ today <= LastDay
  BY RemindersAssumption DEF RemindersTypeOK, Subjects
<1>2. /\ Instant(today, 480) = 1440 * today + 480 - utcOffset[0]
      /\ Instant(steady[b], 480) = 1440 * steady[b] + 480 - utcOffset[0]
      /\ utcOffset[0] \in Int
  BY <1>1, UnchangedDays
<1>3. Instant(steady[b], 480) < starts[b] /\ starts[b] < Instant(today, 480)
  BY DEF BetweenRuns, Hour
<1>4. x \in Int /\ 1440 * steady[b] < x /\ x < 1440 * today
  BY <1>1, <1>2, <1>3
<1>5. d \in Int /\ 1440 * d <= x /\ x < 1440 * d + 1440
  BY <1>4
<1>. HIDE DEF d
<1>6. steady[b] <= d /\ d < today
  BY <1>1, <1>4, <1>5
<1>7. d \in 0..LastDay + 1
  BY <1>1, <1>5, <1>6
<1>8. Instant(d, 480) = 1440 * d + 480 - utcOffset[0]
  BY <1>7, UnchangedDays
<1>9. starts[b] - Instant(d, 480) \notin 0..MaxDelay
  BY <1>7 DEF BetweenRuns, OnTheHour, Hour
<1>10. starts[b] - Instant(d, 480) \in MaxDelay..1440
  BY <1>1, <1>2, <1>5, <1>8, <1>9
<1>11. SurelyDue(b, d)
  BY <1>10, RemindersAssumption DEF SurelyDue, Hour, Day
<1>. QED  BY <1>1, <1>5, <1>6, <1>11

(* Trips and bookings come and change at any moment, in every time zone,    *)
(* also over a change of the clock: what is sent by runs that began after   *)
(* the last change is right, and as long as no run fails nobody active is   *)
(* left out by a run that must find the booking.  On a clock that is not    *)
(* changed, nobody is then reminded twice, or never, but of bookings that   *)
(* start in the minutes after 8.                                            *)
THEOREM RemindedOnceHolds == AppSpec => []RemindedOnce
<1>1. ASSUME RemindersInv PROVE RemindedOnce
  <2>. SUFFICES ASSUME NEW s \in Subjects, NEW m \in Everybody
                PROVE
                  LET days == {d \in reminders[s][m] : d >= steady[s]} IN
                  /\ m \notin Active => reminders[s][m] = {}
                  /\ \A d \in days : PossiblyDue(s, d)
                  /\ \A d, e \in days : d # e => ~ClockUnchanged \/ (s \in Stays /\ OnTheHour(s))
                  /\ m \in Active /\ fails = 0 =>
                       /\ \A d \in steady[s]..today :
                            SurelyDue(s, d) /\ RunOver(Job(s), d) => d \in reminders[s][m]
                       /\ s \in Stays \cap standing /\ ClockUnchanged /\ BetweenRuns(s)
                            => days # {}
    BY DEF RemindedOnce
  <2>. DEFINE days == {d \in reminders[s][m] : d >= steady[s]}
  <2>. RemindersTypeOK
    BY <1>1 DEF RemindersInv
  <2>0. /\ \A d \in reminders[s][m] : Rightly(s, m, d) /\ d \in 0..LastDay
        /\ steady[s] \in Int /\ today \in Int /\ LastDay \in Int
    BY <1>1, RemindersAssumption DEF RemindersInv, RemindersTypeOK
  <2>1. m \notin Active => reminders[s][m] = {}
    BY <2>0 DEF Rightly
  <2>2. \A d \in days : PossiblyDue(s, d) /\ d \in 0..LastDay /\ d \in Int
    BY <2>0 DEF Rightly
  <2>3. ASSUME ClockUnchanged, s \in Stays => ~OnTheHour(s), NEW d \in days, NEW e \in days
        PROVE  d = e
    BY <2>2, <2>3, OneDay
  <2>4. ASSUME m \in Active, fails = 0, NEW d \in steady[s]..today, SurelyDue(s, d),
               RunOver(Job(s), d)
        PROVE  d \in reminders[s][m]
    <3>1. Complete(s, m)
      BY <1>1, <2>4 DEF RemindersInv
    <3>2. d = today => ran[Job(s)] = today /\ ~Pending(Job(s), s, m)
      BY <2>0, <2>4, JobsAndSubjects DEF RunOver, Pending, NoRun
    <3>. QED  BY <2>4, <3>1, <3>2 DEF Complete
  <2>5. ASSUME m \in Active, fails = 0, s \in Stays \cap standing, ClockUnchanged, BetweenRuns(s)
        PROVE  days # {}
    <3>1. PICK d \in steady[s]..today : d < today /\ SurelyDue(s, d)
      BY <2>5, SomeDay
    <3>2. d \in reminders[s][m]
      BY <2>4, <2>5, <3>1 DEF RunOver
    <3>. QED  BY <2>0, <3>1, <3>2
  <2>. HIDE DEF days
  <2>. QED  BY <2>1, <2>2, <2>3, <2>4, <2>5 DEF days
<1>. QED  BY <1>1, RemindersInvariant, PTL
-----------------------------------------------------------------------------
(* What each step of a call does, whatever the part.  Until calls overlap   *)
(* or one is cut short, the call that moves is the only one under way.      *)

Fields == {"op", "key", "copy", "input", "gone"}

OneBusy == \A p \in Calls, q \in Calls : pc[p] # "idle" /\ pc[q] # "idle" => p = q

Alone(q) == \A p \in Calls : p # q => pc[p] = "idle"

StepsTyped == pc = [q \in Calls |-> pc[q]] /\ disturbed \in BOOLEAN

LocalsInv ==
  /\ StepsTyped
  /\ DOMAIN pc = Calls /\ DOMAIN loc = Calls
  /\ \A q \in Calls : DOMAIN loc[q] = Fields
  /\ cuts \in 0..MaxCuts
  /\ ~disturbed => OneBusy

Moved(q, from, to) ==
  /\ LocalsInv'
  /\ pc[q] = from /\ pc'[q] = to
  /\ \A p \in Calls : p # q => pc'[p] = pc[p] /\ loc'[p] = loc[p]
  /\ cuts' = cuts
  /\ ~disturbed' => ~disturbed /\ Alone(q)

Holding(q, op, key, copy, input) ==
  /\ loc'[q].op = op /\ loc'[q].key = key /\ loc'[q].copy = copy /\ loc'[q].input = input
  /\ loc'[q].gone = IF pc[q] = "idle" THEN Gone ELSE loc[q].gone

Keeps(q) == Holding(q, loc[q].op, loc[q].key, loc[q].copy, loc[q].input)

LEMMA Started ==
  ASSUME LocalsInv, NEW q \in Calls, NEW step, NEW c, DOMAIN c = Fields, Begin(q, step, c)
  PROVE  Moved(q, "idle", step) /\ Holding(q, c.op, c.key, c.copy, c.input)
<1>0. StepsTyped'
  BY DEF Begin, LocalsInv, StepsTyped
<1>1. /\ pc[q] = "idle" /\ DOMAIN pc' = Calls /\ DOMAIN loc' = Calls
      /\ pc'[q] = step /\ loc'[q] = [c EXCEPT !.gone = Gone]
      /\ \A p \in Calls : p # q => pc'[p] = pc[p] /\ loc'[p] = loc[p]
      /\ cuts' = cuts
  BY DEF Begin, LocalsInv
<1>2. ~disturbed' => ~disturbed /\ Alone(q)
  BY DEF Begin, Alone, Quiescent
<1>3. DOMAIN loc'[q] = Fields /\ Holding(q, c.op, c.key, c.copy, c.input)
  BY <1>1 DEF Holding, Fields
<1>4. ~disturbed' => OneBusy'
  BY <1>1, <1>2 DEF Alone, OneBusy
<1>. QED  BY <1>0, <1>1, <1>2, <1>3, <1>4 DEF Moved, LocalsInv

LEMMA Went ==
  ASSUME LocalsInv, NEW q \in Calls, pc[q] # "idle", NEW step, NEW c, DOMAIN c = Fields,
         GoWith(q, step, c)
  PROVE  Moved(q, pc[q], step) /\ loc'[q] = c
<1>0. StepsTyped'
  BY DEF GoWith, LocalsInv, StepsTyped
<1>1. /\ DOMAIN pc' = Calls /\ DOMAIN loc' = Calls /\ pc'[q] = step /\ loc'[q] = c
      /\ \A p \in Calls : p # q => pc'[p] = pc[p] /\ loc'[p] = loc[p]
      /\ cuts' = cuts /\ disturbed' = disturbed
  BY DEF GoWith, LocalsInv
<1>2. ~disturbed => Alone(q)
  BY DEF LocalsInv, OneBusy, Alone
<1>3. ~disturbed' => OneBusy'
  BY <1>1, <1>2 DEF Alone, OneBusy
<1>. QED  BY <1>0, <1>1, <1>2, <1>3 DEF Moved, LocalsInv

LEMMA WentOn ==
  ASSUME LocalsInv, NEW q \in Calls, pc[q] # "idle", NEW step, GoWith(q, step, loc[q])
  PROVE  Moved(q, pc[q], step) /\ Keeps(q)
BY Went DEF LocalsInv, Keeps, Holding

LEMMA NoLocalsFields == DOMAIN NoLocals = Fields
BY DEF NoLocals, Fields

Ended(q) == Moved(q, pc[q], "idle") /\ loc'[q] = NoLocals

LEMMA EndsCall ==
  ASSUME LocalsInv, NEW q \in Calls, pc[q] # "idle", End(q) PROVE Ended(q)
BY Went, NoLocalsFields DEF End, Ended

LEMMA Published ==
  ASSUME LocalsInv, NEW q \in Calls, NEW step, step # "idle", Publish(q, step)
  PROVE  /\ Ended(q) /\ pc[q] = step /\ UNCHANGED <<row, used>>
         /\ told' = [told EXCEPT ![loc[q].key] = [type |-> loc[q].op, row |-> loc[q].copy]]
BY EndsCall DEF Publish

Same == UNCHANGED <<row, used>>

-----------------------------------------------------------------------------
(* Tasks.                                                                   *)

(* A fault ends some calls where they are.                                  *)
LEMMA CutDoes ==
  ASSUME LocalsInv, NEW Q \in SUBSET Calls, Cut(Q)
  PROVE  /\ LocalsInv' /\ disturbed' /\ cuts' # 0 /\ UNCHANGED tableVars
         /\ \A p \in Calls : \/ (pc'[p] = pc[p] /\ loc'[p] = loc[p])
                            \/ (pc'[p] = "idle" /\ loc'[p] = NoLocals)
<1>0. StepsTyped'
  BY DEF Cut, StepsTyped
<1>1. /\ DOMAIN pc' = Calls /\ DOMAIN loc' = Calls /\ disturbed'
      /\ \A p \in Calls : \/ (pc'[p] = pc[p] /\ loc'[p] = loc[p])
                         \/ (pc'[p] = "idle" /\ loc'[p] = NoLocals)
  BY DEF Cut
<1>2. cuts' \in 0..MaxCuts /\ cuts' # 0
  BY DEF Cut, LocalsInv
<1>3. UNCHANGED tableVars
  BY DEF Cut
<1>. QED  BY <1>0, <1>1, <1>2, <1>3, NoLocalsFields DEF LocalsInv

LEMMA LocalsInit == CallsInit => LocalsInv
<1>. SUFFICES ASSUME CallsInit PROVE LocalsInv
  OBVIOUS
<1>0. pc = [q \in Calls |-> "idle"] /\ disturbed = FALSE
  BY DEF CallsInit
<1>1. /\ DOMAIN pc = Calls /\ DOMAIN loc = Calls /\ cuts \in 0..MaxCuts
      /\ \A q \in Calls : pc[q] = "idle" /\ loc[q] = NoLocals
  BY DEF CallsInit
<1>2. StepsTyped
  BY <1>0 DEF StepsTyped
<1>. QED  BY <1>1, <1>2, NoLocalsFields DEF LocalsInv, OneBusy
-----------------------------------------------------------------------------
(* Tasks.                                                                   *)
LEMMA TaskCreateDoes ==
  ASSUME LocalsInv, NEW q \in Calls, NEW k \in TaskKeys, TaskCreate(q, k)
  PROVE  /\ Moved(q, "idle", "task.publish") /\ Holding(q, "TASK_CREATED", k, [status |-> "PENDING"], None)
         /\ Insert(k, [status |-> "PENDING"])
         /\ UNCHANGED <<told, turned>>
<1>. DEFINE c == [NoLocals EXCEPT !.op = "TASK_CREATED", !.key = k, !.copy = [status |-> "PENDING"]]
<1>1. Begin(q, "task.publish", c) /\ Insert(k, [status |-> "PENDING"]) /\ UNCHANGED <<told, turned>>
  BY DEF TaskCreate, tableVars, Same
<1>2. /\ DOMAIN c = Fields /\ c.op = "TASK_CREATED" /\ c.key = k
      /\ c.copy = [status |-> "PENDING"] /\ c.input = None
  BY DEF NoLocals, Fields
<1>. HIDE DEF c
<1>. QED  BY <1>1, <1>2, Started DEF Same

LEMMA TaskFindDoes ==
  ASSUME LocalsInv, NEW q \in Calls, NEW k, NEW input, TaskFind(q, k, input)
  PROVE  /\ Moved(q, "idle", "task.save") /\ Holding(q, "TASK_UPDATED", k, row[k], input)
         /\ row[k] # None
         /\ Same
         /\ UNCHANGED <<told, turned>>
<1>. DEFINE c == [NoLocals EXCEPT !.op = "TASK_UPDATED", !.key = k, !.input = input, !.copy = row[k]]
<1>1. Begin(q, "task.save", c) /\ row[k] # None /\ Same /\ UNCHANGED <<told, turned>>
  BY DEF TaskFind, tableVars, Same
<1>2. /\ DOMAIN c = Fields /\ c.op = "TASK_UPDATED" /\ c.key = k
      /\ c.copy = row[k] /\ c.input = input
  BY DEF NoLocals, Fields
<1>. HIDE DEF c
<1>. QED  BY <1>1, <1>2, Started DEF Same

LEMMA TaskSaveDoes ==
  ASSUME LocalsInv, NEW q \in Calls, TaskSave(q)
  PROVE  LET l == loc[q]
             task == IF l.input = "keep" THEN l.copy ELSE [status |-> l.input]
             op == IF Completed(task) /\ ~Completed(l.copy) THEN "TASK_COMPLETED" ELSE l.op
         IN /\ Moved(q, "task.save", "task.publish") /\ Holding(q, op, l.key, task, l.input)
            /\ SaveBack(l.key, task) /\ Record(l.key, task)
            /\ UNCHANGED told
<1>. DEFINE l == loc[q]
            task == IF l.input = "keep" THEN l.copy ELSE [status |-> l.input]
            op == IF Completed(task) /\ ~Completed(l.copy) THEN "TASK_COMPLETED" ELSE l.op
            c == [l EXCEPT !.copy = task,
                           !.op = IF Completed(task) /\ ~Completed(l.copy) THEN "TASK_COMPLETED" ELSE @]
<1>1. /\ pc[q] = "task.save" /\ GoWith(q, "task.publish", c)
      /\ SaveBack(l.key, task) /\ Record(l.key, task) /\ UNCHANGED told
  BY DEF TaskSave
<1>. HIDE DEF task
<1>2. /\ DOMAIN c = Fields /\ c.gone = l.gone /\ c.op = op /\ c.key = l.key
      /\ c.copy = task /\ c.input = l.input
  BY DEF LocalsInv, Fields
<1>. HIDE DEF c
<1>3. Moved(q, "task.save", "task.publish") /\ Holding(q, op, l.key, task, l.input)
  BY <1>1, <1>2, Went DEF Holding
<1>. QED  BY <1>1, <1>3 DEF task

LEMMA TaskFindDoomedDoes ==
  ASSUME LocalsInv, NEW q \in Calls, NEW k, TaskFindDoomed(q, k)
  PROVE  /\ Moved(q, "idle", "task.remove") /\ Holding(q, "TASK_DELETED", k, None, None)
         /\ row[k] # None
         /\ Same
         /\ UNCHANGED <<told, turned>>
<1>. DEFINE c == [NoLocals EXCEPT !.op = "TASK_DELETED", !.key = k]
<1>1. Begin(q, "task.remove", c) /\ row[k] # None /\ Same /\ UNCHANGED <<told, turned>>
  BY DEF TaskFindDoomed, tableVars, Same
<1>2. /\ DOMAIN c = Fields /\ c.op = "TASK_DELETED" /\ c.key = k
      /\ c.copy = None /\ c.input = None
  BY DEF NoLocals, Fields
<1>. HIDE DEF c
<1>. QED  BY <1>1, <1>2, Started DEF Same

LEMMA TaskRemoveDoes ==
  ASSUME LocalsInv, NEW q \in Calls, TaskRemove(q)
  PROVE  /\ Moved(q, "task.remove", "task.publish") /\ Keeps(q)
         /\ RemoveRow(loc[q].key) /\ Record(loc[q].key, None)
         /\ UNCHANGED told
BY WentOn DEF TaskRemove, tableVars, Same

-----------------------------------------------------------------------------
(* Documents.                                                               *)
LEMMA DocUploadDoes ==
  ASSUME LocalsInv, NEW q \in Calls, NEW k \in DocKeys, NEW category, DocUpload(q, k, category)
  PROVE  /\ Moved(q, "idle", "doc.save") /\ Holding(q, "DOCUMENT_UPLOADED", k, [category |-> category], None)
         /\ stored' = stored \cup {k}
         /\ Same
         /\ UNCHANGED told
<1>. DEFINE c == [NoLocals EXCEPT !.op = "DOCUMENT_UPLOADED", !.key = k, !.copy = [category |-> category]]
<1>1. Begin(q, "doc.save", c) /\ stored' = stored \cup {k} /\ Same /\ UNCHANGED told
  BY DEF DocUpload, tableVars, Same
<1>2. /\ DOMAIN c = Fields /\ c.op = "DOCUMENT_UPLOADED" /\ c.key = k
      /\ c.copy = [category |-> category] /\ c.input = None
  BY DEF NoLocals, Fields
<1>. HIDE DEF c
<1>. QED  BY <1>1, <1>2, Started DEF Same

LEMMA DocSaveDoes ==
  ASSUME LocalsInv, NEW q \in Calls, DocSave(q)
  PROVE  /\ Moved(q, "doc.save", "doc.publish") /\ Keeps(q)
         /\ Insert(loc[q].key, loc[q].copy)
         /\ UNCHANGED <<told, stored>>
BY WentOn DEF DocSave, tableVars, Same

LEMMA DocFindDoes ==
  ASSUME LocalsInv, NEW q \in Calls, NEW k, NEW input, DocFind(q, k, input)
  PROVE  /\ Moved(q, "idle", "doc.update") /\ Holding(q, "DOCUMENT_UPDATED", k, row[k], input)
         /\ row[k] # None
         /\ Same
         /\ UNCHANGED <<told, stored>>
<1>. DEFINE c == [NoLocals EXCEPT !.op = "DOCUMENT_UPDATED", !.key = k, !.copy = row[k], !.input = input]
<1>1. Begin(q, "doc.update", c) /\ row[k] # None /\ Same /\ UNCHANGED <<told, stored>>
  BY DEF DocFind, tableVars, Same
<1>2. /\ DOMAIN c = Fields /\ c.op = "DOCUMENT_UPDATED" /\ c.key = k
      /\ c.copy = row[k] /\ c.input = input
  BY DEF NoLocals, Fields
<1>. HIDE DEF c
<1>. QED  BY <1>1, <1>2, Started DEF Same

LEMMA DocUpdateDoes ==
  ASSUME LocalsInv, NEW q \in Calls, DocUpdate(q)
  PROVE  LET l == loc[q]
             doc == IF l.input = "keep" THEN l.copy ELSE [category |-> l.input]
         IN /\ Moved(q, "doc.update", "doc.publish") /\ Holding(q, l.op, l.key, doc, l.input)
            /\ SaveBack(l.key, doc)
            /\ UNCHANGED <<told, stored>>
<1>. DEFINE l == loc[q]
            doc == IF l.input = "keep" THEN l.copy ELSE [category |-> l.input]
            c == [l EXCEPT !.copy = doc]
<1>1. /\ pc[q] = "doc.update" /\ GoWith(q, "doc.publish", c)
      /\ SaveBack(l.key, doc) /\ UNCHANGED <<told, stored>>
  BY DEF DocUpdate
<1>. HIDE DEF doc
<1>2. /\ DOMAIN c = Fields /\ c.gone = l.gone /\ c.op = l.op /\ c.key = l.key
      /\ c.copy = doc /\ c.input = l.input
  BY DEF LocalsInv, Fields
<1>. HIDE DEF c
<1>3. Moved(q, "doc.update", "doc.publish") /\ Holding(q, l.op, l.key, doc, l.input)
  BY <1>1, <1>2, Went DEF Holding
<1>. QED  BY <1>1, <1>3 DEF doc

LEMMA DocFindDoomedDoes ==
  ASSUME LocalsInv, NEW q \in Calls, NEW k, DocFindDoomed(q, k)
  PROVE  /\ Moved(q, "idle", "doc.object") /\ Holding(q, "DOCUMENT_DELETED", k, None, None)
         /\ row[k] # None
         /\ Same
         /\ UNCHANGED <<told, stored>>
<1>. DEFINE c == [NoLocals EXCEPT !.op = "DOCUMENT_DELETED", !.key = k]
<1>1. Begin(q, "doc.object", c) /\ row[k] # None /\ Same /\ UNCHANGED <<told, stored>>
  BY DEF DocFindDoomed, tableVars, Same
<1>2. /\ DOMAIN c = Fields /\ c.op = "DOCUMENT_DELETED" /\ c.key = k
      /\ c.copy = None /\ c.input = None
  BY DEF NoLocals, Fields
<1>. HIDE DEF c
<1>. QED  BY <1>1, <1>2, Started DEF Same

LEMMA DocDeleteObjectDoes ==
  ASSUME LocalsInv, NEW q \in Calls, DocDeleteObject(q)
  PROVE  /\ Moved(q, "doc.object", "doc.remove") /\ Keeps(q)
         /\ stored' = stored \ {loc[q].key} /\ Same
         /\ UNCHANGED told
BY WentOn DEF DocDeleteObject, tableVars, Same

LEMMA DocRemoveDoes ==
  ASSUME LocalsInv, NEW q \in Calls, DocRemove(q)
  PROVE  /\ Moved(q, "doc.remove", "doc.publish") /\ Keeps(q)
         /\ RemoveRow(loc[q].key)
         /\ UNCHANGED <<told, stored>>
BY WentOn DEF DocRemove, tableVars, Same

-----------------------------------------------------------------------------
(* Days, items and comments.                                                *)
LEMMA DayFindDoes ==
  ASSUME LocalsInv, NEW q \in Calls, NEW date, NEW index, DayFind(q, date, index)
  PROVE  LET day == [date |-> date, index |-> IF index = None THEN NextIndex ELSE index]
         IN /\ Moved(q, "idle", "day.save")
            /\ Holding(q, "ITINERARY_DAY_CREATED", None, day, None)
            /\ Same /\ UNCHANGED told
<1>. DEFINE day == [date |-> date, index |-> IF index = None THEN NextIndex ELSE index]
            c == [NoLocals EXCEPT !.op = "ITINERARY_DAY_CREATED", !.copy = day]
<1>1. Begin(q, "day.save", c) /\ Same /\ UNCHANGED told
  BY DEF DayFind, tableVars, Same
<1>. HIDE DEF day
<1>2. /\ DOMAIN c = Fields /\ c.op = "ITINERARY_DAY_CREATED" /\ c.key = None
      /\ c.copy = day /\ c.input = None
  BY DEF NoLocals, Fields
<1>. HIDE DEF c
<1>3. Moved(q, "idle", "day.save") /\ Holding(q, "ITINERARY_DAY_CREATED", None, day, None)
  BY <1>1, <1>2, Started
<1>. QED  BY <1>1, <1>3 DEF day

LEMMA DaySaveDoes ==
  ASSUME LocalsInv, NEW q \in Calls, NEW k \in DayKeys, DaySave(q, k)
  PROVE  /\ \/ /\ Moved(q, "day.save", "day.publish")
               /\ Holding(q, loc[q].op, k, loc[q].copy, loc[q].input)
               /\ Insert(k, loc[q].copy)
            \/ pc[q] = "day.save" /\ Ended(q) /\ Same
         /\ UNCHANGED told
<1>. DEFINE c == [loc[q] EXCEPT !.key = k]
<1>1. /\ pc[q] = "day.save" /\ UNCHANGED told
      /\ \/ GoWith(q, "day.publish", c) /\ Insert(k, loc[q].copy)
         \/ End(q) /\ Same
  BY DEF DaySave, Same
<1>2. /\ DOMAIN c = Fields /\ c.gone = loc[q].gone /\ c.op = loc[q].op /\ c.key = k
      /\ c.copy = loc[q].copy /\ c.input = loc[q].input
  BY DEF LocalsInv, Fields
<1>. HIDE DEF c
<1>. QED  BY <1>1, <1>2, Went, EndsCall DEF Holding

LEMMA ItemFindDayDoes ==
  ASSUME LocalsInv, NEW q \in Calls, NEW day, ItemFindDay(q, day)
  PROVE  /\ Moved(q, "idle", "item.save") /\ Holding(q, "ITINERARY_ITEM_CREATED", None, [day |-> day, booking |-> None], None)
         /\ day \in Days \cup {None}
         /\ Same
         /\ UNCHANGED told
<1>. DEFINE c == [NoLocals EXCEPT !.op = "ITINERARY_ITEM_CREATED", !.copy = [day |-> day, booking |-> None]]
<1>1. Begin(q, "item.save", c) /\ day \in Days \cup {None} /\ Same /\ UNCHANGED told
  BY DEF ItemFindDay, tableVars, Same
<1>2. /\ DOMAIN c = Fields /\ c.op = "ITINERARY_ITEM_CREATED" /\ c.key = None
      /\ c.copy = [day |-> day, booking |-> None] /\ c.input = None
  BY DEF NoLocals, Fields
<1>. HIDE DEF c
<1>. QED  BY <1>1, <1>2, Started DEF Same

LEMMA ItemSaveDoes ==
  ASSUME LocalsInv, NEW q \in Calls, NEW k \in ItemKeys, ItemSave(q, k)
  PROVE  /\ Moved(q, "item.save", "item.publish") /\ Holding(q, loc[q].op, k, loc[q].copy, loc[q].input)
         /\ Insert(k, loc[q].copy)
         /\ UNCHANGED told
<1>. DEFINE c == [loc[q] EXCEPT !.key = k]
<1>1. /\ pc[q] = "item.save" /\ GoWith(q, "item.publish", c)
      /\ Insert(k, loc[q].copy) /\ UNCHANGED told
  BY DEF ItemSave, tableVars, Same
<1>2. /\ DOMAIN c = Fields /\ c.gone = loc[q].gone /\ c.op = loc[q].op /\ c.key = k
      /\ c.copy = loc[q].copy /\ c.input = loc[q].input
  BY DEF LocalsInv, Fields
<1>. HIDE DEF c
<1>. QED  BY <1>1, <1>2, Went DEF Holding

LEMMA ItemFindDoes ==
  ASSUME LocalsInv, NEW q \in Calls, NEW k, NEW input, ItemFind(q, k, input)
  PROVE  /\ Moved(q, "idle", IF input \in DayKeys THEN "item.day" ELSE "item.update") /\ Holding(q, "ITINERARY_ITEM_UPDATED", k, row[k], input)
         /\ row[k] # None
         /\ Same
         /\ UNCHANGED told
<1>. DEFINE c == [NoLocals EXCEPT !.op = "ITINERARY_ITEM_UPDATED", !.key = k, !.copy = row[k], !.input = input]
<1>1. Begin(q, IF input \in DayKeys THEN "item.day" ELSE "item.update", c) /\ row[k] # None /\ Same /\ UNCHANGED told
  BY DEF ItemFind, tableVars, Same
<1>2. /\ DOMAIN c = Fields /\ c.op = "ITINERARY_ITEM_UPDATED" /\ c.key = k
      /\ c.copy = row[k] /\ c.input = input
  BY DEF NoLocals, Fields
<1>. HIDE DEF c
<1>. QED  BY <1>1, <1>2, Started DEF Same

LEMMA ItemDayDoes ==
  ASSUME LocalsInv, NEW q \in Calls, ItemDay(q)
  PROVE  /\ \/ Moved(q, "item.day", "item.update") /\ Keeps(q) /\ loc[q].input \in Days
            \/ pc[q] = "item.day" /\ Ended(q)
         /\ Same /\ UNCHANGED told
BY Went, EndsCall DEF ItemDay, Fields, LocalsInv, Keeps, Holding, tableVars, Same

LEMMA ItemUpdateDoes ==
  ASSUME LocalsInv, NEW q \in Calls, ItemUpdate(q)
  PROVE  LET l == loc[q]
             wanted == Wanted(l.copy, l.input)
             skipped == l.input = None /\ row[l.key] # None
         IN /\ Moved(q, "item.update", "item.publish") /\ Holding(q, l.op, l.key, wanted, l.input)
            /\ SaveBack(l.key, IF skipped THEN [wanted EXCEPT !.day = row[l.key].day] ELSE wanted)
            /\ UNCHANGED told
<1>. DEFINE l == loc[q]
            wanted == Wanted(l.copy, l.input)
            c == [l EXCEPT !.copy = wanted]
<1>1. pc[q] = "item.update" /\ GoWith(q, "item.publish", c)
  BY DEF ItemUpdate
<1>2. /\ DOMAIN c = Fields /\ c.gone = l.gone /\ c.op = l.op /\ c.key = l.key
      /\ c.copy = wanted /\ c.input = l.input
  BY DEF LocalsInv, Fields
<1>. HIDE DEF c
<1>3. Moved(q, "item.update", "item.publish") /\ Holding(q, l.op, l.key, wanted, l.input)
  BY <1>1, <1>2, Went DEF Holding
<1>. QED  BY <1>3 DEF ItemUpdate

LEMMA AttachFindDoes ==
  ASSUME LocalsInv, NEW q \in Calls, NEW k, NEW b, AttachFind(q, k, b)
  PROVE  /\ Moved(q, "idle", "item.attach") /\ Holding(q, "BOOKING_ATTACHED", k, [row[k] EXCEPT !.booking = b], None)
         /\ row[k] # None
         /\ Same
         /\ UNCHANGED told
<1>. DEFINE c == [NoLocals EXCEPT !.op = "BOOKING_ATTACHED", !.key = k, !.copy = [row[k] EXCEPT !.booking = b]]
<1>1. Begin(q, "item.attach", c) /\ row[k] # None /\ Same /\ UNCHANGED told
  BY DEF AttachFind, tableVars, Same
<1>2. /\ DOMAIN c = Fields /\ c.op = "BOOKING_ATTACHED" /\ c.key = k
      /\ c.copy = [row[k] EXCEPT !.booking = b] /\ c.input = None
  BY DEF NoLocals, Fields
<1>. HIDE DEF c
<1>. QED  BY <1>1, <1>2, Started DEF Same

LEMMA AttachSaveDoes ==
  ASSUME LocalsInv, NEW q \in Calls, AttachSave(q)
  PROVE  /\ Moved(q, "item.attach", "item.publish") /\ Keeps(q)
         /\ SaveBack(loc[q].key, loc[q].copy)
         /\ UNCHANGED told
BY WentOn DEF AttachSave, tableVars, Same

LEMMA ItemFindDoomedDoes ==
  ASSUME LocalsInv, NEW q \in Calls, NEW k, ItemFindDoomed(q, k)
  PROVE  /\ Moved(q, "idle", "item.remove") /\ Holding(q, "ITINERARY_ITEM_DELETED", k, None, None)
         /\ row[k] # None
         /\ Same
         /\ UNCHANGED told
<1>. DEFINE c == [NoLocals EXCEPT !.op = "ITINERARY_ITEM_DELETED", !.key = k]
<1>1. Begin(q, "item.remove", c) /\ row[k] # None /\ Same /\ UNCHANGED told
  BY DEF ItemFindDoomed, tableVars, Same
<1>2. /\ DOMAIN c = Fields /\ c.op = "ITINERARY_ITEM_DELETED" /\ c.key = k
      /\ c.copy = None /\ c.input = None
  BY DEF NoLocals, Fields
<1>. HIDE DEF c
<1>. QED  BY <1>1, <1>2, Started DEF Same

LEMMA ItemRemoveDoes ==
  ASSUME LocalsInv, NEW q \in Calls, ItemRemove(q)
  PROVE  /\ Moved(q, "item.remove", "item.publish") /\ Keeps(q)
         /\ row' = [k \in Keys |-> IF k = loc[q].key THEN None
                                   ELSE IF k \in CommentsOf(loc[q].key) THEN [item |-> None]
                                   ELSE row[k]]
         /\ UNCHANGED <<used, told>>
BY WentOn DEF ItemRemove

LEMMA CommentFindDoes ==
  ASSUME LocalsInv, NEW q \in Calls, NEW item, CommentFind(q, item)
  PROVE  /\ Moved(q, "idle", "comment.save") /\ Holding(q, "COMMENT_CREATED", None, [item |-> item], None)
         /\ (item # None => row[item] # None)
         /\ Same
         /\ UNCHANGED told
<1>. DEFINE c == [NoLocals EXCEPT !.op = "COMMENT_CREATED", !.copy = [item |-> item]]
<1>1. Begin(q, "comment.save", c) /\ (item # None => row[item] # None) /\ Same /\ UNCHANGED told
  BY DEF CommentFind, tableVars, Same
<1>2. /\ DOMAIN c = Fields /\ c.op = "COMMENT_CREATED" /\ c.key = None
      /\ c.copy = [item |-> item] /\ c.input = None
  BY DEF NoLocals, Fields
<1>. HIDE DEF c
<1>. QED  BY <1>1, <1>2, Started DEF Same

LEMMA CommentSaveDoes ==
  ASSUME LocalsInv, NEW q \in Calls, NEW k \in CommentKeys, CommentSave(q, k)
  PROVE  /\ \/ /\ Moved(q, "comment.save", "comment.publish")
               /\ Holding(q, loc[q].op, k, loc[q].copy, loc[q].input)
               /\ Insert(k, loc[q].copy)
               /\ loc[q].copy.item = None \/ row[loc[q].copy.item] # None
            \/ pc[q] = "comment.save" /\ Ended(q) /\ Same
         /\ UNCHANGED told
<1>. DEFINE c == [loc[q] EXCEPT !.key = k]
<1>1. /\ pc[q] = "comment.save" /\ UNCHANGED told
      /\ \/ GoWith(q, "comment.publish", c) /\ Insert(k, loc[q].copy) /\ (loc[q].copy.item = None \/ row[loc[q].copy.item] # None)
         \/ End(q) /\ Same
  BY DEF CommentSave, Same
<1>2. /\ DOMAIN c = Fields /\ c.gone = loc[q].gone /\ c.op = loc[q].op /\ c.key = k
      /\ c.copy = loc[q].copy /\ c.input = loc[q].input
  BY DEF LocalsInv, Fields
<1>. HIDE DEF c
<1>. QED  BY <1>1, <1>2, Went, EndsCall DEF Holding

-----------------------------------------------------------------------------
(* Proposals, options and votes.                                            *)
LEMMA ProposalCreateDoes ==
  ASSUME LocalsInv, NEW q \in Calls, NEW k \in ProposalKeys, ProposalCreate(q, k)
  PROVE  /\ Moved(q, "idle", "proposal.publish") /\ Holding(q, "PROPOSAL_CREATED", k, [status |-> "OPEN"], None)
         /\ Insert(k, [status |-> "OPEN"])
         /\ UNCHANGED told
<1>. DEFINE c == [NoLocals EXCEPT !.op = "PROPOSAL_CREATED", !.key = k, !.copy = [status |-> "OPEN"]]
<1>1. Begin(q, "proposal.publish", c) /\ Insert(k, [status |-> "OPEN"]) /\ UNCHANGED told
  BY DEF ProposalCreate, tableVars, Same
<1>2. /\ DOMAIN c = Fields /\ c.op = "PROPOSAL_CREATED" /\ c.key = k
      /\ c.copy = [status |-> "OPEN"] /\ c.input = None
  BY DEF NoLocals, Fields
<1>. HIDE DEF c
<1>. QED  BY <1>1, <1>2, Started DEF Same

LEMMA OptionFindDoes ==
  ASSUME LocalsInv, NEW q \in Calls, NEW p, OptionFind(q, p)
  PROVE  /\ Moved(q, "idle", "option.save") /\ Holding(q, "PROPOSAL_OPTION_CREATED", None, [proposal |-> p], None)
         /\ IsOpen(p)
         /\ Same
         /\ UNCHANGED told
<1>. DEFINE c == [NoLocals EXCEPT !.op = "PROPOSAL_OPTION_CREATED", !.copy = [proposal |-> p]]
<1>1. Begin(q, "option.save", c) /\ IsOpen(p) /\ Same /\ UNCHANGED told
  BY DEF OptionFind, tableVars, Same
<1>2. /\ DOMAIN c = Fields /\ c.op = "PROPOSAL_OPTION_CREATED" /\ c.key = None
      /\ c.copy = [proposal |-> p] /\ c.input = None
  BY DEF NoLocals, Fields
<1>. HIDE DEF c
<1>. QED  BY <1>1, <1>2, Started DEF Same

LEMMA OptionSaveDoes ==
  ASSUME LocalsInv, NEW q \in Calls, NEW k \in OptionKeys, OptionSave(q, k)
  PROVE  /\ Moved(q, "option.save", "option.publish") /\ Holding(q, loc[q].op, k, loc[q].copy, loc[q].input)
         /\ Insert(k, loc[q].copy)
         /\ UNCHANGED told
<1>. DEFINE c == [loc[q] EXCEPT !.key = k]
<1>1. /\ pc[q] = "option.save" /\ GoWith(q, "option.publish", c)
      /\ Insert(k, loc[q].copy) /\ UNCHANGED told
  BY DEF OptionSave, tableVars, Same
<1>2. /\ DOMAIN c = Fields /\ c.gone = loc[q].gone /\ c.op = loc[q].op /\ c.key = k
      /\ c.copy = loc[q].copy /\ c.input = loc[q].input
  BY DEF LocalsInv, Fields
<1>. HIDE DEF c
<1>. QED  BY <1>1, <1>2, Went DEF Holding

LEMMA VoteCheckDoes ==
  ASSUME LocalsInv, NEW q \in Calls, NEW u, NEW o, VoteCheck(q, u, o)
  PROVE  /\ Moved(q, "idle", "vote.find") /\ Holding(q, "VOTE_TOGGLED", None, [option |-> o, user |-> u], None)
         /\ row[o] # None
         /\ IsOpen(row[o].proposal)
         /\ Same
         /\ UNCHANGED told
<1>. DEFINE c == [NoLocals EXCEPT !.op = "VOTE_TOGGLED", !.copy = [option |-> o, user |-> u]]
<1>1. Begin(q, "vote.find", c) /\ row[o] # None /\ IsOpen(row[o].proposal) /\ Same /\ UNCHANGED told
  BY DEF VoteCheck, tableVars, Same
<1>2. /\ DOMAIN c = Fields /\ c.op = "VOTE_TOGGLED" /\ c.key = None
      /\ c.copy = [option |-> o, user |-> u] /\ c.input = None
  BY DEF NoLocals, Fields
<1>. HIDE DEF c
<1>. QED  BY <1>1, <1>2, Started DEF Same

LEMMA VoteFindDoes ==
  ASSUME LocalsInv, NEW q \in Calls, VoteFind(q)
  PROVE  /\ \/ Moved(q, "vote.find", "vote.save") /\ Keeps(q)
            \/ \E k \in VotesOf(loc[q].copy) :
                 /\ Moved(q, "vote.find", "vote.remove")
                 /\ Holding(q, loc[q].op, k, None, loc[q].input)
         /\ Same /\ UNCHANGED told
<1>1. pc[q] = "vote.find" /\ Same /\ UNCHANGED told
  BY DEF VoteFind, tableVars, Same
<1>2. CASE GoWith(q, "vote.save", loc[q])
  BY <1>1, <1>2, WentOn
<1>3. ASSUME NEW k \in VotesOf(loc[q].copy),
             GoWith(q, "vote.remove", [loc[q] EXCEPT !.key = k, !.copy = None])
      PROVE  /\ Moved(q, "vote.find", "vote.remove")
             /\ Holding(q, loc[q].op, k, None, loc[q].input)
  <2>. DEFINE c == [loc[q] EXCEPT !.key = k, !.copy = None]
  <2>1. /\ DOMAIN c = Fields /\ c.gone = loc[q].gone /\ c.op = loc[q].op /\ c.key = k
        /\ c.copy = None /\ c.input = loc[q].input
    BY DEF LocalsInv, Fields
  <2>2. GoWith(q, "vote.remove", c)
    BY <1>3
  <2>. HIDE DEF c
  <2>. QED  BY <1>1, <2>1, <2>2, Went DEF Holding
<1>. QED  BY <1>1, <1>2, <1>3 DEF VoteFind

LEMMA VoteRemoveDoes ==
  ASSUME LocalsInv, NEW q \in Calls, VoteRemove(q)
  PROVE  /\ Moved(q, "vote.remove", "vote.publish") /\ Keeps(q)
         /\ RemoveRow(loc[q].key)
         /\ UNCHANGED told
BY WentOn DEF VoteRemove, tableVars, Same

LEMMA VoteSaveDoes ==
  ASSUME LocalsInv, NEW q \in Calls, NEW k \in VoteKeys, VoteSave(q, k)
  PROVE  /\ \/ /\ Moved(q, "vote.save", "vote.publish")
               /\ Holding(q, loc[q].op, k, loc[q].copy, loc[q].input)
               /\ Insert(k, loc[q].copy)
               /\ VotesOf(loc[q].copy) = {}
            \/ pc[q] = "vote.save" /\ Ended(q) /\ Same
         /\ UNCHANGED told
<1>. DEFINE c == [loc[q] EXCEPT !.key = k]
<1>1. /\ pc[q] = "vote.save" /\ UNCHANGED told
      /\ \/ GoWith(q, "vote.publish", c) /\ Insert(k, loc[q].copy) /\ (VotesOf(loc[q].copy) = {})
         \/ End(q) /\ Same
  BY DEF VoteSave, Same
<1>2. /\ DOMAIN c = Fields /\ c.gone = loc[q].gone /\ c.op = loc[q].op /\ c.key = k
      /\ c.copy = loc[q].copy /\ c.input = loc[q].input
  BY DEF LocalsInv, Fields
<1>. HIDE DEF c
<1>. QED  BY <1>1, <1>2, Went, EndsCall DEF Holding

-----------------------------------------------------------------------------
(* Rules.                                                                   *)
LEMMA UpsertFindDoes ==
  ASSUME LocalsInv, NEW q \in Calls, NEW request, UpsertFind(q, request)
  PROVE  /\ Moved(q, "idle", "rules.set") /\ Holding(q, "RULESET_UPSERTED", RuleSetKey, row[RuleSetKey], request)
         /\ Same
         /\ UNCHANGED <<told, ruleVars>>
<1>. DEFINE c == [NoLocals EXCEPT !.op = "RULESET_UPSERTED", !.key = RuleSetKey, !.copy = row[RuleSetKey], !.input = request]
<1>1. Begin(q, "rules.set", c) /\ Same /\ UNCHANGED <<told, ruleVars>>
  BY DEF UpsertFind, tableVars, Same
<1>2. /\ DOMAIN c = Fields /\ c.op = "RULESET_UPSERTED" /\ c.key = RuleSetKey
      /\ c.copy = row[RuleSetKey] /\ c.input = request
  BY DEF NoLocals, Fields
<1>. HIDE DEF c
<1>. QED  BY <1>1, <1>2, Started DEF Same

LEMMA UpsertSetDoes ==
  ASSUME LocalsInv, NEW q \in Calls, UpsertSet(q)
  PROVE  /\ \/ /\ Moved(q, "rules.set", "rules.delete")
               /\ Holding(q, loc[q].op, loc[q].key, "a rule set", loc[q].input)
               /\ loc[q].copy = None /\ Insert(RuleSetKey, "a rule set")
            \/ /\ Moved(q, "rules.set", "rules.delete") /\ Keeps(q)
               /\ loc[q].copy # None /\ SaveBack(RuleSetKey, loc[q].copy)
            \/ /\ pc[q] = "rules.set" /\ Ended(q) /\ Same
               /\ loc[q].copy = None /\ row[RuleSetKey] # None
         /\ UNCHANGED <<told, ruleVars>>
<1>1. pc[q] = "rules.set" /\ UNCHANGED <<told, ruleVars>>
  BY DEF UpsertSet
<1>2. CASE loc[q].copy = None /\ row[RuleSetKey] = None
  <2>. DEFINE c == [loc[q] EXCEPT !.copy = "a rule set"]
  <2>1. Insert(RuleSetKey, "a rule set") /\ GoWith(q, "rules.delete", c)
    BY <1>2 DEF UpsertSet
  <2>2. /\ DOMAIN c = Fields /\ c.gone = loc[q].gone /\ c.op = loc[q].op
        /\ c.key = loc[q].key /\ c.copy = "a rule set" /\ c.input = loc[q].input
    BY DEF LocalsInv, Fields
  <2>. HIDE DEF c
  <2>3. Moved(q, pc[q], "rules.delete") /\ loc'[q] = c
    BY <1>1, <2>1, <2>2, Went
  <2>4. Holding(q, loc[q].op, loc[q].key, "a rule set", loc[q].input)
    BY <1>1, <2>2, <2>3 DEF Holding
  <2>. QED  BY <1>1, <1>2, <2>1, <2>3, <2>4
<1>3. CASE loc[q].copy = None /\ row[RuleSetKey] # None
  BY <1>1, <1>3, EndsCall DEF UpsertSet, Same
<1>4. CASE loc[q].copy # None
  BY <1>1, <1>4, Went DEF UpsertSet, Fields, LocalsInv, Keeps, Holding
<1>. QED  BY <1>2, <1>3, <1>4

LEMMA UpsertDeleteDoes ==
  ASSUME LocalsInv, NEW q \in Calls, UpsertDelete(q)
  PROVE  /\ Moved(q, "rules.delete", "rules.save") /\ Keeps(q)
         /\ rules' = {} /\ Same
         /\ UNCHANGED <<told, upserts, last, misjudged>>
BY WentOn DEF UpsertDelete, tableVars, Same

LEMMA UpsertSaveDoes ==
  ASSUME LocalsInv, NEW q \in Calls, UpsertSave(q)
  PROVE  /\ Moved(q, "rules.save", "rules.publish") /\ Keeps(q)
         /\ upserts < MaxUpserts /\ upserts' = upserts + 1
         /\ last' = [rule : loc[q].input, by : {upserts + 1}]
         /\ rules' = rules \cup last'
         /\ Same /\ UNCHANGED <<told, misjudged>>
BY WentOn DEF UpsertSave, tableVars, Same

LEMMA EvalItemDoes ==
  ASSUME LocalsInv, NEW q \in Calls, NEW broken, EvalItem(q, broken)
  PROVE  /\ Moved(q, "idle", "eval.set") /\ Holding(q, "RULES_EVALUATED", None, None, broken)
         /\ row[EvaluatedItem] # None
         /\ Same
         /\ UNCHANGED <<told, ruleVars>>
<1>. DEFINE c == [NoLocals EXCEPT !.op = "RULES_EVALUATED", !.input = broken]
<1>1. Begin(q, "eval.set", c) /\ row[EvaluatedItem] # None /\ Same /\ UNCHANGED <<told, ruleVars>>
  BY DEF EvalItem, tableVars, Same
<1>2. /\ DOMAIN c = Fields /\ c.op = "RULES_EVALUATED" /\ c.key = None
      /\ c.copy = None /\ c.input = broken
  BY DEF NoLocals, Fields
<1>. HIDE DEF c
<1>. QED  BY <1>1, <1>2, Started DEF Same

LEMMA EvalSetDoes ==
  ASSUME LocalsInv, NEW q \in Calls, EvalSet(q)
  PROVE  /\ \/ Moved(q, "eval.set", "eval.rules") /\ Keeps(q)
            \/ pc[q] = "eval.set" /\ Ended(q)
         /\ Same /\ UNCHANGED <<told, ruleVars>>
BY WentOn, EndsCall DEF EvalSet, tableVars, Same

LEMMA EvalRulesDoes ==
  ASSUME LocalsInv, NEW q \in Calls, EvalRules(q)
  PROVE  /\ Moved(q, "eval.rules", "eval.save") /\ Holding(q, loc[q].op, loc[q].key, [violations |-> Violations(rules, loc[q].input)], loc[q].input)
         /\ Same
         /\ UNCHANGED <<told, ruleVars>>
<1>. DEFINE c == [loc[q] EXCEPT !.copy = [violations |-> Violations(rules, loc[q].input)]]
<1>1. /\ pc[q] = "eval.rules" /\ GoWith(q, "eval.save", c)
      /\ Same /\ UNCHANGED <<told, ruleVars>>
  BY DEF EvalRules, tableVars, Same
<1>2. /\ DOMAIN c = Fields /\ c.gone = loc[q].gone /\ c.op = loc[q].op /\ c.key = loc[q].key
      /\ c.copy = [violations |-> Violations(rules, loc[q].input)] /\ c.input = loc[q].input
  BY DEF LocalsInv, Fields
<1>. HIDE DEF c
<1>. QED  BY <1>1, <1>2, Went DEF Holding

LEMMA EvalSaveDoes ==
  ASSUME LocalsInv, NEW q \in Calls, NEW k \in EvaluationKeys, EvalSave(q, k)
  PROVE  /\ Moved(q, "eval.save", "eval.publish") /\ Holding(q, loc[q].op, k, loc[q].copy, loc[q].input)
         /\ Insert(k, loc[q].copy)
         /\ misjudged' = (IF loc[q].copy.violations = Violations(last, loc[q].input)
                          THEN misjudged ELSE misjudged \cup {k})
         /\ UNCHANGED <<told, rules, upserts, last>>
<1>. DEFINE c == [loc[q] EXCEPT !.key = k]
<1>1. /\ pc[q] = "eval.save" /\ GoWith(q, "eval.publish", c)
      /\ Insert(k, loc[q].copy) /\ misjudged' = (IF loc[q].copy.violations = Violations(last, loc[q].input)
                          THEN misjudged ELSE misjudged \cup {k}) /\ UNCHANGED <<told, rules, upserts, last>>
  BY DEF EvalSave, tableVars, Same
<1>2. /\ DOMAIN c = Fields /\ c.gone = loc[q].gone /\ c.op = loc[q].op /\ c.key = k
      /\ c.copy = loc[q].copy /\ c.input = loc[q].input
  BY DEF LocalsInv, Fields
<1>. HIDE DEF c
<1>. QED  BY <1>1, <1>2, Went DEF Holding

-----------------------------------------------------------------------------
(* The rule set.  Without cuts, an upsert that has deleted the rules will   *)
(* still insert its own; one call at a time, an evaluation has read the     *)
(* rules that were inserted last.                                           *)
Saving == \E q \in Calls : pc[q] = "rules.save"

Judged(c) == c.copy.violations = Violations(last, c.input)

RulesInv ==
  /\ cuts = 0 => last \subseteq rules \/ Saving
  /\ ~disturbed =>
       /\ misjudged = {}
       /\ rules = last \/ Saving
       /\ \A q \in Calls : /\ pc[q] = "rules.save" => rules = {}
                           /\ pc[q] = "eval.save" => Judged(loc[q])

(* A step between other places in the code than these, with the rules left  *)
(* alone.                                                                   *)
LEMMA RulesUntouched ==
  ASSUME NEW q \in Calls, NEW from, NEW to, LocalsInv, RulesInv, Moved(q, from, to),
         from # "rules.save", to \notin {"rules.save", "eval.save"},
         UNCHANGED <<rules, last, misjudged>>
  PROVE  RulesInv'
<1>1. Saving => Saving'
  BY DEF Saving, Moved
<1>2. \A p \in Calls : ~disturbed' /\ pc'[p] = "eval.save" => Judged(loc[p]) /\ loc'[p] = loc[p]
  BY DEF Moved, RulesInv
<1>3. \A p \in Calls : ~disturbed' /\ pc'[p] = "eval.save" => Judged(loc[p])'
  BY <1>2 DEF Judged, Violations
<1>. QED  BY <1>1, <1>3 DEF RulesInv, Moved

LEMMA RulesStep == ASSUME LocalsInv, RulesInv, RuleNext PROVE LocalsInv' /\ RulesInv'
<1>1. ASSUME NEW q \in Calls, NEW request \in Requests, UpsertFind(q, request)
      PROVE  LocalsInv' /\ RulesInv'
  BY <1>1, UpsertFindDoes, RulesUntouched DEF ruleVars, Moved
<1>2. ASSUME NEW q \in Calls, UpsertSet(q) PROVE LocalsInv' /\ RulesInv'
  BY <1>2, UpsertSetDoes, RulesUntouched DEF ruleVars, Moved, Ended
<1>3. ASSUME NEW q \in Calls, UpsertDelete(q) PROVE LocalsInv' /\ RulesInv'
  <2>1. Moved(q, "rules.delete", "rules.save") /\ rules' = {} /\ UNCHANGED <<last, misjudged>>
    BY <1>3, UpsertDeleteDoes
  <2>2. Saving'
    BY <2>1 DEF Saving, Moved
  <2>3. ~disturbed' => \A p \in Calls : pc'[p] # "eval.save"
    BY <2>1 DEF Moved, Alone
  <2>. QED  BY <2>1, <2>2, <2>3 DEF RulesInv, Moved
<1>4. ASSUME NEW q \in Calls, UpsertSave(q) PROVE LocalsInv' /\ RulesInv'
  <2>1. /\ Moved(q, "rules.save", "rules.publish") /\ rules' = rules \cup last'
        /\ UNCHANGED misjudged
    BY <1>4, UpsertSaveDoes
  <2>2. ~disturbed' => /\ \A p \in Calls : pc'[p] \notin {"rules.save", "eval.save"}
                       /\ rules = {} /\ misjudged = {}
    BY <2>1 DEF Moved, Alone, RulesInv
  <2>3. last' \subseteq rules' /\ (rules = {} => rules' = last')
    BY <2>1
  <2>. QED  BY <2>1, <2>2, <2>3 DEF RulesInv, Moved
<1>5. ASSUME NEW q \in Calls, NEW broken \in SUBSET Enforced, EvalItem(q, broken)
      PROVE  LocalsInv' /\ RulesInv'
  BY <1>5, EvalItemDoes, RulesUntouched DEF ruleVars, Moved
<1>6. ASSUME NEW q \in Calls, EvalSet(q) PROVE LocalsInv' /\ RulesInv'
  BY <1>6, EvalSetDoes, RulesUntouched DEF ruleVars, Moved, Ended
<1>7. ASSUME NEW q \in Calls, EvalRules(q) PROVE LocalsInv' /\ RulesInv'
  <2>1. /\ Moved(q, "eval.rules", "eval.save") /\ loc'[q].input = loc[q].input
        /\ loc'[q].copy = [violations |-> Violations(rules, loc[q].input)]
        /\ UNCHANGED <<rules, last, misjudged>>
    BY <1>7, EvalRulesDoes DEF Holding, ruleVars
  <2>2. Saving => Saving'
    BY <2>1 DEF Saving, Moved
  <2>3. ~disturbed' => ~disturbed /\ ~Saving
    BY <2>1 DEF Moved, Alone, Saving
  <2>4. ~disturbed' => Judged(loc[q])'
    <3>1. ~disturbed' => rules = last
      BY <2>3 DEF RulesInv
    <3>2. loc'[q].copy.violations = Violations(rules, loc[q].input)
      BY <2>1
    <3>3. last' = last /\ loc'[q].input = loc[q].input
      BY <2>1
    <3>. QED  BY <3>1, <3>2, <3>3 DEF Judged, Violations
  <2>5. ~disturbed' => \A p \in Calls : p # q => pc'[p] = "idle"
    BY <2>1 DEF Moved, Alone
  <2>. QED  BY <2>1, <2>2, <2>3, <2>4, <2>5 DEF RulesInv, Moved
<1>8. ASSUME NEW q \in Calls, NEW k \in EvaluationKeys, EvalSave(q, k)
      PROVE  LocalsInv' /\ RulesInv'
  <2>1. /\ Moved(q, "eval.save", "eval.publish") /\ UNCHANGED <<rules, last>>
        /\ Judged(loc[q]) => misjudged' = misjudged
    BY <1>8, EvalSaveDoes DEF Judged
  <2>2. Saving => Saving'
    BY <2>1 DEF Saving, Moved
  <2>3. ~disturbed' => /\ \A p \in Calls : pc'[p] \notin {"rules.save", "eval.save"}
                       /\ ~disturbed /\ ~Saving /\ Judged(loc[q])
    BY <2>1 DEF Moved, Alone, RulesInv, Saving
  <2>. QED  BY <2>1, <2>2, <2>3 DEF RulesInv, Moved
<1>9. ASSUME NEW q \in Calls, NEW step \in {"rules.publish", "eval.publish"},
             Publish(q, step), UNCHANGED ruleVars
      PROVE  LocalsInv' /\ RulesInv'
  BY <1>9, Published, RulesUntouched DEF ruleVars, Moved, Ended
<1>. QED  BY <1>1, <1>2, <1>3, <1>4, <1>5, <1>6, <1>7, <1>8, <1>9 DEF RuleNext

LEMMA RulesCut ==
  ASSUME LocalsInv, RulesInv, NEW Q \in SUBSET Calls, Cut(Q), UNCHANGED ruleVars
  PROVE  LocalsInv' /\ RulesInv'
BY CutDoes DEF RulesInv
-----------------------------------------------------------------------------
(* What the tables hold and what the calls have in hand: a call at step     *)
(* with the locals c, when the keys U have been used.                       *)
Typed(step, c, U) ==
  /\ step \in TaskSteps => c.key \in TaskKeys \cap U /\ c.copy \in Task \cup {None}
  /\ step = "task.save" => c.copy \in Task /\ c.input \in TaskInput
  /\ step \in DocSteps => c.key \in DocKeys /\ c.copy \in Document \cup {None}
  /\ step = "doc.save" => c.copy \in Document
  /\ step = "doc.update" => c.key \in U /\ c.copy \in Document /\ c.input \in DocInput
  /\ step = "day.save" => c.key = None /\ c.copy \in ItineraryDay
  /\ step = "day.publish" => c.key \in DayKeys /\ c.copy \in ItineraryDay
  /\ step = "item.save" => c.key = None /\ c.copy \in ItineraryItem
  /\ step \in ItemSteps \ {"item.save"} =>
       c.key \in ItemKeys \cap U /\ c.copy \in ItineraryItem \cup {None}
  /\ step \in {"item.day", "item.update", "item.attach"} => c.copy \in ItineraryItem
  /\ step \in {"item.day", "item.update"} => c.input \in DayInput
  /\ step = "comment.save" => c.key = None /\ c.copy \in Comment
  /\ step = "comment.publish" => c.key \in CommentKeys /\ c.copy \in Comment
  /\ step = "proposal.publish" => c.key \in ProposalKeys /\ c.copy \in Proposal
  /\ step = "option.save" => c.key = None /\ c.copy \in ProposalOption
  /\ step = "option.publish" => c.key \in OptionKeys /\ c.copy \in ProposalOption
  /\ step \in {"vote.find", "vote.save"} => c.key = None /\ c.copy \in Vote
  /\ step \in {"vote.remove", "vote.publish"} => c.key \in VoteKeys /\ c.copy \in Vote \cup {None}
  /\ step \in {"rules.set", "rules.delete", "rules.save", "rules.publish"} =>
       c.key = RuleSetKey /\ c.copy \in RuleSet \cup {None} /\ c.input \in Requests
  /\ step = "rules.set" /\ c.copy # None => RuleSetKey \in U
  /\ step \in {"eval.set", "eval.rules"} => c.key = None /\ c.copy = None /\ c.input \subseteq Enforced
  /\ step = "eval.save" => c.key = None /\ c.copy \in RuleEvaluation
  /\ step = "eval.publish" => c.key \in EvaluationKeys /\ c.copy \in RuleEvaluation

TablesTyped ==
  /\ DOMAIN row = Keys /\ DOMAIN told = Keys /\ used \subseteq Keys
  /\ \A k \in Keys : row[k] # None => row[k] \in Tables[k] /\ k \in used
  /\ \A k \in Keys : told[k].row # None => told[k].row \in Tables[k]
  /\ \E b \in Nat : \A k \in Days : row[k].index <= b

RowsInv ==
  /\ TablesTyped
  /\ \A q \in Calls : /\ pc[q] \in CallSteps /\ loc[q].gone \subseteq used
                      /\ Typed(pc[q], loc[q], used)

(* A key tells its table.                                                   *)
LEMMA Apart ==
  \A k :
    /\ k \in TaskKeys =>
         k \notin DocKeys \cup DayKeys \cup ItemKeys \cup CommentKeys \cup ProposalKeys \cup OptionKeys \cup VoteKeys \cup {RuleSetKey} \cup EvaluationKeys
    /\ k \in DocKeys =>
         k \notin DayKeys \cup ItemKeys \cup CommentKeys \cup ProposalKeys \cup OptionKeys \cup VoteKeys \cup {RuleSetKey} \cup EvaluationKeys
    /\ k \in DayKeys =>
         k \notin ItemKeys \cup CommentKeys \cup ProposalKeys \cup OptionKeys \cup VoteKeys \cup {RuleSetKey} \cup EvaluationKeys
    /\ k \in ItemKeys =>
         k \notin CommentKeys \cup ProposalKeys \cup OptionKeys \cup VoteKeys \cup {RuleSetKey} \cup EvaluationKeys
    /\ k \in CommentKeys =>
         k \notin ProposalKeys \cup OptionKeys \cup VoteKeys \cup {RuleSetKey} \cup EvaluationKeys
    /\ k \in ProposalKeys => k \notin OptionKeys \cup VoteKeys \cup {RuleSetKey} \cup EvaluationKeys
    /\ k \in OptionKeys => k \notin VoteKeys \cup {RuleSetKey} \cup EvaluationKeys
    /\ k \in VoteKeys => k \notin {RuleSetKey} \cup EvaluationKeys
    /\ k \in {RuleSetKey} => k \notin EvaluationKeys
<1>. DEFINE tables == <<TaskKeys, DocKeys, DayKeys, ItemKeys, CommentKeys, ProposalKeys,
                        OptionKeys, VoteKeys, {RuleSetKey}, EvaluationKeys>>
<1>1. \A i, j \in 1..10 : i # j => tables[i] \cap tables[j] = {}
  BY TripAppAssumption
<1>2. /\ tables[1] = TaskKeys /\ tables[2] = DocKeys /\ tables[3] = DayKeys
      /\ tables[4] = ItemKeys /\ tables[5] = CommentKeys /\ tables[6] = ProposalKeys
      /\ tables[7] = OptionKeys /\ tables[8] = VoteKeys /\ tables[9] = {RuleSetKey}
      /\ tables[10] = EvaluationKeys
  OBVIOUS
<1>. HIDE DEF tables
<1>. TAKE k
<1>3. \A i \in 1..10 : k \in tables[i] => \A j \in 1..10 : j # i => k \notin tables[j]
  BY <1>1
<1>. QED  BY <1>2, <1>3

LEMMA TableOf ==
  \A k :
    /\ k \in TaskKeys => Tables[k] = Task
    /\ k \in DocKeys => Tables[k] = Document
    /\ k \in DayKeys => Tables[k] = ItineraryDay
    /\ k \in ItemKeys => Tables[k] = ItineraryItem
    /\ k \in CommentKeys => Tables[k] = Comment
    /\ k \in ProposalKeys => Tables[k] = Proposal
    /\ k \in OptionKeys => Tables[k] = ProposalOption
    /\ k \in VoteKeys => Tables[k] = Vote
    /\ k = RuleSetKey => Tables[k] = RuleSet
    /\ k \in EvaluationKeys => Tables[k] = RuleEvaluation
<1>. TAKE k
<1>1. k \in Keys =>
        Tables[k] = CASE k \in TaskKeys -> Task
                      [] k \in DocKeys -> Document
                      [] k \in DayKeys -> ItineraryDay
                      [] k \in ItemKeys -> ItineraryItem
                      [] k \in CommentKeys -> Comment
                      [] k \in ProposalKeys -> Proposal
                      [] k \in OptionKeys -> ProposalOption
                      [] k \in VoteKeys -> Vote
                      [] k = RuleSetKey -> RuleSet
                      [] k \in EvaluationKeys -> RuleEvaluation
  BY DEF Tables
<1>. QED  BY <1>1, Apart

LEMMA TypedMore ==
  ASSUME NEW step, NEW c, NEW U, NEW V, U \subseteq V, Typed(step, c, U)
  PROVE  Typed(step, c, V)
BY DEF Typed

LEMMA MovedTyped ==
  ASSUME LocalsInv, RowsInv, NEW q \in Calls, NEW from, NEW to, Moved(q, from, to),
         to \in CallSteps, TablesTyped', used \subseteq used',
         loc'[q].gone \subseteq used', Typed(to, loc'[q], used')
  PROVE  RowsInv'
<1>1. ASSUME NEW p \in Calls, p # q
      PROVE  pc'[p] \in CallSteps /\ loc'[p].gone \subseteq used' /\ Typed(pc'[p], loc'[p], used')
  <2>1. pc'[p] = pc[p] /\ loc'[p] = loc[p]
    BY <1>1 DEF Moved
  <2>2. pc[p] \in CallSteps /\ loc[p].gone \subseteq used /\ Typed(pc[p], loc[p], used)
    BY DEF RowsInv
  <2>. QED  BY <2>1, <2>2, TypedMore
<1>2. pc'[q] = to
  BY DEF Moved
<1>. QED  BY <1>1, <1>2 DEF RowsInv

LEMMA HoldingTyped ==
  ASSUME LocalsInv, RowsInv, NEW q \in Calls, NEW from, NEW to, Moved(q, from, to),
         NEW op, NEW key, NEW copy, NEW input, Holding(q, op, key, copy, input),
         to \in CallSteps, TablesTyped', used \subseteq used', Typed(to, loc'[q], used')
  PROVE  RowsInv'
<1>1. loc'[q].gone \subseteq used'
  BY DEF Holding, RowsInv, Gone
<1>. QED  BY <1>1, MovedTyped

LEMMA EndedTyped ==
  ASSUME LocalsInv, RowsInv, NEW q \in Calls, Ended(q), TablesTyped', used \subseteq used'
  PROVE  RowsInv'
<1>1. "idle" \in CallSteps /\ Typed("idle", loc'[q], used')
  BY DEF CallSteps, Typed, TaskSteps, DocSteps, ItemSteps
<1>2. loc'[q].gone = {}
  BY DEF Ended, NoLocals
<1>. QED  BY <1>1, <1>2, MovedTyped DEF Ended

-----------------------------------------------------------------------------
(* What a step does to the tables.                                          *)
LEMMA SameTables ==
  ASSUME RowsInv, Same, UNCHANGED told PROVE TablesTyped' /\ used' = used
BY DEF RowsInv, TablesTyped, Same, Days

LEMMA DayTyped == ASSUME RowsInv PROVE \A d \in Days : d \in Keys /\ row[d] \in ItineraryDay
BY TableOf, ItineraryAssumption DEF RowsInv, TablesTyped, Days

LEMMA InsertedTables ==
  ASSUME RowsInv, NEW k \in Keys, NEW r \in Tables[k], Insert(k, r), UNCHANGED told
  PROVE  TablesTyped' /\ used' = used \cup {k}
<1>1. /\ DOMAIN row' = Keys /\ used' = used \cup {k} /\ row'[k] = r
      /\ \A j \in Keys : j # k => row'[j] = row[j]
  BY DEF RowsInv, TablesTyped, Insert
<1>2. PICK b \in Nat : \A d \in Days : row[d].index <= b
  BY DEF RowsInv, TablesTyped
<1>3. \E c \in Nat : \A d \in Days' : row'[d].index <= c
  <2>1. CASE k \in DayKeys
    <3>1. r.index \in Nat
      <4>1. r \in ItineraryDay
        BY <2>1, TableOf
      <4>. QED  BY <4>1 DEF ItineraryDay
    <3>2. \A d \in Days : row[d].index \in Nat
      BY DayTyped DEF ItineraryDay
    <3>3. \A d \in Days' : d = k \/ (d \in Days /\ row'[d] = row[d])
      BY <1>1 DEF Days
    <3>4. \A d \in Days' : row'[d].index <= b + r.index
      <4>. TAKE d \in Days'
      <4>1. CASE d = k
        BY <1>1, <3>1, <4>1
      <4>2. CASE d \in Days /\ row'[d] = row[d]
        BY <1>2, <3>1, <3>2, <4>2
      <4>. QED  BY <3>3, <4>1, <4>2
    <3>. QED  BY <3>1, <3>4
  <2>2. CASE k \notin DayKeys
    <3>1. \A d \in Days' : d \in Days /\ row'[d] = row[d]
      BY <1>1, <2>2 DEF Days
    <3>. QED  BY <1>2, <3>1
  <2>. QED  BY <2>1, <2>2
<1>4. /\ DOMAIN told' = Keys /\ used' \subseteq Keys
      /\ \A j \in Keys : row'[j] # None => row'[j] \in Tables[j] /\ j \in used'
      /\ \A j \in Keys : told'[j].row # None => told'[j].row \in Tables[j]
  BY <1>1 DEF RowsInv, TablesTyped
<1>. QED  BY <1>1, <1>3, <1>4 DEF TablesTyped

LEMMA SavedTables ==
  ASSUME RowsInv, NEW k \in Keys \ DayKeys, NEW r, r # None => r \in Tables[k] /\ k \in used,
         SaveBack(k, r), UNCHANGED told
  PROVE  TablesTyped' /\ used' = used
<1>1. /\ DOMAIN row' = Keys /\ used' = used /\ row'[k] = r
      /\ \A j \in Keys : j # k => row'[j] = row[j]
  BY DEF RowsInv, TablesTyped, SaveBack
<1>2. \E b \in Nat : \A d \in Days' : row'[d].index <= b
  BY <1>1 DEF RowsInv, TablesTyped, Days
<1>3. /\ DOMAIN told' = Keys /\ used' \subseteq Keys
      /\ \A j \in Keys : row'[j] # None => row'[j] \in Tables[j] /\ j \in used'
      /\ \A j \in Keys : told'[j].row # None => told'[j].row \in Tables[j]
  BY <1>1 DEF RowsInv, TablesTyped
<1>. QED  BY <1>1, <1>2, <1>3 DEF TablesTyped

LEMMA RemovedTables ==
  ASSUME RowsInv, NEW k \in Keys \ DayKeys, RemoveRow(k), UNCHANGED told
  PROVE  TablesTyped' /\ used' = used
BY SavedTables DEF RemoveRow

(* An event is published about a row of the table that it tells of.         *)
LEMMA PublishedTyped ==
  ASSUME LocalsInv, RowsInv, NEW q \in Calls, NEW step, step # "idle", Publish(q, step),
         loc[q].copy # None => loc[q].copy \in Tables[loc[q].key]
  PROVE  LocalsInv' /\ RowsInv'
<1>1. /\ Ended(q) /\ UNCHANGED <<row, used>>
      /\ told' = [told EXCEPT ![loc[q].key] = [type |-> loc[q].op, row |-> loc[q].copy]]
  BY Published
<1>2. /\ DOMAIN told' = Keys
      /\ \A j \in Keys : told'[j].row # None => told'[j].row \in Tables[j]
  BY <1>1 DEF RowsInv, TablesTyped
<1>3. TablesTyped'
  BY <1>1, <1>2 DEF RowsInv, TablesTyped, Days
<1>. QED  BY <1>1, <1>3, EndedTyped DEF Ended, Moved

TypesInv == LocalsInv /\ RowsInv

LEMMA IsStep ==
  /\ {"task.save", "task.remove", "task.publish"} \subseteq CallSteps
  /\ {"doc.save", "doc.update", "doc.object", "doc.remove", "doc.publish"} \subseteq CallSteps
  /\ {"day.save", "day.publish", "comment.save", "comment.publish"} \subseteq CallSteps
  /\ {"item.save", "item.day", "item.update", "item.attach", "item.remove", "item.publish"}
       \subseteq CallSteps
  /\ {"proposal.publish", "option.save", "option.publish", "vote.find", "vote.remove",
      "vote.save", "vote.publish"} \subseteq CallSteps
  /\ {"rules.set", "rules.delete", "rules.save", "rules.publish", "eval.set", "eval.rules",
      "eval.save", "eval.publish"} \subseteq CallSteps
BY DEF CallSteps, TaskSteps, DocSteps, DaySteps, ItemSteps, CommentSteps, CollabSteps, RuleSteps

LEMMA AtStep == ASSUME TypesInv, NEW q \in Calls PROVE Typed(pc[q], loc[q], used)
BY DEF TypesInv, RowsInv

LEMMA Found ==
  ASSUME TypesInv, NEW k \in Keys, row[k] # None PROVE k \in used /\ row[k] \in Tables[k]
BY DEF TypesInv, RowsInv, TablesTyped

LEMMA TaskRows == ASSUME TypesInv, TaskNext PROVE TypesInv'
<1>1. ASSUME NEW q \in Calls, NEW k \in TaskKeys, TaskCreate(q, k) PROVE TypesInv'
  <2>1. /\ Moved(q, "idle", "task.publish") /\ Holding(q, "TASK_CREATED", k, [status |-> "PENDING"], None)
        /\ Insert(k, [status |-> "PENDING"]) /\ UNCHANGED told
    BY <1>1, TaskCreateDoes DEF TypesInv, Keeps
  <2>2. [status |-> "PENDING"] \in Task /\ k \in Keys
    BY TasksAssumption DEF Task, TaskStatus
  <2>3. TablesTyped' /\ used' = used \cup {k}
    BY <2>1, <2>2, InsertedTables, TableOf DEF TypesInv
  <2>4. Typed("task.publish", loc'[q], used')
    BY <2>1, <2>2, <2>3 DEF Holding, Typed, TaskSteps, DocSteps, ItemSteps
  <2>. QED  BY <2>1, <2>3, <2>4, HoldingTyped, IsStep DEF TypesInv, Moved
<1>2. ASSUME NEW q \in Calls, NEW k \in TaskKeys, NEW input \in TaskInput, TaskFind(q, k, input)
      PROVE  TypesInv'
  <2>1. /\ Moved(q, "idle", "task.save") /\ Holding(q, "TASK_UPDATED", k, row[k], input)
        /\ row[k] # None
        /\ Same /\ UNCHANGED told
    BY <1>2, TaskFindDoes DEF TypesInv
  <2>2. TablesTyped' /\ used' = used
    BY <2>1, SameTables DEF TypesInv
  <2>3. k \in used /\ row[k] \in Task
    BY <2>1, Found, TableOf, TasksAssumption
  <2>4. Typed("task.save", loc'[q], used')
    BY <2>1, <2>2, <2>3 DEF Holding, Typed, TaskSteps, DocSteps, ItemSteps
  <2>. QED  BY <2>1, <2>2, <2>4, HoldingTyped, IsStep DEF TypesInv, Moved
<1>3. ASSUME NEW q \in Calls, NEW k \in TaskKeys, TaskFindDoomed(q, k) PROVE TypesInv'
  <2>1. /\ Moved(q, "idle", "task.remove") /\ Holding(q, "TASK_DELETED", k, None, None)
        /\ row[k] # None
        /\ Same /\ UNCHANGED told
    BY <1>3, TaskFindDoomedDoes DEF TypesInv
  <2>2. TablesTyped' /\ used' = used
    BY <2>1, SameTables DEF TypesInv
  <2>3. k \in used
    BY <2>1, Found, TasksAssumption
  <2>4. Typed("task.remove", loc'[q], used')
    BY <2>1, <2>2, <2>3 DEF Holding, Typed, TaskSteps, DocSteps, ItemSteps
  <2>. QED  BY <2>1, <2>2, <2>4, HoldingTyped, IsStep DEF TypesInv, Moved
<1>4. ASSUME NEW q \in Calls, TaskSave(q) PROVE TypesInv'
  <2>. DEFINE task == IF loc[q].input = "keep" THEN loc[q].copy ELSE [status |-> loc[q].input]
  <2>1. \E op : Moved(q, "task.save", "task.publish")
                  /\ Holding(q, op, loc[q].key, task, loc[q].input)
    BY <1>4, TaskSaveDoes DEF TypesInv
  <2>2. SaveBack(loc[q].key, task) /\ UNCHANGED told
    BY <1>4, TaskSaveDoes DEF TypesInv
  <2>3. pc[q] = "task.save"
    BY <2>1 DEF Moved
  <2>4. loc[q].key \in TaskKeys \cap used /\ task \in Task
    BY <2>3, AtStep DEF Typed, TaskSteps, TaskInput, Task
  <2>. HIDE DEF task
  <2>5. TablesTyped' /\ used' = used
    BY <2>2, <2>4, SavedTables, TableOf, Apart, TasksAssumption DEF TypesInv
  <2>6. Typed("task.publish", loc'[q], used')
    BY <2>1, <2>4, <2>5 DEF Holding, Typed, TaskSteps, DocSteps, ItemSteps
  <2>. QED  BY <2>1, <2>5, <2>6, HoldingTyped, IsStep DEF TypesInv, Moved
<1>5. ASSUME NEW q \in Calls, TaskRemove(q) PROVE TypesInv'
  <2>1. /\ Moved(q, "task.remove", "task.publish") /\ Holding(q, loc[q].op, loc[q].key, loc[q].copy, loc[q].input)
        /\ RemoveRow(loc[q].key) /\ UNCHANGED told
    BY <1>5, TaskRemoveDoes DEF TypesInv, Keeps
  <2>2. loc[q].key \in TaskKeys \cap used /\ loc[q].copy \in Task \cup {None}
    BY <2>1, AtStep DEF Moved, Typed, TaskSteps, DocSteps, ItemSteps
  <2>3. TablesTyped' /\ used' = used
    BY <2>1, <2>2, RemovedTables, TableOf, Apart DEF TypesInv
  <2>4. Typed("task.publish", loc'[q], used')
    BY <2>1, <2>2, <2>3 DEF Holding, Typed, TaskSteps, DocSteps, ItemSteps
  <2>. QED  BY <2>1, <2>3, <2>4, HoldingTyped, IsStep DEF TypesInv, Moved
<1>6. ASSUME NEW q \in Calls, Publish(q, "task.publish") PROVE TypesInv'
  <2>1. loc[q].key \in TaskKeys /\ loc[q].copy \in Task \cup {None}
    BY <1>6, AtStep DEF Publish, Typed, TaskSteps, DocSteps, ItemSteps
  <2>. QED  BY <1>6, <2>1, TableOf, PublishedTyped DEF TypesInv
<1>. QED  BY <1>1, <1>2, <1>3, <1>4, <1>5, <1>6 DEF TaskNext, TaskPublish

LEMMA DocRows == ASSUME TypesInv, DocNext PROVE TypesInv'
<1>1. ASSUME NEW q \in Calls, NEW k \in DocKeys, NEW category \in DocumentCategory, DocUpload(q, k, category)
      PROVE  TypesInv'
  <2>1. /\ Moved(q, "idle", "doc.save")
        /\ Holding(q, "DOCUMENT_UPLOADED", k, [category |-> category], None)
        /\ Same /\ UNCHANGED told
    BY <1>1, DocUploadDoes DEF TypesInv
  <2>2. TablesTyped' /\ used' = used
    BY <2>1, SameTables DEF TypesInv
  <2>3. [category |-> category] \in Document
    BY DEF Document
  <2>4. Typed("doc.save", loc'[q], used')
    BY <2>1, <2>2, <2>3 DEF Holding, Typed, TaskSteps, DocSteps, ItemSteps
  <2>. QED  BY <2>1, <2>2, <2>4, HoldingTyped, IsStep DEF TypesInv, Moved
<1>2. ASSUME NEW q \in Calls, NEW k \in DocKeys, NEW input \in DocInput, DocFind(q, k, input)
      PROVE  TypesInv'
  <2>1. /\ Moved(q, "idle", "doc.update") /\ Holding(q, "DOCUMENT_UPDATED", k, row[k], input)
        /\ row[k] # None
        /\ Same /\ UNCHANGED told
    BY <1>2, DocFindDoes DEF TypesInv
  <2>2. TablesTyped' /\ used' = used
    BY <2>1, SameTables DEF TypesInv
  <2>3. k \in used /\ row[k] \in Document
    BY <2>1, Found, TableOf, DocumentsAssumption
  <2>4. Typed("doc.update", loc'[q], used')
    BY <2>1, <2>2, <2>3 DEF Holding, Typed, TaskSteps, DocSteps, ItemSteps
  <2>. QED  BY <2>1, <2>2, <2>4, HoldingTyped, IsStep DEF TypesInv, Moved
<1>3. ASSUME NEW q \in Calls, NEW k \in DocKeys, DocFindDoomed(q, k) PROVE TypesInv'
  <2>1. /\ Moved(q, "idle", "doc.object") /\ Holding(q, "DOCUMENT_DELETED", k, None, None)
        /\ row[k] # None
        /\ Same /\ UNCHANGED told
    BY <1>3, DocFindDoomedDoes DEF TypesInv
  <2>2. TablesTyped' /\ used' = used
    BY <2>1, SameTables DEF TypesInv
  <2>3. k \in used
    BY <2>1, Found, DocumentsAssumption
  <2>4. Typed("doc.object", loc'[q], used')
    BY <2>1, <2>2, <2>3 DEF Holding, Typed, TaskSteps, DocSteps, ItemSteps
  <2>. QED  BY <2>1, <2>2, <2>4, HoldingTyped, IsStep DEF TypesInv, Moved
<1>4. ASSUME NEW q \in Calls, DocSave(q) PROVE TypesInv'
  <2>1. /\ Moved(q, "doc.save", "doc.publish") /\ Holding(q, loc[q].op, loc[q].key, loc[q].copy, loc[q].input)
        /\ Insert(loc[q].key, loc[q].copy) /\ UNCHANGED told
    BY <1>4, DocSaveDoes DEF TypesInv, Keeps
  <2>2. loc[q].key \in DocKeys /\ loc[q].copy \in Document /\ loc[q].key \in Keys
    BY <2>1, DocumentsAssumption, AtStep DEF Moved, Typed, TaskSteps, DocSteps, ItemSteps
  <2>3. TablesTyped' /\ used' = used \cup {loc[q].key}
    BY <2>1, <2>2, InsertedTables, TableOf DEF TypesInv
  <2>4. Typed("doc.publish", loc'[q], used')
    BY <2>1, <2>2, <2>3 DEF Holding, Typed, TaskSteps, DocSteps, ItemSteps
  <2>. QED  BY <2>1, <2>3, <2>4, HoldingTyped, IsStep DEF TypesInv, Moved
<1>5. ASSUME NEW q \in Calls, DocUpdate(q) PROVE TypesInv'
  <2>. DEFINE doc == IF loc[q].input = "keep" THEN loc[q].copy ELSE [category |-> loc[q].input]
  <2>1. /\ Moved(q, "doc.update", "doc.publish")
        /\ Holding(q, loc[q].op, loc[q].key, doc, loc[q].input)
        /\ SaveBack(loc[q].key, doc) /\ UNCHANGED told
    BY <1>5, DocUpdateDoes DEF TypesInv
  <2>2. pc[q] = "doc.update"
    BY <2>1 DEF Moved
  <2>3. loc[q].key \in DocKeys \cap used /\ doc \in Document
    BY <2>2, AtStep DEF Typed, DocSteps, DocInput, Document
  <2>. HIDE DEF doc
  <2>4. TablesTyped' /\ used' = used
    BY <2>1, <2>3, SavedTables, TableOf, Apart, DocumentsAssumption DEF TypesInv
  <2>5. Typed("doc.publish", loc'[q], used')
    BY <2>1, <2>3, <2>4 DEF Holding, Typed, TaskSteps, DocSteps, ItemSteps
  <2>. QED  BY <2>1, <2>4, <2>5, HoldingTyped, IsStep DEF TypesInv, Moved
<1>6. ASSUME NEW q \in Calls, DocDeleteObject(q) PROVE TypesInv'
  <2>1. /\ Moved(q, "doc.object", "doc.remove") /\ Holding(q, loc[q].op, loc[q].key, loc[q].copy, loc[q].input)
        /\ Same /\ UNCHANGED told
    BY <1>6, DocDeleteObjectDoes DEF TypesInv, Keeps
  <2>2. TablesTyped' /\ used' = used
    BY <2>1, SameTables DEF TypesInv
  <2>3. loc[q].key \in DocKeys /\ loc[q].copy \in Document \cup {None}
    BY <2>1, AtStep DEF Moved, Typed, TaskSteps, DocSteps, ItemSteps
  <2>4. Typed("doc.remove", loc'[q], used')
    BY <2>1, <2>2, <2>3 DEF Holding, Typed, TaskSteps, DocSteps, ItemSteps
  <2>. QED  BY <2>1, <2>2, <2>4, HoldingTyped, IsStep DEF TypesInv, Moved
<1>7. ASSUME NEW q \in Calls, DocRemove(q) PROVE TypesInv'
  <2>1. /\ Moved(q, "doc.remove", "doc.publish") /\ Holding(q, loc[q].op, loc[q].key, loc[q].copy, loc[q].input)
        /\ RemoveRow(loc[q].key) /\ UNCHANGED told
    BY <1>7, DocRemoveDoes DEF TypesInv, Keeps
  <2>2. loc[q].key \in DocKeys /\ loc[q].copy \in Document \cup {None}
    BY <2>1, AtStep DEF Moved, Typed, TaskSteps, DocSteps, ItemSteps
  <2>3. TablesTyped' /\ used' = used
    BY <2>1, <2>2, RemovedTables, TableOf, Apart DEF TypesInv
  <2>4. Typed("doc.publish", loc'[q], used')
    BY <2>1, <2>2, <2>3 DEF Holding, Typed, TaskSteps, DocSteps, ItemSteps
  <2>. QED  BY <2>1, <2>3, <2>4, HoldingTyped, IsStep DEF TypesInv, Moved
<1>8. ASSUME NEW q \in Calls, Publish(q, "doc.publish") PROVE TypesInv'
  <2>1. loc[q].key \in DocKeys /\ loc[q].copy \in Document \cup {None}
    BY <1>8, AtStep DEF Publish, Typed, TaskSteps, DocSteps, ItemSteps
  <2>. QED  BY <1>8, <2>1, TableOf, PublishedTyped DEF TypesInv
<1>. QED  BY <1>1, <1>2, <1>3, <1>4, <1>5, <1>6, <1>7, <1>8 DEF DocNext, DocPublish

LEMMA HasGreatest ==
  ASSUME NEW S, S \subseteq Nat, S # {}, NEW b \in Nat, \A x \in S : x <= b
  PROVE  Max(S) \in S
<1>. DEFINE T == {b - x : x \in S}
<1>1. \A x \in S : b - x \in Nat
  OBVIOUS
<1>2. T \subseteq Nat /\ T # {}
  <2>1. PICK x \in S : TRUE
    OBVIOUS
  <2>2. b - x \in T
    OBVIOUS
  <2>. QED  BY <1>1, <2>2
<1>3. PICK y \in T : \A z \in T : <<z, y>> \notin OpToRel(<, Nat)
  BY <1>2, NatLessThanWellFounded, WFMin
<1>4. \A z \in T : ~(z < y)
  BY <1>2, <1>3 DEF OpToRel
<1>5. PICK m \in S : y = b - m
  BY DEF T
<1>6. \A x \in S : m >= x
  <2>. TAKE x \in S
  <2>1. b - x \in T
    OBVIOUS
  <2>2. ~(b - x < b - m)
    BY <1>4, <1>5, <2>1
  <2>3. x \in Nat /\ m \in Nat /\ b \in Nat
    OBVIOUS
  <2>. HIDE DEF T
  <2>. QED  BY <2>2, <2>3
<1>. QED  BY <1>6 DEF Max

LEMMA NextIndexNat == ASSUME RowsInv PROVE NextIndex \in Nat
<1>1. PICK b \in Nat : \A d \in Days : row[d].index <= b
  BY DEF RowsInv, TablesTyped
<1>2. \A d \in Days : row[d].index \in Nat
  BY DayTyped DEF ItineraryDay
<1>. DEFINE S == {row[k].index : k \in Days}
<1>3. S \subseteq Nat /\ \A x \in S : x <= b
  BY <1>1, <1>2
<1>4. Days # {} => S # {}
  OBVIOUS
<1>5. Days # {} => Max(S) \in Nat
  BY <1>3, <1>4, HasGreatest
<1>. QED  BY <1>5 DEF NextIndex

LEMMA DayRows == ASSUME TypesInv, DayNext PROVE TypesInv'
<1>1. ASSUME NEW q \in Calls, NEW date \in Dates, NEW index \in 0..MaxIndex \cup {None}, DayFind(q, date, index)
      PROVE  TypesInv'
  <2>. DEFINE day == [date |-> date, index |-> IF index = None THEN NextIndex ELSE index]
  <2>1. /\ Moved(q, "idle", "day.save")
        /\ Holding(q, "ITINERARY_DAY_CREATED", None, day, None)
        /\ Same /\ UNCHANGED told
    BY <1>1, DayFindDoes DEF TypesInv
  <2>2. TablesTyped' /\ used' = used
    BY <2>1, SameTables DEF TypesInv
  <2>3. day \in ItineraryDay
    BY NextIndexNat DEF ItineraryDay, TypesInv
  <2>. HIDE DEF day
  <2>4. Typed("day.save", loc'[q], used')
    BY <2>1, <2>2, <2>3 DEF Holding, Typed, TaskSteps, DocSteps, ItemSteps
  <2>. QED  BY <2>1, <2>2, <2>4, HoldingTyped, IsStep DEF TypesInv, Moved
<1>2. ASSUME NEW q \in Calls, NEW k \in DayKeys, DaySave(q, k) PROVE TypesInv'
  <2>1. loc[q].key = None /\ loc[q].copy \in ItineraryDay /\ k \in Keys
    BY <1>2, AtStep DEF DaySave, Typed, TaskSteps, DocSteps, ItemSteps
  <2>2. CASE /\ Moved(q, "day.save", "day.publish") /\ Holding(q, loc[q].op, k, loc[q].copy, loc[q].input)
             /\ Insert(k, loc[q].copy) /\ UNCHANGED told
    <3>1. TablesTyped' /\ used' = used \cup {k}
      BY <2>1, <2>2, InsertedTables, TableOf DEF TypesInv
    <3>2. Typed("day.publish", loc'[q], used')
      BY <2>1, <2>2, <3>1 DEF Holding, Typed, TaskSteps, DocSteps, ItemSteps
    <3>. QED  BY <2>2, <3>1, <3>2, HoldingTyped, IsStep DEF TypesInv, Moved
  <2>3. CASE Ended(q) /\ Same /\ UNCHANGED told
    <3>1. TablesTyped' /\ used' = used
      BY <2>3, SameTables DEF TypesInv
    <3>. QED  BY <2>3, <3>1, EndedTyped DEF TypesInv, Ended, Moved
  <2>. QED  BY <1>2, <2>2, <2>3, DaySaveDoes DEF TypesInv
<1>3. ASSUME NEW q \in Calls, Publish(q, "day.publish") PROVE TypesInv'
  <2>1. loc[q].key \in DayKeys /\ loc[q].copy \in ItineraryDay
    BY <1>3, AtStep DEF Publish, Typed, TaskSteps, DocSteps, ItemSteps
  <2>. QED  BY <1>3, <2>1, TableOf, PublishedTyped DEF TypesInv
<1>. QED  BY <1>1, <1>2, <1>3 DEF DayNext

LEMMA ItemRows == ASSUME TypesInv, ItemNext PROVE TypesInv'
<1>1. ASSUME NEW q \in Calls, NEW day \in DayKeys \cup {None}, ItemFindDay(q, day) PROVE TypesInv'
  <2>1. /\ Moved(q, "idle", "item.save") /\ Holding(q, "ITINERARY_ITEM_CREATED", None, [day |-> day, booking |-> None], None)
        /\ Same /\ UNCHANGED told
    BY <1>1, ItemFindDayDoes DEF TypesInv
  <2>2. TablesTyped' /\ used' = used
    BY <2>1, SameTables DEF TypesInv
  <2>3. [day |-> day, booking |-> None] \in ItineraryItem
    BY SMT DEF ItineraryItem
  <2>4. Typed("item.save", loc'[q], used')
    BY <2>1, <2>2, <2>3 DEF Holding, Typed, TaskSteps, DocSteps, ItemSteps
  <2>. QED  BY <2>1, <2>2, <2>4, HoldingTyped, IsStep DEF TypesInv, Moved
<1>2. ASSUME NEW q \in Calls, NEW k \in ItemKeys, ItemSave(q, k) PROVE TypesInv'
  <2>1. /\ Moved(q, "item.save", "item.publish") /\ Holding(q, loc[q].op, k, loc[q].copy, loc[q].input)
        /\ Insert(k, loc[q].copy) /\ UNCHANGED told
    BY <1>2, ItemSaveDoes DEF TypesInv, Keeps
  <2>2. k \in Keys /\ loc[q].copy \in ItineraryItem
    BY <2>1, AtStep DEF Moved, Typed, TaskSteps, DocSteps, ItemSteps
  <2>3. TablesTyped' /\ used' = used \cup {k}
    BY <2>1, <2>2, InsertedTables, TableOf DEF TypesInv
  <2>4. Typed("item.publish", loc'[q], used')
    BY <2>1, <2>2, <2>3 DEF Holding, Typed, TaskSteps, DocSteps, ItemSteps
  <2>. QED  BY <2>1, <2>3, <2>4, HoldingTyped, IsStep DEF TypesInv, Moved
<1>3. ASSUME NEW q \in Calls, NEW k \in ItemKeys, ItemFindDoomed(q, k) PROVE TypesInv'
  <2>1. /\ Moved(q, "idle", "item.remove") /\ Holding(q, "ITINERARY_ITEM_DELETED", k, None, None)
        /\ row[k] # None
        /\ Same /\ UNCHANGED told
    BY <1>3, ItemFindDoomedDoes DEF TypesInv
  <2>2. TablesTyped' /\ used' = used
    BY <2>1, SameTables DEF TypesInv
  <2>3. k \in used
    BY <2>1, Found, ItineraryAssumption
  <2>4. Typed("item.remove", loc'[q], used')
    BY <2>1, <2>2, <2>3 DEF Holding, Typed, TaskSteps, DocSteps, ItemSteps
  <2>. QED  BY <2>1, <2>2, <2>4, HoldingTyped, IsStep DEF TypesInv, Moved
<1>4. ASSUME NEW q \in Calls, NEW k \in ItemKeys, NEW input \in DayInput, ItemFind(q, k, input)
      PROVE  TypesInv'
  <2>. DEFINE step == IF input \in DayKeys THEN "item.day" ELSE "item.update"
  <2>1. /\ Moved(q, "idle", step)
        /\ Holding(q, "ITINERARY_ITEM_UPDATED", k, row[k], input)
        /\ row[k] # None
        /\ Same /\ UNCHANGED told
    BY <1>4, ItemFindDoes DEF TypesInv
  <2>2. TablesTyped' /\ used' = used
    BY <2>1, SameTables DEF TypesInv
  <2>3. k \in used /\ row[k] \in ItineraryItem
    BY <2>1, Found, TableOf, ItineraryAssumption
  <2>4. step \in {"item.day", "item.update"}
    OBVIOUS
  <2>. HIDE DEF step
  <2>5. Typed(step, loc'[q], used')
    BY <2>1, <2>2, <2>3, <2>4 DEF Holding, Typed, TaskSteps, DocSteps, ItemSteps
  <2>6. step \in CallSteps
    BY <2>4, IsStep
  <2>. QED  BY <2>1, <2>2, <2>5, <2>6, HoldingTyped DEF TypesInv, Moved
<1>5. ASSUME NEW q \in Calls, ItemDay(q) PROVE TypesInv'
  <2>1. /\ loc[q].key \in ItemKeys \cap used /\ loc[q].copy \in ItineraryItem
        /\ loc[q].input \in DayInput
    BY <1>5, AtStep DEF ItemDay, Typed, ItemSteps
  <2>2. TablesTyped' /\ used' = used
    BY <1>5, ItemDayDoes, SameTables DEF TypesInv
  <2>3. CASE Moved(q, "item.day", "item.update") /\ Keeps(q)
    <3>1. Typed("item.update", loc'[q], used')
      BY <2>1, <2>2, <2>3 DEF Holding, Typed, TaskSteps, DocSteps, ItemSteps, Keeps
    <3>. QED  BY <2>2, <2>3, <3>1, HoldingTyped, IsStep DEF TypesInv, Moved, Keeps
  <2>4. CASE Ended(q)
    BY <2>2, <2>4, EndedTyped DEF TypesInv, Ended, Moved
  <2>. QED  BY <1>5, <2>3, <2>4, ItemDayDoes DEF TypesInv
<1>6. ASSUME NEW q \in Calls, ItemUpdate(q) PROVE TypesInv'
  <2>. DEFINE wanted == Wanted(loc[q].copy, loc[q].input)
              skipped == loc[q].input = None /\ row[loc[q].key] # None
              saving == IF skipped THEN [wanted EXCEPT !.day = row[loc[q].key].day] ELSE wanted
  <2>1. /\ loc[q].key \in ItemKeys \cap used /\ loc[q].copy \in ItineraryItem
        /\ loc[q].input \in DayInput
    BY <1>6, AtStep DEF ItemUpdate, Typed, ItemSteps
  <2>2. /\ Moved(q, "item.update", "item.publish")
        /\ Holding(q, loc[q].op, loc[q].key, wanted, loc[q].input)
        /\ SaveBack(loc[q].key, saving) /\ UNCHANGED told
    BY <1>6, ItemUpdateDoes DEF TypesInv
  <2>3. wanted \in ItineraryItem
    BY <2>1 DEF Wanted, ItineraryItem, DayInput
  <2>4. skipped => row[loc[q].key] \in ItineraryItem
    BY <2>1, Found, TableOf, ItineraryAssumption
  <2>5. saving \in ItineraryItem
    <3>. HIDE DEF wanted, skipped
    <3>. QED  BY <2>3, <2>4 DEF ItineraryItem
  <2>. HIDE DEF saving, wanted, skipped
  <2>6. TablesTyped' /\ used' = used
    BY <2>1, <2>2, <2>5, SavedTables, TableOf, ItineraryAssumption DEF TypesInv
  <2>7. Typed("item.publish", loc'[q], used')
    BY <2>1, <2>2, <2>3, <2>6 DEF Holding, Typed, TaskSteps, DocSteps, ItemSteps
  <2>. QED  BY <2>2, <2>6, <2>7, HoldingTyped, IsStep DEF TypesInv, Moved
<1>7. ASSUME NEW q \in Calls, ItemRemove(q) PROVE TypesInv'
  <2>1. loc[q].key \in ItemKeys \cap used /\ loc[q].copy \in ItineraryItem \cup {None}
    BY <1>7, AtStep DEF ItemRemove, Typed, ItemSteps
  <2>. DEFINE attached == CommentsOf(loc[q].key)
  <2>0. /\ Moved(q, "item.remove", "item.publish") /\ Keeps(q) /\ UNCHANGED <<used, told>>
        /\ row' = [k \in Keys |-> IF k = loc[q].key THEN None
                                  ELSE IF k \in attached THEN [item |-> None] ELSE row[k]]
    BY <1>7, ItemRemoveDoes DEF TypesInv
  <2>a. attached \subseteq CommentKeys
    BY DEF CommentsOf
  <2>b. \A k \in DayKeys : k \in Keys /\ k # loc[q].key /\ k \notin attached
    BY <2>1, <2>a, Apart, ItineraryAssumption
  <2>. HIDE DEF attached
  <2>2. /\ DOMAIN row' = Keys
        /\ \A k \in Keys : \/ row'[k] = None
                          \/ row'[k] = row[k]
                          \/ (k \in attached /\ row'[k] = [item |-> None])
        /\ \A k \in DayKeys : row'[k] = row[k]
    BY <2>0, <2>b
  <2>3. \A k \in attached : [item |-> None] \in Tables[k] /\ k \in used
    <3>1. [item |-> None] \in Comment
      BY DEF Comment
    <3>2. \A k \in attached : k \in used
      BY Found, ItineraryAssumption DEF CommentsOf, attached
    <3>. QED  BY <2>a, <3>1, <3>2, TableOf
  <2>4. \A k \in Keys : row'[k] # None => row'[k] \in Tables[k] /\ k \in used'
    BY <2>0, <2>2, <2>3, Found
  <2>5. \E b \in Nat : \A d \in Days' : row'[d].index <= b
    BY <2>2 DEF TypesInv, RowsInv, TablesTyped, Days
  <2>6. TablesTyped'
    BY <2>0, <2>2, <2>4, <2>5 DEF TypesInv, RowsInv, TablesTyped
  <2>7. Typed("item.publish", loc'[q], used')
    BY <2>0, <2>1 DEF Holding, Typed, TaskSteps, DocSteps, ItemSteps, Keeps
  <2>. QED  BY <2>0, <2>6, <2>7, HoldingTyped, IsStep DEF TypesInv, Moved, Keeps
<1>8. ASSUME NEW q \in Calls, Publish(q, "item.publish") PROVE TypesInv'
  <2>1. loc[q].key \in ItemKeys /\ loc[q].copy \in ItineraryItem \cup {None}
    BY <1>8, AtStep DEF Publish, Typed, TaskSteps, DocSteps, ItemSteps
  <2>. QED  BY <1>8, <2>1, TableOf, PublishedTyped DEF TypesInv
<1>. QED  BY <1>1, <1>2, <1>3, <1>4, <1>5, <1>6, <1>7, <1>8 DEF ItemNext

LEMMA AttachRows == ASSUME TypesInv, AttachNext PROVE TypesInv'
<1>1. ASSUME NEW q \in Calls, NEW k \in ItemKeys, NEW b \in BookingKeys, AttachFind(q, k, b)
      PROVE  TypesInv'
  <2>1. /\ Moved(q, "idle", "item.attach") /\ Holding(q, "BOOKING_ATTACHED", k, [row[k] EXCEPT !.booking = b], None)
        /\ row[k] # None
        /\ Same /\ UNCHANGED told
    BY <1>1, AttachFindDoes DEF TypesInv
  <2>2. TablesTyped' /\ used' = used
    BY <2>1, SameTables DEF TypesInv
  <2>0. k \in used /\ row[k] \in ItineraryItem
    BY <2>1, Found, TableOf, ItineraryAssumption
  <2>3. [row[k] EXCEPT !.booking = b] \in ItineraryItem
    BY <2>0 DEF ItineraryItem
  <2>4. Typed("item.attach", loc'[q], used')
    BY <2>0, <2>1, <2>2, <2>3 DEF Holding, Typed, TaskSteps, DocSteps, ItemSteps
  <2>. QED  BY <2>1, <2>2, <2>4, HoldingTyped, IsStep DEF TypesInv, Moved
<1>2. ASSUME NEW q \in Calls, AttachSave(q) PROVE TypesInv'
  <2>1. /\ Moved(q, "item.attach", "item.publish") /\ Holding(q, loc[q].op, loc[q].key, loc[q].copy, loc[q].input)
        /\ SaveBack(loc[q].key, loc[q].copy) /\ UNCHANGED told
    BY <1>2, AttachSaveDoes DEF TypesInv, Keeps
  <2>2. loc[q].key \in ItemKeys \cap used /\ loc[q].copy \in ItineraryItem
    BY <2>1, AtStep DEF Moved, Typed, TaskSteps, DocSteps, ItemSteps
  <2>3. TablesTyped' /\ used' = used
    BY <2>1, <2>2, SavedTables, TableOf, Apart DEF TypesInv
  <2>4. Typed("item.publish", loc'[q], used')
    BY <2>1, <2>2, <2>3 DEF Holding, Typed, TaskSteps, DocSteps, ItemSteps
  <2>. QED  BY <2>1, <2>3, <2>4, HoldingTyped, IsStep DEF TypesInv, Moved
<1>. QED  BY <1>1, <1>2 DEF AttachNext

LEMMA CommentRows == ASSUME TypesInv, CommentNext PROVE TypesInv'
<1>1. ASSUME NEW q \in Calls, NEW item \in ItemKeys \cup {None}, CommentFind(q, item)
      PROVE  TypesInv'
  <2>1. /\ Moved(q, "idle", "comment.save") /\ Holding(q, "COMMENT_CREATED", None, [item |-> item], None)
        /\ Same /\ UNCHANGED told
    BY <1>1, CommentFindDoes DEF TypesInv
  <2>2. TablesTyped' /\ used' = used
    BY <2>1, SameTables DEF TypesInv
  <2>3. [item |-> item] \in Comment
    BY SMT DEF Comment
  <2>4. Typed("comment.save", loc'[q], used')
    BY <2>1, <2>2, <2>3 DEF Holding, Typed, TaskSteps, DocSteps, ItemSteps
  <2>. QED  BY <2>1, <2>2, <2>4, HoldingTyped, IsStep DEF TypesInv, Moved
<1>2. ASSUME NEW q \in Calls, NEW k \in CommentKeys, CommentSave(q, k) PROVE TypesInv'
  <2>1. loc[q].key = None /\ loc[q].copy \in Comment /\ k \in Keys
    BY <1>2, AtStep DEF CommentSave, Typed, TaskSteps, DocSteps, ItemSteps
  <2>2. CASE /\ Moved(q, "comment.save", "comment.publish") /\ Holding(q, loc[q].op, k, loc[q].copy, loc[q].input)
             /\ Insert(k, loc[q].copy) /\ UNCHANGED told
    <3>1. TablesTyped' /\ used' = used \cup {k}
      BY <2>1, <2>2, InsertedTables, TableOf DEF TypesInv
    <3>2. Typed("comment.publish", loc'[q], used')
      BY <2>1, <2>2, <3>1 DEF Holding, Typed, TaskSteps, DocSteps, ItemSteps
    <3>. QED  BY <2>2, <3>1, <3>2, HoldingTyped, IsStep DEF TypesInv, Moved
  <2>3. CASE Ended(q) /\ Same /\ UNCHANGED told
    <3>1. TablesTyped' /\ used' = used
      BY <2>3, SameTables DEF TypesInv
    <3>. QED  BY <2>3, <3>1, EndedTyped DEF TypesInv, Ended, Moved
  <2>. QED  BY <1>2, <2>2, <2>3, CommentSaveDoes DEF TypesInv
<1>3. ASSUME NEW q \in Calls, Publish(q, "comment.publish") PROVE TypesInv'
  <2>1. loc[q].key \in CommentKeys /\ loc[q].copy \in Comment
    BY <1>3, AtStep DEF Publish, Typed, TaskSteps, DocSteps, ItemSteps
  <2>. QED  BY <1>3, <2>1, TableOf, PublishedTyped DEF TypesInv
<1>. QED  BY <1>1, <1>2, <1>3 DEF CommentNext

LEMMA CollabRows == ASSUME TypesInv, CollabNext PROVE TypesInv'
<1>1. ASSUME NEW q \in Calls, NEW k \in ProposalKeys, ProposalCreate(q, k) PROVE TypesInv'
  <2>1. /\ Moved(q, "idle", "proposal.publish") /\ Holding(q, "PROPOSAL_CREATED", k, [status |-> "OPEN"], None)
        /\ Insert(k, [status |-> "OPEN"]) /\ UNCHANGED told
    BY <1>1, ProposalCreateDoes DEF TypesInv, Keeps
  <2>2. [status |-> "OPEN"] \in Proposal /\ k \in Keys
    BY CollabAssumption DEF Proposal, ProposalStatus
  <2>3. TablesTyped' /\ used' = used \cup {k}
    BY <2>1, <2>2, InsertedTables, TableOf DEF TypesInv
  <2>4. Typed("proposal.publish", loc'[q], used')
    BY <2>1, <2>2, <2>3 DEF Holding, Typed, TaskSteps, DocSteps, ItemSteps
  <2>. QED  BY <2>1, <2>3, <2>4, HoldingTyped, IsStep DEF TypesInv, Moved
<1>2. ASSUME NEW q \in Calls, NEW k \in ProposalKeys, OptionFind(q, k) PROVE TypesInv'
  <2>1. /\ Moved(q, "idle", "option.save") /\ Holding(q, "PROPOSAL_OPTION_CREATED", None, [proposal |-> k], None)
        /\ Same /\ UNCHANGED told
    BY <1>2, OptionFindDoes DEF TypesInv
  <2>2. TablesTyped' /\ used' = used
    BY <2>1, SameTables DEF TypesInv
  <2>3. [proposal |-> k] \in ProposalOption
    BY SMT DEF ProposalOption
  <2>4. Typed("option.save", loc'[q], used')
    BY <2>1, <2>2, <2>3 DEF Holding, Typed, TaskSteps, DocSteps, ItemSteps
  <2>. QED  BY <2>1, <2>2, <2>4, HoldingTyped, IsStep DEF TypesInv, Moved
<1>3. ASSUME NEW q \in Calls, NEW k \in OptionKeys, OptionSave(q, k) PROVE TypesInv'
  <2>1. /\ Moved(q, "option.save", "option.publish") /\ Holding(q, loc[q].op, k, loc[q].copy, loc[q].input)
        /\ Insert(k, loc[q].copy) /\ UNCHANGED told
    BY <1>3, OptionSaveDoes DEF TypesInv, Keeps
  <2>2. k \in Keys /\ loc[q].copy \in ProposalOption
    BY <2>1, AtStep DEF Moved, Typed, TaskSteps, DocSteps, ItemSteps
  <2>3. TablesTyped' /\ used' = used \cup {k}
    BY <2>1, <2>2, InsertedTables, TableOf DEF TypesInv
  <2>4. Typed("option.publish", loc'[q], used')
    BY <2>1, <2>2, <2>3 DEF Holding, Typed, TaskSteps, DocSteps, ItemSteps
  <2>. QED  BY <2>1, <2>3, <2>4, HoldingTyped, IsStep DEF TypesInv, Moved
<1>4. ASSUME NEW q \in Calls, NEW k \in OptionKeys, NEW u \in Voters, VoteCheck(q, u, k)
      PROVE  TypesInv'
  <2>1. /\ Moved(q, "idle", "vote.find") /\ Holding(q, "VOTE_TOGGLED", None, [option |-> k, user |-> u], None)
        /\ Same /\ UNCHANGED told
    BY <1>4, VoteCheckDoes DEF TypesInv
  <2>2. TablesTyped' /\ used' = used
    BY <2>1, SameTables DEF TypesInv
  <2>3. [option |-> k, user |-> u] \in Vote
    BY SMT DEF Vote
  <2>4. Typed("vote.find", loc'[q], used')
    BY <2>1, <2>2, <2>3 DEF Holding, Typed, TaskSteps, DocSteps, ItemSteps
  <2>. QED  BY <2>1, <2>2, <2>4, HoldingTyped, IsStep DEF TypesInv, Moved
<1>5. ASSUME NEW q \in Calls, VoteFind(q) PROVE TypesInv'
  <2>1. loc[q].key = None /\ loc[q].copy \in Vote
    BY <1>5, AtStep DEF VoteFind, Typed
  <2>2. TablesTyped' /\ used' = used
    BY <1>5, VoteFindDoes, SameTables DEF TypesInv
  <2>3. CASE Moved(q, "vote.find", "vote.save") /\ Keeps(q)
    <3>1. Typed("vote.save", loc'[q], used')
      BY <2>1, <2>2, <2>3 DEF Holding, Typed, TaskSteps, DocSteps, ItemSteps, Keeps
    <3>. QED  BY <2>2, <2>3, <3>1, HoldingTyped, IsStep DEF TypesInv, Moved, Keeps
  <2>4. ASSUME NEW k \in VoteKeys, Moved(q, "vote.find", "vote.remove"),
               Holding(q, loc[q].op, k, None, loc[q].input)
        PROVE  TypesInv'
    <3>1. Typed("vote.remove", loc'[q], used')
      BY <2>4 DEF Holding, Typed, TaskSteps, DocSteps, ItemSteps
    <3>. QED  BY <2>2, <2>4, <3>1, HoldingTyped, IsStep DEF TypesInv, Moved
  <2>. QED  BY <1>5, <2>3, <2>4, VoteFindDoes DEF TypesInv, VotesOf
<1>6. ASSUME NEW q \in Calls, VoteRemove(q) PROVE TypesInv'
  <2>1. /\ Moved(q, "vote.remove", "vote.publish") /\ Holding(q, loc[q].op, loc[q].key, loc[q].copy, loc[q].input)
        /\ RemoveRow(loc[q].key) /\ UNCHANGED told
    BY <1>6, VoteRemoveDoes DEF TypesInv, Keeps
  <2>2. loc[q].key \in VoteKeys /\ loc[q].copy \in Vote \cup {None}
    BY <2>1, AtStep DEF Moved, Typed, TaskSteps, DocSteps, ItemSteps
  <2>3. TablesTyped' /\ used' = used
    BY <2>1, <2>2, RemovedTables, TableOf, Apart DEF TypesInv
  <2>4. Typed("vote.publish", loc'[q], used')
    BY <2>1, <2>2, <2>3 DEF Holding, Typed, TaskSteps, DocSteps, ItemSteps
  <2>. QED  BY <2>1, <2>3, <2>4, HoldingTyped, IsStep DEF TypesInv, Moved
<1>7. ASSUME NEW q \in Calls, NEW k \in VoteKeys, VoteSave(q, k) PROVE TypesInv'
  <2>1. loc[q].key = None /\ loc[q].copy \in Vote /\ k \in Keys
    BY <1>7, AtStep DEF VoteSave, Typed, TaskSteps, DocSteps, ItemSteps
  <2>2. CASE /\ Moved(q, "vote.save", "vote.publish") /\ Holding(q, loc[q].op, k, loc[q].copy, loc[q].input)
             /\ Insert(k, loc[q].copy) /\ UNCHANGED told
    <3>1. TablesTyped' /\ used' = used \cup {k}
      BY <2>1, <2>2, InsertedTables, TableOf DEF TypesInv
    <3>2. Typed("vote.publish", loc'[q], used')
      BY <2>1, <2>2, <3>1 DEF Holding, Typed, TaskSteps, DocSteps, ItemSteps
    <3>. QED  BY <2>2, <3>1, <3>2, HoldingTyped, IsStep DEF TypesInv, Moved
  <2>3. CASE Ended(q) /\ Same /\ UNCHANGED told
    <3>1. TablesTyped' /\ used' = used
      BY <2>3, SameTables DEF TypesInv
    <3>. QED  BY <2>3, <3>1, EndedTyped DEF TypesInv, Ended, Moved
  <2>. QED  BY <1>7, <2>2, <2>3, VoteSaveDoes DEF TypesInv
<1>8. ASSUME NEW q \in Calls, Publish(q, "proposal.publish") PROVE TypesInv'
  <2>1. loc[q].key \in ProposalKeys /\ loc[q].copy \in Proposal
    BY <1>8, AtStep DEF Publish, Typed, TaskSteps, DocSteps, ItemSteps
  <2>. QED  BY <1>8, <2>1, TableOf, PublishedTyped DEF TypesInv
<1>9. ASSUME NEW q \in Calls, Publish(q, "option.publish") PROVE TypesInv'
  <2>1. loc[q].key \in OptionKeys /\ loc[q].copy \in ProposalOption
    BY <1>9, AtStep DEF Publish, Typed, TaskSteps, DocSteps, ItemSteps
  <2>. QED  BY <1>9, <2>1, TableOf, PublishedTyped DEF TypesInv
<1>10. ASSUME NEW q \in Calls, Publish(q, "vote.publish") PROVE TypesInv'
  <2>1. loc[q].key \in VoteKeys /\ loc[q].copy \in Vote \cup {None}
    BY <1>10, AtStep DEF Publish, Typed, TaskSteps, DocSteps, ItemSteps
  <2>. QED  BY <1>10, <2>1, TableOf, PublishedTyped DEF TypesInv
<1>. QED  BY <1>1, <1>2, <1>3, <1>4, <1>5, <1>6, <1>7, <1>8, <1>9, <1>10 DEF CollabNext

LEMMA RuleRows == ASSUME TypesInv, RuleNext PROVE TypesInv'
<1>1. ASSUME NEW q \in Calls, NEW request \in Requests, UpsertFind(q, request) PROVE TypesInv'
  <2>1. /\ Moved(q, "idle", "rules.set")
        /\ Holding(q, "RULESET_UPSERTED", RuleSetKey, row[RuleSetKey], request)
        /\ Same /\ UNCHANGED told
    BY <1>1, UpsertFindDoes DEF TypesInv
  <2>2. TablesTyped' /\ used' = used
    BY <2>1, SameTables DEF TypesInv
  <2>3. row[RuleSetKey] # None => RuleSetKey \in used /\ row[RuleSetKey] \in RuleSet
    BY Found, TableOf, RulesAssumption
  <2>4. Typed("rules.set", loc'[q], used')
    BY <2>1, <2>2, <2>3 DEF Holding, Typed, TaskSteps, DocSteps, ItemSteps
  <2>. QED  BY <2>1, <2>2, <2>4, HoldingTyped, IsStep DEF TypesInv, Moved
<1>2. ASSUME NEW q \in Calls, UpsertSet(q) PROVE TypesInv'
  <2>1. /\ loc[q].key = RuleSetKey /\ loc[q].copy \in RuleSet \cup {None}
        /\ loc[q].input \in Requests /\ (loc[q].copy # None => RuleSetKey \in used)
    BY <1>2, AtStep DEF UpsertSet, Typed
  <2>2. CASE /\ Moved(q, "rules.set", "rules.delete")
             /\ Holding(q, loc[q].op, loc[q].key, "a rule set", loc[q].input)
             /\ Insert(RuleSetKey, "a rule set") /\ UNCHANGED told
    <3>1. TablesTyped' /\ used' = used \cup {RuleSetKey}
      BY <2>2, InsertedTables, TableOf, RulesAssumption DEF TypesInv, RuleSet
    <3>2. Typed("rules.delete", loc'[q], used')
      BY <2>1, <2>2, <3>1 DEF Holding, Typed, TaskSteps, DocSteps, ItemSteps, RuleSet
    <3>. QED  BY <2>2, <3>1, <3>2, HoldingTyped, IsStep DEF TypesInv, Moved
  <2>3. CASE /\ Moved(q, "rules.set", "rules.delete") /\ Keeps(q) /\ loc[q].copy # None
             /\ SaveBack(RuleSetKey, loc[q].copy) /\ UNCHANGED told
    <3>1. TablesTyped' /\ used' = used
      BY <2>1, <2>3, SavedTables, TableOf, Apart, RulesAssumption DEF TypesInv
    <3>2. Typed("rules.delete", loc'[q], used')
      BY <2>1, <2>3, <3>1 DEF Holding, Typed, TaskSteps, DocSteps, ItemSteps, Keeps
    <3>. QED  BY <2>3, <3>1, <3>2, HoldingTyped, IsStep DEF TypesInv, Moved, Keeps
  <2>4. CASE Ended(q) /\ Same /\ UNCHANGED told
    <3>1. TablesTyped' /\ used' = used
      BY <2>4, SameTables DEF TypesInv
    <3>. QED  BY <2>4, <3>1, EndedTyped DEF TypesInv, Ended, Moved
  <2>. QED  BY <1>2, <2>2, <2>3, <2>4, UpsertSetDoes DEF TypesInv, ruleVars
<1>3. ASSUME NEW q \in Calls, UpsertDelete(q) PROVE TypesInv'
  <2>1. /\ Moved(q, "rules.delete", "rules.save") /\ Holding(q, loc[q].op, loc[q].key, loc[q].copy, loc[q].input)
        /\ Same /\ UNCHANGED told
    BY <1>3, UpsertDeleteDoes DEF TypesInv, Keeps
  <2>2. TablesTyped' /\ used' = used
    BY <2>1, SameTables DEF TypesInv
  <2>3. loc[q].key = RuleSetKey /\ loc[q].copy \in RuleSet \cup {None} /\ loc[q].input \in Requests
    BY <2>1, AtStep DEF Moved, Typed, TaskSteps, DocSteps, ItemSteps
  <2>4. Typed("rules.save", loc'[q], used')
    BY <2>1, <2>2, <2>3 DEF Holding, Typed, TaskSteps, DocSteps, ItemSteps
  <2>. QED  BY <2>1, <2>2, <2>4, HoldingTyped, IsStep DEF TypesInv, Moved
<1>4. ASSUME NEW q \in Calls, UpsertSave(q) PROVE TypesInv'
  <2>1. /\ Moved(q, "rules.save", "rules.publish") /\ Holding(q, loc[q].op, loc[q].key, loc[q].copy, loc[q].input)
        /\ Same /\ UNCHANGED told
    BY <1>4, UpsertSaveDoes DEF TypesInv, Keeps
  <2>2. TablesTyped' /\ used' = used
    BY <2>1, SameTables DEF TypesInv
  <2>3. loc[q].key = RuleSetKey /\ loc[q].copy \in RuleSet \cup {None} /\ loc[q].input \in Requests
    BY <2>1, AtStep DEF Moved, Typed, TaskSteps, DocSteps, ItemSteps
  <2>4. Typed("rules.publish", loc'[q], used')
    BY <2>1, <2>2, <2>3 DEF Holding, Typed, TaskSteps, DocSteps, ItemSteps
  <2>. QED  BY <2>1, <2>2, <2>4, HoldingTyped, IsStep DEF TypesInv, Moved
<1>5. ASSUME NEW q \in Calls, NEW broken \in SUBSET Enforced, EvalItem(q, broken) PROVE TypesInv'
  <2>1. /\ Moved(q, "idle", "eval.set") /\ Holding(q, "RULES_EVALUATED", None, None, broken)
        /\ Same /\ UNCHANGED told
    BY <1>5, EvalItemDoes DEF TypesInv
  <2>2. TablesTyped' /\ used' = used
    BY <2>1, SameTables DEF TypesInv
  <2>3. broken \subseteq Enforced
    BY SMT
  <2>4. Typed("eval.set", loc'[q], used')
    BY <2>1, <2>2, <2>3 DEF Holding, Typed, TaskSteps, DocSteps, ItemSteps
  <2>. QED  BY <2>1, <2>2, <2>4, HoldingTyped, IsStep DEF TypesInv, Moved
<1>6. ASSUME NEW q \in Calls, EvalSet(q) PROVE TypesInv'
  <2>1. loc[q].key = None /\ loc[q].copy = None /\ loc[q].input \subseteq Enforced
    BY <1>6, AtStep DEF EvalSet, Typed
  <2>2. TablesTyped' /\ used' = used
    BY <1>6, EvalSetDoes, SameTables DEF TypesInv
  <2>3. CASE Moved(q, "eval.set", "eval.rules") /\ Keeps(q)
    <3>1. Typed("eval.rules", loc'[q], used')
      BY <2>1, <2>2, <2>3 DEF Holding, Typed, TaskSteps, DocSteps, ItemSteps, Keeps
    <3>. QED  BY <2>2, <2>3, <3>1, HoldingTyped, IsStep DEF TypesInv, Moved, Keeps
  <2>4. CASE Ended(q)
    BY <2>2, <2>4, EndedTyped DEF TypesInv, Ended, Moved
  <2>. QED  BY <1>6, <2>3, <2>4, EvalSetDoes DEF TypesInv
<1>7. ASSUME NEW q \in Calls, EvalRules(q) PROVE TypesInv'
  <2>. DEFINE found == [violations |-> Violations(rules, loc[q].input)]
  <2>1. /\ Moved(q, "eval.rules", "eval.save")
        /\ Holding(q, loc[q].op, loc[q].key, found, loc[q].input)
        /\ Same /\ UNCHANGED told
    BY <1>7, EvalRulesDoes DEF TypesInv
  <2>2. TablesTyped' /\ used' = used
    BY <2>1, SameTables DEF TypesInv
  <2>3. loc[q].key = None /\ loc[q].input \subseteq Enforced
    BY <2>1, AtStep DEF Moved, Typed
  <2>4. found \in RuleEvaluation
    BY <2>3 DEF Violations, RuleEvaluation
  <2>. HIDE DEF found
  <2>5. Typed("eval.save", loc'[q], used')
    BY <2>1, <2>3, <2>4 DEF Holding, Typed, TaskSteps, DocSteps, ItemSteps
  <2>. QED  BY <2>1, <2>2, <2>5, HoldingTyped, IsStep DEF TypesInv, Moved
<1>8. ASSUME NEW q \in Calls, NEW k \in EvaluationKeys, EvalSave(q, k) PROVE TypesInv'
  <2>1. /\ Moved(q, "eval.save", "eval.publish") /\ Holding(q, loc[q].op, k, loc[q].copy, loc[q].input)
        /\ Insert(k, loc[q].copy) /\ UNCHANGED told
    BY <1>8, EvalSaveDoes DEF TypesInv, Keeps
  <2>2. k \in Keys /\ loc[q].copy \in RuleEvaluation
    BY <2>1, RulesAssumption, AtStep DEF Moved, Typed, TaskSteps, DocSteps, ItemSteps
  <2>3. TablesTyped' /\ used' = used \cup {k}
    BY <2>1, <2>2, InsertedTables, TableOf DEF TypesInv
  <2>4. Typed("eval.publish", loc'[q], used')
    BY <2>1, <2>2, <2>3 DEF Holding, Typed, TaskSteps, DocSteps, ItemSteps
  <2>. QED  BY <2>1, <2>3, <2>4, HoldingTyped, IsStep DEF TypesInv, Moved
<1>9. ASSUME NEW q \in Calls, Publish(q, "rules.publish") PROVE TypesInv'
  <2>1. loc[q].key \in {RuleSetKey} /\ loc[q].copy \in RuleSet \cup {None}
    BY <1>9, AtStep DEF Publish, Typed, TaskSteps, DocSteps, ItemSteps
  <2>. QED  BY <1>9, <2>1, TableOf, PublishedTyped DEF TypesInv
<1>10. ASSUME NEW q \in Calls, Publish(q, "eval.publish") PROVE TypesInv'
  <2>1. loc[q].key \in EvaluationKeys /\ loc[q].copy \in RuleEvaluation
    BY <1>10, AtStep DEF Publish, Typed, TaskSteps, DocSteps, ItemSteps
  <2>. QED  BY <1>10, <2>1, TableOf, PublishedTyped DEF TypesInv
<1>. QED  BY <1>1, <1>2, <1>3, <1>4, <1>5, <1>6, <1>7, <1>8, <1>9, <1>10 DEF RuleNext

-----------------------------------------------------------------------------
(* All the services together.                                               *)
LEMMA TypesCut == ASSUME TypesInv, NEW Q \in SUBSET Calls, Cut(Q) PROVE TypesInv'
<1>1. /\ LocalsInv' /\ UNCHANGED tableVars
      /\ \A p \in Calls : \/ (pc'[p] = pc[p] /\ loc'[p] = loc[p])
                         \/ (pc'[p] = "idle" /\ loc'[p] = NoLocals)
  BY CutDoes DEF TypesInv
<1>2. TablesTyped'
  BY <1>1 DEF TypesInv, RowsInv, TablesTyped, tableVars, Days
<1>3. ASSUME NEW p \in Calls
      PROVE  pc'[p] \in CallSteps /\ loc'[p].gone \subseteq used' /\ Typed(pc'[p], loc'[p], used')
  <2>1. CASE pc'[p] = pc[p] /\ loc'[p] = loc[p]
    BY <1>1, <2>1 DEF TypesInv, RowsInv, tableVars
  <2>2. CASE pc'[p] = "idle" /\ loc'[p] = NoLocals
    <3>1. Typed("idle", loc'[p], used')
      BY DEF Typed, TaskSteps, DocSteps, ItemSteps
    <3>2. "idle" \in CallSteps /\ loc'[p].gone = {}
      BY <2>2 DEF CallSteps, NoLocals
    <3>. QED  BY <2>2, <3>1, <3>2
  <2>. QED  BY <1>1, <2>1, <2>2
<1>. QED  BY <1>1, <1>2, <1>3 DEF TypesInv, RowsInv

LEMMA TypesSame == ASSUME TypesInv, UNCHANGED <<tableVars, callVars>> PROVE TypesInv'
<1>1. UNCHANGED <<row, used, told, pc, loc, cuts, disturbed>>
  BY DEF tableVars, callVars
<1>2. LocalsInv'
  BY <1>1 DEF TypesInv, LocalsInv, OneBusy, StepsTyped
<1>3. TablesTyped'
  BY <1>1 DEF TypesInv, RowsInv, TablesTyped, Days
<1>4. \A p \in Calls : pc'[p] \in CallSteps /\ loc'[p].gone \subseteq used' /\ Typed(pc'[p], loc'[p], used')
  BY <1>1 DEF TypesInv, RowsInv
<1>. QED  BY <1>2, <1>3, <1>4 DEF TypesInv, RowsInv

LEMMA TypesStep == ASSUME TypesInv, [AppNext]_appVars PROVE TypesInv'
<1>1. CASE ServicesNext
  <2>1. CASE \E Q \in SUBSET Calls : Cut(Q)
    BY <2>1, TypesCut
  <2>. QED
    BY <1>1, <2>1, TaskRows, DocRows, DayRows, ItemRows, AttachRows, CommentRows, CollabRows,
       RuleRows DEF ServicesNext
<1>2. CASE UNCHANGED serviceVars
  BY <1>2, TypesSame DEF serviceVars
<1>. QED  BY <1>1, <1>2 DEF AppNext, appVars

(* What is in the tables at the start.                                      *)
LEMMA InitialRows ==
  \A k :
    \/ InitialRow(k) = None
    \/ part = "rules" /\ k = EvaluatedItem /\ InitialRow(k) = [day |-> None, booking |-> None]
    \/ part = "collab" /\ k = ClosedProposal /\ InitialRow(k) = [status |-> "CLOSED"]
    \/ part = "collab" /\ k = ClosedOption /\ InitialRow(k) = [proposal |-> ClosedProposal]
BY DEF InitialRow

LEMMA TypesInitially == ASSUME ServicesInit PROVE TypesInv
<1>1. LocalsInv
  BY LocalsInit DEF ServicesInit
<1>2. /\ row = [k \in Keys |-> InitialRow(k)] /\ used = {k \in Keys : InitialRow(k) # None}
      /\ told = [k \in Keys |-> [type |-> "none", row |-> InitialRow(k)]]
      /\ \A q \in Calls : pc[q] = "idle" /\ loc[q] = NoLocals
  BY DEF ServicesInit, CallsInit
<1>3. \A k \in Keys : InitialRow(k) # None => InitialRow(k) \in Tables[k]
  <2>1. [day |-> None, booking |-> None] \in ItineraryItem
    BY DEF ItineraryItem
  <2>2. [status |-> "CLOSED"] \in Proposal
    BY DEF Proposal, ProposalStatus
  <2>3. [proposal |-> ClosedProposal] \in ProposalOption
    BY DEF ProposalOption
  <2>. QED  BY <2>1, <2>2, <2>3, InitialRows, TableOf, TripAppAssumption
<1>4. Days = {}
  BY <1>2, InitialRows, Apart, TripAppAssumption, ItineraryAssumption DEF Days
<1>5. TablesTyped
  <2>1. 0 \in Nat /\ \A k \in Days : row[k].index <= 0
    BY <1>4
  <2>2. \A k \in Keys : row[k] = InitialRow(k) /\ told[k].row = InitialRow(k)
    BY <1>2
  <2>3. DOMAIN row = Keys /\ DOMAIN told = Keys /\ used \subseteq Keys
    BY <1>2
  <2>4. \A k \in Keys : InitialRow(k) # None => k \in used
    BY <1>2
  <2>. QED  BY <1>3, <2>1, <2>2, <2>3, <2>4 DEF TablesTyped
<1>6. "idle" \in CallSteps /\ NoLocals.gone = {} /\ Typed("idle", NoLocals, used)
  BY DEF CallSteps, Typed, TaskSteps, DocSteps, ItemSteps, NoLocals
<1>. QED  BY <1>1, <1>2, <1>5, <1>6 DEF TypesInv, RowsInv

-----------------------------------------------------------------------------
(* The types of everything.  What the parts keep beside the tables:         *)
HistoryTyped ==
  /\ turned \subseteq TaskKeys /\ stored \subseteq DocKeys
  /\ rules \subseteq RuleRow /\ last \subseteq RuleRow
  /\ upserts \in 0..MaxUpserts
  /\ misjudged \subseteq EvaluationKeys

LEMMA TaskHistory ==
  ASSUME TypesInv, turned \subseteq TaskKeys, TaskNext PROVE turned' \subseteq TaskKeys
<1>1. ASSUME NEW q \in Calls, TaskSave(q) \/ TaskRemove(q) PROVE turned' \subseteq TaskKeys
  <2>1. loc[q].key \in TaskKeys
    BY <1>1, AtStep DEF TaskSave, TaskRemove, Typed, TaskSteps
  <2>. QED  BY <1>1, <2>1 DEF TaskSave, TaskRemove, Record
<1>2. ASSUME NEW q \in Calls, NEW k \in TaskKeys, TaskCreate(q, k) \/ TaskFindDoomed(q, k)
      PROVE  turned' = turned
  BY <1>2 DEF TaskCreate, TaskFindDoomed
<1>3. ASSUME NEW q \in Calls, NEW k \in TaskKeys, NEW input \in TaskInput, TaskFind(q, k, input)
      PROVE  turned' = turned
  BY <1>3 DEF TaskFind
<1>4. ASSUME NEW q \in Calls, TaskPublish(q) PROVE turned' = turned
  BY <1>4 DEF TaskPublish
<1>. QED  BY <1>1, <1>2, <1>3, <1>4 DEF TaskNext

LEMMA DocHistory ==
  ASSUME stored \subseteq DocKeys, DocNext PROVE stored' \subseteq DocKeys
BY DEF DocNext, DocUpload, DocFind, DocFindDoomed, DocSave, DocUpdate, DocDeleteObject,
       DocRemove, DocPublish

RulesTyped ==
  /\ rules \subseteq RuleRow /\ last \subseteq RuleRow
  /\ upserts \in 0..MaxUpserts
  /\ misjudged \subseteq EvaluationKeys

LEMMA RuleHistory == ASSUME TypesInv, RulesTyped, RuleNext PROVE RulesTyped'
<1>1. ASSUME NEW q \in Calls, UpsertSave(q) PROVE RulesTyped'
  <2>1. /\ upserts < MaxUpserts /\ upserts' = upserts + 1
        /\ last' = [rule : loc[q].input, by : {upserts + 1}]
        /\ rules' = rules \cup last' /\ misjudged' = misjudged
    BY <1>1, UpsertSaveDoes DEF TypesInv
  <2>2. loc[q].input \subseteq Rule
    BY <1>1, AtStep, RulesAssumption DEF UpsertSave, Typed
  <2>3. upserts + 1 \in 1..MaxUpserts
    BY <2>1, RulesAssumption DEF RulesTyped
  <2>4. last' \subseteq RuleRow
    BY <2>1, <2>2, <2>3 DEF RuleRow
  <2>. QED  BY <2>1, <2>3, <2>4 DEF RulesTyped
<1>2. ASSUME NEW q \in Calls, UpsertDelete(q) PROVE RulesTyped'
  BY <1>2 DEF UpsertDelete, RulesTyped
<1>3. ASSUME NEW q \in Calls, NEW k \in EvaluationKeys, EvalSave(q, k) PROVE RulesTyped'
  BY <1>3 DEF EvalSave, RulesTyped
<1>4. ASSUME NEW q \in Calls, NEW request \in Requests, UpsertFind(q, request)
      PROVE  UNCHANGED ruleVars
  BY <1>4 DEF UpsertFind
<1>5. ASSUME NEW q \in Calls, NEW broken \in SUBSET Enforced, EvalItem(q, broken)
      PROVE  UNCHANGED ruleVars
  BY <1>5 DEF EvalItem
<1>6. ASSUME NEW q \in Calls, UpsertSet(q) \/ EvalSet(q) \/ EvalRules(q) PROVE UNCHANGED ruleVars
  BY <1>6 DEF UpsertSet, EvalSet, EvalRules
<1>7. UNCHANGED ruleVars => RulesTyped'
  BY DEF ruleVars, RulesTyped
<1>. QED  BY <1>1, <1>2, <1>3, <1>4, <1>5, <1>6, <1>7 DEF RuleNext

LEMMA HistoryStep == ASSUME TypesInv, HistoryTyped, [AppNext]_appVars PROVE HistoryTyped'
<1>1. RulesTyped /\ turned \subseteq TaskKeys /\ stored \subseteq DocKeys
  BY DEF HistoryTyped, RulesTyped
<1>2. CASE UNCHANGED <<turned, stored, ruleVars>>
  BY <1>2 DEF HistoryTyped, ruleVars
<1>3. CASE TaskNext /\ UNCHANGED <<stored, ruleVars>>
  BY <1>1, <1>3, TaskHistory DEF HistoryTyped, ruleVars
<1>4. CASE DocNext /\ UNCHANGED <<turned, ruleVars>>
  BY <1>1, <1>4, DocHistory DEF HistoryTyped, ruleVars
<1>5. CASE RuleNext /\ UNCHANGED <<turned, stored>>
  BY <1>1, <1>5, RuleHistory DEF HistoryTyped, RulesTyped
<1>. QED  BY <1>2, <1>3, <1>4, <1>5 DEF AppNext, ServicesNext, serviceVars, appVars

LEMMA HistoryInitially == ASSUME ServicesInit PROVE HistoryTyped
BY RulesAssumption DEF ServicesInit, HistoryTyped

(* The seeding script goes on only while there is something to save.        *)
SeedInv == (seeding => saved < Len(Saves)) /\ saved \in 0..Len(Saves) /\ seeding \in BOOLEAN

LEMMA SeedStep == ASSUME SeedInv, SeedNext PROVE SeedInv'
<1>. DEFINE n == Len(Saves)
<1>1. n = 24
  BY DEF Saves
<1>2. (seeding => saved < n) /\ saved \in 0..n /\ seeding \in BOOLEAN
  BY DEF SeedInv
<1>3. \/ saved = 0 /\ saved' = saved
      \/ saved < n /\ saved' = saved + 1 /\ (seeding' => saved + 1 < n)
      \/ ~seeding' /\ saved' = saved
  BY <1>2, Zenon DEF SeedNext, SeedStart, SeedSave, SeedFails
<1>4. seeding' \in BOOLEAN
  <2>1. (saved + 1 < n) \in BOOLEAN
    BY <1>1, <1>2
  <2>. QED  BY <2>1, Zenon DEF SeedNext, SeedStart, SeedSave, SeedFails
<1>. HIDE DEF n
<1>5. (seeding' => saved' < n) /\ saved' \in 0..n
  BY <1>1, <1>2, <1>3
<1>. QED  BY <1>4, <1>5 DEF SeedInv, n

(* What the parts other than the services keep.                             *)
OthersInv ==
  RemindersInv /\ SeedInv /\ CacheInv /\ SelectionInv /\ path \in [Tabs -> Paths]

LEMMA OthersStep == ASSUME OthersInv, [AppNext]_appVars PROVE OthersInv'
<1>1. RemindersInv'
  <2>1. [RemindersNext]_remVars
    BY DEF AppNext, OthersNext, otherVars, appVars
  <2>. QED  BY <2>1, RemindersStep DEF OthersInv
<1>2. SeedInv'
  <2>1. SeedNext \/ UNCHANGED seedVars
    BY DEF AppNext, OthersNext, otherVars, appVars
  <2>2. UNCHANGED seedVars => SeedInv'
    BY DEF seedVars, SeedInv, OthersInv
  <2>. QED  BY <2>1, <2>2, SeedStep DEF OthersInv
<1>3. CacheInv'
  <2>1. [CacheNext]_cacheVars
    BY DEF AppNext, OthersNext, otherVars, appVars
  <2>. QED  BY <2>1, CacheStep DEF OthersInv
<1>4. SelectionInv' /\ path' \in [Tabs -> Paths]
  <2>1. [SelectionNext]_selVars
    BY DEF AppNext, OthersNext, otherVars, appVars
  <2>2. path' \in [Tabs -> Paths]
    BY <2>1, PathStep DEF OthersInv, selVars
  <2>. QED  BY <2>1, <2>2, SelectionStep DEF OthersInv
<1>. QED  BY <1>1, <1>2, <1>3, <1>4 DEF OthersInv

LEMMA OthersInitially == ASSUME AppInit(Parts) PROVE OthersInv
<1>1. RemindersInit /\ SeedInit /\ CacheInit /\ SelectionInit
  BY DEF AppInit
<1>2. SeedInv
  <2>. DEFINE n == Len(Saves)
  <2>1. n = 24
    BY DEF Saves
  <2>2. saved = 0 /\ ~seeding /\ seeding \in BOOLEAN
    BY <1>1, Zenon DEF SeedInit
  <2>. HIDE DEF n
  <2>3. (seeding => saved < n) /\ saved \in 0..n /\ seeding \in BOOLEAN
    BY <2>1, <2>2
  <2>. QED  BY <2>3 DEF SeedInv, n
<1>3. path \in [Tabs -> Paths]
  BY <1>1 DEF SelectionInit, Paths
<1>. QED  BY <1>1, <1>2, <1>3, RemindersInitially, CacheInitially, SelectionInitially DEF OthersInv

AppInv == TypesInv /\ HistoryTyped /\ OthersInv

LEMMA AppInvariant == AppSpec => []AppInv
<1>1. AppInit(Parts) => AppInv
  BY TypesInitially, HistoryInitially, OthersInitially DEF AppInit, AppInv
<1>2. AppInv /\ [AppNext]_appVars => AppInv'
  BY TypesStep, HistoryStep, OthersStep DEF AppInv
<1>. QED  BY <1>1, <1>2, PTL DEF AppSpec

LEMMA CallTyped ==
  ASSUME TypesInv, NEW q \in Calls, pc[q] # "idle", loc[q].key # None
  PROVE  /\ loc[q].key \in Keys
         /\ loc[q].copy # None => loc[q].copy \in Tables[loc[q].key]
<1>1. Typed(pc[q], loc[q], used) /\ pc[q] \in CallSteps
  BY DEF TypesInv, RowsInv
<1>. QED
  BY <1>1, TableOf, Apart, RulesAssumption
     DEF Typed, CallSteps, TaskSteps, DocSteps, DaySteps, ItemSteps, CommentSteps, CollabSteps,
         RuleSteps

(* The type invariant of all the parts together: whatever rows the calls    *)
(* hold and save belong in the table of the key that they save them under.  *)
THEOREM AppTypeOKHolds == AppSpec => []AppTypeOK
<1>1. ASSUME AppInv PROVE AppTypeOK
  <2>1. /\ \A k \in Keys : row[k] # None => row[k] \in Tables[k] /\ k \in used
        /\ used \subseteq Keys
        /\ \A k \in Keys : told[k].row # None => told[k].row \in Tables[k]
    BY <1>1 DEF AppInv, TypesInv, RowsInv, TablesTyped
  <2>2. pc \in [Calls -> CallSteps] /\ cuts \in 0..MaxCuts /\ disturbed \in BOOLEAN
    BY <1>1 DEF AppInv, TypesInv, LocalsInv, StepsTyped, RowsInv
  <2>3. ASSUME NEW q \in Calls
        PROVE  /\ pc[q] # "idle" /\ loc[q].key # None =>
                    /\ loc[q].key \in Keys
                    /\ loc[q].copy # None => loc[q].copy \in Tables[loc[q].key]
               /\ loc[q].gone \subseteq used
    BY <1>1, CallTyped DEF AppInv, TypesInv, RowsInv
  <2>4. RemindersTypeOK /\ seeding \in BOOLEAN /\ saved \in 0..Len(Saves)
    BY <1>1 DEF AppInv, OthersInv, RemindersInv, SeedInv
  <2>5. CacheTypeOK /\ SelectionTypeOK
    BY <1>1, CacheInvTypes, SelectionInvTypes DEF AppInv, OthersInv
  <2>6. /\ turned \subseteq TaskKeys /\ stored \subseteq DocKeys
        /\ rules \subseteq RuleRow /\ last \subseteq RuleRow
        /\ upserts \in 0..MaxUpserts /\ misjudged \subseteq EvaluationKeys
    BY <1>1 DEF AppInv, HistoryTyped
  <2>. QED  BY <2>1, <2>2, <2>3, <2>4, <2>5, <2>6 DEF AppTypeOK
<1>. QED  BY <1>1, AppInvariant, PTL

(* A list of which a page has data when a mutation of its own tab succeeds  *)
(* is not shown on as it was before: onSuccess of every hook marks what its *)
(* endpoint changes and cancels a refetch that is under way.  It may be if  *)
(* the fetch was the first one, if the page was closed, or if the mutation  *)
(* was an option of a new proposal: the property says where it is.          *)
THEOREM OwnWritesShownHolds == AppSpec => []OwnWritesShown
<1>1. AppInv => OwnWritesShown
  BY CacheInvShows DEF AppInv, OthersInv
<1>. QED  BY <1>1, AppInvariant, PTL

-----------------------------------------------------------------------------
(* The rule set in the composition.                                         *)
RuleSetInv == IF part = "rules" THEN RulesInv ELSE rules = {} /\ last = {} /\ misjudged = {}

LEMMA RuleSetStep ==
  ASSUME TypesInv, RuleSetInv, [AppNext]_appVars PROVE RuleSetInv'
<1>1. part' = part
  BY DEF AppNext, appVars
<1>2. CASE part = "rules"
  <2>1. LocalsInv /\ RulesInv
    BY <1>2 DEF TypesInv, RuleSetInv
  <2>2. CASE RuleNext
    BY <1>1, <1>2, <2>1, <2>2, RulesStep DEF RuleSetInv
  <2>3. ASSUME NEW Q \in SUBSET Calls, Cut(Q), UNCHANGED ruleVars PROVE RuleSetInv'
    BY <1>1, <1>2, <2>1, <2>3, RulesCut DEF RuleSetInv
  <2>4. CASE UNCHANGED serviceVars
    <3>1. UNCHANGED <<pc, loc, cuts, disturbed, rules, last, misjudged>>
      BY <2>4 DEF serviceVars, callVars, ruleVars
    <3>2. RulesInv'
      BY <2>1, <3>1 DEF RulesInv, Saving, Judged
    <3>. QED  BY <1>1, <1>2, <3>2 DEF RuleSetInv
  <2>. QED  BY <1>2, <2>2, <2>3, <2>4 DEF AppNext, ServicesNext, appVars
<1>3. CASE part # "rules"
  <2>1. UNCHANGED ruleVars
    BY <1>3 DEF AppNext, ServicesNext, appVars, serviceVars
  <2>. QED  BY <1>1, <1>3, <2>1 DEF RuleSetInv, ruleVars
<1>. QED  BY <1>2, <1>3

LEMMA RuleSetInitially == ASSUME ServicesInit PROVE RuleSetInv
<1>1. /\ rules = {} /\ last = {} /\ misjudged = {}
      /\ \A q \in Calls : pc[q] = "idle"
  BY DEF ServicesInit, CallsInit
<1>. QED  BY <1>1 DEF RuleSetInv, RulesInv

(* Without cuts the rules of the latest upsert are all there when no call   *)
(* is under way, although an upsert deletes the old rules and inserts its   *)
(* own in two transactions; one call at a time no others are there, and     *)
(* every evaluation follows from these rules.                               *)
THEOREM WholeRuleSetHolds == AppSpec => []WholeRuleSet
<1>1. AppInit(Parts) => RuleSetInv
  BY RuleSetInitially DEF AppInit
<1>2. AppInv /\ RuleSetInv /\ [AppNext]_appVars => RuleSetInv'
  BY RuleSetStep DEF AppInv
<1>3. RuleSetInv => WholeRuleSet
  BY DEF RuleSetInv, RulesInv, WholeRuleSet, Saving, Quiescent
<1>. QED  BY <1>1, <1>2, <1>3, AppInvariant, PTL DEF AppSpec
-----------------------------------------------------------------------------
(* References.  What a call has looked up is still there when it saves,     *)
(* because days, proposals and options stay once they are there.            *)
RowReferences ==
  /\ \A k \in ItemKeys : row[k] # None => row[k].day \in Days \cup {None}
  /\ \A k \in CommentKeys : row[k] # None /\ row[k].item # None => row[row[k].item] # None
  /\ \A k \in OptionKeys \ {ClosedOption} : row[k] # None => IsOpen(row[k].proposal)
  /\ \A k \in VoteKeys : row[k] # None =>
       row[row[k].option] # None /\ IsOpen(row[row[k].option].proposal)

Sure(step, c) ==
  /\ step \in {"item.save", "item.day", "item.update", "item.attach"} =>
       c.copy.day \in Days \cup {None}
  /\ step = "item.update" /\ c.input \in DayKeys => c.input \in Days
  /\ step = "option.save" => IsOpen(c.copy.proposal)
  /\ step \in {"vote.find", "vote.save"} =>
       row[c.copy.option] # None /\ IsOpen(row[c.copy.option].proposal)

RefsInv == RowReferences /\ \A q \in Calls : Sure(pc[q], loc[q])

SureSteps == {"item.save", "item.day", "item.update", "item.attach", "option.save",
              "vote.find", "vote.save"}

Grows ==
  /\ Days \subseteq Days'
  /\ \A p \in ProposalKeys : IsOpen(p) => IsOpen(p)'
  /\ \A o \in OptionKeys : row[o] # None => row'[o] = row[o]

(* A row r that refers to nothing that is missing, saved under the key k.   *)
Fitting(k, r) ==
  /\ k \in DayKeys \cup ProposalKeys => row[k] = None
  /\ k \in ItemKeys => r # None /\ r.day \in Days \cup {None}
  /\ k \in CommentKeys => (r.item # None => row[r.item] # None)
  /\ k \in OptionKeys => row[k] = None /\ IsOpen(r.proposal)
  /\ k \in VoteKeys /\ r # None => row[r.option] # None /\ IsOpen(row[r.option].proposal)

Put(k, r) == row' = [row EXCEPT ![k] = r]

(* Where references lead to.                                                *)
Targets ==
  /\ \A k \in CommentKeys : row[k] # None => row[k].item \in ItemKeys \cup {None}
  /\ \A k \in OptionKeys : row[k] # None => row[k].proposal \in ProposalKeys
  /\ \A k \in VoteKeys : row[k] # None => row[k].option \in OptionKeys

LEMMA KeySets ==
  DayKeys \cup ItemKeys \cup CommentKeys \cup ProposalKeys \cup OptionKeys \cup VoteKeys
    \cup {RuleSetKey} \cup EvaluationKeys \cup TaskKeys \cup DocKeys \subseteq Keys
BY TasksAssumption, DocumentsAssumption, ItineraryAssumption, CollabAssumption, RulesAssumption

LEMMA RefersTo == TypesInv => Targets
<1>. SUFFICES ASSUME TypesInv PROVE Targets
  OBVIOUS
<1>1. /\ \A k \in CommentKeys : row[k] # None => row[k] \in Comment
      /\ \A k \in OptionKeys : row[k] # None => row[k] \in ProposalOption
      /\ \A k \in VoteKeys : row[k] # None => row[k] \in Vote
  BY Found, TableOf, KeySets
<1>. QED  BY <1>1 DEF Comment, ProposalOption, Vote, Targets

LEMMA StaysSure ==
  ASSUME TypesInv, Grows, NEW p \in Calls, Sure(pc[p], loc[p]),
         pc'[p] = pc[p], loc'[p] = loc[p]
  PROVE  Sure(pc[p], loc[p])'
<1>1. pc[p] = "option.save" => loc[p].copy.proposal \in ProposalKeys
  BY AtStep DEF Typed, ProposalOption
<1>2. pc[p] \in {"vote.find", "vote.save"} => loc[p].copy.option \in OptionKeys
  BY AtStep DEF Typed, Vote
<1>3. \A o \in OptionKeys : row[o] # None /\ IsOpen(row[o].proposal) =>
        row'[o] # None /\ IsOpen(row[o].proposal)'
  BY RefersTo DEF Targets, Grows, IsOpen
<1>. QED  BY <1>1, <1>2, <1>3 DEF Sure, Grows, IsOpen

LEMMA ChangedRefs ==
  ASSUME TypesInv, TypesInv', RowReferences, NEW k \in Keys, NEW r,
         Put(k, r), Fitting(k, r)
  PROVE  Grows /\ RowReferences'
<1>0. Targets /\ Targets'
  BY RefersTo, PTL
<1>1. row'[k] = r /\ \A j \in Keys : j # k => row'[j] = row[j]
  BY DEF TypesInv, RowsInv, TablesTyped, Put
<1>2. Grows
  <2>1. Days \subseteq Days'
    BY <1>1, KeySets DEF Days, Fitting
  <2>2. \A p \in ProposalKeys : IsOpen(p) => IsOpen(p)'
    BY <1>1, KeySets DEF IsOpen, Fitting
  <2>3. \A o \in OptionKeys : row[o] # None => row'[o] = row[o]
    BY <1>1, KeySets DEF Fitting
  <2>. QED  BY <2>1, <2>2, <2>3 DEF Grows
<1>3. ASSUME NEW j \in ItemKeys, row'[j] # None PROVE row'[j].day \in Days' \cup {None}
  BY <1>1, <1>2, <1>3, KeySets DEF RowReferences, Grows, Fitting
<1>4. ASSUME NEW j \in CommentKeys, row'[j] # None, row'[j].item # None
      PROVE  row'[row'[j].item] # None
  <2>1. row'[j].item \in ItemKeys
    BY <1>0, <1>4 DEF Targets
  <2>2. row[row'[j].item] # None
    BY <1>1, <1>4, KeySets DEF RowReferences, Fitting
  <2>. QED  BY <1>1, <2>1, <2>2, KeySets DEF Fitting
<1>5. ASSUME NEW j \in OptionKeys \ {ClosedOption}, row'[j] # None PROVE IsOpen(row[j].proposal)'
  <2>1. row'[j].proposal \in ProposalKeys
    BY <1>0, <1>5 DEF Targets
  <2>2. IsOpen(row'[j].proposal)
    BY <1>1, <1>5, KeySets DEF RowReferences, Fitting
  <2>. QED  BY <1>2, <2>1, <2>2 DEF Grows, IsOpen
<1>6. ASSUME NEW j \in VoteKeys, row'[j] # None
      PROVE  row'[row'[j].option] # None /\ IsOpen(row[row[j].option].proposal)'
  <2>1. row'[j].option \in OptionKeys
    BY <1>0, <1>6 DEF Targets
  <2>2. row[row'[j].option] # None /\ IsOpen(row[row'[j].option].proposal)
    BY <1>1, <1>6, KeySets DEF RowReferences, Fitting
  <2>3. /\ row'[row'[j].option] = row[row'[j].option]
        /\ row[row'[j].option].proposal \in ProposalKeys
    BY <1>0, <1>2, <2>1, <2>2 DEF Grows, Targets
  <2>. QED  BY <1>2, <2>2, <2>3 DEF IsOpen, Grows
<1>. QED  BY <1>2, <1>3, <1>4, <1>5, <1>6 DEF RowReferences

LEMMA MovedRefs ==
  ASSUME TypesInv, RefsInv, NEW q \in Calls, NEW from, NEW to, Moved(q, from, to),
         Grows, RowReferences', to \in SureSteps => Sure(pc[q], loc[q])'
  PROVE  RefsInv'
<1>1. ASSUME NEW p \in Calls PROVE Sure(pc[p], loc[p])'
  <2>1. CASE p = q /\ to \in SureSteps
    BY <2>1
  <2>2. CASE p = q /\ to \notin SureSteps
    BY <2>2 DEF Sure, SureSteps, Moved
  <2>3. CASE p # q
    BY <2>3, StaysSure DEF Moved, RefsInv
  <2>. QED  BY <2>1, <2>2, <2>3
<1>. QED  BY <1>1 DEF RefsInv

LEMMA Stored ==
  ASSUME TypesInv, NEW k \in Keys, NEW r
  PROVE  /\ Insert(k, r) => Put(k, r) /\ row[k] = None
         /\ SaveBack(k, r) => Put(k, r)
         /\ RemoveRow(k) => Put(k, None)
BY Found DEF Insert, SaveBack, RemoveRow, Put

(* A step of a call that writes one row, and one that writes none.          *)
LEMMA WroteRefs ==
  ASSUME TypesInv, TypesInv', RefsInv, NEW q \in Calls, NEW from, NEW to, Moved(q, from, to),
         NEW k \in Keys, NEW r, Put(k, r), Fitting(k, r),
         to \in SureSteps => Sure(pc[q], loc[q])'
  PROVE  RefsInv'
BY ChangedRefs, MovedRefs DEF RefsInv

LEMMA LookedRefs ==
  ASSUME TypesInv, RefsInv, NEW q \in Calls, NEW from, NEW to, Moved(q, from, to),
         row' = row, to \in SureSteps => Sure(pc[q], loc[q])'
  PROVE  RefsInv'
<1>1. Grows /\ RowReferences'
  BY DEF RefsInv, RowReferences, Grows, Days, IsOpen
<1>. QED  BY <1>1, MovedRefs

LEMMA EndedRefs ==
  ASSUME TypesInv, RefsInv, NEW q \in Calls, Ended(q), row' = row PROVE RefsInv'
BY LookedRefs DEF Ended, SureSteps

LEMMA PublishedRefs ==
  ASSUME TypesInv, RefsInv, NEW q \in Calls, NEW step, step # "idle", Publish(q, step)
  PROVE  RefsInv'
BY Published, EndedRefs DEF TypesInv

(* Tasks, documents, rules and evaluations refer to nothing.                *)
LEMMA Elsewhere ==
  ASSUME NEW k \in TaskKeys \cup DocKeys \cup {RuleSetKey} \cup EvaluationKeys, NEW r
  PROVE  k \in Keys /\ Fitting(k, r)
BY Apart, KeySets DEF Fitting

LEMMA WroteElsewhere ==
  ASSUME TypesInv, TypesInv', RefsInv, NEW q \in Calls, NEW to, \E from : Moved(q, from, to),
         to \notin SureSteps,
         NEW k \in TaskKeys \cup DocKeys \cup {RuleSetKey} \cup EvaluationKeys,
         \E r : Put(k, r)
  PROVE  RefsInv'
<1>1. PICK from : Moved(q, from, to)
  OBVIOUS
<1>2. PICK r : Put(k, r)
  OBVIOUS
<1>3. k \in Keys /\ Fitting(k, r)
  BY Elsewhere
<1>. QED  BY <1>1, <1>2, <1>3, WroteRefs

LEMMA TaskRefs == ASSUME TypesInv, TypesInv', RefsInv, TaskNext PROVE RefsInv'
<1>1. ASSUME NEW q \in Calls, NEW k \in TaskKeys, TaskCreate(q, k) PROVE RefsInv'
  BY <1>1, TaskCreateDoes, Elsewhere, WroteRefs DEF TypesInv, Insert, Put, SureSteps
<1>2. ASSUME NEW q \in Calls, NEW k \in TaskKeys, NEW input \in TaskInput, TaskFind(q, k, input)
      PROVE  RefsInv'
  BY <1>2, TaskFindDoes, LookedRefs DEF TypesInv, Same, SureSteps
<1>3. ASSUME NEW q \in Calls, NEW k \in TaskKeys, TaskFindDoomed(q, k) PROVE RefsInv'
  BY <1>3, TaskFindDoomedDoes, LookedRefs DEF TypesInv, Same, SureSteps
<1>4. ASSUME NEW q \in Calls, TaskSave(q) \/ TaskRemove(q) PROVE RefsInv'
  <2>1. loc[q].key \in TaskKeys
    BY <1>4, AtStep DEF TaskSave, TaskRemove, Typed, TaskSteps
  <2>2. \E r : Put(loc[q].key, r)
    BY <1>4 DEF TaskSave, TaskRemove, SaveBack, RemoveRow, Put
  <2>3. \E from : Moved(q, from, "task.publish")
    BY <1>4, TaskSaveDoes, TaskRemoveDoes DEF TypesInv
  <2>. QED  BY <2>1, <2>2, <2>3, WroteElsewhere DEF SureSteps
<1>5. ASSUME NEW q \in Calls, TaskPublish(q) PROVE RefsInv'
  BY <1>5, PublishedRefs DEF TaskPublish
<1>. QED  BY <1>1, <1>2, <1>3, <1>4, <1>5 DEF TaskNext

LEMMA DocRefs == ASSUME TypesInv, TypesInv', RefsInv, DocNext PROVE RefsInv'
<1>1. ASSUME NEW q \in Calls, NEW k \in DocKeys, NEW category, DocUpload(q, k, category)
      PROVE  RefsInv'
  BY <1>1, DocUploadDoes, LookedRefs DEF TypesInv, Same, SureSteps
<1>2. ASSUME NEW q \in Calls, NEW k \in DocKeys, NEW input, DocFind(q, k, input) PROVE RefsInv'
  BY <1>2, DocFindDoes, LookedRefs DEF TypesInv, Same, SureSteps
<1>3. ASSUME NEW q \in Calls, NEW k \in DocKeys, DocFindDoomed(q, k) PROVE RefsInv'
  BY <1>3, DocFindDoomedDoes, LookedRefs DEF TypesInv, Same, SureSteps
<1>4. ASSUME NEW q \in Calls, DocSave(q) \/ DocUpdate(q) \/ DocRemove(q) PROVE RefsInv'
  <2>1. loc[q].key \in DocKeys
    BY <1>4, AtStep DEF DocSave, DocUpdate, DocRemove, Typed, DocSteps
  <2>2. \E r : Put(loc[q].key, r)
    BY <1>4 DEF DocSave, DocUpdate, DocRemove, SaveBack, RemoveRow, Insert, Put
  <2>3. \E from : Moved(q, from, "doc.publish")
    BY <1>4, DocSaveDoes, DocUpdateDoes, DocRemoveDoes DEF TypesInv
  <2>. QED  BY <2>1, <2>2, <2>3, WroteElsewhere DEF SureSteps
<1>5. ASSUME NEW q \in Calls, DocDeleteObject(q) PROVE RefsInv'
  BY <1>5, DocDeleteObjectDoes, LookedRefs DEF TypesInv, Same, SureSteps
<1>6. ASSUME NEW q \in Calls, DocPublish(q) PROVE RefsInv'
  BY <1>6, PublishedRefs DEF DocPublish
<1>. QED  BY <1>1, <1>2, <1>3, <1>4, <1>5, <1>6 DEF DocNext

LEMMA RuleRefs == ASSUME TypesInv, TypesInv', RefsInv, RuleNext PROVE RefsInv'
<1>1. ASSUME NEW q \in Calls, NEW request \in Requests, UpsertFind(q, request) PROVE RefsInv'
  BY <1>1, UpsertFindDoes, LookedRefs DEF TypesInv, Same, SureSteps
<1>2. ASSUME NEW q \in Calls, UpsertSet(q) PROVE RefsInv'
  <2>1. CASE Moved(q, "rules.set", "rules.delete") /\ \E r : Put(RuleSetKey, r)
    BY <2>1, WroteElsewhere DEF SureSteps
  <2>2. CASE Ended(q) /\ Same
    BY <2>2, EndedRefs DEF Same
  <2>. QED  BY <1>2, <2>1, <2>2, UpsertSetDoes DEF TypesInv, Insert, SaveBack, Put
<1>3. ASSUME NEW q \in Calls, UpsertDelete(q) PROVE RefsInv'
  BY <1>3, UpsertDeleteDoes, LookedRefs DEF TypesInv, Same, SureSteps
<1>4. ASSUME NEW q \in Calls, UpsertSave(q) PROVE RefsInv'
  BY <1>4, UpsertSaveDoes, LookedRefs DEF TypesInv, Same, SureSteps
<1>5. ASSUME NEW q \in Calls, NEW broken \in SUBSET Enforced, EvalItem(q, broken) PROVE RefsInv'
  BY <1>5, EvalItemDoes, LookedRefs DEF TypesInv, Same, SureSteps
<1>6. ASSUME NEW q \in Calls, EvalSet(q) PROVE RefsInv'
  BY <1>6, EvalSetDoes, LookedRefs, EndedRefs DEF TypesInv, Same, SureSteps
<1>7. ASSUME NEW q \in Calls, EvalRules(q) PROVE RefsInv'
  BY <1>7, EvalRulesDoes, LookedRefs DEF TypesInv, Same, SureSteps
<1>8. ASSUME NEW q \in Calls, NEW k \in EvaluationKeys, EvalSave(q, k) PROVE RefsInv'
  BY <1>8, EvalSaveDoes, Elsewhere, WroteRefs DEF TypesInv, Insert, Put, SureSteps
<1>9. ASSUME NEW q \in Calls, Publish(q, "rules.publish") \/ Publish(q, "eval.publish")
      PROVE  RefsInv'
  BY <1>9, PublishedRefs
<1>. QED  BY <1>1, <1>2, <1>3, <1>4, <1>5, <1>6, <1>7, <1>8, <1>9 DEF RuleNext

LEMMA DayRefs == ASSUME TypesInv, TypesInv', RefsInv, DayNext PROVE RefsInv'
<1>1. ASSUME NEW q \in Calls, NEW date, NEW index, DayFind(q, date, index) PROVE RefsInv'
  BY <1>1, DayFindDoes, LookedRefs DEF TypesInv, Same, SureSteps
<1>2. ASSUME NEW q \in Calls, NEW k \in DayKeys, DaySave(q, k) PROVE RefsInv'
  <2>1. CASE /\ Moved(q, "day.save", "day.publish")
             /\ Insert(k, loc[q].copy)
    <3>1. k \in Keys /\ row[k] = None /\ Put(k, loc[q].copy)
      BY <2>1, Stored, KeySets
    <3>2. Fitting(k, loc[q].copy)
      BY <3>1, Apart DEF Fitting
    <3>. QED  BY <2>1, <3>1, <3>2, WroteRefs DEF SureSteps
  <2>2. CASE Ended(q) /\ Same
    BY <2>2, EndedRefs DEF Same
  <2>. QED  BY <1>2, <2>1, <2>2, DaySaveDoes DEF TypesInv
<1>3. ASSUME NEW q \in Calls, Publish(q, "day.publish") PROVE RefsInv'
  BY <1>3, PublishedRefs
<1>. QED  BY <1>1, <1>2, <1>3 DEF DayNext

LEMMA ItemRefs == ASSUME TypesInv, TypesInv', RefsInv, ItemNext PROVE RefsInv'
<1>1. ASSUME NEW q \in Calls, NEW day \in DayKeys \cup {None}, ItemFindDay(q, day) PROVE RefsInv'
  <2>1. /\ Moved(q, "idle", "item.save")
        /\ Holding(q, "ITINERARY_ITEM_CREATED", None, [day |-> day, booking |-> None], None)
        /\ day \in Days \cup {None} /\ row' = row
    BY <1>1, ItemFindDayDoes DEF TypesInv, Same
  <2>2. Sure(pc[q], loc[q])'
    BY <2>1 DEF Sure, Days, Moved, Holding
  <2>. QED  BY <2>1, <2>2, LookedRefs
<1>2. ASSUME NEW q \in Calls, NEW k \in ItemKeys, ItemSave(q, k) PROVE RefsInv'
  <2>1. /\ Moved(q, "item.save", "item.publish") /\ Insert(k, loc[q].copy)
    BY <1>2, ItemSaveDoes DEF TypesInv
  <2>2. loc[q].copy # None /\ loc[q].copy.day \in Days \cup {None}
    BY <2>1, AtStep, ItemIsRow DEF Moved, Typed, RefsInv, Sure
  <2>3. k \in Keys /\ Put(k, loc[q].copy)
    BY <2>1, Stored, KeySets
  <2>4. Fitting(k, loc[q].copy)
    BY <2>2, Apart DEF Fitting
  <2>. QED  BY <2>1, <2>3, <2>4, WroteRefs DEF SureSteps
<1>3. ASSUME NEW q \in Calls, NEW k \in ItemKeys, ItemFindDoomed(q, k) PROVE RefsInv'
  BY <1>3, ItemFindDoomedDoes, LookedRefs DEF TypesInv, Same, SureSteps
<1>4. ASSUME NEW q \in Calls, NEW k \in ItemKeys, NEW input \in DayInput, ItemFind(q, k, input)
      PROVE  RefsInv'
  <2>. DEFINE step == IF input \in DayKeys THEN "item.day" ELSE "item.update"
  <2>1. /\ Moved(q, "idle", step) /\ loc'[q].copy = row[k] /\ loc'[q].input = input
        /\ row[k] # None /\ row' = row
    BY <1>4, ItemFindDoes DEF TypesInv, Same, Holding
  <2>2. /\ step \in {"item.day", "item.update"}
        /\ input \in DayKeys => step # "item.update"
    OBVIOUS
  <2>. HIDE DEF step
  <2>3. row[k].day \in Days \cup {None} /\ Days' = Days
    BY <2>1 DEF RefsInv, RowReferences, Days
  <2>4. Sure(pc[q], loc[q])'
    BY <2>1, <2>2, <2>3 DEF Sure, Moved
  <2>. QED  BY <2>1, <2>4, LookedRefs
<1>5. ASSUME NEW q \in Calls, ItemDay(q) PROVE RefsInv'
  <2>1. CASE Moved(q, "item.day", "item.update") /\ Keeps(q) /\ loc[q].input \in Days /\ Same
    <3>1. loc[q].copy.day \in Days \cup {None} /\ Days' = Days
      BY <2>1 DEF RefsInv, Sure, Moved, Same, Days
    <3>2. Sure(pc[q], loc[q])'
      BY <2>1, <3>1 DEF Sure, Moved, Keeps, Holding
    <3>. QED  BY <2>1, <3>2, LookedRefs DEF Same
  <2>2. CASE Ended(q) /\ Same
    BY <2>2, EndedRefs DEF Same
  <2>. QED  BY <1>5, <2>1, <2>2, ItemDayDoes DEF TypesInv
<1>6. ASSUME NEW q \in Calls, ItemUpdate(q) PROVE RefsInv'
  <2>. DEFINE k == loc[q].key
              wanted == Wanted(loc[q].copy, loc[q].input)
              skipped == loc[q].input = None /\ row[k] # None
              r == IF skipped THEN [wanted EXCEPT !.day = row[k].day] ELSE wanted
  <2>1. Moved(q, "item.update", "item.publish") /\ SaveBack(k, r)
    BY <1>6, ItemUpdateDoes DEF TypesInv
  <2>2. /\ k \in ItemKeys /\ loc[q].copy \in ItineraryItem /\ loc[q].input \in DayInput
        /\ loc[q].copy.day \in Days \cup {None}
        /\ loc[q].input \in DayKeys => loc[q].input \in Days
    BY <2>1, AtStep DEF Moved, Typed, ItemSteps, RefsInv, Sure
  <2>3. wanted \in ItineraryItem /\ wanted.day \in Days \cup {None}
    BY <2>2 DEF Wanted, DayInput, ItineraryItem, Days
  <2>4. skipped => row[k].day \in Days \cup {None}
    BY <2>2 DEF RefsInv, RowReferences
  <2>. HIDE DEF wanted, skipped
  <2>5. r \in ItineraryItem /\ r.day \in Days \cup {None}
    BY <2>3, <2>4 DEF ItineraryItem, Days
  <2>6. k \in Keys /\ Put(k, r)
    BY <2>1, <2>2, Stored, KeySets
  <2>7. Fitting(k, r)
    BY <2>2, <2>5, Apart, ItemIsRow DEF Fitting
  <2>. HIDE DEF k, r
  <2>. QED  BY <2>1, <2>6, <2>7, WroteRefs DEF SureSteps
<1>7. ASSUME NEW q \in Calls, ItemRemove(q) PROVE RefsInv'
  <2>. DEFINE doomed == loc[q].key
  <2>1. /\ Moved(q, "item.remove", "item.publish")
        /\ row' = [k \in Keys |-> IF k = doomed THEN None
                                  ELSE IF k \in CommentsOf(doomed) THEN [item |-> None]
                                  ELSE row[k]]
    BY <1>7, ItemRemoveDoes DEF TypesInv
  <2>2. doomed \in ItemKeys
    BY <2>1, AtStep DEF Moved, Typed, ItemSteps
  <2>. HIDE DEF doomed
  <2>3. \A k \in Keys : \/ k = doomed /\ row'[k] = None
                        \/ k \in CommentKeys /\ row'[k] = [item |-> None]
                        \/ /\ row'[k] = row[k] /\ k # doomed
                           /\ k \notin CommentsOf(doomed)
    BY <2>1 DEF CommentsOf
  <2>4. \A k \in Keys \ (ItemKeys \cup CommentKeys) : row'[k] = row[k]
    BY <2>2, <2>3
  <2>5. DayKeys \cup OptionKeys \cup ProposalKeys \cup VoteKeys \subseteq Keys \ (ItemKeys \cup CommentKeys)
    BY Apart, KeySets
  <2>6. Grows
    BY <2>4, <2>5 DEF Grows, Days, IsOpen
  <2>7. Targets
    BY RefersTo
  <2>8. \A k \in ItemKeys : row'[k] # None => row'[k].day \in Days' \cup {None}
    BY <2>3, <2>6, KeySets, Apart DEF RefsInv, RowReferences, Grows
  <2>9. \A k \in CommentKeys : row'[k] # None /\ row'[k].item # None => row'[row'[k].item] # None
    <3>. SUFFICES ASSUME NEW k \in CommentKeys, row'[k] # None, row'[k].item # None
                  PROVE  row'[row'[k].item] # None
      OBVIOUS
    <3>1. row'[k] = row[k] /\ k \notin CommentsOf(doomed)
      BY <2>3, KeySets
    <3>2. row[k].item \in ItemKeys \ {doomed} /\ row[row[k].item] # None
      BY <2>7, <3>1 DEF Targets, CommentsOf, RefsInv, RowReferences
    <3>3. row[k].item \in Keys /\ row[k].item \notin CommentKeys
      BY <3>2, KeySets, Apart
    <3>. QED  BY <2>3, <3>1, <3>2, <3>3
  <2>10. \A k \in OptionKeys \ {ClosedOption} : row'[k] # None => IsOpen(row[k].proposal)'
    BY <2>4, <2>5, <2>7 DEF RefsInv, RowReferences, Targets, IsOpen
  <2>11. \A k \in VoteKeys : row'[k] # None =>
           row'[row'[k].option] # None /\ IsOpen(row[row[k].option].proposal)'
    BY <2>4, <2>5, <2>7 DEF RefsInv, RowReferences, Targets, IsOpen
  <2>12. RowReferences'
    BY <2>8, <2>9, <2>10, <2>11 DEF RowReferences
  <2>. QED  BY <2>1, <2>6, <2>12, MovedRefs DEF SureSteps
<1>8. ASSUME NEW q \in Calls, Publish(q, "item.publish") PROVE RefsInv'
  BY <1>8, PublishedRefs
<1>. QED  BY <1>1, <1>2, <1>3, <1>4, <1>5, <1>6, <1>7, <1>8 DEF ItemNext

LEMMA AttachRefs == ASSUME TypesInv, TypesInv', RefsInv, AttachNext PROVE RefsInv'
<1>1. ASSUME NEW q \in Calls, NEW k \in ItemKeys, NEW b \in BookingKeys, AttachFind(q, k, b)
      PROVE  RefsInv'
  <2>1. /\ Moved(q, "idle", "item.attach") /\ loc'[q].copy = [row[k] EXCEPT !.booking = b]
        /\ row[k] # None /\ row' = row
    BY <1>1, AttachFindDoes DEF TypesInv, Same, Holding
  <2>2. row[k] \in ItineraryItem /\ row[k].day \in Days \cup {None}
    BY <2>1, Found, TableOf, KeySets DEF RefsInv, RowReferences
  <2>3. loc'[q].copy.day = row[k].day /\ Days' = Days
    BY <2>1, <2>2 DEF ItineraryItem, Days
  <2>4. Sure(pc[q], loc[q])'
    BY <2>1, <2>2, <2>3 DEF Sure, Moved
  <2>. QED  BY <2>1, <2>4, LookedRefs
<1>2. ASSUME NEW q \in Calls, AttachSave(q) PROVE RefsInv'
  <2>1. Moved(q, "item.attach", "item.publish") /\ SaveBack(loc[q].key, loc[q].copy)
    BY <1>2, AttachSaveDoes DEF TypesInv
  <2>2. /\ loc[q].key \in ItemKeys /\ loc[q].copy # None
        /\ loc[q].copy.day \in Days \cup {None}
    BY <2>1, AtStep, ItemIsRow DEF Moved, Typed, ItemSteps, RefsInv, Sure
  <2>3. loc[q].key \in Keys /\ Put(loc[q].key, loc[q].copy)
    BY <2>1, <2>2, Stored, KeySets
  <2>4. Fitting(loc[q].key, loc[q].copy)
    BY <2>2, Apart DEF Fitting
  <2>. QED  BY <2>1, <2>3, <2>4, WroteRefs DEF SureSteps
<1>. QED  BY <1>1, <1>2 DEF AttachNext

LEMMA CommentRefs == ASSUME TypesInv, TypesInv', RefsInv, CommentNext PROVE RefsInv'
<1>1. ASSUME NEW q \in Calls, NEW item \in ItemKeys \cup {None}, CommentFind(q, item)
      PROVE  RefsInv'
  BY <1>1, CommentFindDoes, LookedRefs DEF TypesInv, Same, SureSteps
<1>2. ASSUME NEW q \in Calls, NEW k \in CommentKeys, CommentSave(q, k) PROVE RefsInv'
  <2>1. CASE /\ Moved(q, "comment.save", "comment.publish") /\ Insert(k, loc[q].copy)
             /\ loc[q].copy.item = None \/ row[loc[q].copy.item] # None
    <3>1. k \in Keys /\ Put(k, loc[q].copy)
      BY <2>1, Stored, KeySets
    <3>2. Fitting(k, loc[q].copy)
      BY <2>1, Apart DEF Fitting
    <3>. QED  BY <2>1, <3>1, <3>2, WroteRefs DEF SureSteps
  <2>2. CASE Ended(q) /\ Same
    BY <2>2, EndedRefs DEF Same
  <2>. QED  BY <1>2, <2>1, <2>2, CommentSaveDoes DEF TypesInv
<1>3. ASSUME NEW q \in Calls, Publish(q, "comment.publish") PROVE RefsInv'
  BY <1>3, PublishedRefs
<1>. QED  BY <1>1, <1>2, <1>3 DEF CommentNext

LEMMA CollabRefs == ASSUME TypesInv, TypesInv', RefsInv, CollabNext PROVE RefsInv'
<1>1. ASSUME NEW q \in Calls, NEW k \in ProposalKeys, ProposalCreate(q, k) PROVE RefsInv'
  <2>. DEFINE r == [status |-> "OPEN"]
  <2>1. Moved(q, "idle", "proposal.publish") /\ Insert(k, r)
    BY <1>1, ProposalCreateDoes DEF TypesInv
  <2>. HIDE DEF r
  <2>2. k \in Keys /\ Put(k, r) /\ row[k] = None
    BY <2>1, Stored, KeySets
  <2>3. Fitting(k, r)
    BY <2>2, Apart DEF Fitting
  <2>. QED  BY <2>1, <2>2, <2>3, WroteRefs DEF SureSteps
<1>2. ASSUME NEW q \in Calls, NEW p \in ProposalKeys, OptionFind(q, p) PROVE RefsInv'
  <2>1. /\ Moved(q, "idle", "option.save")
        /\ Holding(q, "PROPOSAL_OPTION_CREATED", None, [proposal |-> p], None)
        /\ IsOpen(p) /\ row' = row
    BY <1>2, OptionFindDoes DEF TypesInv, Same
  <2>2. Sure(pc[q], loc[q])'
    BY <2>1 DEF Sure, Moved, IsOpen, Holding
  <2>. QED  BY <2>1, <2>2, LookedRefs
<1>3. ASSUME NEW q \in Calls, NEW k \in OptionKeys, OptionSave(q, k) PROVE RefsInv'
  <2>1. Moved(q, "option.save", "option.publish") /\ Insert(k, loc[q].copy)
    BY <1>3, OptionSaveDoes DEF TypesInv
  <2>2. IsOpen(loc[q].copy.proposal)
    BY <2>1 DEF RefsInv, Sure, Moved
  <2>3. k \in Keys /\ Put(k, loc[q].copy) /\ row[k] = None
    BY <2>1, Stored, KeySets
  <2>4. Fitting(k, loc[q].copy)
    BY <2>2, <2>3, Apart DEF Fitting
  <2>. QED  BY <2>1, <2>3, <2>4, WroteRefs DEF SureSteps
<1>4. ASSUME NEW q \in Calls, NEW o \in OptionKeys, NEW u \in Voters, VoteCheck(q, u, o)
      PROVE  RefsInv'
  <2>1. /\ Moved(q, "idle", "vote.find")
        /\ Holding(q, "VOTE_TOGGLED", None, [option |-> o, user |-> u], None)
        /\ row[o] # None /\ IsOpen(row[o].proposal) /\ row' = row
    BY <1>4, VoteCheckDoes DEF TypesInv, Same
  <2>2. Sure(pc[q], loc[q])'
    BY <2>1 DEF Sure, Moved, IsOpen, Holding
  <2>. QED  BY <2>1, <2>2, LookedRefs
<1>5. ASSUME NEW q \in Calls, VoteFind(q) PROVE RefsInv'
  <2>1. CASE Moved(q, "vote.find", "vote.save") /\ Keeps(q) /\ Same
    <3>1. Sure(pc[q], loc[q])'
      BY <2>1 DEF RefsInv, Sure, Moved, Keeps, Holding, IsOpen, Same
    <3>. QED  BY <2>1, <3>1, LookedRefs DEF Same
  <2>2. CASE Moved(q, "vote.find", "vote.remove") /\ Same
    BY <2>2, LookedRefs DEF Same, SureSteps
  <2>. QED  BY <1>5, <2>1, <2>2, VoteFindDoes DEF TypesInv
<1>6. ASSUME NEW q \in Calls, VoteRemove(q) PROVE RefsInv'
  <2>1. Moved(q, "vote.remove", "vote.publish") /\ RemoveRow(loc[q].key)
    BY <1>6, VoteRemoveDoes DEF TypesInv
  <2>2. loc[q].key \in VoteKeys
    BY <2>1, AtStep DEF Moved, Typed
  <2>3. loc[q].key \in Keys /\ Put(loc[q].key, None)
    BY <2>1, <2>2, Stored, KeySets
  <2>4. Fitting(loc[q].key, None)
    BY <2>2, Apart DEF Fitting
  <2>. QED  BY <2>1, <2>3, <2>4, WroteRefs DEF SureSteps
<1>7. ASSUME NEW q \in Calls, NEW k \in VoteKeys, VoteSave(q, k) PROVE RefsInv'
  <2>1. CASE Moved(q, "vote.save", "vote.publish") /\ Insert(k, loc[q].copy)
    <3>1. row[loc[q].copy.option] # None /\ IsOpen(row[loc[q].copy.option].proposal)
      BY <2>1 DEF RefsInv, Sure, Moved
    <3>2. k \in Keys /\ Put(k, loc[q].copy)
      BY <2>1, Stored, KeySets
    <3>3. Fitting(k, loc[q].copy)
      BY <3>1, Apart DEF Fitting
    <3>. QED  BY <2>1, <3>2, <3>3, WroteRefs DEF SureSteps
  <2>2. CASE Ended(q) /\ Same
    BY <2>2, EndedRefs DEF Same
  <2>. QED  BY <1>7, <2>1, <2>2, VoteSaveDoes DEF TypesInv
<1>8. ASSUME NEW q \in Calls, Publish(q, "proposal.publish") \/ Publish(q, "option.publish")
                                \/ Publish(q, "vote.publish")
      PROVE  RefsInv'
  BY <1>8, PublishedRefs
<1>. QED  BY <1>1, <1>2, <1>3, <1>4, <1>5, <1>6, <1>7, <1>8 DEF CollabNext

LEMMA CutRefs ==
  ASSUME TypesInv, RefsInv, NEW Q \in SUBSET Calls, Cut(Q) PROVE RefsInv'
<1>1. /\ row' = row
      /\ \A p \in Calls : (pc'[p] = pc[p] /\ loc'[p] = loc[p]) \/ pc'[p] = "idle"
  BY CutDoes DEF TypesInv, tableVars
<1>2. Grows /\ RowReferences'
  BY <1>1 DEF RefsInv, RowReferences, Grows, Days, IsOpen
<1>3. ASSUME NEW p \in Calls PROVE Sure(pc[p], loc[p])'
  <2>1. CASE pc'[p] = "idle"
    BY <2>1 DEF Sure
  <2>2. CASE pc'[p] = pc[p] /\ loc'[p] = loc[p]
    BY <1>2, <2>2, StaysSure DEF RefsInv
  <2>. QED  BY <1>1, <2>1, <2>2
<1>. QED  BY <1>2, <1>3 DEF RefsInv

LEMMA RefsStep == ASSUME TypesInv, TypesInv', RefsInv, [AppNext]_appVars PROVE RefsInv'
<1>1. CASE ServicesNext
  <2>1. CASE \E Q \in SUBSET Calls : Cut(Q)
    BY <2>1, CutRefs
  <2>. QED
    BY <1>1, <2>1, TaskRefs, DocRefs, DayRefs, ItemRefs, AttachRefs, CommentRefs, CollabRefs,
       RuleRefs DEF ServicesNext
<1>2. CASE UNCHANGED serviceVars
  BY <1>2 DEF RefsInv, RowReferences, Sure, Days, IsOpen, serviceVars, tableVars, callVars
<1>. QED  BY <1>1, <1>2 DEF AppNext, appVars

LEMMA RefsInitially == ASSUME ServicesInit PROVE RefsInv
<1>1. /\ \A k \in Keys : row[k] = InitialRow(k)
      /\ \A q \in Calls : pc[q] = "idle"
  BY DEF ServicesInit, CallsInit
<1>2. \A k \in Keys : \/ row[k] = None
                      \/ k = EvaluatedItem /\ row[k].day = None
                      \/ k = ClosedProposal \/ k = ClosedOption
  BY <1>1, InitialRows
<1>3. RowReferences
  BY <1>2, KeySets, Apart, TripAppAssumption, CollabAssumption DEF RowReferences
<1>. QED  BY <1>1, <1>3 DEF RefsInv, Sure

-----------------------------------------------------------------------------
(* The seeding script.  After n saves the rows with these keys are there,   *)
(* and what the n-th save inserts refers to some of them only.              *)
Below(n) == {r.id : r \in UNION {Saves[m] : m \in 1..n}}

Rooted(r, n) ==
  /\ r.refs \subseteq Below(n)
  /\ \A u \in r.by : <<"trip_member", 10 * r.trip + u>> \in Below(n)

LEMMA SavesAre ==
  /\ Len(Saves) = 24
  /\ Saves[1] = SeedUsers /\ Saves[2] = SeedWorkspaces /\ Saves[3] = SeedWorkspaceMembers
  /\ Saves[4] = SeedTrips /\ Saves[5] = SeedTripMembers /\ Saves[6] = SeedBookings
  /\ Saves[7] = SeedDays /\ Saves[8] = SeedItems /\ Saves[9] = SeedProposal
  /\ Saves[10] = SeedOptions /\ Saves[11] = SeedVotes /\ Saves[12] = SeedClosedProposal
  /\ Saves[13] = SeedClosedOptions /\ Saves[14] = SeedClosedVotes /\ Saves[15] = SeedComments
  /\ Saves[16] = SeedTasks /\ Saves[17] = SeedDocuments /\ Saves[18] = SeedRuleSet
  /\ Saves[19] = SeedRules /\ Saves[20] = SeedNotifications /\ Saves[21] = SeedDisruption
  /\ Saves[22] = SeedCase /\ Saves[23] = SeedCaseOptions /\ Saves[24] = SeedAuditLog
BY DEF Saves

LEMMA IsBelow ==
  ASSUME NEW n \in 1..24, NEW m \in 1..n, NEW r \in Saves[m] PROVE r.id \in Below(n)
BY DEF Below

LEMMA EntryIs ==
  ASSUME NEW table, NEW n, NEW refs
  PROVE  LET r == Entry(table, n, refs)
         IN r.id = <<table, n>> /\ r.refs = refs /\ r.by = {}
BY DEF Entry

LEMMA InTripIs ==
  ASSUME NEW t, NEW U, NEW table, NEW n, NEW refs
  PROVE  LET r == InTrip(t, U, table, n, refs)
         IN /\ r.id = <<table, n>> /\ r.refs = refs \cup Users(U) \cup {<<"trip", t>>}
            /\ r.trip = t /\ r.by = U
BY DEF InTrip

(* The people, the workspaces, the trips and their members come first.      *)
LEMMA PlacesBelow ==
  ASSUME NEW n \in 1..24
  PROVE  /\ \A u \in 1..4 : <<"user", u>> \in Below(n)
         /\ n >= 2 => \A w \in 1..2 : <<"workspace", w>> \in Below(n)
         /\ n >= 4 => \A t \in 1..2 : <<"trip", t>> \in Below(n)
         /\ n >= 5 => \A u \in 1..4 : <<"trip_member", 10 + u>> \in Below(n)
<1>1. ASSUME NEW u \in 1..4 PROVE <<"user", u>> \in Below(n)
  <2>1. Entry("user", u, {}) \in Saves[1]
    BY SavesAre DEF SeedUsers
  <2>. QED  BY <2>1, IsBelow, EntryIs
<1>2. ASSUME n >= 2, NEW w \in 1..2 PROVE <<"workspace", w>> \in Below(n)
  <2>1. Entry("workspace", w, {}) \in Saves[2] /\ 2 \in 1..n
    BY <1>2, SavesAre DEF SeedWorkspaces
  <2>. QED  BY <2>1, IsBelow, EntryIs
<1>3. ASSUME n >= 4, NEW t \in 1..2 PROVE <<"trip", t>> \in Below(n)
  <2>. DEFINE r == Entry("trip", t, {<<"workspace", t>>, <<"user", 1>>})
  <2>1. r \in SeedTrips
    BY DEF SeedTrips
  <2>2. r.id = <<"trip", t>>
    BY EntryIs
  <2>. HIDE DEF r
  <2>. QED  BY <1>3, <2>1, <2>2, SavesAre, IsBelow
<1>4. ASSUME n >= 5, NEW u \in 1..4 PROVE <<"trip_member", 10 + u>> \in Below(n)
  <2>1. Membership("trip_member", "trip", 1, u) \in Saves[5] /\ 5 \in 1..n
    BY <1>4, SavesAre DEF SeedTripMembers
  <2>2. Membership("trip_member", "trip", 1, u).id = <<"trip_member", 10 + u>>
    BY EntryIs DEF Membership
  <2>. QED  BY <2>1, <2>2, IsBelow
<1>. QED  BY <1>1, <1>2, <1>3, <1>4

(* Then a row of trip 1 is sound when the other rows it names are there.    *)
LEMMA TripRow ==
  ASSUME NEW n \in 5..24, NEW U \in SUBSET (1..4), NEW table, NEW i, NEW refs \in SUBSET Below(n)
  PROVE  Rooted(InTrip(1, U, table, i, refs), n)
<1>. DEFINE r == InTrip(1, U, table, i, refs)
<1>1. r.refs = refs \cup Users(U) \cup {<<"trip", 1>>} /\ r.trip = 1 /\ r.by = U
  BY InTripIs
<1>. HIDE DEF r
<1>2. Users(U) \subseteq Below(n) /\ <<"trip", 1>> \in Below(n)
  BY PlacesBelow DEF Users
<1>3. \A u \in U : <<"trip_member", 10 * 1 + u>> \in Below(n)
  BY PlacesBelow
<1>4. Rooted(r, n)
  BY <1>1, <1>2, <1>3 DEF Rooted
<1>. QED  BY <1>4 DEF r

LEMMA EntryRow ==
  ASSUME NEW n, NEW table, NEW i, NEW refs \in SUBSET Below(n)
  PROVE  Rooted(Entry(table, i, refs), n)
BY EntryIs DEF Rooted

LEMMA TripRowBelow ==
  ASSUME NEW n \in 1..24, NEW m \in 1..n, NEW U, NEW table, NEW i, NEW refs,
         InTrip(1, U, table, i, refs) \in Saves[m]
  PROVE  <<table, i>> \in Below(n)
BY InTripIs, IsBelow

(* The other rows of trip 1 that rows refer to.                             *)
LEMMA ContentsBelow ==
  ASSUME NEW n \in 1..24
  PROVE  /\ n >= 6 => \A b \in 1..7 : <<"booking", b>> \in Below(n)
         /\ n >= 7 => \A d \in 1..8 : <<"day", d>> \in Below(n)
         /\ n >= 8 => <<"item", 4>> \in Below(n)
         /\ n >= 9 => <<"proposal", 1>> \in Below(n)
         /\ n >= 10 => \A o \in 1..3 : <<"option", o>> \in Below(n)
         /\ n >= 12 => <<"proposal", 2>> \in Below(n)
         /\ n >= 13 => \A o \in 4..5 : <<"option", o>> \in Below(n)
         /\ n >= 16 => <<"task", 1>> \in Below(n)
         /\ n >= 17 => <<"document", 1>> \in Below(n)
         /\ n >= 18 => <<"rule_set", 1>> \in Below(n)
         /\ n >= 21 => <<"disruption", 1>> \in Below(n)
         /\ n >= 22 => <<"rebooking_case", 1>> \in Below(n)
<1>1. ASSUME NEW m \in 1..24, m <= n, NEW table, NEW i,
             \E U, refs : InTrip(1, U, table, i, refs) \in Saves[m]
      PROVE  <<table, i>> \in Below(n)
  <2>1. PICK U, refs : InTrip(1, U, table, i, refs) \in Saves[m]
    BY <1>1
  <2>2. m \in 1..n
    BY <1>1
  <2>. QED  BY <2>1, <2>2, TripRowBelow
<1>2. n >= 6 => \A b \in 1..7 : <<"booking", b>> \in Below(n)
  <2>1. \A b \in 1..7 : \E U, refs : InTrip(1, U, "booking", b, refs) \in Saves[6]
    BY SavesAre DEF SeedBookings
  <2>. QED  BY <1>1, <2>1
<1>3. n >= 7 => \A d \in 1..8 : <<"day", d>> \in Below(n)
  <2>1. \A d \in 1..8 : \E U, refs : InTrip(1, U, "day", d, refs) \in Saves[7]
    BY SavesAre DEF SeedDays
  <2>. QED  BY <1>1, <2>1
<1>4. n >= 8 => <<"item", 4>> \in Below(n)
  <2>1. \E day, booking, u : SeedItem(4, day, booking, u) \in SeedItemsDays1To4
    BY DEF SeedItemsDays1To4
  <2>2. \E U, refs : InTrip(1, U, "item", 4, refs) \in Saves[8]
    BY <2>1, SavesAre DEF SeedItem, SeedItems
  <2>. QED  BY <1>1, <2>2
<1>5. n >= 9 => <<"proposal", 1>> \in Below(n)
  <2>1. \E U, refs : InTrip(1, U, "proposal", 1, refs) \in Saves[9]
    BY SavesAre DEF SeedProposal
  <2>. QED  BY <1>1, <2>1
<1>6. n >= 10 => \A o \in 1..3 : <<"option", o>> \in Below(n)
  <2>1. \A o \in 1..3 : \E U, refs : InTrip(1, U, "option", o, refs) \in Saves[10]
    BY SavesAre DEF SeedOptions
  <2>. QED  BY <1>1, <2>1
<1>7. n >= 12 => <<"proposal", 2>> \in Below(n)
  <2>1. \E U, refs : InTrip(1, U, "proposal", 2, refs) \in Saves[12]
    BY SavesAre DEF SeedClosedProposal
  <2>. QED  BY <1>1, <2>1
<1>8. n >= 13 => \A o \in 4..5 : <<"option", o>> \in Below(n)
  <2>1. \A i \in 1..2 : \E U, refs : InTrip(1, U, "option", 3 + i, refs) \in Saves[13]
    BY SavesAre DEF SeedClosedOptions
  <2>2. \A o \in 4..5 : o - 3 \in 1..2 /\ 3 + (o - 3) = o
    OBVIOUS
  <2>3. \A o \in 4..5 : \E U, refs : InTrip(1, U, "option", o, refs) \in Saves[13]
    BY <2>1, <2>2
  <2>. QED  BY <1>1, <2>3
<1>9. n >= 16 => <<"task", 1>> \in Below(n)
  <2>1. \E U, refs : InTrip(1, U, "task", 1, refs) \in Saves[16]
    BY SavesAre DEF SeedTasks
  <2>. QED  BY <1>1, <2>1
<1>10. n >= 17 => <<"document", 1>> \in Below(n)
  <2>1. \E U, refs : InTrip(1, U, "document", 1, refs) \in Saves[17]
    BY SavesAre DEF SeedDocuments
  <2>. QED  BY <1>1, <2>1
<1>11. n >= 18 => <<"rule_set", 1>> \in Below(n)
  <2>1. \E U, refs : InTrip(1, U, "rule_set", 1, refs) \in Saves[18]
    BY SavesAre DEF SeedRuleSet
  <2>. QED  BY <1>1, <2>1
<1>12. n >= 21 => <<"disruption", 1>> \in Below(n)
  <2>1. \E U, refs : InTrip(1, U, "disruption", 1, refs) \in Saves[21]
    BY SavesAre DEF SeedDisruption
  <2>. QED  BY <1>1, <2>1
<1>13. n >= 22 => <<"rebooking_case", 1>> \in Below(n)
  <2>1. \E U, refs : InTrip(1, U, "rebooking_case", 1, refs) \in Saves[22]
    BY SavesAre DEF SeedCase
  <2>. QED  BY <1>1, <2>1
<1>. QED
  BY <1>2, <1>3, <1>4, <1>5, <1>6, <1>7, <1>8, <1>9, <1>10, <1>11, <1>12, <1>13

(* The first five saves, in which nobody acts in a trip.                    *)
LEMMA PlacesRooted ==
  /\ \A r \in SeedUsers : Rooted(r, 1)
  /\ \A r \in SeedWorkspaces : Rooted(r, 2)
  /\ \A r \in SeedWorkspaceMembers : Rooted(r, 3)
  /\ \A r \in SeedTrips : Rooted(r, 4)
  /\ \A r \in SeedTripMembers : Rooted(r, 5)
<1>1. \A n \in 1..24 : \A table, i : Rooted(Entry(table, i, {}), n)
  BY EntryRow
<1>2. ASSUME NEW n \in 3..24, NEW table, NEW of, NEW place \in 1..2, NEW u \in 1..4,
             <<of, place>> \in Below(n)
      PROVE  Rooted(Membership(table, of, place, u), n)
  <2>1. {<<of, place>>} \cup Users({u}) \subseteq Below(n)
    BY <1>2, PlacesBelow DEF Users
  <2>. QED  BY <2>1, EntryRow DEF Membership
<1>3. ASSUME NEW t \in 1..2 PROVE Rooted(Entry("trip", t, {<<"workspace", t>>, <<"user", 1>>}), 4)
  <2>1. {<<"workspace", t>>, <<"user", 1>>} \subseteq Below(4)
    BY PlacesBelow
  <2>. QED  BY <2>1, EntryRow
<1>4. /\ \A r \in SeedUsers : Rooted(r, 1)
      /\ \A r \in SeedWorkspaces : Rooted(r, 2)
  BY <1>1 DEF SeedUsers, SeedWorkspaces
<1>5. \A r \in SeedWorkspaceMembers : Rooted(r, 3)
  BY <1>2, PlacesBelow DEF SeedWorkspaceMembers
<1>6. \A r \in SeedTrips : Rooted(r, 4)
  BY <1>3 DEF SeedTrips
<1>7. \A r \in SeedTripMembers : Rooted(r, 5)
  BY <1>2, PlacesBelow DEF SeedTripMembers
<1>. QED  BY <1>4, <1>5, <1>6, <1>7

(* Bookings and the itinerary.                                              *)
LEMMA ItineraryRooted ==
  /\ \A r \in SeedBookings : Rooted(r, 6)
  /\ \A r \in SeedDays : Rooted(r, 7)
  /\ \A r \in SeedItems : Rooted(r, 8)
<1>1. ASSUME NEW n \in 5..24, NEW U \in SUBSET (1..4), NEW table, NEW i
      PROVE  Rooted(InTrip(1, U, table, i, {}), n)
  BY TripRow
<1>2. \A r \in SeedBookings : Rooted(r, 6)
  <2>1. \A n \in 1..7 : {<<1, 1, 2, 3, 2, 1, 3>>[n]} \in SUBSET (1..4)
    OBVIOUS
  <2>. QED  BY <1>1, <2>1 DEF SeedBookings
<1>3. \A r \in SeedDays : Rooted(r, 7)
  BY <1>1 DEF SeedDays
<1>4. ASSUME NEW n, NEW day \in 1..8, NEW booking \in 0..7, NEW u \in 1..4
      PROVE  Rooted(SeedItem(n, day, booking, u), 8)
  <2>. DEFINE refs == {<<"day", day>>} \cup {<<"booking", b>> : b \in {booking} \ {0}}
  <2>1. refs \subseteq Below(8)
    BY ContentsBelow
  <2>2. {u} \in SUBSET (1..4)
    OBVIOUS
  <2>. HIDE DEF refs
  <2>3. Rooted(InTrip(1, {u}, "item", n, refs), 8)
    BY <2>1, <2>2, TripRow
  <2>. QED  BY <2>3 DEF SeedItem, refs
<1>5. \A r \in SeedItemsDays1To4 : Rooted(r, 8)
  <2>1. \A n \in 1..9 : /\ <<1, 1, 1, 2, 2, 2, 3, 3, 4>>[n] \in 1..8
                        /\ <<1, 3, 0, 5, 0, 0, 0, 4, 0>>[n] \in 0..7
                        /\ <<1, 2, 3, 2, 3, 1, 2, 3, 1>>[n] \in 1..4
    OBVIOUS
  <2>. QED  BY <1>4, <2>1 DEF SeedItemsDays1To4
<1>6. \A r \in SeedItemsDays5To8 : Rooted(r, 8)
  <2>1. \A n \in 1..8 : /\ <<5, 5, 6, 6, 7, 7, 8, 8>>[n] \in 1..8
                        /\ <<6, 0, 0, 0, 0, 0, 0, 2>>[n] \in 0..7
                        /\ <<1, 2, 3, 1, 2, 1, 2, 1>>[n] \in 1..4
    OBVIOUS
  <2>. QED  BY <1>4, <2>1 DEF SeedItemsDays5To8
<1>. QED  BY <1>2, <1>3, <1>5, <1>6 DEF SeedItems

(* Proposals, their options and votes, and the comments.                    *)
LEMMA CollabRooted ==
  /\ \A r \in SeedProposal : Rooted(r, 9)
  /\ \A r \in SeedOptions : Rooted(r, 10)
  /\ \A r \in SeedVotes : Rooted(r, 11)
  /\ \A r \in SeedClosedProposal : Rooted(r, 12)
  /\ \A r \in SeedClosedOptions : Rooted(r, 13)
  /\ \A r \in SeedClosedVotes : Rooted(r, 14)
  /\ \A r \in SeedComments : Rooted(r, 15)
<1>1. ASSUME NEW n \in 5..24, NEW U \in SUBSET (1..4), NEW table, NEW i
      PROVE  Rooted(InTrip(1, U, table, i, {}), n)
  BY TripRow
<1>2. ASSUME NEW n \in 5..24, NEW u \in 1..4, NEW table, NEW i, NEW ref \in Below(n)
      PROVE  Rooted(InTrip(1, {u}, table, i, {ref}), n)
  BY TripRow
<1>3. /\ \A r \in SeedProposal : Rooted(r, 9)
      /\ \A r \in SeedClosedProposal : Rooted(r, 12)
  <2>1. {1} \in SUBSET (1..4) /\ {2} \in SUBSET (1..4)
    OBVIOUS
  <2>. QED  BY <1>1, <2>1 DEF SeedProposal, SeedClosedProposal
<1>4. \A r \in SeedOptions : Rooted(r, 10)
  <2>1. \A n \in 1..3 : <<1, 3, 2>>[n] \in 1..4
    OBVIOUS
  <2>2. <<"proposal", 1>> \in Below(10)
    BY ContentsBelow
  <2>3. ASSUME NEW u \in 1..4, NEW i
        PROVE  Rooted(InTrip(1, {u}, "option", i, {<<"proposal", 1>>}), 10)
    <3>1. {u} \in SUBSET (1..4) /\ {<<"proposal", 1>>} \in SUBSET Below(10)
      BY <2>2
    <3>. QED  BY <3>1, TripRow
  <2>. QED  BY <2>1, <2>3 DEF SeedOptions
<1>5. \A r \in SeedClosedOptions : Rooted(r, 13)
  <2>1. \A n \in 1..2 : <<2, 3>>[n] \in 1..4
    OBVIOUS
  <2>2. <<"proposal", 2>> \in Below(13)
    BY ContentsBelow
  <2>3. ASSUME NEW u \in 1..4, NEW i
        PROVE  Rooted(InTrip(1, {u}, "option", i, {<<"proposal", 2>>}), 13)
    <3>1. {u} \in SUBSET (1..4) /\ {<<"proposal", 2>>} \in SUBSET Below(13)
      BY <2>2
    <3>. QED  BY <3>1, TripRow
  <2>. QED  BY <2>1, <2>3 DEF SeedClosedOptions
<1>6. ASSUME NEW n \in 5..24, NEW o, <<"option", o>> \in Below(n), NEW u \in 1..4
      PROVE  Rooted(SeedVote(o, u), n)
  BY <1>2, <1>6 DEF SeedVote
<1>7. /\ \A r \in SeedVotes : Rooted(r, 11)
      /\ \A r \in SeedClosedVotes : Rooted(r, 14)
  BY <1>6, ContentsBelow DEF SeedVotes, SeedClosedVotes
<1>8. \A r \in SeedComments : Rooted(r, 15)
  <2>1. \A n \in 1..4 : {<<2, 3, 1, 2>>[n]} \in SUBSET (1..4)
    OBVIOUS
  <2>2. \A n \in 1..4 : (IF n = 2 THEN {<<"item", 4>>} ELSE {}) \in SUBSET Below(15)
    BY ContentsBelow
  <2>. QED  BY <2>1, <2>2, TripRow DEF SeedComments
<1>. QED  BY <1>3, <1>4, <1>5, <1>7, <1>8

(* The rest.                                                                *)
LEMMA OthersRooted ==
  /\ \A r \in SeedTasks : Rooted(r, 16)
  /\ \A r \in SeedDocuments : Rooted(r, 17)
  /\ \A r \in SeedRuleSet : Rooted(r, 18)
  /\ \A r \in SeedRules : Rooted(r, 19)
  /\ \A r \in SeedNotifications : Rooted(r, 20)
  /\ \A r \in SeedDisruption : Rooted(r, 21)
  /\ \A r \in SeedCase : Rooted(r, 22)
  /\ \A r \in SeedCaseOptions : Rooted(r, 23)
  /\ \A r \in SeedAuditLog : Rooted(r, 24)
<1>1. ASSUME NEW n \in 5..24, NEW U \in SUBSET (1..4), NEW table, NEW i
      PROVE  Rooted(InTrip(1, U, table, i, {}), n)
  BY TripRow
<1>2. \A r \in SeedTasks : Rooted(r, 16)
  <2>1. \A n \in 1..6 :
          <<{3, 1}, {2, 1}, {1}, {1, 2}, {2, 3}, {3, 1}>>[n] \in SUBSET (1..4)
    OBVIOUS
  <2>. QED  BY <1>1, <2>1 DEF SeedTasks
<1>3. \A r \in SeedDocuments : Rooted(r, 17)
  <2>1. \A n \in 1..6 : {<<1, 2, 1, 1, 3, 1>>[n]} \in SUBSET (1..4)
    OBVIOUS
  <2>. QED  BY <1>1, <2>1 DEF SeedDocuments
<1>4. \A r \in SeedRuleSet : Rooted(r, 18)
  <2>1. {} \in SUBSET (1..4)
    OBVIOUS
  <2>. QED  BY <1>1, <2>1 DEF SeedRuleSet
<1>5. \A r \in SeedRules : Rooted(r, 19)
  BY ContentsBelow, EntryRow DEF SeedRules
<1>6. \A r \in SeedNotifications : Rooted(r, 20)
  <2>1. \A n \in 1..6 :
          <<{1, 2}, {1, 2}, {1, 3}, {2, 1}, {3, 2}, {1}>>[n] \in SUBSET (1..4)
    OBVIOUS
  <2>. QED  BY <1>1, <2>1 DEF SeedNotifications
<1>7. \A r \in SeedDisruption : Rooted(r, 21)
  <2>1. {<<"booking", 6>>} \subseteq Below(21) /\ {1} \in SUBSET (1..4)
    BY ContentsBelow
  <2>. QED  BY <2>1, TripRow DEF SeedDisruption
<1>8. \A r \in SeedCase : Rooted(r, 22)
  <2>1. {<<"booking", 6>>, <<"disruption", 1>>} \subseteq Below(22) /\ {} \in SUBSET (1..4)
    BY ContentsBelow
  <2>. QED  BY <2>1, TripRow DEF SeedCase
<1>9. \A r \in SeedCaseOptions : Rooted(r, 23)
  BY ContentsBelow, EntryRow DEF SeedCaseOptions
<1>10. \A r \in SeedAuditLog : Rooted(r, 24)
  <2>. DEFINE target == <<<<"workspace", 1>>, <<"trip", 1>>, <<"booking", 1>>, <<"day", 1>>,
                          <<"item", 4>>, <<"proposal", 1>>, <<"task", 1>>, <<"document", 1>>>>
  <2>1. \A n \in 1..8 : {<<1, 1, 1, 2, 2, 1, 3, 1>>[n]} \in SUBSET (1..4)
    OBVIOUS
  <2>2. /\ {<<"workspace", 1>>, <<"trip", 1>>, <<"booking", 1>>, <<"day", 1>>} \subseteq Below(24)
        /\ {<<"item", 4>>, <<"proposal", 1>>, <<"task", 1>>, <<"document", 1>>} \subseteq Below(24)
    BY PlacesBelow, ContentsBelow
  <2>3. \A n \in 1..8 : target[n] \in Below(24)
    BY <2>2
  <2>4. \A n \in 1..8 : {<<"workspace", 1>>, target[n]} \in SUBSET Below(24)
    BY <2>2, <2>3
  <2>. QED  BY <2>1, <2>4, TripRow DEF SeedAuditLog
<1>. QED  BY <1>2, <1>3, <1>4, <1>5, <1>6, <1>7, <1>8, <1>9, <1>10

LEMMA SeedRooted == SeedInv => SeedReferencesHold
<1>1. \A n \in 1..24 : \A r \in Saves[n] : Rooted(r, n)
  <2>1. /\ \A n \in 1..5 : \A r \in Saves[n] : Rooted(r, n)
    BY SavesAre, PlacesRooted
  <2>2. /\ \A n \in 6..8 : \A r \in Saves[n] : Rooted(r, n)
    BY SavesAre, ItineraryRooted
  <2>3. /\ \A n \in 9..15 : \A r \in Saves[n] : Rooted(r, n)
    BY SavesAre, CollabRooted
  <2>4. /\ \A n \in 16..24 : \A r \in Saves[n] : Rooted(r, n)
    BY SavesAre, OthersRooted
  <2>. QED  BY <2>1, <2>2, <2>3, <2>4
<1>. SUFFICES ASSUME SeedInv, NEW r \in Seeded
              PROVE  /\ r.refs \subseteq SeededIds
                     /\ \A u \in r.by : <<"trip_member", 10 * r.trip + u>> \in SeededIds
  BY DEF SeedReferencesHold
<1>2. saved \in 0..24
  BY SavesAre DEF SeedInv
<1>3. PICK n \in 1..saved : r \in Saves[n]
  BY DEF Seeded
<1>4. n \in 1..24 /\ 1..n \subseteq 1..saved
  BY <1>2
<1>5. Below(n) \subseteq SeededIds
  BY <1>4 DEF Below, SeededIds, Seeded
<1>. QED  BY <1>1, <1>3, <1>4, <1>5 DEF Rooted

(* Whatever overlaps or fails, nothing refers to a row that is not there,   *)
(* and nobody votes or adds options where the proposal is closed: what a    *)
(* call has looked up is never deleted before the call saves (days,         *)
(* proposals and options stay), the foreign keys see to the comments, and   *)
(* the seeding script saves nothing before what it refers to.               *)
THEOREM ReferencesHoldHolds == AppSpec => []ReferencesHold
<1>1. AppInit(Parts) => RefsInv
  BY RefsInitially DEF AppInit
<1>2. TypesInv /\ TypesInv' /\ RefsInv /\ [AppNext]_appVars => RefsInv'
  BY RefsStep
<1>3. AppInv /\ RefsInv => ReferencesHold
  BY SeedRooted DEF AppInv, OthersInv, RefsInv, RowReferences, ReferencesHold
<1>4. AppInv => TypesInv
  BY DEF AppInv
<1>. QED  BY <1>1, <1>2, <1>3, <1>4, AppInvariant, PTL DEF AppSpec
-----------------------------------------------------------------------------
(* Events, one call at a time.  A call that saves a row saves the one that  *)
(* it has read; one that has written tells of what it has written.          *)
Unsaid == {"task.publish", "doc.publish", "day.publish", "item.publish", "comment.publish",
           "proposal.publish", "option.publish", "vote.publish", "rules.delete", "rules.save",
           "rules.publish", "eval.publish"}

Removing == {"task.remove", "doc.object", "doc.remove", "item.remove", "vote.remove"}

\* The event r of the row k is true, but for the two exceptions.
TrueOf(k, r) ==
  \/ r = row[k]
  \/ k \in CommentKeys /\ row[k].item = None /\ r.item \in Gone
  \/ k \in ItemKeys /\ None \notin {row[k], r} /\ r = [row[k] EXCEPT !.day = None]

CompletionTrue(k) == told[k].type = "TASK_COMPLETED" <=> k \in turned

Fresh(step, c) ==
  /\ step \in {"task.save", "doc.update", "item.day", "item.update"} =>
       c.copy = row[c.key] /\ row[c.key] # None
  /\ step = "item.attach" => row[c.key] # None
  /\ step = "rules.set" => c.copy = row[c.key]
  /\ step \in Removing => c.copy = None
  /\ step = "task.save" => c.op = "TASK_UPDATED"
  /\ step = "task.remove" => c.op = "TASK_DELETED"
  /\ step = "task.publish" => (c.op = "TASK_COMPLETED" <=> c.key \in turned)
  /\ step \in Unsaid => TrueOf(c.key, c.copy)

Untold(k) == \E q \in Calls : pc[q] \in Unsaid /\ loc[q].key = k

LastInv ==
  ~disturbed =>
    /\ \A k \in used : Untold(k) \/ TrueOf(k, told[k].row)
    /\ \A k \in TaskKeys \cap used : Untold(k) \/ CompletionTrue(k)
    /\ \A q \in Calls : Fresh(pc[q], loc[q])

(* What a step of the call q must show: nobody else is doing anything.      *)
LEMMA LastMoved ==
  ASSUME LastInv, NEW q \in Calls, NEW from, NEW to, Moved(q, from, to),
         ~disturbed /\ ~disturbed' =>
           /\ \A k \in used' : (to \in Unsaid /\ loc'[q].key = k) \/ TrueOf(k, told[k].row)'
           /\ \A k \in TaskKeys \cap used' : (to \in Unsaid /\ loc'[q].key = k) \/ CompletionTrue(k)'
           /\ Fresh(pc[q], loc[q])'
  PROVE  LastInv'
<1>. SUFFICES ASSUME ~disturbed'
              PROVE  /\ \A k \in used' : Untold(k)' \/ TrueOf(k, told[k].row)'
                     /\ \A k \in TaskKeys \cap used' : Untold(k)' \/ CompletionTrue(k)'
                     /\ \A p \in Calls : Fresh(pc[p], loc[p])'
  BY DEF LastInv
<1>1. ~disturbed /\ pc'[q] = to /\ \A p \in Calls : p # q => pc'[p] = "idle"
  BY DEF Moved, Alone
<1>2. ASSUME NEW p \in Calls, p # q PROVE Fresh(pc[p], loc[p])'
  BY <1>1, <1>2 DEF Fresh, Unsaid, Removing
<1>3. \A k : to \in Unsaid /\ loc'[q].key = k => Untold(k)'
  BY <1>1 DEF Untold
<1>. QED  BY <1>1, <1>2, <1>3

(* Before the step: what LastInv says of the only call.                     *)
LEMMA LastBefore ==
  ASSUME LastInv, NEW q \in Calls, NEW from, NEW to, Moved(q, from, to), ~disturbed, ~disturbed'
  PROVE  /\ \A k \in used : (from \in Unsaid /\ loc[q].key = k) \/ TrueOf(k, told[k].row)
         /\ \A k \in TaskKeys \cap used : (from \in Unsaid /\ loc[q].key = k) \/ CompletionTrue(k)
         /\ Fresh(from, loc[q])
<1>1. pc[q] = from /\ \A p \in Calls : p # q => pc[p] = "idle"
  BY DEF Moved, Alone
<1>2. \A k : Untold(k) => from \in Unsaid /\ loc[q].key = k
  BY <1>1 DEF Untold, Unsaid
<1>3. /\ \A k \in used : Untold(k) \/ TrueOf(k, told[k].row)
      /\ \A k \in TaskKeys \cap used : Untold(k) \/ CompletionTrue(k)
      /\ Fresh(pc[q], loc[q])
  BY DEF LastInv
<1>. QED  BY <1>1, <1>2, <1>3

(* A step that writes nothing.                                              *)
LEMMA ReadTells ==
  ASSUME LastInv, NEW q \in Calls, NEW from, NEW to, Moved(q, from, to),
         from \notin Unsaid, Same, UNCHANGED <<told, turned>>,
         ~disturbed /\ ~disturbed' => Fresh(pc[q], loc[q])'
  PROVE  LastInv'
<1>. SUFFICES ASSUME ~disturbed, ~disturbed'
              PROVE  /\ \A k \in used' : TrueOf(k, told[k].row)'
                     /\ \A k \in TaskKeys \cap used' : CompletionTrue(k)'
  BY LastMoved
<1>1. /\ \A k \in used : TrueOf(k, told[k].row)
      /\ \A k \in TaskKeys \cap used : CompletionTrue(k)
  BY LastBefore
<1>. QED  BY <1>1 DEF Same, TrueOf, CompletionTrue, Gone

LEMMA EndTells ==
  ASSUME LastInv, NEW q \in Calls, Ended(q), pc[q] \notin Unsaid, Same, UNCHANGED <<told, turned>>
  PROVE  LastInv'
<1>1. Moved(q, pc[q], "idle") /\ pc'[q] = "idle"
  BY DEF Ended, Moved
<1>2. Fresh(pc[q], loc[q])'
  BY <1>1 DEF Fresh, Unsaid, Removing
<1>. QED  BY <1>1, <1>2, ReadTells

(* A step between a write and its event.                                    *)
LEMMA KeptTells ==
  ASSUME LastInv, NEW q \in Calls, NEW from, NEW to, Moved(q, from, to), Keeps(q),
         from \in Unsaid, to \in Unsaid, to # "task.publish", Same, UNCHANGED <<told, turned>>
  PROVE  LastInv'
<1>. SUFFICES ASSUME ~disturbed, ~disturbed'
              PROVE  /\ \A k \in used' : loc'[q].key = k \/ TrueOf(k, told[k].row)'
                     /\ \A k \in TaskKeys \cap used' : loc'[q].key = k \/ CompletionTrue(k)'
                     /\ Fresh(pc[q], loc[q])'
  BY LastMoved
<1>1. /\ \A k \in used : loc[q].key = k \/ TrueOf(k, told[k].row)
      /\ \A k \in TaskKeys \cap used : loc[q].key = k \/ CompletionTrue(k)
      /\ Fresh(from, loc[q])
  BY LastBefore
<1>2. loc'[q].key = loc[q].key /\ loc'[q].copy = loc[q].copy /\ pc'[q] = to
  BY DEF Keeps, Holding, Moved
<1>3. TrueOf(loc[q].key, loc[q].copy)'
  BY <1>1, <1>2 DEF Fresh, TrueOf, Gone, Same
<1>4. Fresh(pc[q], loc[q])'
  BY <1>2, <1>3 DEF Fresh, Unsaid, Removing
<1>. QED  BY <1>1, <1>2, <1>4 DEF Same, TrueOf, CompletionTrue, Gone

(* A step that writes one row r.                                            *)
LEMMA WriteTells ==
  ASSUME TypesInv, LastInv, NEW q \in Calls, NEW from, NEW to, Moved(q, from, to),
         from \notin Unsaid, to \in Unsaid, UNCHANGED told,
         NEW k \in Keys, NEW r, Put(k, r), used' \subseteq used \cup {k}, used \subseteq used',
         loc'[q].key = k, turned' \ {k} = turned \ {k},
         ~disturbed /\ ~disturbed' => /\ k \notin Gone \/ r = None
                                      /\ Fresh(pc[q], loc[q])'
  PROVE  LastInv'
<1>. SUFFICES ASSUME ~disturbed, ~disturbed'
              PROVE  /\ \A j \in used' \ {k} : TrueOf(j, told[j].row)'
                     /\ \A j \in (TaskKeys \cap used') \ {k} : CompletionTrue(j)'
  BY LastMoved
<1>1. /\ \A j \in used : TrueOf(j, told[j].row)
      /\ \A j \in TaskKeys \cap used : CompletionTrue(j)
  BY LastBefore
<1>2. row'[k] = r /\ \A j \in Keys : j # k => row'[j] = row[j]
  BY DEF TypesInv, RowsInv, TablesTyped, Put
<1>3. used \subseteq Keys
  BY DEF TypesInv, RowsInv, TablesTyped
<1>4. Gone \subseteq Gone'
  BY <1>2, <1>3 DEF Gone
<1>5. ASSUME NEW j \in used', j # k PROVE TrueOf(j, told[j].row)'
  <2>1. j \in used /\ row'[j] = row[j] /\ told'[j] = told[j]
    BY <1>2, <1>3, <1>5
  <2>. QED  BY <1>1, <1>4, <2>1 DEF TrueOf
<1>6. ASSUME NEW j \in TaskKeys \cap used', j # k PROVE CompletionTrue(j)'
  BY <1>1, <1>6 DEF CompletionTrue
<1>. QED  BY <1>5, <1>6

LEMMA Wrote ==
  ASSUME NEW q \in Calls, loc'[q].copy = row'[loc'[q].key],
         pc'[q] \in Unsaid, pc'[q] # "task.publish"
  PROVE  Fresh(pc[q], loc[q])'
BY DEF Fresh, Unsaid, Removing, TrueOf

LEMMA InsertTells ==
  ASSUME TypesInv, LastInv, NEW q \in Calls, NEW from, NEW to, Moved(q, from, to),
         from \notin Unsaid, to \in Unsaid \ {"task.publish"}, UNCHANGED <<told, turned>>,
         NEW k \in Keys, NEW r, Insert(k, r), loc'[q].key = k, loc'[q].copy = r
  PROVE  LastInv'
<1>1. Put(k, r) /\ row'[k] = r /\ k \notin Gone
  BY Stored DEF Insert, Gone, TypesInv, RowsInv, TablesTyped
<1>2. Fresh(pc[q], loc[q])'
  BY <1>1, Wrote DEF Moved
<1>. QED  BY <1>1, <1>2, WriteTells DEF Insert

LEMMA SaveTells ==
  ASSUME TypesInv, LastInv, NEW q \in Calls, NEW from, NEW to, Moved(q, from, to),
         from \notin Unsaid, to \in Unsaid \ {"task.publish"}, UNCHANGED <<told, turned>>,
         NEW k \in Keys, NEW r, SaveBack(k, r), loc'[q].key = k, loc'[q].copy = r,
         ~disturbed /\ ~disturbed' => row[k] # None \/ r = None
  PROVE  LastInv'
<1>1. Put(k, r) /\ row'[k] = r /\ used' = used
  BY Stored DEF SaveBack, TypesInv, RowsInv, TablesTyped
<1>2. Fresh(pc[q], loc[q])'
  BY <1>1, Wrote DEF Moved
<1>. QED  BY <1>1, <1>2, WriteTells DEF Gone

LEMMA UnsaidKey ==
  ASSUME TypesInv, NEW q \in Calls, pc[q] \in Unsaid
  PROVE  loc[q].key \in Keys /\ (loc[q].key \in TaskKeys => pc[q] = "task.publish")
BY AtStep, KeySets, Apart DEF Typed, Unsaid, TaskSteps, DocSteps, ItemSteps

LEMMA PublishTells ==
  ASSUME TypesInv, LastInv, NEW q \in Calls, NEW step \in Unsaid, Publish(q, step),
         turned' = turned
  PROVE  LastInv'
<1>. DEFINE k == loc[q].key
<1>1. /\ Moved(q, step, "idle") /\ UNCHANGED <<row, used>>
      /\ told' = [told EXCEPT ![k] = [type |-> loc[q].op, row |-> loc[q].copy]]
  BY Published DEF TypesInv, Ended, Unsaid
<1>2. k \in Keys /\ (k \in TaskKeys => step = "task.publish")
  BY <1>1, UnsaidKey DEF Moved
<1>. HIDE DEF k
<1>3. /\ told'[k].row = loc[q].copy /\ told'[k].type = loc[q].op
      /\ \A j \in Keys : j # k => told'[j] = told[j]
  BY <1>1, <1>2 DEF TypesInv, RowsInv, TablesTyped
<1>. SUFFICES ASSUME ~disturbed, ~disturbed'
              PROVE  /\ \A j \in used' : TrueOf(j, told[j].row)'
                     /\ \A j \in TaskKeys \cap used' : CompletionTrue(j)'
                     /\ Fresh(pc[q], loc[q])'
  BY <1>1, LastMoved
<1>4. /\ \A j \in used : k = j \/ TrueOf(j, told[j].row)
      /\ \A j \in TaskKeys \cap used : k = j \/ CompletionTrue(j)
      /\ Fresh(step, loc[q])
  BY <1>1, LastBefore DEF k
<1>5. TrueOf(k, loc[q].copy) /\ (step = "task.publish" => (loc[q].op = "TASK_COMPLETED" <=> k \in turned))
  BY <1>4 DEF Fresh, k
<1>6. ASSUME NEW j \in used' PROVE TrueOf(j, told[j].row)'
  <2>1. j \in used /\ j \in Keys
    BY <1>1 DEF TypesInv, RowsInv, TablesTyped
  <2>2. CASE j = k
    BY <1>1, <1>3, <1>5, <2>2 DEF TrueOf, Gone
  <2>3. CASE j # k
    BY <1>1, <1>3, <1>4, <2>1, <2>3 DEF TrueOf, Gone
  <2>. QED  BY <2>2, <2>3
<1>7. ASSUME NEW j \in TaskKeys \cap used' PROVE CompletionTrue(j)'
  <2>1. j \in used /\ j \in Keys
    BY <1>1 DEF TypesInv, RowsInv, TablesTyped
  <2>2. CASE j = k
    BY <1>2, <1>3, <1>5, <2>2 DEF CompletionTrue
  <2>3. CASE j # k
    BY <1>1, <1>3, <1>4, <2>1, <2>3 DEF CompletionTrue
  <2>. QED  BY <2>2, <2>3
<1>8. Fresh(pc[q], loc[q])'
  BY <1>1 DEF Moved, Fresh, Unsaid, Removing
<1>. QED  BY <1>6, <1>7, <1>8

(* Tasks: an update completes a task exactly if its copy was not completed. *)
LEMMA TaskLast ==
  ASSUME TypesInv, LastInv, turned \subseteq used, TaskNext PROVE LastInv' /\ turned' \subseteq used'
<1>1. ASSUME NEW q \in Calls, NEW k \in TaskKeys, TaskCreate(q, k)
      PROVE  LastInv' /\ turned' \subseteq used'
  <2>. DEFINE r == [status |-> "PENDING"]
  <2>1. /\ Moved(q, "idle", "task.publish") /\ Holding(q, "TASK_CREATED", k, r, None)
        /\ Insert(k, r) /\ UNCHANGED <<told, turned>>
    BY <1>1, TaskCreateDoes DEF TypesInv
  <2>. HIDE DEF r
  <2>2. k \in Keys /\ Put(k, r) /\ row'[k] = r /\ k \notin Gone /\ k \notin turned
    BY <2>1, Stored, KeySets DEF Insert, Gone, TypesInv, RowsInv, TablesTyped
  <2>3. TrueOf(loc[q].key, loc[q].copy)' /\ loc'[q].op = "TASK_CREATED" /\ loc'[q].key = k
    BY <2>1, <2>2 DEF Holding, TrueOf
  <2>4. Fresh(pc[q], loc[q])'
    BY <2>1, <2>2, <2>3 DEF Fresh, Unsaid, Removing, Moved
  <2>5. LastInv'
    BY <2>1, <2>2, <2>3, <2>4, WriteTells DEF Insert, Unsaid
  <2>. QED  BY <2>1, <2>5 DEF Insert
<1>2. ASSUME NEW q \in Calls, NEW k \in TaskKeys, NEW input \in TaskInput, TaskFind(q, k, input)
      PROVE  LastInv' /\ turned' \subseteq used'
  <2>1. /\ Moved(q, "idle", "task.save") /\ Holding(q, "TASK_UPDATED", k, row[k], input)
        /\ row[k] # None /\ Same /\ UNCHANGED <<told, turned>>
    BY <1>2, TaskFindDoes DEF TypesInv
  <2>2. Fresh(pc[q], loc[q])'
    BY <2>1 DEF Fresh, Unsaid, Removing, Moved, Holding, Same
  <2>. QED  BY <2>1, <2>2, ReadTells DEF Unsaid, Same
<1>3. ASSUME NEW q \in Calls, NEW k \in TaskKeys, TaskFindDoomed(q, k)
      PROVE  LastInv' /\ turned' \subseteq used'
  <2>1. /\ Moved(q, "idle", "task.remove") /\ Holding(q, "TASK_DELETED", k, None, None)
        /\ Same /\ UNCHANGED <<told, turned>>
    BY <1>3, TaskFindDoomedDoes DEF TypesInv
  <2>2. Fresh(pc[q], loc[q])'
    BY <2>1 DEF Fresh, Unsaid, Removing, Moved, Holding
  <2>. QED  BY <2>1, <2>2, ReadTells DEF Unsaid, Same
<1>4. ASSUME NEW q \in Calls, TaskSave(q) PROVE LastInv' /\ turned' \subseteq used'
  <2>. DEFINE c == loc[q]
              r == IF c.input = "keep" THEN c.copy ELSE [status |-> c.input]
              op == IF Completed(r) /\ ~Completed(c.copy) THEN "TASK_COMPLETED" ELSE c.op
  <2>1. /\ Moved(q, "task.save", "task.publish") /\ Holding(q, op, c.key, r, c.input)
        /\ SaveBack(c.key, r) /\ Record(c.key, r) /\ UNCHANGED told
    BY <1>4, TaskSaveDoes DEF TypesInv
  <2>2. c.key \in TaskKeys \cap used /\ c.key \in Keys
    BY <2>1, AtStep, KeySets DEF Moved, Typed, TaskSteps
  <2>. HIDE DEF r
  <2>3. Put(c.key, r) /\ row'[c.key] = r /\ used' = used
    BY <2>1, <2>2, Stored DEF SaveBack, TypesInv, RowsInv, TablesTyped
  <2>4. /\ turned' \ {c.key} = turned \ {c.key}
        /\ turned' \subseteq turned \cup {c.key}
        /\ c.key \in turned' <=> Completed(r) /\ ~Completed(row[c.key])
    BY <2>1 DEF Record
  <2>5. ASSUME ~disturbed, ~disturbed' PROVE c.key \notin Gone /\ Fresh(pc[q], loc[q])'
    <3>1. Fresh("task.save", c)
      BY <2>1, <2>5, LastBefore
    <3>2. c.copy = row[c.key] /\ row[c.key] # None /\ c.op = "TASK_UPDATED"
      BY <3>1 DEF Fresh
    <3>3. op = "TASK_COMPLETED" <=> c.key \in turned'
      BY <2>4, <3>2
    <3>. HIDE DEF op
    <3>4. loc'[q].op = op /\ loc'[q].key = c.key /\ loc'[q].copy = r /\ pc'[q] = "task.publish"
      BY <2>1 DEF Holding, Moved
    <3>5. TrueOf(loc[q].key, loc[q].copy)'
      BY <2>3, <3>4 DEF TrueOf
    <3>. QED  BY <3>2, <3>3, <3>4, <3>5 DEF Fresh, Unsaid, Removing, Gone
  <2>6. loc'[q].key = c.key
    BY <2>1 DEF Holding
  <2>7. LastInv'
    BY <2>1, <2>2, <2>3, <2>4, <2>5, <2>6, WriteTells DEF Unsaid
  <2>. QED  BY <2>2, <2>3, <2>4, <2>7
<1>5. ASSUME NEW q \in Calls, TaskRemove(q) PROVE LastInv' /\ turned' \subseteq used'
  <2>. DEFINE c == loc[q]
  <2>1. /\ Moved(q, "task.remove", "task.publish") /\ Keeps(q)
        /\ RemoveRow(c.key) /\ Record(c.key, None) /\ UNCHANGED told
    BY <1>5, TaskRemoveDoes DEF TypesInv
  <2>2. c.key \in TaskKeys \cap used /\ c.key \in Keys
    BY <2>1, AtStep, KeySets DEF Moved, Typed, TaskSteps
  <2>3. Put(c.key, None) /\ row'[c.key] = None /\ used' = used
    BY <2>1, <2>2, Stored DEF RemoveRow, SaveBack, TypesInv, RowsInv, TablesTyped
  <2>4. turned' = turned \ {c.key}
    BY <2>1 DEF Record, Completed
  <2>5. ASSUME ~disturbed, ~disturbed' PROVE Fresh(pc[q], loc[q])'
    <3>1. Fresh("task.remove", c)
      BY <2>1, <2>5, LastBefore
    <3>2. c.op = "TASK_DELETED" /\ c.copy = None
      BY <3>1 DEF Fresh, Removing
    <3>4. /\ loc'[q].op = c.op /\ loc'[q].key = c.key /\ loc'[q].copy = None
          /\ pc'[q] = "task.publish"
      BY <2>1, <3>2 DEF Keeps, Holding, Moved
    <3>5. TrueOf(loc[q].key, loc[q].copy)'
      BY <2>3, <3>4 DEF TrueOf
    <3>. QED  BY <2>4, <3>2, <3>4, <3>5 DEF Fresh, Unsaid, Removing
  <2>6. loc'[q].key = c.key
    BY <2>1 DEF Keeps, Holding
  <2>7. LastInv'
    BY <2>1, <2>2, <2>3, <2>4, <2>5, <2>6, WriteTells DEF Unsaid
  <2>. QED  BY <2>2, <2>3, <2>4, <2>7
<1>6. ASSUME NEW q \in Calls, TaskPublish(q) PROVE LastInv' /\ turned' \subseteq used'
  BY <1>6, PublishTells DEF TaskPublish, Unsaid, Publish
<1>. QED  BY <1>1, <1>2, <1>3, <1>4, <1>5, <1>6 DEF TaskNext

(* A step to one that Fresh says nothing of.                                *)
Watched == Unsaid \cup Removing \cup
           {"task.save", "doc.update", "item.day", "item.update", "item.attach", "rules.set"}

LEMMA LookTells ==
  ASSUME LastInv, NEW q \in Calls, NEW from, NEW to, Moved(q, from, to),
         from \notin Unsaid, to \notin Watched, Same, UNCHANGED <<told, turned>>
  PROVE  LastInv'
<1>1. Fresh(pc[q], loc[q])'
  BY DEF Fresh, Watched, Unsaid, Removing, Moved
<1>. QED  BY <1>1, ReadTells

LEMMA DoomedTells ==
  ASSUME LastInv, NEW q \in Calls, NEW from, NEW to, Moved(q, from, to),
         from \notin Unsaid, to \in Removing \ {"task.remove"}, loc'[q].copy = None,
         Same, UNCHANGED <<told, turned>>
  PROVE  LastInv'
<1>1. Fresh(pc[q], loc[q])'
  BY DEF Fresh, Unsaid, Removing, Moved
<1>. QED  BY <1>1, ReadTells

LEMMA RemoveTells ==
  ASSUME TypesInv, LastInv, NEW q \in Calls, NEW from \in Removing, NEW to, Moved(q, from, to),
         to \in Unsaid \ {"task.publish"}, Keeps(q), UNCHANGED <<told, turned>>,
         loc[q].key \in Keys, RemoveRow(loc[q].key)
  PROVE  LastInv'
<1>. DEFINE k == loc[q].key
<1>1. k \in Keys /\ loc'[q].key = k /\ loc'[q].copy = loc[q].copy
      /\ from \notin Unsaid
  BY DEF Keeps, Holding, Removing, Unsaid
<1>. HIDE DEF k
<1>2. Put(k, None) /\ row'[k] = None /\ used' = used
  BY <1>1, Stored DEF k, RemoveRow, SaveBack, TypesInv, RowsInv, TablesTyped
<1>3. ASSUME ~disturbed, ~disturbed' PROVE Fresh(pc[q], loc[q])'
  <2>1. Fresh(from, loc[q])
    BY <1>3, LastBefore
  <2>2. loc'[q].copy = None
    BY <1>1, <2>1 DEF Fresh
  <2>. QED  BY <1>1, <1>2, <2>2, Wrote DEF Moved
<1>. QED  BY <1>1, <1>2, <1>3, WriteTells

(* Documents.                                                               *)
LEMMA DocLast == ASSUME TypesInv, LastInv, UNCHANGED turned, DocNext PROVE LastInv'
<1>1. ASSUME NEW q \in Calls, NEW k \in DocKeys, NEW category \in DocumentCategory,
             DocUpload(q, k, category)
      PROVE  LastInv'
  BY <1>1, DocUploadDoes, LookTells DEF Watched, Unsaid, Removing, TypesInv
<1>2. ASSUME NEW q \in Calls, NEW k \in DocKeys, NEW input \in DocInput, DocFind(q, k, input)
      PROVE  LastInv'
  <2>1. /\ Moved(q, "idle", "doc.update") /\ Holding(q, "DOCUMENT_UPDATED", k, row[k], input)
        /\ row[k] # None /\ Same /\ UNCHANGED told
    BY <1>2, DocFindDoes DEF TypesInv
  <2>2. Fresh(pc[q], loc[q])'
    BY <2>1 DEF Fresh, Unsaid, Removing, Moved, Holding, Same
  <2>. QED  BY <2>1, <2>2, ReadTells DEF Unsaid
<1>3. ASSUME NEW q \in Calls, NEW k \in DocKeys, DocFindDoomed(q, k) PROVE LastInv'
  <2>1. /\ Moved(q, "idle", "doc.object") /\ loc'[q].copy = None /\ Same /\ UNCHANGED told
    BY <1>3, DocFindDoomedDoes DEF TypesInv, Holding
  <2>. QED  BY <2>1, DoomedTells DEF Unsaid, Removing
<1>4. ASSUME NEW q \in Calls, DocSave(q) PROVE LastInv'
  <2>1. /\ Moved(q, "doc.save", "doc.publish") /\ Keeps(q)
        /\ Insert(loc[q].key, loc[q].copy) /\ UNCHANGED told
    BY <1>4, DocSaveDoes DEF TypesInv
  <2>2. loc[q].key \in Keys
    BY <2>1, AtStep, KeySets DEF Moved, Typed, DocSteps
  <2>3. loc'[q].key = loc[q].key /\ loc'[q].copy = loc[q].copy
    BY <2>1 DEF Keeps, Holding
  <2>. QED  BY <2>1, <2>2, <2>3, InsertTells DEF Unsaid
<1>5. ASSUME NEW q \in Calls, DocUpdate(q) PROVE LastInv'
  <2>. DEFINE c == loc[q]
              r == IF c.input = "keep" THEN c.copy ELSE [category |-> c.input]
  <2>1. /\ Moved(q, "doc.update", "doc.publish") /\ Holding(q, c.op, c.key, r, c.input)
        /\ SaveBack(c.key, r) /\ UNCHANGED told
    BY <1>5, DocUpdateDoes DEF TypesInv
  <2>. HIDE DEF r
  <2>2. c.key \in Keys
    BY <2>1, AtStep, KeySets DEF Moved, Typed, DocSteps
  <2>3. loc'[q].key = c.key /\ loc'[q].copy = r
    BY <2>1 DEF Holding
  <2>4. ~disturbed /\ ~disturbed' => row[c.key] # None
    BY <2>1, LastBefore DEF Fresh
  <2>. QED  BY <2>1, <2>2, <2>3, <2>4, SaveTells DEF Unsaid
<1>6. ASSUME NEW q \in Calls, DocDeleteObject(q) PROVE LastInv'
  <2>1. Moved(q, "doc.object", "doc.remove") /\ Keeps(q) /\ Same /\ UNCHANGED told
    BY <1>6, DocDeleteObjectDoes DEF TypesInv
  <2>2. ASSUME ~disturbed, ~disturbed' PROVE Fresh(pc[q], loc[q])'
    <3>1. Fresh("doc.object", loc[q])
      BY <2>1, <2>2, LastBefore
    <3>. QED  BY <2>1, <3>1 DEF Fresh, Unsaid, Removing, Moved, Keeps, Holding
  <2>. QED  BY <2>1, <2>2, ReadTells DEF Unsaid
<1>7. ASSUME NEW q \in Calls, DocRemove(q) PROVE LastInv'
  <2>1. /\ Moved(q, "doc.remove", "doc.publish") /\ Keeps(q)
        /\ RemoveRow(loc[q].key) /\ UNCHANGED told
    BY <1>7, DocRemoveDoes DEF TypesInv
  <2>2. loc[q].key \in Keys
    BY <2>1, AtStep, KeySets DEF Moved, Typed, DocSteps
  <2>. QED  BY <2>1, <2>2, RemoveTells DEF Unsaid, Removing
<1>8. ASSUME NEW q \in Calls, DocPublish(q) PROVE LastInv'
  BY <1>8, PublishTells DEF DocPublish, Unsaid
<1>. QED  BY <1>1, <1>2, <1>3, <1>4, <1>5, <1>6, <1>7, <1>8 DEF DocNext

LEMMA InsertedTells ==
  ASSUME TypesInv, LastInv, NEW q \in Calls, NEW from, NEW to, Moved(q, from, to),
         from \notin Unsaid, to \in Unsaid \ {"task.publish"}, UNCHANGED <<told, turned>>,
         NEW k \in Keys, NEW op, NEW r, NEW input, Holding(q, op, k, r, input), Insert(k, r)
  PROVE  LastInv'
<1>1. loc'[q].key = k /\ loc'[q].copy = r
  BY DEF Holding
<1>. QED  BY <1>1, InsertTells

(* Days.                                                                    *)
LEMMA DayLast == ASSUME TypesInv, LastInv, UNCHANGED turned, DayNext PROVE LastInv'
<1>1. ASSUME NEW q \in Calls, NEW date \in Dates, NEW index \in 0..MaxIndex \cup {None},
             DayFind(q, date, index)
      PROVE  LastInv'
  <2>1. Moved(q, "idle", "day.save") /\ Same /\ UNCHANGED told
    BY <1>1, DayFindDoes DEF TypesInv
  <2>. QED  BY <2>1, LookTells DEF Watched, Unsaid, Removing
<1>2. ASSUME NEW q \in Calls, NEW k \in DayKeys, DaySave(q, k) PROVE LastInv'
  <2>1. k \in Keys
    BY KeySets
  <2>2. CASE /\ Moved(q, "day.save", "day.publish")
             /\ Holding(q, loc[q].op, k, loc[q].copy, loc[q].input)
             /\ Insert(k, loc[q].copy) /\ UNCHANGED told
    BY <2>1, <2>2, InsertedTells DEF Unsaid
  <2>3. CASE pc[q] = "day.save" /\ Ended(q) /\ Same /\ UNCHANGED told
    BY <2>3, EndTells DEF Unsaid
  <2>. QED  BY <1>2, <2>2, <2>3, DaySaveDoes DEF TypesInv
<1>3. ASSUME NEW q \in Calls, Publish(q, "day.publish") PROVE LastInv'
  BY <1>3, PublishTells DEF Unsaid
<1>. QED  BY <1>1, <1>2, <1>3 DEF DayNext

(* Items.  An update that is to take the item off its day leaves it there.  *)
LEMMA ItemUpdateLast ==
  ASSUME TypesInv, LastInv, UNCHANGED turned, NEW q \in Calls, ItemUpdate(q)
  PROVE  LastInv'
<1>. DEFINE c == loc[q]
            wanted == Wanted(c.copy, c.input)
            skipped == c.input = None /\ row[c.key] # None
            r == IF skipped THEN [wanted EXCEPT !.day = row[c.key].day] ELSE wanted
<1>1. /\ Moved(q, "item.update", "item.publish") /\ Holding(q, c.op, c.key, wanted, c.input)
      /\ SaveBack(c.key, r) /\ UNCHANGED told
  BY ItemUpdateDoes DEF TypesInv
<1>2. c.key \in ItemKeys /\ c.key \in Keys /\ c.copy \in ItineraryItem
  BY <1>1, AtStep, KeySets DEF Moved, Typed, ItemSteps
<1>3. ASSUME c.copy = row[c.key], row[c.key] # None
      PROVE  r = wanted \/ (None \notin {r, wanted} /\ wanted = [r EXCEPT !.day = None])
  <2>1. CASE ~skipped
    BY <2>1
  <2>2. CASE skipped
    <3>1. c.copy \in ItineraryItem /\ r = [wanted EXCEPT !.day = c.copy.day]
      BY <1>2, <1>3, <2>2
    <3>2. CASE wanted = c.copy
      BY <3>1, <3>2 DEF ItineraryItem
    <3>3. CASE wanted = [c.copy EXCEPT !.day = None]
      <4>1. r = c.copy /\ wanted \in ItineraryItem
        BY <3>1, <3>3 DEF ItineraryItem
      <4>. QED  BY <3>1, <3>3, <4>1, ItemIsRow
    <3>. QED  BY <2>2, <3>2, <3>3 DEF Wanted
  <2>. QED  BY <2>1, <2>2
<1>. HIDE DEF r, wanted
<1>4. Put(c.key, r) /\ row'[c.key] = r /\ used' = used
  BY <1>1, <1>2, Stored DEF SaveBack, TypesInv, RowsInv, TablesTyped
<1>5. loc'[q].key = c.key /\ loc'[q].copy = wanted /\ pc'[q] = "item.publish"
  BY <1>1 DEF Holding, Moved
<1>6. ASSUME ~disturbed, ~disturbed' PROVE c.key \notin Gone /\ Fresh(pc[q], loc[q])'
  <2>1. c.copy = row[c.key] /\ row[c.key] # None
    BY <1>1, <1>6, LastBefore DEF Fresh
  <2>2. TrueOf(loc[q].key, loc[q].copy)'
    BY <1>2, <1>3, <1>4, <1>5, <2>1 DEF TrueOf
  <2>. QED  BY <1>5, <2>1, <2>2 DEF Fresh, Unsaid, Removing, Gone
<1>. QED  BY <1>1, <1>2, <1>4, <1>5, <1>6, WriteTells DEF Unsaid

(* The comments on a deleted item stay, and are told of as they were.       *)
LEMMA ItemRemoveLast ==
  ASSUME TypesInv, LastInv, UNCHANGED turned, NEW q \in Calls, ItemRemove(q)
  PROVE  LastInv'
<1>. DEFINE doomed == loc[q].key
<1>1. /\ Moved(q, "item.remove", "item.publish") /\ Keeps(q)
      /\ row' = [k \in Keys |-> IF k = doomed THEN None
                                ELSE IF k \in CommentsOf(doomed) THEN [item |-> None]
                                ELSE row[k]]
      /\ UNCHANGED <<used, told>>
  BY ItemRemoveDoes DEF TypesInv
<1>2. doomed \in ItemKeys \cap used /\ doomed \in Keys
  BY <1>1, AtStep, KeySets DEF Moved, Typed, ItemSteps
<1>3. loc'[q].key = doomed /\ loc'[q].copy = loc[q].copy /\ pc'[q] = "item.publish"
  BY <1>1 DEF Keeps, Holding, Moved
<1>. HIDE DEF doomed
<1>4. /\ row'[doomed] = None
      /\ \A k \in Keys \ {doomed} :
           row'[k] = IF k \in CommentsOf(doomed) THEN [item |-> None] ELSE row[k]
  BY <1>1, <1>2
<1>5. used \subseteq Keys
  BY DEF TypesInv, RowsInv, TablesTyped
<1>6. Gone \subseteq Gone' /\ doomed \in Gone'
  BY <1>1, <1>2, <1>4, <1>5 DEF Gone, CommentsOf
<1>. SUFFICES ASSUME ~disturbed, ~disturbed'
              PROVE  /\ \A k \in used' \ {doomed} : TrueOf(k, told[k].row)'
                     /\ \A k \in (TaskKeys \cap used') \ {doomed} : CompletionTrue(k)'
                     /\ Fresh(pc[q], loc[q])'
  BY <1>1, <1>3, LastMoved DEF Unsaid
<1>7. /\ \A k \in used : TrueOf(k, told[k].row)
      /\ \A k \in TaskKeys \cap used : CompletionTrue(k)
      /\ Fresh("item.remove", loc[q])
  BY <1>1, LastBefore DEF Unsaid
<1>8. Fresh(pc[q], loc[q])'
  <2>1. loc'[q].copy = None
    BY <1>3, <1>7 DEF Fresh, Removing
  <2>. QED  BY <1>3, <1>4, <2>1, Wrote DEF Unsaid
<1>9. ASSUME NEW k \in used', k # doomed PROVE TrueOf(k, told[k].row)'
  <2>1. k \in used /\ k \in Keys /\ told'[k] = told[k] /\ TrueOf(k, told[k].row)
    BY <1>1, <1>5, <1>7
  <2>2. CASE k \in CommentsOf(doomed)
    <3>1. row'[k].item = None /\ k \in CommentKeys /\ row[k].item = doomed
      BY <1>4, <1>9, <2>1, <2>2 DEF CommentsOf
    <3>2. doomed # None
      BY <1>2, TripCallsAssumption
    <3>3. told[k].row = row[k]
      BY <2>1, <3>1, <3>2, Apart DEF TrueOf
    <3>. QED  BY <1>6, <2>1, <3>1, <3>3 DEF TrueOf
  <2>3. CASE k \notin CommentsOf(doomed)
    <3>1. row'[k] = row[k]
      BY <1>4, <1>9, <2>1, <2>3
    <3>. QED  BY <1>6, <2>1, <3>1 DEF TrueOf
  <2>. QED  BY <2>2, <2>3
<1>10. ASSUME NEW k \in TaskKeys \cap used' PROVE CompletionTrue(k)'
  BY <1>1, <1>7 DEF CompletionTrue
<1>. QED  BY <1>8, <1>9, <1>10

LEMMA ItemLast == ASSUME TypesInv, LastInv, UNCHANGED turned, ItemNext PROVE LastInv'
<1>1. ASSUME NEW q \in Calls, NEW day \in DayKeys \cup {None}, ItemFindDay(q, day) PROVE LastInv'
  <2>1. Moved(q, "idle", "item.save") /\ Same /\ UNCHANGED told
    BY <1>1, ItemFindDayDoes DEF TypesInv
  <2>. QED  BY <2>1, LookTells DEF Watched, Unsaid, Removing
<1>2. ASSUME NEW q \in Calls, NEW k \in ItemKeys, ItemSave(q, k) PROVE LastInv'
  <2>1. /\ Moved(q, "item.save", "item.publish")
        /\ Holding(q, loc[q].op, k, loc[q].copy, loc[q].input)
        /\ Insert(k, loc[q].copy) /\ UNCHANGED told
    BY <1>2, ItemSaveDoes DEF TypesInv
  <2>. QED  BY <2>1, KeySets, InsertedTells DEF Unsaid
<1>3. ASSUME NEW q \in Calls, NEW k \in ItemKeys, ItemFindDoomed(q, k) PROVE LastInv'
  <2>1. Moved(q, "idle", "item.remove") /\ loc'[q].copy = None /\ Same /\ UNCHANGED told
    BY <1>3, ItemFindDoomedDoes DEF TypesInv, Holding
  <2>. QED  BY <2>1, DoomedTells DEF Unsaid, Removing
<1>4. ASSUME NEW q \in Calls, NEW k \in ItemKeys, NEW input \in DayInput, ItemFind(q, k, input)
      PROVE  LastInv'
  <2>. DEFINE to == IF input \in DayKeys THEN "item.day" ELSE "item.update"
  <2>1. /\ Moved(q, "idle", to) /\ Holding(q, "ITINERARY_ITEM_UPDATED", k, row[k], input)
        /\ row[k] # None /\ Same /\ UNCHANGED told
    BY <1>4, ItemFindDoes DEF TypesInv
  <2>2. to \in {"item.day", "item.update"}
    OBVIOUS
  <2>. HIDE DEF to
  <2>3. Fresh(pc[q], loc[q])'
    BY <2>1, <2>2 DEF Fresh, Unsaid, Removing, Moved, Holding, Same
  <2>. QED  BY <2>1, <2>3, ReadTells DEF Unsaid
<1>5. ASSUME NEW q \in Calls, ItemDay(q) PROVE LastInv'
  <2>1. CASE Moved(q, "item.day", "item.update") /\ Keeps(q) /\ Same /\ UNCHANGED told
    <3>1. ASSUME ~disturbed, ~disturbed' PROVE Fresh(pc[q], loc[q])'
      <4>1. Fresh("item.day", loc[q])
        BY <2>1, <3>1, LastBefore
      <4>. QED  BY <2>1, <4>1 DEF Fresh, Unsaid, Removing, Moved, Keeps, Holding, Same
    <3>. QED  BY <2>1, <3>1, ReadTells DEF Unsaid
  <2>2. CASE pc[q] = "item.day" /\ Ended(q) /\ Same /\ UNCHANGED told
    BY <2>2, EndTells DEF Unsaid
  <2>. QED  BY <1>5, <2>1, <2>2, ItemDayDoes DEF TypesInv
<1>6. ASSUME NEW q \in Calls, ItemUpdate(q) \/ ItemRemove(q) PROVE LastInv'
  BY <1>6, ItemUpdateLast, ItemRemoveLast
<1>7. ASSUME NEW q \in Calls, Publish(q, "item.publish") PROVE LastInv'
  BY <1>7, PublishTells DEF Unsaid
<1>. QED  BY <1>1, <1>2, <1>3, <1>4, <1>5, <1>6, <1>7 DEF ItemNext

LEMMA AttachLast == ASSUME TypesInv, LastInv, UNCHANGED turned, AttachNext PROVE LastInv'
<1>1. ASSUME NEW q \in Calls, NEW k \in ItemKeys, NEW b \in BookingKeys, AttachFind(q, k, b)
      PROVE  LastInv'
  <2>1. /\ Moved(q, "idle", "item.attach") /\ loc'[q].key = k
        /\ row[k] # None /\ Same /\ UNCHANGED told
    BY <1>1, AttachFindDoes DEF TypesInv, Holding
  <2>2. Fresh(pc[q], loc[q])'
    BY <2>1 DEF Fresh, Unsaid, Removing, Moved, Same
  <2>. QED  BY <2>1, <2>2, ReadTells DEF Unsaid
<1>2. ASSUME NEW q \in Calls, AttachSave(q) PROVE LastInv'
  <2>1. /\ Moved(q, "item.attach", "item.publish") /\ Keeps(q)
        /\ SaveBack(loc[q].key, loc[q].copy) /\ UNCHANGED told
    BY <1>2, AttachSaveDoes DEF TypesInv
  <2>2. loc[q].key \in Keys
    BY <2>1, AtStep, KeySets DEF Moved, Typed, ItemSteps
  <2>3. loc'[q].key = loc[q].key /\ loc'[q].copy = loc[q].copy
    BY <2>1 DEF Keeps, Holding
  <2>4. ~disturbed /\ ~disturbed' => row[loc[q].key] # None
    BY <2>1, LastBefore DEF Fresh
  <2>. QED  BY <2>1, <2>2, <2>3, <2>4, SaveTells DEF Unsaid
<1>. QED  BY <1>1, <1>2 DEF AttachNext

LEMMA CommentLast == ASSUME TypesInv, LastInv, UNCHANGED turned, CommentNext PROVE LastInv'
<1>1. ASSUME NEW q \in Calls, NEW item \in ItemKeys \cup {None}, CommentFind(q, item)
      PROVE  LastInv'
  <2>1. Moved(q, "idle", "comment.save") /\ Same /\ UNCHANGED told
    BY <1>1, CommentFindDoes DEF TypesInv
  <2>. QED  BY <2>1, LookTells DEF Watched, Unsaid, Removing
<1>2. ASSUME NEW q \in Calls, NEW k \in CommentKeys, CommentSave(q, k) PROVE LastInv'
  <2>1. CASE /\ Moved(q, "comment.save", "comment.publish")
             /\ Holding(q, loc[q].op, k, loc[q].copy, loc[q].input)
             /\ Insert(k, loc[q].copy) /\ UNCHANGED told
    BY <2>1, KeySets, InsertedTells DEF Unsaid
  <2>2. CASE pc[q] = "comment.save" /\ Ended(q) /\ Same /\ UNCHANGED told
    BY <2>2, EndTells DEF Unsaid
  <2>. QED  BY <1>2, <2>1, <2>2, CommentSaveDoes DEF TypesInv
<1>3. ASSUME NEW q \in Calls, Publish(q, "comment.publish") PROVE LastInv'
  BY <1>3, PublishTells DEF Unsaid
<1>. QED  BY <1>1, <1>2, <1>3 DEF CommentNext

(* Proposals, options and votes.                                            *)
LEMMA CollabLast == ASSUME TypesInv, LastInv, UNCHANGED turned, CollabNext PROVE LastInv'
<1>1. ASSUME NEW q \in Calls, NEW k \in ProposalKeys, ProposalCreate(q, k) PROVE LastInv'
  <2>1. \E op, r, input : /\ Moved(q, "idle", "proposal.publish") /\ Holding(q, op, k, r, input)
                          /\ Insert(k, r) /\ UNCHANGED told
    BY <1>1, ProposalCreateDoes DEF TypesInv
  <2>. QED  BY <2>1, KeySets, InsertedTells DEF Unsaid
<1>2. ASSUME NEW q \in Calls, NEW p \in ProposalKeys, OptionFind(q, p) PROVE LastInv'
  <2>1. Moved(q, "idle", "option.save") /\ Same /\ UNCHANGED told
    BY <1>2, OptionFindDoes DEF TypesInv
  <2>. QED  BY <2>1, LookTells DEF Watched, Unsaid, Removing
<1>3. ASSUME NEW q \in Calls, NEW k \in OptionKeys, OptionSave(q, k) PROVE LastInv'
  <2>1. /\ Moved(q, "option.save", "option.publish")
        /\ Holding(q, loc[q].op, k, loc[q].copy, loc[q].input)
        /\ Insert(k, loc[q].copy) /\ UNCHANGED told
    BY <1>3, OptionSaveDoes DEF TypesInv
  <2>. QED  BY <2>1, KeySets, InsertedTells DEF Unsaid
<1>4. ASSUME NEW q \in Calls, NEW u \in Voters, NEW o \in OptionKeys, VoteCheck(q, u, o)
      PROVE  LastInv'
  <2>1. Moved(q, "idle", "vote.find") /\ Same /\ UNCHANGED told
    BY <1>4, VoteCheckDoes DEF TypesInv
  <2>. QED  BY <2>1, LookTells DEF Watched, Unsaid, Removing
<1>5. ASSUME NEW q \in Calls, VoteFind(q) PROVE LastInv'
  <2>1. CASE Moved(q, "vote.find", "vote.save") /\ Same /\ UNCHANGED told
    BY <2>1, LookTells DEF Watched, Unsaid, Removing
  <2>2. CASE /\ Moved(q, "vote.find", "vote.remove") /\ loc'[q].copy = None
             /\ Same /\ UNCHANGED told
    BY <2>2, DoomedTells DEF Unsaid, Removing
  <2>. QED  BY <1>5, <2>1, <2>2, VoteFindDoes DEF TypesInv, Holding
<1>6. ASSUME NEW q \in Calls, VoteRemove(q) PROVE LastInv'
  <2>1. /\ Moved(q, "vote.remove", "vote.publish") /\ Keeps(q)
        /\ RemoveRow(loc[q].key) /\ UNCHANGED told
    BY <1>6, VoteRemoveDoes DEF TypesInv
  <2>2. loc[q].key \in Keys
    BY <2>1, AtStep, KeySets DEF Moved, Typed
  <2>. QED  BY <2>1, <2>2, RemoveTells DEF Unsaid, Removing
<1>7. ASSUME NEW q \in Calls, NEW k \in VoteKeys, VoteSave(q, k) PROVE LastInv'
  <2>1. CASE /\ Moved(q, "vote.save", "vote.publish")
             /\ Holding(q, loc[q].op, k, loc[q].copy, loc[q].input)
             /\ Insert(k, loc[q].copy) /\ UNCHANGED told
    BY <2>1, KeySets, InsertedTells DEF Unsaid
  <2>2. CASE pc[q] = "vote.save" /\ Ended(q) /\ Same /\ UNCHANGED told
    BY <2>2, EndTells DEF Unsaid
  <2>. QED  BY <1>7, <2>1, <2>2, VoteSaveDoes DEF TypesInv
<1>8. ASSUME NEW q \in Calls, Publish(q, "proposal.publish") \/ Publish(q, "option.publish")
                                \/ Publish(q, "vote.publish")
      PROVE  LastInv'
  BY <1>8, PublishTells DEF Unsaid
<1>. QED  BY <1>1, <1>2, <1>3, <1>4, <1>5, <1>6, <1>7, <1>8 DEF CollabNext

(* Rule sets and evaluations.                                               *)
LEMMA RuleLast == ASSUME TypesInv, LastInv, UNCHANGED turned, RuleNext PROVE LastInv'
<1>1. ASSUME NEW q \in Calls, NEW request \in Requests, UpsertFind(q, request) PROVE LastInv'
  <2>1. /\ Moved(q, "idle", "rules.set")
        /\ Holding(q, "RULESET_UPSERTED", RuleSetKey, row[RuleSetKey], request)
        /\ Same /\ UNCHANGED told
    BY <1>1, UpsertFindDoes DEF TypesInv
  <2>2. Fresh(pc[q], loc[q])'
    BY <2>1 DEF Fresh, Unsaid, Removing, Moved, Holding, Same
  <2>. QED  BY <2>1, <2>2, ReadTells DEF Unsaid
<1>2. ASSUME NEW q \in Calls, UpsertSet(q) PROVE LastInv'
  <2>1. pc[q] = "rules.set" => loc[q].key = RuleSetKey
    BY AtStep DEF Typed
  <2>2. CASE /\ Moved(q, "rules.set", "rules.delete")
             /\ Holding(q, loc[q].op, loc[q].key, "a rule set", loc[q].input)
             /\ Insert(RuleSetKey, "a rule set") /\ UNCHANGED told
    <3>1. loc[q].key = RuleSetKey
      BY <2>1, <2>2 DEF Moved
    <3>. QED  BY <2>2, <3>1, KeySets, InsertedTells DEF Unsaid
  <2>3. CASE /\ Moved(q, "rules.set", "rules.delete") /\ Keeps(q) /\ loc[q].copy # None
             /\ SaveBack(RuleSetKey, loc[q].copy) /\ UNCHANGED told
    <3>1. loc'[q].key = RuleSetKey /\ loc'[q].copy = loc[q].copy /\ RuleSetKey \in Keys
      BY <2>1, <2>3, KeySets DEF Keeps, Holding, Moved
    <3>2. ~disturbed /\ ~disturbed' => row[RuleSetKey] # None
      BY <2>1, <2>3, LastBefore DEF Fresh, Moved
    <3>. QED  BY <2>3, <3>1, <3>2, SaveTells DEF Unsaid
  <2>4. CASE pc[q] = "rules.set" /\ Ended(q) /\ Same /\ UNCHANGED told
    BY <2>4, EndTells DEF Unsaid
  <2>. QED  BY <1>2, <2>2, <2>3, <2>4, UpsertSetDoes DEF TypesInv
<1>3. ASSUME NEW q \in Calls, UpsertDelete(q) PROVE LastInv'
  <2>1. Moved(q, "rules.delete", "rules.save") /\ Keeps(q) /\ Same /\ UNCHANGED told
    BY <1>3, UpsertDeleteDoes DEF TypesInv
  <2>. QED  BY <2>1, KeptTells DEF Unsaid
<1>4. ASSUME NEW q \in Calls, UpsertSave(q) PROVE LastInv'
  <2>1. Moved(q, "rules.save", "rules.publish") /\ Keeps(q) /\ Same /\ UNCHANGED told
    BY <1>4, UpsertSaveDoes DEF TypesInv
  <2>. QED  BY <2>1, KeptTells DEF Unsaid
<1>5. ASSUME NEW q \in Calls, NEW broken \in SUBSET Enforced, EvalItem(q, broken) PROVE LastInv'
  <2>1. Moved(q, "idle", "eval.set") /\ Same /\ UNCHANGED told
    BY <1>5, EvalItemDoes DEF TypesInv
  <2>. QED  BY <2>1, LookTells DEF Watched, Unsaid, Removing
<1>6. ASSUME NEW q \in Calls, EvalSet(q) PROVE LastInv'
  <2>1. CASE Moved(q, "eval.set", "eval.rules") /\ Same /\ UNCHANGED told
    BY <2>1, LookTells DEF Watched, Unsaid, Removing
  <2>2. CASE pc[q] = "eval.set" /\ Ended(q) /\ Same /\ UNCHANGED told
    BY <2>2, EndTells DEF Unsaid
  <2>. QED  BY <1>6, <2>1, <2>2, EvalSetDoes DEF TypesInv
<1>7. ASSUME NEW q \in Calls, EvalRules(q) PROVE LastInv'
  <2>1. Moved(q, "eval.rules", "eval.save") /\ Same /\ UNCHANGED told
    BY <1>7, EvalRulesDoes DEF TypesInv
  <2>. QED  BY <2>1, LookTells DEF Watched, Unsaid, Removing
<1>8. ASSUME NEW q \in Calls, NEW k \in EvaluationKeys, EvalSave(q, k) PROVE LastInv'
  <2>1. /\ Moved(q, "eval.save", "eval.publish")
        /\ Holding(q, loc[q].op, k, loc[q].copy, loc[q].input)
        /\ Insert(k, loc[q].copy) /\ UNCHANGED told
    BY <1>8, EvalSaveDoes DEF TypesInv
  <2>. QED  BY <2>1, KeySets, InsertedTells DEF Unsaid
<1>9. ASSUME NEW q \in Calls, Publish(q, "rules.publish") \/ Publish(q, "eval.publish")
      PROVE  LastInv'
  BY <1>9, PublishTells DEF Unsaid
<1>. QED  BY <1>1, <1>2, <1>3, <1>4, <1>5, <1>6, <1>7, <1>8, <1>9 DEF RuleNext

-----------------------------------------------------------------------------
(* All the services.  A completed task is a task that there was.            *)
TurnedInv == part = "tasks" => turned \subseteq used

LEMMA LastStep ==
  ASSUME TypesInv, TurnedInv, LastInv, [AppNext]_appVars PROVE LastInv' /\ TurnedInv'
<1>1. CASE UNCHANGED <<serviceVars, part>>
  BY <1>1 DEF LastInv, TurnedInv, Untold, TrueOf, CompletionTrue, Fresh, Gone, serviceVars,
              tableVars, callVars
<1>2. CASE ServicesNext /\ UNCHANGED part
  <2>1. CASE part = "tasks" /\ TaskNext
    BY <1>2, <2>1, TaskLast DEF TurnedInv
  <2>2. CASE part # "tasks" /\ UNCHANGED turned
             /\ (DocNext \/ DayNext \/ ItemNext \/ AttachNext \/ CommentNext \/ CollabNext \/ RuleNext)
    BY <1>2, <2>2, DocLast, DayLast, ItemLast, AttachLast, CommentLast, CollabLast, RuleLast
       DEF TurnedInv
  <2>3. CASE UNCHANGED turned /\ \E Q \in SUBSET Calls : Cut(Q)
    <3>1. disturbed' /\ used' = used
      BY <2>3, CutDoes DEF TypesInv, tableVars
    <3>. QED  BY <1>2, <2>3, <3>1 DEF LastInv, TurnedInv
  <2>. QED  BY <1>2, <2>1, <2>2, <2>3 DEF ServicesNext
<1>. QED  BY <1>1, <1>2 DEF AppNext, appVars

LEMMA LastInitially == ASSUME ServicesInit PROVE LastInv /\ TurnedInv
<1>1. /\ used = {k \in Keys : InitialRow(k) # None} /\ turned = {}
      /\ \A k \in Keys : row[k] = InitialRow(k) /\ told[k].row = InitialRow(k)
      /\ \A q \in Calls : pc[q] = "idle"
  BY DEF ServicesInit, CallsInit
<1>2. TaskKeys \cap used = {}
  BY <1>1, InitialRows, Apart, TripAppAssumption, CollabAssumption
<1>3. \A k \in used : TrueOf(k, told[k].row)
  BY <1>1 DEF TrueOf
<1>4. \A q \in Calls : Fresh(pc[q], loc[q])
  BY <1>1 DEF Fresh, Unsaid, Removing
<1>. QED  BY <1>1, <1>2, <1>3, <1>4 DEF LastInv, TurnedInv

LEMMA LastInvTells == ASSUME LastInv PROVE LastEventTrue
<1>. SUFFICES ASSUME ~disturbed, Quiescent
              PROVE  /\ \A k \in used : TrueOf(k, told[k].row)
                     /\ CompletionTold
  BY DEF LastEventTrue, TrueOf
<1>1. \A k : ~Untold(k)
  BY DEF Quiescent, Untold, Unsaid
<1>. QED  BY <1>1 DEF LastInv, CompletionTold, CompletionTrue

(* What the services tell the audit log and the members is so: as long as   *)
(* calls are made one at a time and none is cut short, the last event about *)
(* a row says what the row is, and a task is told to be completed exactly   *)
(* if its last save completed it.  In between a call holds what its table   *)
(* holds, and the only key without its event is the one of that call.       *)
THEOREM LastEventTrueHolds == AppSpec => []LastEventTrue
<1>1. AppInit(Parts) => LastInv /\ TurnedInv
  BY LastInitially DEF AppInit
<1>2. AppInv /\ LastInv /\ TurnedInv /\ [AppNext]_appVars => LastInv' /\ TurnedInv'
  BY LastStep DEF AppInv
<1>3. LastInv => LastEventTrue
  BY LastInvTells
<1>. QED  BY <1>1, <1>2, <1>3, AppInvariant, PTL DEF AppSpec
=============================================================================
