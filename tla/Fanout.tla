------------------------------- MODULE Fanout -------------------------------
(***************************************************************************)
(* What becomes of a published event: the in-process emit starts the       *)
(* handler of the audit log and, for some types, that of the notifications *)
(* (AuditEventsHandler, NotificationEventsHandler); neither is awaited,    *)
(* each swallows its errors.  The outbox processor, here without its       *)
(* internal steps (see Outbox), emits the event once more under the name   *)
(* `outbox.<type>'.  The notifications are then read and cleaned up.       *)
(* The members of a trip do not change once it is created, so that reading *)
(* them is no step.                                                        *)
(***************************************************************************)
EXTENDS Naturals, FiniteSets

CONSTANTS
  Events,     \* bound: primary keys of the outbox
  Users,      \* recipient ids; an id mentioned in capitals is one that no user has
  Members,    \* the ACTIVE members of the trip the events are about
  MaxFaults,  \* bound: crashes and failed database calls
  None

ASSUME FanoutAssumption ==
  /\ Members \subseteq Users
  /\ None \notin Users
  /\ MaxFaults \in Nat

VARIABLES
  info,      \* type and data of each event, as far as the handlers look at it
  row,       \* the status of its outbox row
  pub,       \* how far its publish() call has come
  auditor,   \* the audit handler started for it
  auditLog,  \* how many audit_logs rows it has
  notifier,  \* the notification handler started for it
  left,      \* the mentioned users that handler has still to notify
  notes,     \* the notifications rows it has led to
  faults     \* faults so far

vars == <<info, row, pub, auditor, auditLog, notifier, left, notes, faults>>

\* A "silent" event has no notification handler, or one that returns at
\* once (a vote taken back); the handler of a "trip" event notifies the
\* members, that of a "comment" also the users whose ids it mentions.
Info == [kind : {"silent", "trip", "comment"}, actor : Members \cup {None}, mentions : SUBSET Users]

NoInfo == [kind |-> "silent", actor |-> None, mentions |-> {}]

\* "old": readAt is past the clean-up's ninety days; "gone": cleaned up.
NoteState == {"none", "unread", "read", "old", "gone"}

NoteKind == {"trip", "mention"}

Init ==
  /\ info = [e \in Events |-> NoInfo]
  /\ row = [e \in Events |-> "none"]
  /\ pub = [e \in Events |-> "none"]
  /\ auditor = [e \in Events |-> "none"]
  /\ auditLog = [e \in Events |-> 0]
  /\ notifier = [e \in Events |-> "none"]
  /\ left = [e \in Events |-> {}]
  /\ notes = [e \in Events |-> [k \in NoteKind |-> [u \in Users |-> "none"]]]
  /\ faults = 0

handlers == <<auditor, auditLog, notifier, left, notes>>

Others(e) == Members \ {info[e].actor}
Mentioned(e) == info[e].mentions \ {info[e].actor}

-----------------------------------------------------------------------------
PublishSave(e, i) ==
  /\ pub[e] = "none"
  /\ i.actor # None
  /\ i.kind # "comment" => i.mentions = {}
  /\ pub' = [pub EXCEPT ![e] = "saved"]
  /\ row' = [row EXCEPT ![e] = "PENDING"]
  /\ info' = [info EXCEPT ![e] = i]
  /\ UNCHANGED <<handlers, faults>>

\* emit() runs the subscribed handlers up to their first await.
Emit(e) ==
  /\ pub[e] = "saved"
  /\ pub' = [pub EXCEPT ![e] = "emitted"]
  /\ auditor' = [auditor EXCEPT ![e] = "write"]
  /\ notifier' = [notifier EXCEPT ![e] = IF info[e].kind = "silent" THEN "over" ELSE "members"]
  /\ UNCHANGED <<info, row, auditLog, left, notes, faults>>

\* Mutant: the processor emits the type itself, so that the handlers run again.
ProcessReemits(e) ==
  /\ row[e] = "PENDING"
  /\ row' = [row EXCEPT ![e] = "DELIVERED"]
  /\ auditor' = [auditor EXCEPT ![e] = "write"]
  /\ UNCHANGED <<info, pub, auditLog, notifier, left, notes, faults>>

\* Mutant: an event that nobody listens to is marked FAILED.
ProcessNobody(e) ==
  /\ row[e] = "PENDING"
  /\ row' = [row EXCEPT ![e] = "FAILED"]
  /\ UNCHANGED <<info, pub, handlers, faults>>

\* processPendingEvents(): nobody subscribes to `outbox.<type>'.
Process(e) ==
  /\ row[e] = "PENDING"
  /\ row' = [row EXCEPT ![e] = "DELIVERED"]
  /\ UNCHANGED <<info, pub, handlers, faults>>

-----------------------------------------------------------------------------
AuditWrite(e) ==
  /\ auditor[e] = "write"
  /\ auditLog' = [auditLog EXCEPT ![e] = @ + 1]
  /\ auditor' = [auditor EXCEPT ![e] = "over"]
  /\ UNCHANGED <<info, row, pub, notifier, left, notes, faults>>

\* Mutant: the members are notified one by one.
NotifyOneByOne(e) ==
  /\ notifier[e] = "members"
  /\ \E u \in Others(e) :
       /\ notes[e]["trip"][u] = "none"
       /\ notes' = [notes EXCEPT ![e]["trip"][u] = "unread"]
       /\ notifier' = [notifier EXCEPT ![e] =
            IF \A v \in Others(e) \ {u} : notes[e]["trip"][v] # "none" THEN "over" ELSE @]
  /\ UNCHANGED <<info, row, pub, auditor, auditLog, left, faults>>

\* notifyTripMembers(): one save of all rows, in one transaction.  Then the
\* handler of a comment looks for mentions.
NotifyMembers(e) ==
  /\ notifier[e] = "members"
  /\ notes' = [notes EXCEPT ![e]["trip"] =
       [u \in Users |-> IF u \in Others(e) THEN "unread" ELSE @[u]]]
  /\ left' = [left EXCEPT ![e] = Mentioned(e)]
  /\ notifier' = [notifier EXCEPT ![e] = IF Mentioned(e) = {} THEN "over" ELSE "mentions"]
  /\ UNCHANGED <<info, row, pub, auditor, auditLog, faults>>

\* One create() per mention, in the order of the text.
NotifyMention(e) ==
  /\ notifier[e] = "mentions"
  /\ \E u \in left[e] :
       /\ notes' = [notes EXCEPT ![e]["mention"][u] = "unread"]
       /\ left' = [left EXCEPT ![e] = @ \ {u}]
       /\ notifier' = [notifier EXCEPT ![e] = IF left[e] = {u} THEN "over" ELSE @]
  /\ UNCHANGED <<info, row, pub, auditor, auditLog, faults>>

-----------------------------------------------------------------------------
(* A handler's database call fails: its catch block logs the error and the  *)
(* rest of the handler is skipped.  A crash ends every handler.             *)

AuditFails(e) ==
  /\ faults < MaxFaults
  /\ auditor[e] = "write"
  /\ auditor' = [auditor EXCEPT ![e] = "over"]
  /\ faults' = faults + 1
  /\ UNCHANGED <<info, row, pub, auditLog, notifier, left, notes>>

NotifierFails(e) ==
  /\ faults < MaxFaults
  /\ notifier[e] \in {"members", "mentions"}
  /\ notifier' = [notifier EXCEPT ![e] = "over"]
  /\ left' = [left EXCEPT ![e] = {}]
  /\ faults' = faults + 1
  /\ UNCHANGED <<info, row, pub, auditor, auditLog, notes>>

Crash ==
  /\ faults < MaxFaults
  /\ pub' = [e \in Events |-> IF pub[e] = "saved" THEN "lost" ELSE pub[e]]
  /\ auditor' = [e \in Events |-> IF auditor[e] = "write" THEN "over" ELSE auditor[e]]
  /\ notifier' = [e \in Events |-> IF notifier[e] = "none" THEN "none" ELSE "over"]
  /\ left' = [e \in Events |-> {}]
  /\ faults' = faults + 1
  /\ UNCHANGED <<info, row, auditLog, notes>>

-----------------------------------------------------------------------------
(* The life of a notification.                                              *)

\* markAsRead(): also of rows that are read already, whose readAt it renews.
MarkAsRead(u, S) ==
  /\ \E x \in S : notes[x[1]][x[2]][u] \in {"unread", "old"}
  /\ notes' = [e \in Events |-> [k \in NoteKind |-> [v \in Users |->
       IF v = u /\ <<e, k>> \in S /\ notes[e][k][v] \in {"unread", "read", "old"}
       THEN "read" ELSE notes[e][k][v]]]]
  /\ UNCHANGED <<info, row, pub, auditor, auditLog, notifier, left, faults>>

MarkAllAsRead(u) ==
  /\ \E e \in Events, k \in NoteKind : notes[e][k][u] = "unread"
  /\ notes' = [e \in Events |-> [k \in NoteKind |-> [v \in Users |->
       IF v = u /\ notes[e][k][v] = "unread" THEN "read" ELSE notes[e][k][v]]]]
  /\ UNCHANGED <<info, row, pub, auditor, auditLog, notifier, left, faults>>

Age(e, k, u) ==
  /\ notes[e][k][u] = "read"
  /\ notes' = [notes EXCEPT ![e][k][u] = "old"]
  /\ UNCHANGED <<info, row, pub, auditor, auditLog, notifier, left, faults>>

\* Mutant: the clean-up does not ask whether a notification was read.
CleanableUnread(e, k, u) == notes[e][k][u] \in {"unread", "old"}

Cleanable(e, k, u) == notes[e][k][u] = "old"

CleanupOldNotifications ==
  /\ \E e \in Events, k \in NoteKind, u \in Users : Cleanable(e, k, u)
  /\ notes' = [e \in Events |-> [k \in NoteKind |-> [u \in Users |->
       IF Cleanable(e, k, u) THEN "gone" ELSE notes[e][k][u]]]]
  /\ UNCHANGED <<info, row, pub, auditor, auditLog, notifier, left, faults>>

-----------------------------------------------------------------------------
Next ==
  \/ \E e \in Events :
       \/ \E i \in Info : PublishSave(e, i)
       \/ Emit(e) \/ Process(e)
       \/ AuditWrite(e) \/ AuditFails(e)
       \/ NotifyMembers(e) \/ NotifyMention(e) \/ NotifierFails(e)
       \/ \E k \in NoteKind, u \in Users : Age(e, k, u)
  \/ \E u \in Users : \/ MarkAllAsRead(u)
                      \/ \E S \in SUBSET (Events \X NoteKind) : MarkAsRead(u, S)
  \/ CleanupOldNotifications \/ Crash

Spec == Init /\ [][Next]_vars

\* The event loop resumes the handlers, and the processor keeps running.
Fairness ==
  \A e \in Events :
    /\ WF_vars(Emit(e)) /\ WF_vars(Process(e))
    /\ WF_vars(AuditWrite(e)) /\ WF_vars(NotifyMembers(e)) /\ WF_vars(NotifyMention(e))

FairSpec == Spec /\ Fairness
-----------------------------------------------------------------------------
TypeOK ==
  /\ info \in [Events -> Info]
  /\ row \in [Events -> {"none", "PENDING", "DELIVERED"}]
  /\ pub \in [Events -> {"none", "saved", "emitted", "lost"}]
  /\ auditor \in [Events -> {"none", "write", "over"}]
  /\ auditLog \in [Events -> Nat]
  /\ notifier \in [Events -> {"none", "members", "mentions", "over"}]
  /\ left \in [Events -> SUBSET Users]
  /\ notes \in [Events -> [NoteKind -> [Users -> NoteState]]]
  /\ faults \in 0..MaxFaults

Notified(e, k) == {u \in Users : notes[e][k][u] # "none"}

(* The audit log never shows an event twice, although it is emitted once    *)
(* when it is published and once more by the outbox processor.              *)
AuditedOnce == \A e \in Events : auditLog[e] <= 1

(* A trip-wide notification reaches all members but the actor, or nobody;   *)
(* mentions go to the users named, never to the actor, and only after it.   *)
(* Whatever fails in between.                                               *)
NoticeAudience ==
  \A e \in Events :
    /\ Notified(e, "trip") \in {{}, Others(e)}
    /\ Notified(e, "mention") \subseteq Mentioned(e)
    /\ Notified(e, "mention") # {} => Notified(e, "trip") = Others(e)

(* A notification is cleaned up only after it was read, and never turns     *)
(* unread again.                                                            *)
UnreadKept ==
  [][\A e \in Events, k \in NoteKind, u \in Users :
       /\ notes[e][k][u] = "unread" => notes'[e][k][u] \in {"unread", "read"}
       /\ notes[e][k][u] \notin {"none", "unread"} => notes'[e][k][u] # "unread"]_vars

FannedOut(e) ==
  /\ auditLog[e] = 1
  /\ info[e].kind # "silent" => Notified(e, "trip") = Others(e)
  /\ info[e].kind = "comment" => Notified(e, "mention") = Mentioned(e)

(* Unless something fails, each event that was saved is audited and reaches *)
(* everybody it concerns.                                                   *)
EventuallyFannedOut ==
  \/ <>(faults > 0)
  \/ \A e \in Events : pub[e] = "saved" ~> FannedOut(e)

(* "Re-emit so any subscriber that missed the synchronous emit gets another *)
(* chance" (processPendingEvents): an event the outbox has delivered is in  *)
(* the audit log, unless its handler or its publisher is still at work.     *)
MissedGetsAnotherChance ==
  \A e \in Events :
    row[e] = "DELIVERED" /\ auditor[e] # "write" /\ pub[e] # "saved" => auditLog[e] > 0
=============================================================================
