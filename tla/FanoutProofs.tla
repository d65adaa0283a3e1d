---------------------------- MODULE FanoutProofs ----------------------------
(* Proofs about Fanout: what is audited and who is notified, for any number *)
(* of events, users and faults.                                             *)
EXTENDS Fanout, TLAPS

(* The audit handler writes once: the row of an event exists only after its *)
(* handler is over, and the handler is started only by the one Emit.        *)
AuditInv ==
  \A e \in Events :
    /\ auditor[e] \in {"none", "write"} => auditLog[e] = 0
    /\ auditLog[e] <= 1
    /\ pub[e] \in {"none", "saved"} => auditor[e] = "none"

(* The notification handler works through its audience in order: nobody is  *)
(* told before it runs, the mentions wait for the members, and those still  *)
(* to be notified are mentioned in the event and have not been notified.    *)
NoticeOf(e) ==
  /\ pub[e] \in {"none", "saved"} => notifier[e] = "none"
  /\ notifier[e] \in {"none", "members"} => Notified(e, "trip") = {} /\ Notified(e, "mention") = {}
  /\ notifier[e] = "mentions" => Notified(e, "trip") = Others(e)
  /\ left[e] \subseteq Mentioned(e) \ Notified(e, "mention")
  /\ notifier[e] # "mentions" => left[e] = {}
  /\ Notified(e, "trip") \in {{}, Others(e)}
  /\ Notified(e, "mention") \subseteq Mentioned(e)
  /\ Notified(e, "mention") # {} => Notified(e, "trip") = Others(e)

NoticeInv == \A e \in Events : NoticeOf(e)

FanoutInv == TypeOK /\ AuditInv /\ NoticeInv

Noted == [Events -> [NoteKind -> [Users -> NoteState]]]

(* The steps by which notifications are read, grow old and are cleaned up.  *)
Reading ==
  \/ \E u \in Users : MarkAllAsRead(u) \/ \E S \in SUBSET (Events \X NoteKind) : MarkAsRead(u, S)
  \/ \E e \in Events, k \in NoteKind, u \in Users : Age(e, k, u)
  \/ CleanupOldNotifications

-----------------------------------------------------------------------------
(* They change how a notification stands, never whether there is one.       *)
LEMMA ReadingKeeps ==
  ASSUME TypeOK, Reading
  PROVE  /\ notes' \in Noted
         /\ \A e \in Events, k \in NoteKind, u \in Users :
              notes'[e][k][u] = "none" <=> notes[e][k][u] = "none"
         /\ UNCHANGED <<info, row, pub, auditor, auditLog, notifier, left, faults>>
<1>1. CASE \E u \in Users : MarkAllAsRead(u)
  BY <1>1 DEF TypeOK, MarkAllAsRead, NoteState, Noted
<1>2. CASE \E u \in Users, S \in SUBSET (Events \X NoteKind) : MarkAsRead(u, S)
  BY <1>2 DEF TypeOK, MarkAsRead, NoteState, Noted
<1>3. CASE \E e \in Events, k \in NoteKind, u \in Users : Age(e, k, u)
  BY <1>3 DEF TypeOK, Age, NoteState, Noted
<1>4. CASE CleanupOldNotifications
  BY <1>4 DEF TypeOK, CleanupOldNotifications, Cleanable, NoteState, Noted
<1>. QED BY <1>1, <1>2, <1>3, <1>4 DEF Reading

LEMMA NotifiedKept ==
  ASSUME TypeOK, Reading, NEW e \in Events, NEW k \in NoteKind
  PROVE  Notified(e, k)' = Notified(e, k)
BY ReadingKeeps DEF Notified

-----------------------------------------------------------------------------
LEMMA InitInv == Init => FanoutInv
<1>. SUFFICES ASSUME Init PROVE FanoutInv OBVIOUS
<1>1. NoInfo \in Info
  BY DEF NoInfo, Info
<1>2. TypeOK
  BY <1>1, FanoutAssumption DEF Init, TypeOK, NoteState
<1>3. AuditInv
  BY DEF Init, AuditInv
<1>4. NoticeInv
  BY DEF Init, NoticeInv, NoticeOf, Notified, NoteKind
<1>. QED BY <1>2, <1>3, <1>4 DEF FanoutInv

LEMMA TypeStep == TypeOK /\ [Next]_vars => TypeOK'
<1>. SUFFICES ASSUME TypeOK, [Next]_vars PROVE TypeOK' OBVIOUS
<1>1. ASSUME NEW e \in Events, NEW i \in Info, PublishSave(e, i) PROVE TypeOK'
  BY <1>1 DEF TypeOK, PublishSave, handlers
<1>2. ASSUME NEW e \in Events, Emit(e) PROVE TypeOK'
  BY <1>2 DEF TypeOK, Emit
<1>3. ASSUME NEW e \in Events, Process(e) PROVE TypeOK'
  BY <1>3 DEF TypeOK, Process, handlers
<1>4. ASSUME NEW e \in Events, AuditWrite(e) PROVE TypeOK'
  <2>1. auditLog' \in [Events -> Nat]
    BY <1>4 DEF TypeOK, AuditWrite
  <2>. QED BY <1>4, <2>1 DEF TypeOK, AuditWrite
<1>11. ASSUME NEW e \in Events, AuditFails(e) PROVE TypeOK'
  BY <1>11, FanoutAssumption DEF TypeOK, AuditFails
<1>5. ASSUME NEW e \in Events, NotifyMembers(e) PROVE TypeOK'
  BY <1>5 DEF TypeOK, NotifyMembers, Mentioned, Info, NoteKind, NoteState
<1>6. ASSUME NEW e \in Events, NotifyMention(e) PROVE TypeOK'
  BY <1>6 DEF TypeOK, NotifyMention, NoteKind, NoteState
<1>7. ASSUME NEW e \in Events, NotifierFails(e) PROVE TypeOK'
  BY <1>7, FanoutAssumption DEF TypeOK, NotifierFails
<1>8. CASE Reading
  BY <1>8, ReadingKeeps DEF TypeOK, Noted
<1>9. CASE Crash
  BY <1>9, FanoutAssumption DEF TypeOK, Crash
<1>10. CASE UNCHANGED vars
  BY <1>10 DEF TypeOK, vars
<1>. QED BY <1>1, <1>2, <1>3, <1>4, <1>5, <1>6, <1>7, <1>8, <1>9, <1>10, <1>11 DEF Next, Reading

LEMMA AuditStep == FanoutInv /\ [Next]_vars => AuditInv'
<1>. SUFFICES ASSUME FanoutInv, [Next]_vars PROVE AuditInv' OBVIOUS
<1>. USE DEF FanoutInv, TypeOK, AuditInv
<1>1. ASSUME NEW e \in Events, NEW i \in Info, PublishSave(e, i) PROVE AuditInv'
  BY <1>1 DEF PublishSave, handlers
<1>2. ASSUME NEW e \in Events, Emit(e) PROVE AuditInv'
  BY <1>2 DEF Emit
<1>3. ASSUME NEW e \in Events, Process(e) PROVE AuditInv'
  BY <1>3 DEF Process, handlers
<1>4. ASSUME NEW e \in Events, AuditWrite(e) PROVE AuditInv'
  BY <1>4 DEF AuditWrite
<1>5. ASSUME NEW e \in Events, AuditFails(e) PROVE AuditInv'
  BY <1>5 DEF AuditFails
<1>6. ASSUME NEW e \in Events, NotifyMembers(e) \/ NotifyMention(e) \/ NotifierFails(e) PROVE AuditInv'
  BY <1>6 DEF NotifyMembers, NotifyMention, NotifierFails
<1>7. CASE Reading
  BY <1>7, ReadingKeeps
<1>8. CASE Crash
  BY <1>8 DEF Crash
<1>9. CASE UNCHANGED vars
  BY <1>9 DEF vars
<1>. QED BY <1>1, <1>2, <1>3, <1>4, <1>5, <1>6, <1>7, <1>8, <1>9 DEF Next, Reading

(* Nothing changes for an event whose rows and handler stay as they are.    *)
LEMMA NoticeKept ==
  ASSUME NEW e \in Events, NoticeOf(e),
         info'[e] = info[e], pub'[e] = pub[e], notifier'[e] = notifier[e], left'[e] = left[e],
         \A k \in NoteKind : Notified(e, k)' = Notified(e, k)
  PROVE  NoticeOf(e)'
BY DEF NoticeOf, Others, Mentioned, NoteKind

LEMMA SameNotes ==
  ASSUME NEW e \in Events, notes'[e] = notes[e], NEW k \in NoteKind
  PROVE  Notified(e, k)' = Notified(e, k)
BY DEF Notified

LEMMA NoticeStep == FanoutInv /\ [Next]_vars => NoticeInv'
<1>. SUFFICES ASSUME FanoutInv, [Next]_vars, NEW d \in Events PROVE NoticeOf(d)'
  BY DEF NoticeInv
<1>. NoticeOf(d)
  BY DEF FanoutInv, NoticeInv
<1>. USE DEF FanoutInv, TypeOK
<1>1. ASSUME NEW e \in Events, NEW i \in Info, PublishSave(e, i) PROVE NoticeOf(d)'
  <2>1. \A k \in NoteKind : Notified(d, k)' = Notified(d, k)
    BY <1>1, SameNotes DEF PublishSave, handlers
  <2>2. CASE d # e
    BY <1>1, <2>1, <2>2, NoticeKept DEF PublishSave, handlers
  <2>3. CASE d = e
    BY <1>1, <2>1, <2>3 DEF PublishSave, handlers, NoticeOf, NoteKind
  <2>. QED BY <2>2, <2>3
<1>2. ASSUME NEW e \in Events, Emit(e) PROVE NoticeOf(d)'
  <2>1. \A k \in NoteKind : Notified(d, k)' = Notified(d, k)
    BY <1>2, SameNotes DEF Emit
  <2>2. Others(d)' = Others(d) /\ Mentioned(d)' = Mentioned(d)
    BY <1>2 DEF Emit, Others, Mentioned
  <2>. QED BY <1>2, <2>1, <2>2 DEF Emit, NoticeOf, NoteKind
<1>3. ASSUME NEW e \in Events, Process(e) PROVE NoticeOf(d)'
  BY <1>3, SameNotes, NoticeKept DEF Process, handlers
<1>4. ASSUME NEW e \in Events, AuditWrite(e) \/ AuditFails(e) PROVE NoticeOf(d)'
  BY <1>4, SameNotes, NoticeKept DEF AuditWrite, AuditFails
<1>5. ASSUME NEW e \in Events, NotifyMembers(e) PROVE NoticeOf(d)'
  <2>1. CASE d # e
    <3>1. notes'[d] = notes[d]
      BY <1>5, <2>1 DEF NotifyMembers
    <3>. QED BY <1>5, <2>1, <3>1, SameNotes, NoticeKept DEF NotifyMembers
  <2>2. CASE d = e
    <3>1. Notified(d, "trip")' = Others(d)
      BY <1>5, <2>2, FanoutAssumption DEF NotifyMembers, NoticeOf, Notified, Others, NoteKind
    <3>2. Notified(d, "mention")' = {}
      BY <1>5, <2>2 DEF NotifyMembers, NoticeOf, Notified, NoteKind
    <3>3. Others(d)' = Others(d) /\ Mentioned(d)' = Mentioned(d)
      BY <1>5 DEF NotifyMembers, Others, Mentioned
    <3>. QED BY <1>5, <2>2, <3>1, <3>2, <3>3 DEF NotifyMembers, NoticeOf
  <2>. QED BY <2>1, <2>2
<1>6. ASSUME NEW e \in Events, NotifyMention(e) PROVE NoticeOf(d)'
  <2>1. PICK u \in left[e] :
          /\ notes' = [notes EXCEPT ![e]["mention"][u] = "unread"]
          /\ left' = [left EXCEPT ![e] = @ \ {u}]
          /\ notifier' = [notifier EXCEPT ![e] = IF left[e] = {u} THEN "over" ELSE @]
    BY <1>6 DEF NotifyMention
  <2>2. CASE d # e
    <3>1. notes'[d] = notes[d]
      BY <2>1, <2>2
    <3>. QED BY <1>6, <2>1, <2>2, <3>1, SameNotes, NoticeKept DEF NotifyMention
  <2>3. CASE d = e
    <3>1. Notified(d, "trip")' = Notified(d, "trip")
      BY <2>1, <2>3 DEF Notified, NoteKind
    <3>2. Notified(d, "mention")' = Notified(d, "mention") \cup {u}
      BY <2>1, <2>3 DEF Notified, NoteKind
    <3>3. Others(d)' = Others(d) /\ Mentioned(d)' = Mentioned(d)
      BY <1>6 DEF NotifyMention, Others, Mentioned
    <3>. QED BY <1>6, <2>1, <2>3, <3>1, <3>2, <3>3 DEF NotifyMention, NoticeOf
  <2>. QED BY <2>2, <2>3
<1>7. ASSUME NEW e \in Events, NotifierFails(e) PROVE NoticeOf(d)'
  <2>1. \A k \in NoteKind : Notified(d, k)' = Notified(d, k)
    BY <1>7, SameNotes DEF NotifierFails
  <2>2. Others(d)' = Others(d) /\ Mentioned(d)' = Mentioned(d)
    BY <1>7 DEF NotifierFails, Others, Mentioned
  <2>. QED BY <1>7, <2>1, <2>2 DEF NotifierFails, NoticeOf, NoteKind
<1>8. CASE Reading
  BY <1>8, ReadingKeeps, NotifiedKept, NoticeKept
<1>9. CASE Crash
  <2>1. \A k \in NoteKind : Notified(d, k)' = Notified(d, k)
    BY <1>9, SameNotes DEF Crash
  <2>2. Others(d)' = Others(d) /\ Mentioned(d)' = Mentioned(d)
    BY <1>9 DEF Crash, Others, Mentioned
  <2>. QED BY <1>9, <2>1, <2>2 DEF Crash, NoticeOf, NoteKind
<1>10. CASE UNCHANGED vars
  BY <1>10, SameNotes, NoticeKept DEF vars
<1>. QED BY <1>1, <1>2, <1>3, <1>4, <1>5, <1>6, <1>7, <1>8, <1>9, <1>10 DEF Next, Reading

LEMMA FanoutInvariant == Spec => []FanoutInv
<1>1. FanoutInv /\ [Next]_vars => FanoutInv'
  BY TypeStep, AuditStep, NoticeStep DEF FanoutInv
<1>. QED BY InitInv, <1>1, PTL DEF Spec

(* The variables of Fanout keep their types (the handlers of audit and      *)
(* notifications, the outbox processor, the clean-up).                      *)
THEOREM TypeCorrect == Spec => []TypeOK
<1>1. FanoutInv => TypeOK
  BY DEF FanoutInv
<1>. QED BY FanoutInvariant, <1>1, PTL

(* The audit log never shows an event twice (writeAuditLog runs for the one *)
(* emission of publish, never for that of the outbox processor).            *)
THEOREM AuditedOnceHolds == Spec => []AuditedOnce
<1>1. FanoutInv => AuditedOnce
  BY DEF FanoutInv, AuditInv, AuditedOnce
<1>. QED BY FanoutInvariant, <1>1, PTL

(* notifyTripMembers reaches all members but the actor or nobody, and the   *)
(* mentions of a comment only follow it, whatever fails in between.         *)
THEOREM NoticeAudienceHolds == Spec => []NoticeAudience
<1>1. FanoutInv => NoticeAudience
  BY DEF FanoutInv, NoticeInv, NoticeOf, NoticeAudience
<1>. QED BY FanoutInvariant, <1>1, PTL

(* What UnreadKept says of a step.                                          *)
KeptUnread ==
  \A e \in Events, k \in NoteKind, u \in Users :
    /\ notes[e][k][u] = "unread" => notes'[e][k][u] \in {"unread", "read"}
    /\ notes[e][k][u] \notin {"none", "unread"} => notes'[e][k][u] # "unread"

LEMMA UnreadStep == FanoutInv /\ [Next]_vars => KeptUnread
<1>. SUFFICES ASSUME FanoutInv, [Next]_vars PROVE KeptUnread
  OBVIOUS
<1>. TypeOK /\ NoticeInv
  BY DEF FanoutInv
<1>1. CASE notes' = notes
  BY <1>1 DEF KeptUnread, TypeOK, NoteState
<1>2. ASSUME NEW e \in Events, NotifyMembers(e) PROVE KeptUnread
  <2>1. \A u \in Users : notes[e]["trip"][u] = "none"
    BY <1>2 DEF NotifyMembers, NoticeInv, NoticeOf, Notified
  <2>2. ASSUME NEW d \in Events, NEW k \in NoteKind, NEW u \in Users
        PROVE  \/ notes'[d][k][u] = notes[d][k][u]
               \/ notes[d][k][u] = "none"
    BY <1>2, <2>1 DEF NotifyMembers, TypeOK, NoteKind
  <2>. QED  BY <2>2 DEF KeptUnread
<1>3. ASSUME NEW e \in Events, NotifyMention(e) PROVE KeptUnread
  <2>1. PICK v \in left[e] : notes' = [notes EXCEPT ![e]["mention"][v] = "unread"]
    BY <1>3 DEF NotifyMention
  <2>2. v \in Users /\ notes[e]["mention"][v] = "none"
    BY <2>1 DEF NoticeInv, NoticeOf, Notified, TypeOK
  <2>3. ASSUME NEW d \in Events, NEW k \in NoteKind, NEW u \in Users
        PROVE  \/ notes'[d][k][u] = notes[d][k][u]
               \/ notes[d][k][u] = "none"
    BY <2>1, <2>2 DEF TypeOK, NoteKind
  <2>. QED  BY <2>3 DEF KeptUnread
<1>4. ASSUME NEW u \in Users, MarkAllAsRead(u) PROVE KeptUnread
  BY <1>4 DEF MarkAllAsRead, KeptUnread
<1>5. ASSUME NEW u \in Users, NEW S \in SUBSET (Events \X NoteKind), MarkAsRead(u, S)
      PROVE  KeptUnread
  BY <1>5 DEF MarkAsRead, KeptUnread
<1>6. ASSUME NEW e \in Events, NEW k \in NoteKind, NEW u \in Users, Age(e, k, u)
      PROVE  KeptUnread
  BY <1>6 DEF Age, KeptUnread, TypeOK
<1>7. CASE CleanupOldNotifications
  BY <1>7 DEF CleanupOldNotifications, Cleanable, KeptUnread
<1>8. ASSUME NEW e \in Events,
             \/ \E i \in Info : PublishSave(e, i)
             \/ Emit(e) \/ Process(e) \/ AuditWrite(e) \/ AuditFails(e) \/ NotifierFails(e)
      PROVE  notes' = notes
  BY <1>8 DEF PublishSave, Emit, Process, AuditWrite, AuditFails, NotifierFails, handlers
<1>9. Crash \/ UNCHANGED vars => notes' = notes
  BY DEF Crash, vars
<1>. QED  BY <1>1, <1>2, <1>3, <1>4, <1>5, <1>6, <1>7, <1>8, <1>9 DEF Next

(* A notification is cleaned up only after it was read, and never turns     *)
(* unread again (cleanupOldNotifications, markAsRead): the handler, too,    *)
(* only writes where there is none yet.                                     *)
THEOREM UnreadKeptHolds == Spec => UnreadKept
<1>1. FanoutInv /\ [Next]_vars => [KeptUnread]_vars
  BY UnreadStep
<1>. QED  BY FanoutInvariant, <1>1, PTL DEF Spec, UnreadKept, KeptUnread
=============================================================================
