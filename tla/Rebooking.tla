------------------------------ MODULE Rebooking ------------------------------
(***************************************************************************)
(* The rebooking workflow of core-api (RebookingService) with the edits of *)
(* bookings and itinerary items that share its tables (BookingsService,    *)
(* updateItem of ItineraryService).  HTTP calls interleave at every await  *)
(* and hold entities they have read across them; there is no transaction,  *)
(* no lock and no version column.  Bookings and items are there from the   *)
(* start, as their create methods left them.  Access checks, which change  *)
(* nothing, are left out, and so are titles and rationales.                *)
(***************************************************************************)
EXTENDS Naturals, FiniteSets

CONSTANTS
  Bookings, Items, Cases, Options,  \* bounds: primary keys of the four tables
  Calls,                     \* requests that may be in flight at once
  Bodies, ItemBodies,        \* bounds: what clients send about bookings and items
  NewBodies,                 \* bound: what they sent when the bookings were created
  MaxExtras,                 \* bound: such edits made, and calls cut short, in all
  Entered,                   \* a time that a client chose
  Absent, Null,              \* of a request: the field is not there, or is null
  None

BookingStatus == {"PENDING", "CONFIRMED", "CANCELED"}
ItemStatus == {"IDEA", "PLANNED", "BOOKED", "CANCELED"}

(* What a client may send: a status, times, and an object for the details,  *)
(* of which only the traceability record matters.                           *)
Body == [status : BookingStatus \cup {Absent},
         startsAt : {Absent, Null, Entered}, endsAt : {Absent, Null, Entered},
         details : Cases \cup {None, Absent, Null}]

ASSUME RebookingAssumption ==
  /\ {None, Entered, Absent, Null} \cap (Bookings \cup Cases \cup Options \cup ItemStatus) = {}
  /\ Entered \notin {None, Absent, Null} /\ None \notin {Absent, Null} /\ Absent # Null
  /\ Bodies \cup NewBodies \subseteq Body /\ ItemBodies \subseteq ItemStatus \cup {Absent}
  /\ MaxExtras \in Nat

VARIABLES
  booking,    \* the bookings table
  item,       \* the itinerary items: status and linked booking
  kase,       \* the rebooking_cases table
  opts,       \* the rebooking_options rows of each case
  decision,   \* chosenOptionId of the case's rebooking_decisions row
  outbox,     \* published rebooking.decided and .applied, as <<type, case>>
  pc, loc,    \* where each call is suspended and what it holds
  offeredFor, \* history: the case an option was generated for
  decidedSet, \* history: <<case, option>> saved as a decision
  appliedSet, \* history: <<case, option>> saved into a booking
  claimed,    \* history: <<booking, case>>: a client entered that record
  synced,     \* history: items linked when their booking was last canceled or
              \* rebooked, and not set apart from it by a client since
  edits, cuts, \* edits made, and calls cut short, so far
  disturbed   \* history: calls have overlapped, or one was cut short

history == <<offeredFor, decidedSet, appliedSet, claimed, synced, edits, cuts>>

vars == <<booking, item, kase, opts, decision, outbox, pc, loc, history, disturbed>>

CaseStatus == {"NONE", "OPEN", "OPTIONS_READY", "DECIDED", "APPLIED"}

\* A time is None, a client's, or that of an option; `from' is the case in
\* details.lastRebookedFromCaseId.
Times == Options \cup {None, Entered}

Booking == [status : BookingStatus, startsAt : Times, endsAt : Times, from : Cases \cup {None}]

Item == [status : ItemStatus, booking : Bookings \cup {None}]

Case == {[status |-> "NONE", booking |-> None]}
          \cup [status : CaseStatus \ {"NONE"}, booking : Bookings]

Steps == {"idle", "sim.open", "sim.cancel", "sim.find", "sim.item",
          "gen.clear", "gen.save", "gen.case",
          "dec.option", "dec.existing", "dec.save", "dec.case",
          "app.decision", "app.option", "app.write", "app.find", "app.item", "app.case",
          "edit.save", "item.save", "publish"}

NewBooking == [status |-> "PENDING", startsAt |-> None, endsAt |-> None, from |-> None]
NewItem == [status |-> "IDEA", booking |-> None]
NoBody == [status |-> Absent, startsAt |-> Absent, endsAt |-> Absent, details |-> Absent]

Locals == [case : Cases \cup {None}, booking : Bookings \cup {None},
           option : Options \cup {None}, item : Items \cup {None},
           flag : BOOLEAN,      \* a cancellation; a decision existed; an item set apart
           seen : Booking, body : Body, copy : Item,
           linked : SUBSET Items,  \* found, and still to be saved
           event : {"none", "decided", "applied"}]

Announcement == {"decided", "applied"} \X Cases

NoLocals == [case |-> None, booking |-> None, option |-> None, item |-> None, flag |-> FALSE,
             seen |-> NewBooking, body |-> NoBody, copy |-> NewItem, linked |-> {},
             event |-> "none"]

(* A field that is not there leaves the column as it was read; null becomes *)
(* undefined, a column that save() skips: it stays as it is stored by then. *)
Column(field, read, stored) ==
  CASE field = Absent -> read
    [] field = Null -> stored
    [] OTHER -> field

Edited(body, read, stored) ==
  [status |-> Column(body.status, read.status, stored.status),
   startsAt |-> Column(body.startsAt, read.startsAt, stored.startsAt),
   endsAt |-> Column(body.endsAt, read.endsAt, stored.endsAt),
   from |-> Column(body.details, read.from, stored.from)]

Claim(b, body) == {<<b, body.details>>} \cap (Bookings \X Cases)

(* createBooking() and createItem(), and items attached since.              *)
Init ==
  /\ \E body \in [Bookings -> NewBodies] :
       /\ booking = [b \in Bookings |-> Edited(body[b], NewBooking, NewBooking)]
       /\ claimed = UNION {Claim(b, body[b]) : b \in Bookings}
  /\ item \in [Items -> [status : (ItemBodies \ {Absent}) \cup {"IDEA"},
                        booking : Bookings \cup {None}]]
  /\ kase = [c \in Cases |-> [status |-> "NONE", booking |-> None]]
  /\ opts = [c \in Cases |-> {}]
  /\ decision = [c \in Cases |-> None]
  /\ outbox = {}
  /\ pc = [q \in Calls |-> "idle"]
  /\ loc = [q \in Calls |-> NoLocals]
  /\ offeredFor = [o \in Options |-> None]
  /\ decidedSet = {} /\ appliedSet = {} /\ synced = {}
  /\ edits = 0 /\ cuts = 0
  /\ disturbed = FALSE

Exists(c) == kase[c].status # "NONE"

-----------------------------------------------------------------------------
(* How a call moves: it begins from idle, goes on to its next await, or     *)
(* ends (by returning or by throwing).                                      *)

Begin(q, step, locals) ==
  /\ pc[q] = "idle"
  /\ pc' = [pc EXCEPT ![q] = step]
  /\ loc' = [loc EXCEPT ![q] = locals]
  /\ disturbed' = (disturbed \/ \E p \in Calls \ {q} : pc[p] # "idle")

Go(q, step) == pc' = [pc EXCEPT ![q] = step] /\ UNCHANGED <<loc, disturbed>>

GoWith(q, step, locals) ==
  /\ pc' = [pc EXCEPT ![q] = step]
  /\ loc' = [loc EXCEPT ![q] = locals]
  /\ UNCHANGED disturbed

End(q) == GoWith(q, "idle", NoLocals)

\* ... and the last thing every method does is publish its event.  Of the
\* other types, no one here tells one published from two.
Publish(q) ==
  /\ pc[q] = "publish"
  /\ outbox' = outbox \cup ({<<loc[q].event, loc[q].case>>} \cap Announcement)
  /\ End(q)
  /\ UNCHANGED <<booking, item, kase, opts, decision, history>>

SetCase(q, status) ==
  kase' = [kase EXCEPT ![loc[q].case].status = status]

-----------------------------------------------------------------------------
(* simulateDisruption()                                                     *)

SimRead(q, b, cancels) ==
  /\ Begin(q, "sim.open", [NoLocals EXCEPT !.booking = b, !.flag = cancels,
                             !.seen = booking[b]])
  /\ UNCHANGED <<booking, item, kase, opts, decision, outbox, history>>

SimOpen(q, c) ==
  /\ pc[q] = "sim.open"
  /\ ~Exists(c)
  /\ kase' = [kase EXCEPT ![c] = [status |-> "OPEN", booking |-> loc[q].booking]]
  /\ GoWith(q, IF loc[q].flag THEN "sim.cancel" ELSE "publish", [loc[q] EXCEPT !.case = c])
  /\ UNCHANGED <<booking, item, opts, decision, outbox, history>>

Linked(b) == {i \in Items : item[i].booking = b}

\* Mutant: the linked itinerary items are forgotten.
SimCancelOnly(q) ==
  /\ pc[q] = "sim.cancel"
  /\ booking' = [booking EXCEPT ![loc[q].booking] = [loc[q].seen EXCEPT !.status = "CANCELED"]]
  /\ synced' = synced \cup Linked(loc[q].booking)
  /\ Go(q, "publish")
  /\ UNCHANGED <<item, kase, opts, decision, outbox, offeredFor, decidedSet, appliedSet, claimed,
                 edits, cuts>>

SimCancel(q) ==
  /\ pc[q] = "sim.cancel"
  /\ booking' = [booking EXCEPT ![loc[q].booking] = [loc[q].seen EXCEPT !.status = "CANCELED"]]
  /\ synced' = synced \cup Linked(loc[q].booking)
  /\ GoWith(q, "sim.find", [loc[q] EXCEPT !.seen = NewBooking])
  /\ UNCHANGED <<item, kase, opts, decision, outbox, offeredFor, decidedSet, appliedSet, claimed,
                 edits, cuts>>

\* The items that were found are saved in turn; then the call goes on.
Remaining(q, items, loop, after) ==
  GoWith(q, IF items = {} THEN after ELSE loop, [loc[q] EXCEPT !.linked = items])

SimFind(q) ==
  /\ pc[q] = "sim.find"
  /\ Remaining(q, Linked(loc[q].booking), "sim.item", "publish")
  /\ UNCHANGED <<booking, item, kase, opts, decision, outbox, history>>

\* The whole row is written as it was found, the link included.
SimItem(q, i) ==
  /\ pc[q] = "sim.item" /\ i \in loc[q].linked
  /\ item' = [item EXCEPT ![i] = [status |-> "CANCELED", booking |-> loc[q].booking]]
  /\ Remaining(q, loc[q].linked \ {i}, "sim.item", "publish")
  /\ UNCHANGED <<booking, kase, opts, decision, outbox, history>>

-----------------------------------------------------------------------------
(* generateOptions(): whatever the status of the case.                      *)

\* Mutant: no check that the case exists.
GenReadUnchecked(q, c) ==
  /\ Begin(q, "gen.clear", [NoLocals EXCEPT !.case = c])
  /\ UNCHANGED <<booking, item, kase, opts, decision, outbox, history>>

GenRead(q, c) ==
  /\ Exists(c)
  /\ Begin(q, "gen.clear", [NoLocals EXCEPT !.case = c])
  /\ UNCHANGED <<booking, item, kase, opts, decision, outbox, history>>

GenClear(q) ==
  /\ pc[q] = "gen.clear"
  /\ opts' = [opts EXCEPT ![loc[q].case] = {}]
  /\ Go(q, "gen.save")
  /\ UNCHANGED <<booking, item, kase, decision, outbox, history>>

\* Mutant: a count of zero is let through.
GenSaveMaybeNone(q, O) ==
  /\ pc[q] = "gen.save"
  /\ \A o \in O : offeredFor[o] = None
  /\ opts' = [opts EXCEPT ![loc[q].case] = @ \cup O]
  /\ offeredFor' = [o \in Options |-> IF o \in O THEN loc[q].case ELSE offeredFor[o]]
  /\ Go(q, "gen.case")
  /\ UNCHANGED <<booking, item, kase, decision, outbox, decidedSet, appliedSet, claimed, synced,
                 edits, cuts>>

GenSave(q, O) ==
  /\ pc[q] = "gen.save"
  /\ O # {} /\ \A o \in O : offeredFor[o] = None
  /\ opts' = [opts EXCEPT ![loc[q].case] = @ \cup O]
  /\ offeredFor' = [o \in Options |-> IF o \in O THEN loc[q].case ELSE offeredFor[o]]
  /\ Go(q, "gen.case")
  /\ UNCHANGED <<booking, item, kase, decision, outbox, decidedSet, appliedSet, claimed, synced,
                 edits, cuts>>

\* Mutant: a case that has been decided keeps its status.
GenCaseKeepsDecided(q) ==
  /\ pc[q] = "gen.case"
  /\ SetCase(q, IF kase[loc[q].case].status = "OPEN" THEN "OPTIONS_READY" ELSE kase[loc[q].case].status)
  /\ Go(q, "publish")
  /\ UNCHANGED <<booking, item, opts, decision, outbox, history>>

GenCase(q) ==
  /\ pc[q] = "gen.case"
  /\ SetCase(q, "OPTIONS_READY")
  /\ Go(q, "publish")
  /\ UNCHANGED <<booking, item, opts, decision, outbox, history>>

-----------------------------------------------------------------------------
(* decide()                                                                 *)

DecRead(q, c, o) ==
  /\ Exists(c) /\ kase[c].status # "APPLIED"
  /\ Begin(q, "dec.option", [NoLocals EXCEPT !.case = c, !.option = o, !.event = "decided"])
  /\ UNCHANGED <<booking, item, kase, opts, decision, outbox, history>>

\* Mutant: the option is looked up by its id alone.
DecOptionAnyCase(q) ==
  /\ pc[q] = "dec.option"
  /\ IF \E c \in Cases : loc[q].option \in opts[c] THEN Go(q, "dec.existing") ELSE End(q)
  /\ UNCHANGED <<booking, item, kase, opts, decision, outbox, history>>

\* 404 when the option is not one of the case's.
DecOption(q) ==
  /\ pc[q] = "dec.option"
  /\ IF loc[q].option \in opts[loc[q].case] THEN Go(q, "dec.existing") ELSE End(q)
  /\ UNCHANGED <<booking, item, kase, opts, decision, outbox, history>>

DecExisting(q) ==
  /\ pc[q] = "dec.existing"
  /\ GoWith(q, "dec.save", [loc[q] EXCEPT !.flag = decision[loc[q].case] # None])
  /\ UNCHANGED <<booking, item, kase, opts, decision, outbox, history>>

\* Mutant: the new decision is created but not saved.
DecSaveCreateOnly(q) ==
  /\ pc[q] = "dec.save"
  /\ IF loc[q].flag
     THEN /\ decision' = [decision EXCEPT ![loc[q].case] = loc[q].option]
          /\ decidedSet' = decidedSet \cup {<<loc[q].case, loc[q].option>>}
     ELSE UNCHANGED <<decision, decidedSet>>
  /\ Go(q, "dec.case")
  /\ UNCHANGED <<booking, item, kase, opts, outbox, offeredFor, appliedSet, claimed, synced,
                 edits, cuts>>

\* Overwrite the decision that was found.  Otherwise insert one, which the
\* unique index on the case refuses when another call was faster.
DecSave(q) ==
  /\ pc[q] = "dec.save"
  /\ \/ /\ loc[q].flag \/ decision[loc[q].case] = None
        /\ decision' = [decision EXCEPT ![loc[q].case] = loc[q].option]
        /\ decidedSet' = decidedSet \cup {<<loc[q].case, loc[q].option>>}
        /\ Go(q, "dec.case")
     \/ /\ ~loc[q].flag /\ decision[loc[q].case] # None
        /\ End(q)
        /\ UNCHANGED <<decision, decidedSet>>
  /\ UNCHANGED <<booking, item, kase, opts, outbox, offeredFor, appliedSet, claimed, synced,
                 edits, cuts>>

DecCase(q) ==
  /\ pc[q] = "dec.case"
  /\ SetCase(q, "DECIDED")
  /\ Go(q, "publish")
  /\ UNCHANGED <<booking, item, opts, decision, outbox, history>>

-----------------------------------------------------------------------------
(* applyDecision(): whatever the status of the case.  The booking it reads  *)
(* is overwritten in every column modelled here, so that read is no step.   *)

AppRead(q, c) ==
  /\ Exists(c)
  /\ Begin(q, "app.decision", [NoLocals EXCEPT !.case = c, !.booking = kase[c].booking,
                                 !.event = "applied"])
  /\ UNCHANGED <<booking, item, kase, opts, decision, outbox, history>>

\* Mutant: any option of the case is taken, not the chosen one.
AppDecisionAnyOption(q) ==
  /\ pc[q] = "app.decision"
  /\ decision[loc[q].case] # None
  /\ \E o \in opts[loc[q].case] : GoWith(q, "app.option", [loc[q] EXCEPT !.option = o])
  /\ UNCHANGED <<booking, item, kase, opts, decision, outbox, history>>

\* 400 when there is no decision.
AppDecision(q) ==
  /\ pc[q] = "app.decision"
  /\ IF decision[loc[q].case] = None
     THEN End(q)
     ELSE GoWith(q, "app.option", [loc[q] EXCEPT !.option = decision[loc[q].case]])
  /\ UNCHANGED <<booking, item, kase, opts, decision, outbox, history>>

\* Mutant: the booking is changed in memory and not saved.
AppOptionNoSave(q) ==
  /\ pc[q] = "app.option"
  /\ IF loc[q].option \in opts[loc[q].case] THEN Go(q, "app.find") ELSE End(q)
  /\ UNCHANGED <<booking, item, kase, opts, decision, outbox, history>>

\* 404 when the chosen option has been regenerated away.
AppOption(q) ==
  /\ pc[q] = "app.option"
  /\ IF loc[q].option \in opts[loc[q].case] THEN Go(q, "app.write") ELSE End(q)
  /\ UNCHANGED <<booking, item, kase, opts, decision, outbox, history>>

AppWrite(q) ==
  /\ pc[q] = "app.write"
  /\ booking' = [booking EXCEPT ![loc[q].booking] =
       [status |-> "CONFIRMED", startsAt |-> loc[q].option, endsAt |-> loc[q].option,
        from |-> loc[q].case]]
  /\ appliedSet' = appliedSet \cup {<<loc[q].case, loc[q].option>>}
  /\ synced' = synced \cup Linked(loc[q].booking)
  /\ Go(q, "app.find")
  /\ UNCHANGED <<item, kase, opts, decision, outbox, offeredFor, decidedSet, claimed, edits, cuts>>

AppFind(q) ==
  /\ pc[q] = "app.find"
  /\ Remaining(q, Linked(loc[q].booking), "app.item", "app.case")
  /\ UNCHANGED <<booking, item, kase, opts, decision, outbox, history>>

AppItem(q, i) ==
  /\ pc[q] = "app.item" /\ i \in loc[q].linked
  /\ item' = [item EXCEPT ![i] = [status |-> "BOOKED", booking |-> loc[q].booking]]
  /\ Remaining(q, loc[q].linked \ {i}, "app.item", "app.case")
  /\ UNCHANGED <<booking, kase, opts, decision, outbox, history>>

AppCase(q) ==
  /\ pc[q] = "app.case"
  /\ SetCase(q, "APPLIED")
  /\ Go(q, "publish")
  /\ UNCHANGED <<booking, item, opts, decision, outbox, history>>

-----------------------------------------------------------------------------
(* updateBooking() of BookingsService.                                      *)

Edit(q, step, locals) ==
  /\ edits + cuts < MaxExtras /\ edits' = edits + 1
  /\ Begin(q, step, locals)
  /\ UNCHANGED <<booking, item, kase, opts, decision, outbox, offeredFor, decidedSet, appliedSet,
                 claimed, synced, cuts>>

EditRead(q, b, body) ==
  Edit(q, "edit.save", [NoLocals EXCEPT !.booking = b, !.seen = booking[b], !.body = body])

EditSave(q) ==
  LET b == loc[q].booking  body == loc[q].body IN
  /\ pc[q] = "edit.save"
  /\ booking' = [booking EXCEPT ![b] = Edited(body, loc[q].seen, booking[b])]
  /\ claimed' = claimed \cup Claim(b, body)
  /\ synced' = IF body.status = Absent THEN synced ELSE synced \ Linked(b)
  /\ GoWith(q, "publish", NoLocals)
  /\ UNCHANGED <<item, kase, opts, decision, outbox, offeredFor, decidedSet, appliedSet, edits, cuts>>

-----------------------------------------------------------------------------
(* updateItem() of ItineraryService, which may set the status; and          *)
(* attachBookingToItineraryItem().  Both save the whole row they have read. *)

ItemRead(q, i, status) ==
  Edit(q, "item.save", [NoLocals EXCEPT !.item = i, !.flag = (status # Absent),
                          !.copy = [item[i] EXCEPT !.status = Column(status, @, @)]])

AttachRead(q, i, b) ==
  Edit(q, "item.save", [NoLocals EXCEPT !.item = i, !.flag = TRUE,
                          !.copy = [item[i] EXCEPT !.booking = b]])

ItemSave(q) ==
  /\ pc[q] = "item.save"
  /\ item' = [item EXCEPT ![loc[q].item] = loc[q].copy]
  /\ synced' = IF loc[q].flag THEN synced \ {loc[q].item} ELSE synced
  /\ GoWith(q, "publish", NoLocals)
  /\ UNCHANGED <<booking, kase, opts, decision, outbox, offeredFor, decidedSet, appliedSet, claimed,
                 edits, cuts>>

-----------------------------------------------------------------------------
\* A database error ends one call where it is, a crash all of them.
Cut(Q) ==
  /\ edits + cuts < MaxExtras
  /\ \E q \in Q : pc[q] # "idle"
  /\ pc' = [q \in Calls |-> IF q \in Q THEN "idle" ELSE pc[q]]
  /\ loc' = [q \in Calls |-> IF q \in Q THEN NoLocals ELSE loc[q]]
  /\ cuts' = cuts + 1
  /\ disturbed' = TRUE
  /\ UNCHANGED <<booking, item, kase, opts, decision, outbox, offeredFor, decidedSet, appliedSet,
                 claimed, synced, edits>>

Next ==
  \/ \E q \in Calls :
       \/ \E b \in Bookings, cancels \in BOOLEAN : SimRead(q, b, cancels)
       \/ \E c \in Cases : SimOpen(q, c) \/ GenRead(q, c) \/ AppRead(q, c)
       \/ \E c \in Cases, o \in Options : DecRead(q, c, o)
       \/ \E O \in SUBSET Options : GenSave(q, O)
       \/ SimCancel(q) \/ SimFind(q) \/ \E i \in Items : SimItem(q, i) \/ AppItem(q, i)
       \/ GenClear(q) \/ GenCase(q)
       \/ DecOption(q) \/ DecExisting(q) \/ DecSave(q) \/ DecCase(q)
       \/ AppDecision(q) \/ AppOption(q) \/ AppWrite(q)
       \/ AppFind(q) \/ AppCase(q)
       \/ \E b \in Bookings, body \in Bodies : EditRead(q, b, body)
       \/ \E i \in Items, status \in ItemBodies : ItemRead(q, i, status)
       \/ \E i \in Items, b \in Bookings : AttachRead(q, i, b)
       \/ EditSave(q) \/ ItemSave(q) \/ Publish(q)
  \/ \E Q \in SUBSET Calls : Cut(Q)

Spec == Init /\ [][Next]_vars
-----------------------------------------------------------------------------
TypeOK ==
  /\ booking \in [Bookings -> Booking]
  /\ item \in [Items -> Item]
  /\ kase \in [Cases -> Case]
  /\ opts \in [Cases -> SUBSET Options]
  /\ decision \in [Cases -> Options \cup {None}]
  /\ outbox \subseteq Announcement
  /\ pc \in [Calls -> Steps]
  /\ loc \in [Calls -> Locals]
  /\ offeredFor \in [Options -> Cases \cup {None}]
  /\ decidedSet \subseteq Cases \X Options
  /\ appliedSet \subseteq Cases \X Options
  /\ claimed \subseteq Bookings \X Cases
  /\ synced \subseteq Items
  /\ edits \in 0..MaxExtras
  /\ cuts \in 0..MaxExtras
  /\ disturbed \in BOOLEAN

Quiescent == \A q \in Calls : pc[q] = "idle"

(* A case that says DECIDED or APPLIED has a decision row, whatever calls   *)
(* overlap (decide saves the decision before the case).                     *)
DecidedHasDecision ==
  \A c \in Cases : kase[c].status \in {"DECIDED", "APPLIED"} => decision[c] # None

(* A case that says APPLIED, or was announced as applied, did rewrite its   *)
(* booking to an option that was its decision at some time, however its     *)
(* calls were interleaved or cut short.                                     *)
AppliedWroteBooking ==
  \A c \in Cases :
    kase[c].status = "APPLIED" \/ <<"applied", c>> \in outbox
      => \E o \in Options : <<c, o>> \in appliedSet \cap decidedSet

\* The case wrote times of an option that it had decided on into the booking.
WroteTo(b, c, o) ==
  kase[c].booking = b /\ offeredFor[o] = c /\ <<c, o>> \in decidedSet \cap appliedSet

(* What a booking says of its rebooking is true, stale copies included: a   *)
(* case that its record names, unless a client entered that, was applied to *)
(* it; and each of its times that is not a client's is that of an option    *)
(* generated for, chosen in and applied from a case of this booking.  With  *)
(* one call at a time, the record tells which: the case it names wrote all  *)
(* of the times that clients have not changed since.                        *)
BookingFromDecision ==
  \A b \in Bookings :
    LET from == booking[b].from
        chosen == {booking[b].startsAt, booking[b].endsAt} \cap Options
        recorded == from # None /\ <<b, from>> \notin claimed
    IN
      /\ recorded => \E o \in Options : WroteTo(b, from, o)
      /\ \A o \in chosen : \E c \in Cases : WroteTo(b, c, o)
      /\ recorded /\ ~disturbed => \A o \in chosen : WroteTo(b, from, o)

(* When the calls are done and none was cut short, a case that says options *)
(* are ready has options, even after overlapping regenerations.             *)
ReadyHasOptions ==
  Quiescent /\ cuts = 0 =>
    \A c \in Cases : kase[c].status = "OPTIONS_READY" => opts[c] # {}

(* With one call at a time, the decision of a DECIDED case can be applied:  *)
(* the chosen option has not been regenerated away.                         *)
DecidedIsApplicable ==
  Quiescent /\ ~disturbed =>
    \A c \in Cases : kase[c].status = "DECIDED" => decision[c] \in opts[c]

(* With one call at a time, canceling and rebooking carry the linked items  *)
(* along: they are CANCELED with the booking, and BOOKED when a rebooking   *)
(* confirms it, until a client sets the status of either or links the item  *)
(* anew; whatever else is edited in between.                                *)
ItemFollowsBooking ==
  Quiescent /\ ~disturbed =>
    \A i \in synced :
      <<booking[item[i].booking].status, item[i].status>>
        \in {<<"CANCELED", "CANCELED">>, <<"CONFIRMED", "BOOKED">>}

Contract == INSTANCE RebookingContract WITH
  offered <- {co \in Cases \X Options : offeredFor[co[2]] = co[1]},
  decided <- decidedSet,
  applied <- appliedSet

(* Through every interleaving the workflow keeps the contract: only offered *)
(* options are decided, only decided options are written into a booking.    *)
RefinesContract == Contract!Spec

(* "Case already applied." (decide): the decision of a case that has been   *)
(* applied does not change any more.                                        *)
AppliedIsFinal ==
  [][\A c \in Cases : <<"applied", c>> \in outbox => decision'[c] = decision[c]]_vars
=============================================================================
