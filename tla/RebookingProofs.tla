-------------------------- MODULE RebookingProofs --------------------------
(***************************************************************************)
(* Theorems about Rebooking for any sets of bookings, items, cases,        *)
(* options and concurrent calls, anything that clients may send, and any   *)
(* number of edits and of calls cut short.                                 *)
(***************************************************************************)
EXTENDS Rebooking, TLAPS

GenSteps == {"gen.clear", "gen.save", "gen.case"}
DecSteps == {"dec.option", "dec.existing", "dec.save", "dec.case"}
AppSteps == {"app.decision", "app.option", "app.write", "app.find", "app.item", "app.case"}
BookingSteps == {"sim.open", "sim.cancel", "sim.find", "sim.item", "edit.save"}

(* What a suspended call holds, apart from its types: the case and booking  *)
(* it works on exist, and belong together while a decision is applied.      *)
Typed(s, l, k) ==
  /\ s \in GenSteps \cup DecSteps \cup AppSteps =>
       l.case \in Cases /\ k[l.case].status # "NONE"
  /\ s \in BookingSteps \cup AppSteps => l.booking \in Bookings
  /\ s \in AppSteps => k[l.case].booking = l.booking
  /\ s \in DecSteps \cup (AppSteps \ {"app.decision"}) => l.option \in Options
  /\ s = "item.save" => l.item \in Items

CallTyped(q) == Typed(pc[q], loc[q], kase)

TypeInv == TypeOK /\ \A q \in Calls : CallTyped(q)

(* What the three promises rest on: what a call was told stays true until   *)
(* the call acts on it, because the history sets only grow, a decision row  *)
(* is never deleted and an option never changes its case.                   *)
WasApplied(c, appd, decd) == \E o \in Options : <<c, o>> \in appd \cap decd

\* Which case of which booking wrote the times of which option.
Written == {w \in Bookings \X Cases \X Options : WroteTo(w[1], w[2], w[3])}

TimeTrue(b, t, W) == t \in Options => \E c \in Cases : <<b, c, t>> \in W

RowTrue(b, bk, W, C) ==
  /\ TimeTrue(b, bk.startsAt, W) /\ TimeTrue(b, bk.endsAt, W)
  /\ bk.from # None => <<b, bk.from>> \in C \/ \E o \in Options : <<b, bk.from, o>> \in W

Facts(s, l, dec, off, decd, appd, W, C) ==
  /\ l.event = "applied" => s \in AppSteps \cup {"publish"}
  /\ s \in {"dec.existing", "dec.save"} => off[l.option] = l.case
  /\ s = "dec.case" => dec[l.case] # None
  /\ s \in AppSteps \ {"app.decision"} =>
       dec[l.case] # None /\ <<l.case, l.option>> \in decd
  /\ s \in {"app.find", "app.item", "app.case"} => WasApplied(l.case, appd, decd)
  /\ s = "publish" /\ l.event = "applied" => WasApplied(l.case, appd, decd)
  /\ s \in {"sim.open", "sim.cancel", "edit.save"} => RowTrue(l.booking, l.seen, W, C)

FactsNow(s, l) == Facts(s, l, decision, offeredFor, decidedSet, appliedSet, Written, claimed)
FactsNext(s, l) == Facts(s, l, decision', offeredFor', decidedSet', appliedSet', Written', claimed')

CallFacts(q) == FactsNow(pc[q], loc[q])

OfferFacts ==
  /\ \A c \in Cases : \A o \in opts[c] : offeredFor[o] = c
  /\ \A c \in Cases, o \in Options : <<c, o>> \in decidedSet => offeredFor[o] = c

DecisionFacts ==
  /\ \A c \in Cases : decision[c] # None => <<c, decision[c]>> \in decidedSet
  /\ appliedSet \subseteq decidedSet

RowsTrue == \A b \in Bookings : RowTrue(b, booking[b], Written, claimed)

RebookingInv ==
  /\ TypeInv
  /\ \A q \in Calls : CallFacts(q)
  /\ OfferFacts /\ DecisionFacts
  /\ DecidedHasDecision /\ AppliedWroteBooking /\ RowsTrue

-----------------------------------------------------------------------------
(* Types of the values the actions build.                                   *)

LEMMA ColumnTypes ==
  ASSUME NEW body \in Body, NEW read \in Booking, NEW stored \in Booking
  PROVE  Edited(body, read, stored) \in Booking
<1>1. Column(body.status, read.status, stored.status) \in BookingStatus
  BY DEF Column, Body, Booking
<1>2. /\ Column(body.startsAt, read.startsAt, stored.startsAt) \in Times
      /\ Column(body.endsAt, read.endsAt, stored.endsAt) \in Times
  BY DEF Column, Body, Booking, Times
<1>3. Column(body.details, read.from, stored.from) \in Cases \cup {None}
  BY DEF Column, Body, Booking
<1> QED
  BY <1>1, <1>2, <1>3 DEF Edited, Booking

LEMMA BookingTypes ==
  /\ NewBooking \in Booking
  /\ \A b \in Booking : [b EXCEPT !.status = "CANCELED"] \in Booking
  /\ \A c \in Cases, o \in Options :
       [status |-> "CONFIRMED", startsAt |-> o, endsAt |-> o, from |-> c] \in Booking
BY DEF NewBooking, Booking, BookingStatus, Times

LEMMA ItemTypes ==
  /\ NewItem \in Item
  /\ \A s \in ItemStatus, b \in Bookings : [status |-> s, booking |-> b] \in Item
  /\ \A i \in Item, s \in ItemBodies : [i EXCEPT !.status = Column(s, @, @)] \in Item
  /\ \A i \in Item, b \in Bookings : [i EXCEPT !.booking = b] \in Item
<1>1. ASSUME NEW i \in Item, NEW s \in ItemBodies PROVE Column(s, i.status, i.status) \in ItemStatus
  BY RebookingAssumption DEF RebookingAssumption, Column, Item
<1>2. ASSUME NEW i \in Item, NEW s \in ItemBodies
      PROVE  [i EXCEPT !.status = Column(s, @, @)] \in Item
  BY <1>1 DEF Item
<1> QED
  BY <1>2 DEF NewItem, Item, ItemStatus

LEMMA LocalTypes ==
  /\ NoLocals \in Locals
  /\ \A b \in Bookings, f \in BOOLEAN, s \in Booking :
       [NoLocals EXCEPT !.booking = b, !.flag = f, !.seen = s] \in Locals
  /\ \A b \in Bookings, s \in Booking, body \in Body :
       [NoLocals EXCEPT !.booking = b, !.seen = s, !.body = body] \in Locals
  /\ \A i \in Items, f \in BOOLEAN, copy \in Item :
       [NoLocals EXCEPT !.item = i, !.flag = f, !.copy = copy] \in Locals
  /\ \A c \in Cases : [NoLocals EXCEPT !.case = c] \in Locals
  /\ \A c \in Cases, o \in Options :
       [NoLocals EXCEPT !.case = c, !.option = o, !.event = "decided"] \in Locals
  /\ \A c \in Cases, b \in Bookings :
       [NoLocals EXCEPT !.case = c, !.booking = b, !.event = "applied"] \in Locals
<1>1. NoBody \in Body
  BY DEF NoBody, Body
<1> QED
  BY <1>1, BookingTypes, ItemTypes DEF NoLocals, Locals

LEMMA LocalUpdates ==
  ASSUME NEW l \in Locals
  PROVE  /\ \A c \in Cases : [l EXCEPT !.case = c] \in Locals
         /\ \A f \in BOOLEAN : [l EXCEPT !.flag = f] \in Locals
         /\ \A o \in Options : [l EXCEPT !.option = o] \in Locals
         /\ \A L \in SUBSET Items : [l EXCEPT !.linked = L] \in Locals
         /\ [l EXCEPT !.seen = NewBooking] \in Locals
BY BookingTypes DEF Locals

LEMMA CaseTypes ==
  ASSUME NEW k \in Case
  PROVE  /\ k.status \in CaseStatus
         /\ k.status # "NONE" => k.booking \in Bookings
         /\ k.status # "NONE" =>
              \A s \in CaseStatus \ {"NONE"} :
                /\ [k EXCEPT !.status = s] \in Case
                /\ [k EXCEPT !.status = s].status = s
                /\ [k EXCEPT !.status = s].booking = k.booking
BY DEF Case, CaseStatus

-----------------------------------------------------------------------------
(* How a call moves.                                                        *)

Moves(q) == /\ pc' = [pc EXCEPT ![q] = pc'[q]]
            /\ loc' = [loc EXCEPT ![q] = loc'[q]]

CasesKept ==
  \A c \in Cases : Exists(c) =>
    kase'[c].status # "NONE" /\ kase'[c].booking = kase[c].booking

LEMMA BeginMoves ==
  ASSUME TypeOK, NEW q \in Calls, NEW step, NEW locals, Begin(q, step, locals)
  PROVE  /\ Moves(q) /\ pc'[q] = step /\ loc'[q] = locals
         /\ disturbed' \in BOOLEAN
BY DEF TypeOK, Begin, Moves

LEMMA GoMoves ==
  ASSUME TypeOK, NEW q \in Calls, NEW step, Go(q, step)
  PROVE  Moves(q) /\ pc'[q] = step /\ loc'[q] = loc[q] /\ disturbed' \in BOOLEAN
BY DEF TypeOK, Go, Moves

LEMMA GoWithMoves ==
  ASSUME TypeOK, NEW q \in Calls, NEW step, NEW locals, GoWith(q, step, locals)
  PROVE  Moves(q) /\ pc'[q] = step /\ loc'[q] = locals /\ disturbed' \in BOOLEAN
BY DEF TypeOK, GoWith, Moves

LEMMA EndMoves ==
  ASSUME TypeOK, NEW q \in Calls, End(q)
  PROVE  Moves(q) /\ pc'[q] = "idle" /\ loc'[q] = NoLocals /\ disturbed' \in BOOLEAN
BY GoWithMoves DEF End

\* The calls that do not move are typed as before; it remains to look at q.
LEMMA MoveTyped ==
  ASSUME TypeInv, NEW q \in Calls, Moves(q), CasesKept,
         pc'[q] \in Steps, loc'[q] \in Locals, Typed(pc'[q], loc'[q], kase')
  PROVE  /\ pc' \in [Calls -> Steps] /\ loc' \in [Calls -> Locals]
         /\ \A p \in Calls : CallTyped(p)'
<1>1. pc' \in [Calls -> Steps] /\ loc' \in [Calls -> Locals]
  BY DEF TypeInv, TypeOK, Moves
<1>2. ASSUME NEW p \in Calls PROVE CallTyped(p)'
  <2>1. CASE p = q
    BY <2>1 DEF CallTyped
  <2>2. CASE p # q
    <3>1. pc'[p] = pc[p] /\ loc'[p] = loc[p] /\ Typed(pc[p], loc[p], kase)
      BY <2>2 DEF TypeInv, TypeOK, Moves, CallTyped
    <3> QED
      BY <3>1 DEF CallTyped, Typed, CasesKept, Exists
  <2> QED
    BY <2>1, <2>2
<1> QED
  BY <1>1, <1>2

\* Setting the status of the case a call works on keeps every case.
LEMMA SetCaseTyped ==
  ASSUME TypeOK, NEW q \in Calls, NEW s \in CaseStatus \ {"NONE"},
         loc[q].case \in Cases, Exists(loc[q].case), SetCase(q, s)
  PROVE  /\ kase' \in [Cases -> Case] /\ CasesKept
         /\ kase'[loc[q].case].status = s
         /\ \A c \in Cases : c # loc[q].case => kase'[c] = kase[c]
<1>1. kase[loc[q].case] \in Case /\ kase[loc[q].case].status # "NONE"
  BY DEF TypeOK, Exists
<1> DEFINE k == [kase[loc[q].case] EXCEPT !.status = s]
<1>2. k \in Case /\ k.status = s /\ k.booking = kase[loc[q].case].booking
  BY <1>1, CaseTypes
<1>3. kase' = [kase EXCEPT ![loc[q].case] = k]
  BY DEF SetCase
<1> QED
  BY <1>2, <1>3 DEF TypeOK, CasesKept, Exists

-----------------------------------------------------------------------------
TablesTyped ==
  /\ booking \in [Bookings -> Booking]
  /\ item \in [Items -> Item]
  /\ kase \in [Cases -> Case]
  /\ opts \in [Cases -> SUBSET Options]
  /\ decision \in [Cases -> Options \cup {None}]
  /\ outbox \subseteq Announcement
  /\ offeredFor \in [Options -> Cases \cup {None}]
  /\ decidedSet \subseteq Cases \X Options
  /\ appliedSet \subseteq Cases \X Options
  /\ claimed \subseteq Bookings \X Cases
  /\ synced \subseteq Items
  /\ edits \in 0..MaxExtras
  /\ cuts \in 0..MaxExtras

\* Where a step leaves the call that takes it.
Lands(q, step, locals) ==
  Moves(q) /\ pc'[q] = step /\ loc'[q] = locals /\ disturbed' \in BOOLEAN

LEMMA RemainingMoves ==
  ASSUME TypeOK, NEW q \in Calls, NEW items, NEW loop, NEW after, Remaining(q, items, loop, after)
  PROVE  Lands(q, IF items = {} THEN after ELSE loop, [loc[q] EXCEPT !.linked = items])
BY GoWithMoves DEF Remaining, Lands

LEMMA LandTyped ==
  ASSUME TypeInv, NEW q \in Calls, NEW step \in Steps, NEW locals \in Locals,
         Lands(q, step, locals), Typed(step, locals, kase'), CasesKept, TablesTyped'
  PROVE  TypeInv'
BY MoveTyped DEF Lands, TypeInv, TypeOK, TablesTyped

LEMMA IdleTyped ==
  /\ "idle" \in Steps /\ NoLocals \in Locals
  /\ \A k : Typed("idle", NoLocals, k)
BY LocalTypes DEF Steps, Typed, GenSteps, DecSteps, AppSteps, BookingSteps

LEMMA SameCases == ASSUME kase' = kase PROVE CasesKept
BY DEF CasesKept, Exists


LEMMA TypeStep == TypeInv /\ [Next]_vars => TypeInv'
<1> SUFFICES ASSUME TypeInv, [Next]_vars PROVE TypeInv'
  OBVIOUS
<1> USE DEF history
<1>0. TypeOK /\ TablesTyped /\ \A q \in Calls : loc[q] \in Locals /\ Typed(pc[q], loc[q], kase)
  BY DEF TypeInv, TypeOK, TablesTyped, CallTyped
<1>1. ASSUME NEW q \in Calls, NEW b \in Bookings, NEW body \in Bodies, EditRead(q, b, body)
      PROVE  TypeInv'
  <2> DEFINE l == [NoLocals EXCEPT !.booking = b, !.seen = booking[b], !.body = body]
  <2>1. Begin(q, "edit.save", l)
    BY <1>1 DEF EditRead, Edit
  <2>2. Lands(q, "edit.save", l)
    BY <1>0, <2>1, BeginMoves DEF Lands
  <2>3. TablesTyped' /\ CasesKept
    BY <1>0, <1>1, SameCases, RebookingAssumption DEF RebookingAssumption, EditRead, Edit,
       TablesTyped
  <2>4. "edit.save" \in Steps /\ l \in Locals
    BY <1>0, LocalTypes, RebookingAssumption DEF RebookingAssumption, Steps, TypeOK
  <2>5. Typed("edit.save", l, kase')
    BY DEF Typed, AppSteps, DecSteps, GenSteps, NoLocals
  <2> QED
    BY <2>2, <2>3, <2>4, <2>5, LandTyped
<1>2. ASSUME NEW q \in Calls, NEW b \in Bookings, NEW f \in BOOLEAN, SimRead(q, b, f) PROVE TypeInv'
  <2>1. Lands(q, "sim.open", [NoLocals EXCEPT !.booking = b, !.flag = f, !.seen = booking[b]])
    BY <1>0, <1>2, BeginMoves DEF SimRead, Lands
  <2>2. TablesTyped' /\ CasesKept
    BY <1>0, <1>2, SameCases DEF SimRead, TablesTyped
  <2>3. "sim.open" \in Steps /\ [NoLocals EXCEPT !.booking = b, !.flag = f, !.seen = booking[b]] \in Locals
    BY <1>0, LocalTypes DEF Steps, TypeOK
  <2>4. Typed("sim.open", [NoLocals EXCEPT !.booking = b, !.flag = f, !.seen = booking[b]], kase')
    BY DEF Typed, AppSteps, DecSteps, GenSteps
  <2> QED
    BY <2>1, <2>2, <2>3, <2>4, LandTyped
<1>3. ASSUME NEW q \in Calls, NEW c \in Cases, SimOpen(q, c) PROVE TypeInv'
  <2> DEFINE step == IF loc[q].flag THEN "sim.cancel" ELSE "publish"
  <2> DEFINE locals == [loc[q] EXCEPT !.case = c]
  <2>1. Lands(q, step, locals)
    BY <1>0, <1>3, GoWithMoves DEF SimOpen, Lands
  <2>2. loc[q].booking \in Bookings
    BY <1>0, <1>3 DEF SimOpen, Typed, BookingSteps
  <2>3. TablesTyped' /\ CasesKept
    <3>1. [status |-> "OPEN", booking |-> loc[q].booking] \in Case
      BY <2>2 DEF Case, CaseStatus
    <3> QED
      BY <1>0, <1>3, <3>1 DEF SimOpen, TablesTyped, CasesKept, Exists
  <2>4. step \in Steps /\ locals \in Locals /\ locals.booking = loc[q].booking
    BY <1>0, LocalUpdates DEF Steps, Locals
  <2>5. Typed(step, locals, kase')
    BY <2>2 DEF Typed, AppSteps, DecSteps, GenSteps
  <2> QED
    BY <2>1, <2>3, <2>4, <2>5, LandTyped
<1>4. ASSUME NEW q \in Calls, NEW c \in Cases, GenRead(q, c) PROVE TypeInv'
  <2>1. Lands(q, "gen.clear", [NoLocals EXCEPT !.case = c])
    BY <1>0, <1>4, BeginMoves DEF GenRead, Lands
  <2>2. TablesTyped' /\ CasesKept
    BY <1>0, <1>4, SameCases DEF GenRead, TablesTyped
  <2>3. "gen.clear" \in Steps /\ [NoLocals EXCEPT !.case = c] \in Locals
    BY LocalTypes DEF Steps
  <2>4. Typed("gen.clear", [NoLocals EXCEPT !.case = c], kase')
    BY <1>4, <2>2 DEF GenRead, Typed, CasesKept, AppSteps, BookingSteps, DecSteps
  <2> QED
    BY <2>1, <2>2, <2>3, <2>4, LandTyped
<1>5. ASSUME NEW q \in Calls, NEW c \in Cases, AppRead(q, c) PROVE TypeInv'
  <2>1. Lands(q, "app.decision", [NoLocals EXCEPT !.case = c, !.booking = kase[c].booking, !.event = "applied"])
    BY <1>0, <1>5, BeginMoves DEF AppRead, Lands
  <2>2. TablesTyped' /\ CasesKept
    BY <1>0, <1>5, SameCases DEF AppRead, TablesTyped
  <2>3. "app.decision" \in Steps /\ [NoLocals EXCEPT !.case = c, !.booking = kase[c].booking, !.event = "applied"] \in Locals
    BY <1>0, <1>5, LocalTypes, CaseTypes DEF AppRead, Steps, Exists, TypeOK
  <2>4. Typed("app.decision", [NoLocals EXCEPT !.case = c, !.booking = kase[c].booking, !.event = "applied"], kase')
    BY <1>0, <1>5, <2>2, CaseTypes DEF AppRead, Typed, CasesKept, TypeOK, DecSteps
  <2> QED
    BY <2>1, <2>2, <2>3, <2>4, LandTyped
<1>6. ASSUME NEW q \in Calls, NEW c \in Cases, NEW o \in Options, DecRead(q, c, o) PROVE TypeInv'
  <2>1. Lands(q, "dec.option", [NoLocals EXCEPT !.case = c, !.option = o, !.event = "decided"])
    BY <1>0, <1>6, BeginMoves DEF DecRead, Lands
  <2>2. TablesTyped' /\ CasesKept
    BY <1>0, <1>6, SameCases DEF DecRead, TablesTyped
  <2>3. "dec.option" \in Steps /\ [NoLocals EXCEPT !.case = c, !.option = o, !.event = "decided"] \in Locals
    BY LocalTypes DEF Steps
  <2>4. Typed("dec.option", [NoLocals EXCEPT !.case = c, !.option = o, !.event = "decided"], kase')
    BY <1>6, <2>2 DEF DecRead, Typed, CasesKept, AppSteps, BookingSteps
  <2> QED
    BY <2>1, <2>2, <2>3, <2>4, LandTyped
<1>7. ASSUME NEW q \in Calls, NEW O \in SUBSET Options, GenSave(q, O) PROVE TypeInv'
  <2>1. Lands(q, "gen.case", loc[q])
    BY <1>0, <1>7, GoMoves DEF GenSave, Lands
  <2>2. TablesTyped' /\ CasesKept
    BY <1>0, <1>7, SameCases DEF GenSave, TablesTyped, Typed, GenSteps
  <2>3. "gen.case" \in Steps /\ loc[q] \in Locals
    BY <1>0 DEF Steps
  <2>4. Typed("gen.case", loc[q], kase')
    BY <1>0, <1>7 DEF GenSave, Typed, AppSteps, BookingSteps, DecSteps, GenSteps
  <2> QED
    BY <2>1, <2>2, <2>3, <2>4, LandTyped
<1>8. ASSUME NEW q \in Calls, SimCancel(q) PROVE TypeInv'
  <2> DEFINE l == [loc[q] EXCEPT !.seen = NewBooking]
  <2>1. Lands(q, "sim.find", l)
    BY <1>0, <1>8, GoWithMoves DEF SimCancel, Lands
  <2>2. TablesTyped' /\ CasesKept
    BY <1>0, <1>8, SameCases, BookingTypes DEF SimCancel, TablesTyped, Locals, Linked
  <2>3. "sim.find" \in Steps /\ l \in Locals /\ l.booking = loc[q].booking
    BY <1>0, LocalUpdates DEF Steps, Locals
  <2>4. Typed("sim.find", l, kase')
    BY <1>0, <1>8, <2>3 DEF SimCancel, Typed, AppSteps, BookingSteps, DecSteps, GenSteps
  <2> QED
    BY <2>1, <2>2, <2>3, <2>4, LandTyped
<1>9. ASSUME NEW q \in Calls, SimFind(q) \/ \E i \in Items : SimItem(q, i) PROVE TypeInv'
  <2>1. /\ loc[q].booking \in Bookings /\ pc[q] \in {"sim.find", "sim.item"}
        /\ kase' = kase
    BY <1>0, <1>9 DEF SimFind, SimItem, Typed, BookingSteps
  <2>2. PICK L \in SUBSET Items : Remaining(q, L, "sim.item", "publish")
    BY <1>0, <1>9 DEF SimFind, SimItem, Linked, Locals
  <2> DEFINE l == [loc[q] EXCEPT !.linked = L]
             step == IF L = {} THEN "publish" ELSE "sim.item"
  <2>3. Lands(q, step, l)
    BY <1>0, <2>2, RemainingMoves
  <2>4. TablesTyped' /\ CasesKept
    BY <1>0, <1>9, <2>1, SameCases, ItemTypes DEF SimFind, SimItem, TablesTyped, ItemStatus
  <2>5. step \in Steps /\ l \in Locals /\ l.booking = loc[q].booking
    BY <1>0, LocalUpdates DEF Steps, Locals
  <2>6. Typed(step, l, kase')
    BY <2>1, <2>5 DEF Typed, AppSteps, BookingSteps, DecSteps, GenSteps
  <2> QED
    BY <2>3, <2>4, <2>5, <2>6, LandTyped
<1>10. ASSUME NEW q \in Calls, GenClear(q) PROVE TypeInv'
  <2>1. Lands(q, "gen.save", loc[q])
    BY <1>0, <1>10, GoMoves DEF GenClear, Lands
  <2>2. TablesTyped' /\ CasesKept
    BY <1>0, <1>10, SameCases DEF GenClear, TablesTyped
  <2>3. "gen.save" \in Steps /\ loc[q] \in Locals
    BY <1>0 DEF Steps
  <2>4. Typed("gen.save", loc[q], kase')
    BY <1>0, <1>10 DEF GenClear, Typed, AppSteps, BookingSteps, DecSteps, GenSteps
  <2> QED
    BY <2>1, <2>2, <2>3, <2>4, LandTyped
<1>11. ASSUME NEW q \in Calls, GenCase(q) PROVE TypeInv'
  <2>1. Lands(q, "publish", loc[q])
    BY <1>0, <1>11, GoMoves DEF GenCase, Lands
  <2>2. TablesTyped' /\ CasesKept
    BY <1>0, <1>11, SetCaseTyped DEF GenCase, Typed, TablesTyped, GenSteps, Exists,
       CaseStatus
  <2>3. "publish" \in Steps /\ loc[q] \in Locals
    BY <1>0 DEF Steps
  <2>4. Typed("publish", loc[q], kase')
    BY DEF Typed, AppSteps, BookingSteps, DecSteps, GenSteps
  <2> QED
    BY <2>1, <2>2, <2>3, <2>4, LandTyped
<1>12. ASSUME NEW q \in Calls, DecOption(q) PROVE TypeInv'
  <2>1. TablesTyped' /\ CasesKept
    BY <1>0, <1>12, SameCases DEF DecOption, TablesTyped
  <2>2. CASE Lands(q, "dec.existing", loc[q])
    <3>1. "dec.existing" \in Steps /\ loc[q] \in Locals
      BY <1>0 DEF Steps
    <3>2. Typed("dec.existing", loc[q], kase')
      BY <1>0, <1>12 DEF DecOption, Typed, AppSteps, BookingSteps, DecSteps
    <3> QED
      BY <2>1, <2>2, <3>1, <3>2, LandTyped
  <2>3. CASE Lands(q, "idle", NoLocals)
    BY <2>1, <2>3, IdleTyped, LandTyped
  <2> QED
    BY <1>0, <1>12, <2>2, <2>3, GoMoves, EndMoves DEF DecOption, Lands
<1>13. ASSUME NEW q \in Calls, DecExisting(q) PROVE TypeInv'
  <2>1. Lands(q, "dec.save", [loc[q] EXCEPT !.flag = decision[loc[q].case] # None])
    BY <1>0, <1>13, GoWithMoves DEF DecExisting, Lands
  <2>2. TablesTyped' /\ CasesKept
    BY <1>0, <1>13, SameCases DEF DecExisting, TablesTyped
  <2>3. "dec.save" \in Steps /\ [loc[q] EXCEPT !.flag = decision[loc[q].case] # None] \in Locals
    BY <1>0, LocalUpdates DEF Steps
  <2>4. Typed("dec.save", [loc[q] EXCEPT !.flag = decision[loc[q].case] # None], kase')
    BY <1>0, <1>13 DEF DecExisting, Typed, AppSteps, BookingSteps, DecSteps
  <2> QED
    BY <2>1, <2>2, <2>3, <2>4, LandTyped
<1>14. ASSUME NEW q \in Calls, DecSave(q) PROVE TypeInv'
  <2>1. TablesTyped' /\ CasesKept
    BY <1>0, <1>14, SameCases DEF DecSave, TablesTyped, Typed, DecSteps
  <2>2. CASE Lands(q, "dec.case", loc[q])
    <3>1. "dec.case" \in Steps /\ loc[q] \in Locals
      BY <1>0 DEF Steps
    <3>2. Typed("dec.case", loc[q], kase')
      BY <1>0, <1>14 DEF DecSave, Typed, AppSteps, BookingSteps, DecSteps
    <3> QED
      BY <2>1, <2>2, <3>1, <3>2, LandTyped
  <2>3. CASE Lands(q, "idle", NoLocals)
    BY <2>1, <2>3, IdleTyped, LandTyped
  <2> QED
    BY <1>0, <1>14, <2>2, <2>3, GoMoves, EndMoves DEF DecSave, Lands
<1>15. ASSUME NEW q \in Calls, DecCase(q) PROVE TypeInv'
  <2>1. Lands(q, "publish", loc[q])
    BY <1>0, <1>15, GoMoves DEF DecCase, Lands
  <2>2. TablesTyped' /\ CasesKept
    BY <1>0, <1>15, SetCaseTyped DEF DecCase, Typed, TablesTyped, DecSteps, Exists,
       CaseStatus
  <2>3. "publish" \in Steps /\ loc[q] \in Locals
    BY <1>0 DEF Steps
  <2>4. Typed("publish", loc[q], kase')
    BY <1>0, <1>15, <2>2 DEF DecCase, Typed, CasesKept, Exists, AppSteps, BookingSteps,
       DecSteps
  <2> QED
    BY <2>1, <2>2, <2>3, <2>4, LandTyped
<1>16. ASSUME NEW q \in Calls, AppDecision(q) PROVE TypeInv'
  <2>1. TablesTyped' /\ CasesKept
    BY <1>0, <1>16, SameCases DEF AppDecision, TablesTyped
  <2>2. CASE Lands(q, "app.option", [loc[q] EXCEPT !.option = decision[loc[q].case]]) /\ decision[loc[q].case] # None
    <3>1. "app.option" \in Steps /\ [loc[q] EXCEPT !.option = decision[loc[q].case]] \in Locals
      BY <1>0, <1>16, <2>2, LocalUpdates DEF AppDecision, Steps, TypeOK, Typed, AppSteps
    <3>2. Typed("app.option", [loc[q] EXCEPT !.option = decision[loc[q].case]], kase')
      BY <1>0, <1>16, <2>2 DEF AppDecision, Typed, TypeOK, AppSteps
    <3> QED
      BY <2>1, <2>2, <3>1, <3>2, LandTyped
  <2>3. CASE Lands(q, "idle", NoLocals)
    BY <2>1, <2>3, IdleTyped, LandTyped
  <2> QED
    BY <1>0, <1>16, <2>2, <2>3, GoWithMoves, EndMoves DEF AppDecision, Lands
<1>17. ASSUME NEW q \in Calls, AppOption(q) PROVE TypeInv'
  <2>1. TablesTyped' /\ CasesKept
    BY <1>0, <1>17, SameCases DEF AppOption, TablesTyped
  <2>2. CASE Lands(q, "app.write", loc[q])
    <3>1. "app.write" \in Steps /\ loc[q] \in Locals
      BY <1>0 DEF Steps
    <3>2. Typed("app.write", loc[q], kase')
      BY <1>0, <1>17 DEF AppOption, Typed, AppSteps
    <3> QED
      BY <2>1, <2>2, <3>1, <3>2, LandTyped
  <2>3. CASE Lands(q, "idle", NoLocals)
    BY <2>1, <2>3, IdleTyped, LandTyped
  <2> QED
    BY <1>0, <1>17, <2>2, <2>3, GoMoves, EndMoves DEF AppOption, Lands
<1>18. ASSUME NEW q \in Calls, AppWrite(q) PROVE TypeInv'
  <2>1. Lands(q, "app.find", loc[q])
    BY <1>0, <1>18, GoMoves DEF AppWrite, Lands
  <2>2. TablesTyped' /\ CasesKept
    BY <1>0, <1>18, SameCases, BookingTypes DEF AppWrite, TablesTyped, Typed, AppSteps, Linked
  <2>3. "app.find" \in Steps /\ loc[q] \in Locals
    BY <1>0 DEF Steps
  <2>4. Typed("app.find", loc[q], kase')
    BY <1>0, <1>18 DEF AppWrite, Typed, AppSteps
  <2> QED
    BY <2>1, <2>2, <2>3, <2>4, LandTyped
<1>19. ASSUME NEW q \in Calls, AppFind(q) \/ \E i \in Items : AppItem(q, i) PROVE TypeInv'
  <2>1. pc[q] \in {"app.find", "app.item"} /\ loc[q].booking \in Bookings /\ kase' = kase
    BY <1>0, <1>19 DEF AppFind, AppItem, Typed, AppSteps
  <2>2. PICK L \in SUBSET Items : Remaining(q, L, "app.item", "app.case")
    BY <1>0, <1>19 DEF AppFind, AppItem, Linked, Locals
  <2> DEFINE l == [loc[q] EXCEPT !.linked = L]
             step == IF L = {} THEN "app.case" ELSE "app.item"
  <2>3. Lands(q, step, l)
    BY <1>0, <2>2, RemainingMoves
  <2>4. TablesTyped' /\ CasesKept
    BY <1>0, <1>19, <2>1, SameCases, ItemTypes DEF AppFind, AppItem, TablesTyped, ItemStatus
  <2>5. /\ step \in Steps /\ l \in Locals
        /\ l.booking = loc[q].booking /\ l.case = loc[q].case /\ l.option = loc[q].option
    BY <1>0, LocalUpdates DEF Steps, Locals
  <2> HIDE DEF l
  <2>6. Typed(step, l, kase')
    BY <1>0, <2>1, <2>5 DEF Typed, AppSteps
  <2> QED
    BY <2>3, <2>4, <2>5, <2>6, LandTyped
<1>20. ASSUME NEW q \in Calls, AppCase(q) PROVE TypeInv'
  <2>1. Lands(q, "publish", loc[q])
    BY <1>0, <1>20, GoMoves DEF AppCase, Lands
  <2>2. TablesTyped' /\ CasesKept
    BY <1>0, <1>20, SetCaseTyped DEF AppCase, Typed, TablesTyped, AppSteps, Exists,
       CaseStatus
  <2>3. "publish" \in Steps /\ loc[q] \in Locals
    BY <1>0 DEF Steps
  <2>4. Typed("publish", loc[q], kase')
    BY <1>0, <1>20, <2>2 DEF AppCase, Typed, CasesKept, Exists, AppSteps
  <2> QED
    BY <2>1, <2>2, <2>3, <2>4, LandTyped
<1>21. ASSUME NEW q \in Calls, EditSave(q) PROVE TypeInv'
  <2>1. Lands(q, "publish", NoLocals)
    BY <1>0, <1>21, GoWithMoves DEF EditSave, Lands
  <2>2. loc[q].booking \in Bookings /\ loc[q].seen \in Booking /\ loc[q].body \in Body
    BY <1>0, <1>21 DEF EditSave, Typed, BookingSteps, Locals
  <2>3. Edited(loc[q].body, loc[q].seen, booking[loc[q].booking]) \in Booking
    BY <1>0, <2>2, ColumnTypes DEF TablesTyped
  <2>4. TablesTyped' /\ CasesKept
    BY <1>0, <1>21, <2>3, SameCases DEF EditSave, TablesTyped, Claim
  <2>5. "publish" \in Steps /\ NoLocals \in Locals
    BY LocalTypes DEF Steps
  <2>6. Typed("publish", NoLocals, kase')
    BY DEF Typed, AppSteps, BookingSteps, DecSteps, GenSteps
  <2> QED
    BY <2>1, <2>4, <2>5, <2>6, LandTyped
<1>25. ASSUME NEW q \in Calls, NEW i \in Items,
              \/ \E status \in ItemBodies : ItemRead(q, i, status)
              \/ \E b \in Bookings : AttachRead(q, i, b)
       PROVE  TypeInv'
  <2>1. PICK f \in BOOLEAN, copy \in Item :
             Edit(q, "item.save", [NoLocals EXCEPT !.item = i, !.flag = f, !.copy = copy])
    <3>1. item[i] \in Item
      BY <1>0 DEF TypeOK
    <3>2. CASE \E b \in Bookings : AttachRead(q, i, b)
      BY <3>1, <3>2, ItemTypes DEF AttachRead
    <3>3. CASE \E status \in ItemBodies : ItemRead(q, i, status)
      BY <3>1, <3>3, ItemTypes DEF ItemRead
    <3> QED
      BY <1>25, <3>2, <3>3
  <2> DEFINE l == [NoLocals EXCEPT !.item = i, !.flag = f, !.copy = copy]
  <2>2. Lands(q, "item.save", l)
    BY <1>0, <2>1, BeginMoves DEF Edit, Lands
  <2>3. TablesTyped' /\ CasesKept
    BY <1>0, <2>1, SameCases, RebookingAssumption DEF RebookingAssumption, Edit, TablesTyped
  <2>4. "item.save" \in Steps /\ l \in Locals
    BY LocalTypes DEF Steps
  <2>5. Typed("item.save", l, kase')
    BY DEF Typed, AppSteps, BookingSteps, DecSteps, GenSteps, NoLocals
  <2> QED
    BY <2>2, <2>3, <2>4, <2>5, LandTyped
<1>26. ASSUME NEW q \in Calls, ItemSave(q) PROVE TypeInv'
  <2>1. Lands(q, "publish", NoLocals)
    BY <1>0, <1>26, GoWithMoves DEF ItemSave, Lands
  <2>2. TablesTyped' /\ CasesKept
    BY <1>0, <1>26, SameCases DEF ItemSave, TablesTyped, Typed, Locals
  <2>3. "publish" \in Steps /\ NoLocals \in Locals
    BY LocalTypes DEF Steps
  <2>4. Typed("publish", NoLocals, kase')
    BY DEF Typed, AppSteps, BookingSteps, DecSteps, GenSteps
  <2> QED
    BY <2>1, <2>2, <2>3, <2>4, LandTyped
<1>22. ASSUME NEW q \in Calls, Publish(q) PROVE TypeInv'
  <2>1. Lands(q, "idle", NoLocals)
    BY <1>0, <1>22, EndMoves DEF Publish, Lands
  <2>2. TablesTyped' /\ CasesKept
    BY <1>0, <1>22, SameCases DEF Publish, TablesTyped
  <2>3. "idle" \in Steps /\ NoLocals \in Locals
    BY LocalTypes DEF Steps
  <2>4. Typed("idle", NoLocals, kase')
    BY DEF Typed, AppSteps, BookingSteps, DecSteps, GenSteps
  <2> QED
    BY <2>1, <2>2, <2>3, <2>4, LandTyped
<1>23. ASSUME NEW Q \in SUBSET Calls, Cut(Q) PROVE TypeInv'
  <2>1. TablesTyped' /\ CasesKept
    BY <1>0, <1>23, SameCases, RebookingAssumption DEF Cut, TablesTyped
  <2>2. pc' \in [Calls -> Steps] /\ loc' \in [Calls -> Locals]
    BY <1>0, <1>23, IdleTyped DEF Cut, TypeOK
  <2>3. ASSUME NEW p \in Calls PROVE CallTyped(p)'
    <3>1. CASE p \in Q
      BY <1>23, <3>1, IdleTyped DEF Cut, CallTyped
    <3>2. CASE p \notin Q
      BY <1>0, <1>23, <3>2 DEF Cut, CallTyped
    <3> QED
      BY <3>1, <3>2
  <2> QED
    BY <1>23, <2>1, <2>2, <2>3 DEF Cut, TypeInv, TypeOK, TablesTyped
<1>24. CASE UNCHANGED vars
  BY <1>24 DEF vars, TypeInv, TypeOK, CallTyped
<1> QED
  BY <1>1, <1>2, <1>3, <1>4, <1>5, <1>6, <1>7, <1>8, <1>9, <1>10, <1>11, <1>12, <1>13,
     <1>14, <1>15, <1>16, <1>17, <1>18, <1>19, <1>20, <1>21, <1>22, <1>23, <1>24,
     <1>25, <1>26 DEF Next

LEMMA InitTypes == Init => TypeInv
<1> SUFFICES ASSUME Init PROVE TypeInv
  OBVIOUS
<1>1. booking \in [Bookings -> Booking] /\ claimed \subseteq Bookings \X Cases
  <2>1. PICK body \in [Bookings -> NewBodies] :
          /\ booking = [b \in Bookings |-> Edited(body[b], NewBooking, NewBooking)]
          /\ claimed = UNION {Claim(b, body[b]) : b \in Bookings}
    BY DEF Init
  <2>2. \A b \in Bookings : Edited(body[b], NewBooking, NewBooking) \in Booking
    BY ColumnTypes, BookingTypes, RebookingAssumption DEF RebookingAssumption
  <2> QED
    BY <2>1, <2>2 DEF Claim
<1>2. item \in [Items -> Item]
  BY RebookingAssumption DEF RebookingAssumption, Init, Item, ItemStatus
<1>3. TablesTyped
  BY <1>1, <1>2, RebookingAssumption DEF RebookingAssumption, Init, TablesTyped, Case
<1>4. pc \in [Calls -> Steps] /\ loc \in [Calls -> Locals] /\ disturbed \in BOOLEAN
  BY IdleTyped DEF Init
<1>5. \A q \in Calls : CallTyped(q)
  BY IdleTyped DEF Init, CallTyped
<1> QED
  BY <1>3, <1>4, <1>5 DEF TypeInv, TypeOK, TablesTyped

(* Type correctness, with what a suspended call may rely on: the case it    *)
(* works on exists and belongs to the booking it works on.                  *)
THEOREM TypeCorrect == Spec => []TypeOK
<1>1. TypeInv => TypeOK
  BY DEF TypeInv
<1> QED
  BY <1>1, InitTypes, TypeStep, PTL DEF Spec

-----------------------------------------------------------------------------
(* What never gets lost: decisions, applications, what clients claimed, the *)
(* case an option was generated for, a decision row, a case's booking.      *)

HistoryGrows ==
  /\ decidedSet \subseteq decidedSet' /\ appliedSet \subseteq appliedSet'
  /\ claimed \subseteq claimed'
  /\ \A o \in Options : offeredFor[o] # None => offeredFor'[o] = offeredFor[o]
  /\ \A c \in Cases : decision[c] # None => decision'[c] # None
  /\ CasesKept

LEMMA NoneIsNew ==
  /\ None \notin Cases /\ None \notin Options /\ None \notin Bookings
BY RebookingAssumption DEF RebookingAssumption

LEMMA Monotone == TypeInv /\ [Next]_vars => HistoryGrows
<1> SUFFICES ASSUME TypeInv, [Next]_vars PROVE HistoryGrows
  OBVIOUS
<1>0. TypeOK /\ TablesTyped /\ \A q \in Calls : loc[q] \in Locals /\ Typed(pc[q], loc[q], kase)
  BY DEF TypeInv, TypeOK, TablesTyped, CallTyped
<1>1. ASSUME NEW q \in Calls, GenCase(q) \/ DecCase(q) \/ AppCase(q) PROVE HistoryGrows
  <2>1. loc[q].case \in Cases /\ Exists(loc[q].case)
    BY <1>0, <1>1 DEF GenCase, DecCase, AppCase, Typed, Exists, GenSteps, DecSteps,
       AppSteps
  <2>2. CasesKept
    BY <1>0, <1>1, <2>1, SetCaseTyped DEF GenCase, DecCase, AppCase, CaseStatus
  <2> QED
    BY <1>1, <2>2 DEF HistoryGrows, GenCase, DecCase, AppCase, history
<1>2. ASSUME NEW q \in Calls, NEW c \in Cases, SimOpen(q, c) PROVE HistoryGrows
  BY <1>2 DEF HistoryGrows, SimOpen, CasesKept, Exists, history
<1>3. ASSUME NEW q \in Calls, NEW O \in SUBSET Options, GenSave(q, O) PROVE HistoryGrows
  BY <1>3, SameCases DEF HistoryGrows, GenSave
<1>4. ASSUME NEW q \in Calls, DecSave(q) PROVE HistoryGrows
  <2>1. loc[q].option \in Options
    BY <1>0, <1>4 DEF DecSave, Typed, DecSteps
  <2> QED
    BY <1>0, <1>4, <2>1, SameCases, NoneIsNew DEF HistoryGrows, DecSave, TablesTyped
<1>5. ASSUME NEW q \in Calls, AppWrite(q) \/ EditSave(q) PROVE HistoryGrows
  BY <1>5, SameCases DEF HistoryGrows, AppWrite, EditSave
<1>6. CASE UNCHANGED <<kase, decision, offeredFor, decidedSet, appliedSet, claimed>>
  BY <1>6, SameCases DEF HistoryGrows
<1> QED
  BY <1>1, <1>2, <1>3, <1>4, <1>5, <1>6 DEF Next, vars, history, Edit, EditRead, ItemRead,
     AttachRead, SimRead, GenRead, AppRead, DecRead, SimCancel, SimFind, SimItem, GenClear,
     DecOption, DecExisting, AppDecision, AppOption, AppFind, AppItem, ItemSave, Publish, Cut

LEMMA WrittenPairs ==
  \A b, c, o : <<b, c, o>> \in Written
                 <=> b \in Bookings /\ c \in Cases /\ o \in Options /\ WroteTo(b, c, o)
BY DEF Written

LEMMA WrittenGrows == ASSUME TypeOK, HistoryGrows PROVE Written \subseteq Written'
<1> SUFFICES ASSUME NEW b \in Bookings, NEW c \in Cases, NEW o \in Options, WroteTo(b, c, o)
             PROVE  WroteTo(b, c, o)'
  BY DEF Written
<1>1. Exists(c)
  <2>1. kase[c] \in Case
    BY DEF TypeOK
  <2> QED
    BY <2>1, NoneIsNew DEF Case, Exists, WroteTo
<1>2. offeredFor'[o] = c
  BY NoneIsNew DEF HistoryGrows, WroteTo
<1> QED
  BY <1>1, <1>2 DEF HistoryGrows, CasesKept, WroteTo

\* What is true of a row or of a copy of it stays true.
LEMMA RowKept ==
  ASSUME TypeOK, HistoryGrows, NEW b, NEW bk, RowTrue(b, bk, Written, claimed)
  PROVE  RowTrue(b, bk, Written', claimed')
BY WrittenGrows DEF RowTrue, TimeTrue, HistoryGrows

\* What a call relies on stays true until the call moves.
LEMMA FactsKept ==
  ASSUME TypeOK, HistoryGrows, NEW s \in Steps, NEW l \in Locals, Typed(s, l, kase),
         FactsNow(s, l)
  PROVE  FactsNext(s, l)
<1> USE DEF FactsNow
<1>1. s \in {"dec.existing", "dec.save"} => offeredFor'[l.option] = l.case
  BY NoneIsNew DEF Facts, HistoryGrows, Typed, DecSteps
<1>2. s = "dec.case" => decision'[l.case] # None
  BY DEF Facts, HistoryGrows, Typed, DecSteps
<1>3. s \in AppSteps \ {"app.decision"} =>
        decision'[l.case] # None /\ <<l.case, l.option>> \in decidedSet'
  BY DEF Facts, HistoryGrows, Typed
<1>4. WasApplied(l.case, appliedSet, decidedSet) => WasApplied(l.case, appliedSet', decidedSet')
  BY DEF WasApplied, HistoryGrows
<1>5. s \in {"sim.open", "sim.cancel", "edit.save"} =>
        RowTrue(l.booking, l.seen, Written', claimed')
  BY RowKept DEF Facts
<1> QED
  BY <1>1, <1>2, <1>3, <1>4, <1>5 DEF Facts, FactsNext

\* It remains to look at the call that moves.
LEMMA MoveFacts ==
  ASSUME RebookingInv, HistoryGrows, NEW q \in Calls, NEW step, NEW locals,
         Lands(q, step, locals), FactsNext(step, locals)
  PROVE  \A p \in Calls : CallFacts(p)'
<1> SUFFICES ASSUME NEW p \in Calls PROVE FactsNext(pc'[p], loc'[p])
  BY DEF CallFacts, FactsNow, FactsNext
<1>1. CASE p = q
  BY <1>1 DEF Lands
<1>2. CASE p # q
  <2>1. pc'[p] = pc[p] /\ loc'[p] = loc[p]
    BY <1>2 DEF Lands, Moves, RebookingInv, TypeInv, TypeOK
  <2>2. /\ pc[p] \in Steps /\ loc[p] \in Locals
        /\ Typed(pc[p], loc[p], kase) /\ FactsNow(pc[p], loc[p])
    BY DEF RebookingInv, TypeInv, TypeOK, CallTyped, CallFacts
  <2> QED
    BY <2>1, <2>2, FactsKept DEF RebookingInv, TypeInv
<1> QED
  BY <1>1, <1>2

LEMMA IdleFacts == FactsNext("idle", NoLocals)
BY DEF FactsNext, Facts, NoLocals, AppSteps

LEMMA FactsStep ==
  RebookingInv /\ HistoryGrows /\ [Next]_vars => \A q \in Calls : CallFacts(q)'
<1> SUFFICES ASSUME RebookingInv, HistoryGrows, [Next]_vars
             PROVE  \A q \in Calls : CallFacts(q)'
  OBVIOUS
<1>0. /\ TypeOK /\ DecisionFacts /\ OfferFacts
      /\ \A q \in Calls : /\ loc[q] \in Locals /\ Typed(pc[q], loc[q], kase)
                          /\ FactsNow(pc[q], loc[q])
  BY DEF RebookingInv, TypeInv, TypeOK, CallTyped, CallFacts
<1>01. \A b \in Bookings : RowTrue(b, booking[b], Written', claimed')
  BY <1>0, RowKept DEF RebookingInv, RowsTrue
<1>1. ASSUME NEW q \in Calls, NEW b \in Bookings, NEW body \in Bodies, EditRead(q, b, body)
      PROVE  \A p \in Calls : CallFacts(p)'
  <2> DEFINE step == "edit.save"
  <2> DEFINE locals == [NoLocals EXCEPT !.booking = b, !.seen = booking[b], !.body = body]
  <2>1. Lands(q, step, locals)
    BY <1>0, <1>1, BeginMoves DEF EditRead, Edit, Lands
  <2>2. FactsNext(step, locals)
    BY <1>01 DEF AppSteps, NoLocals, Facts, FactsNext
  <2> QED
    BY <2>1, <2>2, MoveFacts
<1>2. ASSUME NEW q \in Calls, NEW b \in Bookings, NEW f \in BOOLEAN, SimRead(q, b, f)
      PROVE  \A p \in Calls : CallFacts(p)'
  <2> DEFINE step == "sim.open"
  <2> DEFINE locals == [NoLocals EXCEPT !.booking = b, !.flag = f, !.seen = booking[b]]
  <2>1. Lands(q, step, locals)
    BY <1>0, <1>2, BeginMoves DEF SimRead, Lands
  <2>2. FactsNext(step, locals)
    BY <1>01 DEF AppSteps, NoLocals, Facts, FactsNext
  <2> QED
    BY <2>1, <2>2, MoveFacts
<1>3. ASSUME NEW q \in Calls, NEW c \in Cases, SimOpen(q, c)
      PROVE  \A p \in Calls : CallFacts(p)'
  <2> DEFINE step == IF loc[q].flag THEN "sim.cancel" ELSE "publish"
  <2> DEFINE locals == [loc[q] EXCEPT !.case = c]
  <2>1. Lands(q, step, locals)
    BY <1>0, <1>3, GoWithMoves DEF SimOpen, Lands
  <2>2. FactsNext(step, locals)
    <3>1. pc[q] \in Steps /\ pc[q] = "sim.open" /\ FactsNext(pc[q], loc[q])
      BY <1>0, <1>3, FactsKept DEF SimOpen, TypeOK
    <3>2. locals.seen = loc[q].seen /\ locals.booking = loc[q].booking /\ locals.event = loc[q].event
      BY <1>0 DEF Locals
    <3> HIDE DEF locals
    <3> QED
      BY <3>1, <3>2 DEF FactsNext, Facts, AppSteps
  <2> QED
    BY <2>1, <2>2, MoveFacts
<1>4. ASSUME NEW q \in Calls, NEW c \in Cases, GenRead(q, c)
      PROVE  \A p \in Calls : CallFacts(p)'
  <2>1. Lands(q, "gen.clear", [NoLocals EXCEPT !.case = c])
    BY <1>0, <1>4, BeginMoves DEF GenRead, Lands
  <2>2. FactsNext("gen.clear", [NoLocals EXCEPT !.case = c])
    BY DEF AppSteps, NoLocals, Facts, FactsNext
  <2> QED
    BY <2>1, <2>2, MoveFacts
<1>5. ASSUME NEW q \in Calls, NEW c \in Cases, AppRead(q, c)
      PROVE  \A p \in Calls : CallFacts(p)'
  <2> DEFINE step == "app.decision"
  <2> DEFINE locals == [NoLocals EXCEPT !.case = c, !.booking = kase[c].booking, !.event = "applied"]
  <2>1. Lands(q, step, locals)
    BY <1>0, <1>5, BeginMoves DEF AppRead, Lands
  <2>2. FactsNext(step, locals)
    BY DEF AppSteps, Facts, FactsNext
  <2> QED
    BY <2>1, <2>2, MoveFacts
<1>6. ASSUME NEW q \in Calls, NEW c \in Cases, NEW o \in Options, DecRead(q, c, o)
      PROVE  \A p \in Calls : CallFacts(p)'
  <2> DEFINE step == "dec.option"
  <2> DEFINE locals == [NoLocals EXCEPT !.case = c, !.option = o, !.event = "decided"]
  <2>1. Lands(q, step, locals)
    BY <1>0, <1>6, BeginMoves DEF DecRead, Lands
  <2>2. FactsNext(step, locals)
    BY DEF AppSteps, Facts, FactsNext
  <2> QED
    BY <2>1, <2>2, MoveFacts
<1>7. ASSUME NEW q \in Calls, NEW O \in SUBSET Options, GenSave(q, O)
      PROVE  \A p \in Calls : CallFacts(p)'
  <2>1. Lands(q, "gen.case", loc[q])
    BY <1>0, <1>7, GoMoves DEF GenSave, Lands
  <2>2. FactsNext("gen.case", loc[q])
    BY <1>0, <1>7 DEF GenSave, AppSteps, Facts, FactsNow, FactsNext
  <2> QED
    BY <2>1, <2>2, MoveFacts
<1>8. ASSUME NEW q \in Calls, SimCancel(q)
      PROVE  \A p \in Calls : CallFacts(p)'
  <2> DEFINE locals == [loc[q] EXCEPT !.seen = NewBooking]
  <2>1. Lands(q, "sim.find", locals)
    BY <1>0, <1>8, GoWithMoves DEF SimCancel, Lands
  <2>2. locals.event # "applied"
    BY <1>0, <1>8 DEF SimCancel, Facts, FactsNow, Locals, AppSteps
  <2> HIDE DEF locals
  <2>3. FactsNext("sim.find", locals)
    BY <2>2 DEF AppSteps, Facts, FactsNext
  <2> QED
    BY <2>1, <2>3, MoveFacts
<1>9. ASSUME NEW q \in Calls, SimFind(q) \/ \E i \in Items : SimItem(q, i)
      PROVE  \A p \in Calls : CallFacts(p)'
  <2>1. PICK L : Remaining(q, L, "sim.item", "publish")
    BY <1>9 DEF SimFind, SimItem
  <2> DEFINE l == [loc[q] EXCEPT !.linked = L]
             step == IF L = {} THEN "publish" ELSE "sim.item"
  <2>2. Lands(q, step, l)
    BY <1>0, <2>1, RemainingMoves
  <2>3. l.event # "applied"
    BY <1>0, <1>9 DEF SimFind, SimItem, Facts, FactsNow, Locals, AppSteps
  <2> HIDE DEF l
  <2>4. FactsNext(step, l)
    BY <2>3 DEF AppSteps, Facts, FactsNext
  <2> QED
    BY <2>2, <2>4, MoveFacts
<1>10. ASSUME NEW q \in Calls, GenClear(q)
      PROVE  \A p \in Calls : CallFacts(p)'
  <2>1. Lands(q, "gen.save", loc[q])
    BY <1>0, <1>10, GoMoves DEF GenClear, Lands
  <2>2. FactsNext("gen.save", loc[q])
    BY <1>0, <1>10 DEF GenClear, AppSteps, Facts, FactsNow, FactsNext
  <2> QED
    BY <2>1, <2>2, MoveFacts
<1>11. ASSUME NEW q \in Calls, GenCase(q)
      PROVE  \A p \in Calls : CallFacts(p)'
  <2>1. Lands(q, "publish", loc[q])
    BY <1>0, <1>11, GoMoves DEF GenCase, Lands
  <2>2. FactsNext("publish", loc[q])
    BY <1>0, <1>11 DEF GenCase, AppSteps, Facts, FactsNow, FactsNext
  <2> QED
    BY <2>1, <2>2, MoveFacts
<1>12. ASSUME NEW q \in Calls, DecOption(q)
      PROVE  \A p \in Calls : CallFacts(p)'
  <2>1. CASE Lands(q, "dec.existing", loc[q]) /\ loc[q].option \in opts[loc[q].case]
    <3>1. FactsNext("dec.existing", loc[q])
      BY <1>0, <1>12, <2>1 DEF DecOption, history, OfferFacts, AppSteps, NoLocals,
         Facts, FactsNow, FactsNext, Typed, TypeOK, DecSteps, BookingSteps
    <3> QED
      BY <2>1, <3>1, MoveFacts
  <2>2. CASE Lands(q, "idle", NoLocals)
    BY <2>2, IdleFacts, MoveFacts
  <2> QED
    BY <1>0, <1>12, <2>1, <2>2, GoMoves, EndMoves DEF DecOption, Lands
<1>13. ASSUME NEW q \in Calls, DecExisting(q)
      PROVE  \A p \in Calls : CallFacts(p)'
  <2> DEFINE step == "dec.save"
  <2> DEFINE locals == [loc[q] EXCEPT !.flag = decision[loc[q].case] # None]
  <2>1. Lands(q, step, locals)
    BY <1>0, <1>13, GoWithMoves DEF DecExisting, Lands
  <2>2. FactsNext(step, locals)
    BY <1>0, <1>13 DEF DecExisting, history, AppSteps, Locals, Facts, FactsNow,
       FactsNext
  <2> QED
    BY <2>1, <2>2, MoveFacts
<1>14. ASSUME NEW q \in Calls, DecSave(q)
      PROVE  \A p \in Calls : CallFacts(p)'
  <2>1. CASE /\ Lands(q, "dec.case", loc[q])
             /\ decision' = [decision EXCEPT ![loc[q].case] = loc[q].option]
    <3>1. /\ loc[q].case \in Cases /\ loc[q].option \in Options /\ pc[q] = "dec.save"
          /\ decision'[loc[q].case] = loc[q].option
      BY <1>0, <1>14, <2>1 DEF DecSave, Typed, DecSteps, TypeOK
    <3>2. FactsNext("dec.case", loc[q])
      BY <1>0, <3>1, NoneIsNew DEF Facts, FactsNow, FactsNext, AppSteps
    <3> QED
      BY <2>1, <3>2, MoveFacts
  <2>2. CASE Lands(q, "idle", NoLocals)
    BY <2>2, IdleFacts, MoveFacts
  <2> QED
    BY <1>0, <1>14, <2>1, <2>2, GoMoves, EndMoves DEF DecSave, Lands
<1>15. ASSUME NEW q \in Calls, DecCase(q)
      PROVE  \A p \in Calls : CallFacts(p)'
  <2>1. Lands(q, "publish", loc[q])
    BY <1>0, <1>15, GoMoves DEF DecCase, Lands
  <2>2. FactsNext("publish", loc[q])
    BY <1>0, <1>15 DEF DecCase, AppSteps, Facts, FactsNow, FactsNext
  <2> QED
    BY <2>1, <2>2, MoveFacts
<1>16. ASSUME NEW q \in Calls, AppDecision(q)
      PROVE  \A p \in Calls : CallFacts(p)'
  <2> DEFINE o == decision[loc[q].case]
  <2> DEFINE locals == [loc[q] EXCEPT !.option = o]
  <2>1. CASE Lands(q, "app.option", locals) /\ o # None
    <3>1. loc[q].case \in Cases /\ <<loc[q].case, o>> \in decidedSet /\ pc[q] = "app.decision"
      BY <1>0, <1>16, <2>1 DEF AppDecision, DecisionFacts, Typed, AppSteps
    <3>2. /\ locals.option = o /\ locals.case = loc[q].case
          /\ decision' = decision /\ decidedSet' = decidedSet
      BY <1>16 DEF AppDecision, history
    <3> HIDE DEF locals
    <3>3. FactsNext("app.option", locals)
      BY <2>1, <3>1, <3>2 DEF FactsNext, Facts, AppSteps
    <3> QED
      BY <2>1, <3>3, MoveFacts
  <2>2. CASE Lands(q, "idle", NoLocals)
    BY <2>2, IdleFacts, MoveFacts
  <2> QED
    BY <1>0, <1>16, <2>1, <2>2, GoWithMoves, EndMoves DEF AppDecision, Lands
<1>17. ASSUME NEW q \in Calls, AppOption(q)
      PROVE  \A p \in Calls : CallFacts(p)'
  <2>1. CASE Lands(q, "app.write", loc[q])
    <3>1. FactsNext("app.write", loc[q])
      BY <1>0, <1>17 DEF AppOption, history, AppSteps, Facts, FactsNow, FactsNext
    <3> QED
      BY <2>1, <3>1, MoveFacts
  <2>2. CASE Lands(q, "idle", NoLocals)
    BY <2>2, IdleFacts, MoveFacts
  <2> QED
    BY <1>0, <1>17, <2>1, <2>2, GoMoves, EndMoves DEF AppOption, Lands
<1>18. ASSUME NEW q \in Calls, AppWrite(q)
      PROVE  \A p \in Calls : CallFacts(p)'
  <2>1. Lands(q, "app.find", loc[q])
    BY <1>0, <1>18, GoMoves DEF AppWrite, Lands
  <2>2. FactsNext("app.find", loc[q])
    <3>1. /\ loc[q].option \in Options /\ <<loc[q].case, loc[q].option>> \in decidedSet
          /\ decision[loc[q].case] # None /\ pc[q] = "app.write"
      BY <1>0, <1>18 DEF AppWrite, Facts, FactsNow, Typed, AppSteps
    <3>2. /\ WasApplied(loc[q].case, appliedSet', decidedSet')
          /\ decision' = decision /\ decidedSet' = decidedSet
      BY <1>18, <3>1 DEF AppWrite, WasApplied
    <3> QED
      BY <3>1, <3>2 DEF FactsNext, Facts, AppSteps
  <2> QED
    BY <2>1, <2>2, MoveFacts
<1>19. ASSUME NEW q \in Calls, AppFind(q) \/ \E i \in Items : AppItem(q, i)
      PROVE  \A p \in Calls : CallFacts(p)'
  <2>1. PICK L : Remaining(q, L, "app.item", "app.case")
    BY <1>19 DEF AppFind, AppItem
  <2> DEFINE l == [loc[q] EXCEPT !.linked = L]
             step == IF L = {} THEN "app.case" ELSE "app.item"
  <2>2. Lands(q, step, l)
    BY <1>0, <2>1, RemainingMoves
  <2>3. l.case = loc[q].case /\ l.option = loc[q].option /\ l.event = loc[q].event
    BY <1>0 DEF Locals
  <2>4. pc[q] \in {"app.find", "app.item"} /\ FactsNext(pc[q], loc[q])
    BY <1>0, <1>19, FactsKept DEF AppFind, AppItem, TypeOK
  <2> HIDE DEF l
  <2>5. FactsNext(step, l)
    BY <2>3, <2>4 DEF AppSteps, Facts, FactsNext
  <2> QED
    BY <2>2, <2>5, MoveFacts
<1>20. ASSUME NEW q \in Calls, AppCase(q)
      PROVE  \A p \in Calls : CallFacts(p)'
  <2>1. Lands(q, "publish", loc[q])
    BY <1>0, <1>20, GoMoves DEF AppCase, Lands
  <2>2. FactsNext("publish", loc[q])
    BY <1>0, <1>20 DEF AppCase, history, AppSteps, Facts, FactsNow, FactsNext
  <2> QED
    BY <2>1, <2>2, MoveFacts
<1>21. ASSUME NEW q \in Calls, EditSave(q) \/ ItemSave(q)
      PROVE  \A p \in Calls : CallFacts(p)'
  <2>1. Lands(q, "publish", NoLocals)
    BY <1>0, <1>21, GoWithMoves DEF EditSave, ItemSave, Lands
  <2>2. FactsNext("publish", NoLocals)
    BY DEF AppSteps, NoLocals, Facts, FactsNext
  <2> QED
    BY <2>1, <2>2, MoveFacts
<1>25. ASSUME NEW q \in Calls, NEW i \in Items,
              \/ \E status \in ItemBodies : ItemRead(q, i, status)
              \/ \E b \in Bookings : AttachRead(q, i, b)
       PROVE  \A p \in Calls : CallFacts(p)'
  <2>1. PICK f, copy : Edit(q, "item.save", [NoLocals EXCEPT !.item = i, !.flag = f, !.copy = copy])
    BY <1>25 DEF ItemRead, AttachRead
  <2> DEFINE locals == [NoLocals EXCEPT !.item = i, !.flag = f, !.copy = copy]
  <2>2. Lands(q, "item.save", locals)
    BY <1>0, <2>1, BeginMoves DEF Edit, Lands
  <2>3. FactsNext("item.save", locals)
    BY DEF AppSteps, NoLocals, Facts, FactsNext
  <2> QED
    BY <2>2, <2>3, MoveFacts
<1>22. ASSUME NEW q \in Calls, Publish(q)
      PROVE  \A p \in Calls : CallFacts(p)'
  <2>1. Lands(q, "idle", NoLocals)
    BY <1>0, <1>22, EndMoves DEF Publish, Lands
  <2>2. FactsNext("idle", NoLocals)
    BY DEF AppSteps, NoLocals, Facts, FactsNext
  <2> QED
    BY <2>1, <2>2, MoveFacts
<1>23. ASSUME NEW Q \in SUBSET Calls, Cut(Q) PROVE \A p \in Calls : CallFacts(p)'
  <2> SUFFICES ASSUME NEW p \in Calls PROVE FactsNext(pc'[p], loc'[p])
    BY DEF CallFacts, FactsNow, FactsNext
  <2>1. CASE p \in Q
    BY <1>23, <2>1, IdleFacts DEF Cut
  <2>2. CASE p \notin Q
    BY <1>0, <1>23, <2>2, FactsKept DEF Cut, TypeOK
  <2> QED
    BY <2>1, <2>2
<1>24. CASE UNCHANGED vars
  BY <1>0, <1>24, FactsKept DEF vars, TypeOK, CallFacts, FactsNow, FactsNext
<1> QED
  BY <1>1, <1>2, <1>3, <1>4, <1>5, <1>6, <1>7, <1>8, <1>9, <1>10, <1>11, <1>12, <1>13,
     <1>14, <1>15, <1>16, <1>17, <1>18, <1>19, <1>20, <1>21, <1>22, <1>23, <1>24,
     <1>25 DEF Next

-----------------------------------------------------------------------------
(* The tables.  Only the named actions touch what a conjunct speaks of.     *)

LEMMA OfferStep == RebookingInv /\ [Next]_vars => OfferFacts'
<1> SUFFICES ASSUME RebookingInv, [Next]_vars PROVE OfferFacts'
  OBVIOUS
<1>0. /\ TypeOK /\ OfferFacts
      /\ \A q \in Calls : Typed(pc[q], loc[q], kase) /\ FactsNow(pc[q], loc[q])
  BY DEF RebookingInv, TypeInv, CallTyped, CallFacts
<1>1. ASSUME NEW q \in Calls, NEW O \in SUBSET Options, GenSave(q, O) PROVE OfferFacts'
  <2>1. loc[q].case \in Cases
    BY <1>0, <1>1 DEF GenSave, Typed, GenSteps
  <2> QED
    BY <1>0, <1>1, NoneIsNew DEF GenSave, OfferFacts, TypeOK
<1>2. ASSUME NEW q \in Calls, GenClear(q) PROVE OfferFacts'
  BY <1>0, <1>2 DEF GenClear, OfferFacts, history
<1>3. ASSUME NEW q \in Calls, DecSave(q) PROVE OfferFacts'
  BY <1>0, <1>3 DEF DecSave, OfferFacts, FactsNow, Facts
<1>4. CASE UNCHANGED <<opts, offeredFor, decidedSet>>
  BY <1>0, <1>4 DEF OfferFacts
<1> QED
   BY <1>1, <1>2, <1>3, <1>4 DEF Next, vars, history, Edit, EditRead, ItemRead,
     AttachRead, SimRead, SimOpen, GenRead, AppRead, DecRead, SimCancel, SimFind,
     SimItem, GenCase, DecOption, DecExisting, DecCase, AppDecision, AppOption,
     AppWrite, AppFind, AppItem, AppCase, EditSave, ItemSave, Publish, Cut

LEMMA DecisionStep == RebookingInv /\ [Next]_vars => DecisionFacts'
<1> SUFFICES ASSUME RebookingInv, [Next]_vars PROVE DecisionFacts'
  OBVIOUS
<1>0. /\ TypeOK /\ DecisionFacts
      /\ \A q \in Calls : Typed(pc[q], loc[q], kase) /\ FactsNow(pc[q], loc[q])
  BY DEF RebookingInv, TypeInv, CallTyped, CallFacts
<1>1. ASSUME NEW q \in Calls, DecSave(q) PROVE DecisionFacts'
  BY <1>0, <1>1 DEF DecSave, DecisionFacts, TypeOK
<1>2. ASSUME NEW q \in Calls, AppWrite(q) PROVE DecisionFacts'
  <2>1. <<loc[q].case, loc[q].option>> \in decidedSet
    BY <1>0, <1>2 DEF AppWrite, FactsNow, Facts, AppSteps
  <2> QED
    BY <1>0, <1>2, <2>1 DEF AppWrite, DecisionFacts
<1>3. CASE UNCHANGED <<decision, decidedSet, appliedSet>>
  BY <1>0, <1>3 DEF DecisionFacts
<1> QED
   BY <1>1, <1>2, <1>3 DEF Next, vars, history, Edit, EditRead, ItemRead, AttachRead,
     SimRead, SimOpen, GenRead, AppRead, DecRead, SimCancel, SimFind, SimItem, GenClear,
     GenSave, GenCase, DecOption, DecExisting, DecCase, AppDecision, AppOption, AppFind,
     AppItem, AppCase, EditSave, ItemSave, Publish, Cut

LEMMA StatusStep ==
  RebookingInv /\ HistoryGrows /\ [Next]_vars => (DecidedHasDecision /\ AppliedWroteBooking)'
<1> SUFFICES ASSUME RebookingInv, HistoryGrows, [Next]_vars
             PROVE  (DecidedHasDecision /\ AppliedWroteBooking)'
  OBVIOUS
<1>0. /\ TypeOK /\ DecidedHasDecision /\ AppliedWroteBooking
      /\ \A q \in Calls : Typed(pc[q], loc[q], kase) /\ FactsNow(pc[q], loc[q])
  BY DEF RebookingInv, TypeInv, CallTyped, CallFacts
\* It is enough that new claims are true ones: old ones stay true.
<1>1. ASSUME \A c \in Cases :
               /\ kase'[c].status \in {"DECIDED", "APPLIED"} =>
                    kase[c].status \in {"DECIDED", "APPLIED"} \/ decision[c] # None
               /\ kase'[c].status = "APPLIED" \/ <<"applied", c>> \in outbox' =>
                    \/ kase[c].status = "APPLIED" \/ <<"applied", c>> \in outbox
                    \/ WasApplied(c, appliedSet, decidedSet)
      PROVE  (DecidedHasDecision /\ AppliedWroteBooking)'
  <2>1. DecidedHasDecision'
    BY <1>0, <1>1 DEF DecidedHasDecision, HistoryGrows
  <2>2. AppliedWroteBooking'
    BY <1>0, <1>1 DEF AppliedWroteBooking, WasApplied, HistoryGrows
  <2> QED
    BY <2>1, <2>2
<1>2. ASSUME NEW q \in Calls, NEW c \in Cases, SimOpen(q, c)
      PROVE  (DecidedHasDecision /\ AppliedWroteBooking)'
  BY <1>1, <1>2 DEF SimOpen
<1>3. ASSUME NEW q \in Calls, GenCase(q) \/ DecCase(q) \/ AppCase(q)
      PROVE  (DecidedHasDecision /\ AppliedWroteBooking)'
  <2>1. loc[q].case \in Cases /\ Exists(loc[q].case)
    BY <1>0, <1>3 DEF GenCase, DecCase, AppCase, Typed, Exists, GenSteps, DecSteps,
       AppSteps
  <2>2. CASE GenCase(q)
    <3>1. /\ kase'[loc[q].case].status = "OPTIONS_READY"
          /\ \A c \in Cases : c # loc[q].case => kase'[c] = kase[c]
      BY <1>0, <2>1, <2>2, SetCaseTyped DEF GenCase, CaseStatus
    <3> QED
      BY <1>1, <2>2, <3>1 DEF GenCase
  <2>3. CASE DecCase(q)
    <3>1. /\ kase'[loc[q].case].status = "DECIDED" /\ decision[loc[q].case] # None
          /\ \A c \in Cases : c # loc[q].case => kase'[c] = kase[c]
      BY <1>0, <2>1, <2>3, SetCaseTyped DEF DecCase, CaseStatus, FactsNow, Facts
    <3> QED
      BY <1>1, <2>3, <3>1 DEF DecCase
  <2>4. CASE AppCase(q)
    <3>1. /\ kase'[loc[q].case].status = "APPLIED" /\ decision[loc[q].case] # None
          /\ \A c \in Cases : c # loc[q].case => kase'[c] = kase[c]
      BY <1>0, <2>1, <2>4, SetCaseTyped DEF AppCase, CaseStatus, FactsNow, Facts,
         AppSteps
    <3>2. WasApplied(loc[q].case, appliedSet, decidedSet)
      BY <1>0, <2>4 DEF AppCase, FactsNow, Facts
    <3> QED
      BY <1>1, <2>4, <3>1, <3>2 DEF AppCase
  <2> QED
    BY <1>3, <2>2, <2>3, <2>4
<1>4. ASSUME NEW q \in Calls, Publish(q)
      PROVE  (DecidedHasDecision /\ AppliedWroteBooking)'
  BY <1>0, <1>1, <1>4 DEF Publish, FactsNow, Facts
<1>5. CASE UNCHANGED <<kase, outbox>>
  BY <1>1, <1>5
<1> QED
   BY <1>2, <1>3, <1>4, <1>5 DEF Next, vars, Edit, EditRead, ItemRead, AttachRead,
     SimRead, GenRead, AppRead, DecRead, SimCancel, SimFind, SimItem, GenClear, GenSave,
     DecOption, DecExisting, DecSave, AppDecision, AppOption, AppWrite, AppFind,
     AppItem, EditSave, ItemSave, Cut

\* A time, or a record, that one of two rows has is as true as these are.
LEMMA RowColumns ==
  ASSUME NEW b, NEW W, NEW C, NEW r, NEW s, NEW t, RowTrue(b, r, W, C), RowTrue(b, s, W, C),
         t.startsAt \in Options => t.startsAt \in {r.startsAt, s.startsAt},
         t.endsAt \in Options => t.endsAt \in {r.endsAt, s.endsAt},
         t.from # None => t.from \in {r.from, s.from} \/ <<b, t.from>> \in C
  PROVE  RowTrue(b, t, W, C)
BY DEF RowTrue, TimeTrue

LEMMA EditedColumns ==
  ASSUME NEW body \in Body, NEW read \in Booking, NEW stored \in Booking
  PROVE  /\ Edited(body, read, stored).startsAt \in {read.startsAt, stored.startsAt, Entered}
         /\ Edited(body, read, stored).endsAt \in {read.endsAt, stored.endsAt, Entered}
         /\ \/ Edited(body, read, stored).from \in {read.from, stored.from, None}
            \/ /\ Edited(body, read, stored).from \in Cases
               /\ Edited(body, read, stored).from = body.details
<1>1. \A field, x, y : Column(field, x, y) \in {x, y, field}
  BY DEF Column
<1>2. /\ Column(body.startsAt, read.startsAt, stored.startsAt)
           \in {read.startsAt, stored.startsAt, Entered}
      /\ Column(body.endsAt, read.endsAt, stored.endsAt) \in {read.endsAt, stored.endsAt, Entered}
  BY DEF Column, Body
<1>3. \/ Column(body.details, read.from, stored.from) \in {read.from, stored.from, None}
      \/ /\ Column(body.details, read.from, stored.from) = body.details
         /\ body.details \in Cases
  BY DEF Column, Body
<1>4. /\ Edited(body, read, stored).startsAt = Column(body.startsAt, read.startsAt, stored.startsAt)
      /\ Edited(body, read, stored).endsAt = Column(body.endsAt, read.endsAt, stored.endsAt)
      /\ Edited(body, read, stored).from = Column(body.details, read.from, stored.from)
  BY DEF Edited
<1>5. Edited(body, read, stored).startsAt \in {read.startsAt, stored.startsAt, Entered}
  BY <1>2, <1>4
<1>6. Edited(body, read, stored).endsAt \in {read.endsAt, stored.endsAt, Entered}
  BY <1>2, <1>4
<1>7. \/ Edited(body, read, stored).from \in {read.from, stored.from, None}
      \/ /\ Edited(body, read, stored).from \in Cases
         /\ Edited(body, read, stored).from = body.details
  BY <1>3, <1>4
<1> QED
  BY <1>5, <1>6, <1>7

LEMMA EnteredIsNew == Entered \notin Options /\ Entered # None
BY RebookingAssumption DEF RebookingAssumption

LEMMA BookingStep == RebookingInv /\ HistoryGrows /\ [Next]_vars => RowsTrue'
<1> SUFFICES ASSUME RebookingInv, HistoryGrows, [Next]_vars,
                    NEW b \in Bookings
             PROVE  RowTrue(b, booking'[b], Written', claimed')
  BY DEF RowsTrue
<1>0. /\ TypeOK /\ OfferFacts
      /\ \A q \in Calls : /\ loc[q] \in Locals /\ Typed(pc[q], loc[q], kase)
                          /\ FactsNow(pc[q], loc[q])
  BY DEF RebookingInv, TypeInv, TypeOK, CallTyped, CallFacts
<1>1. RowTrue(b, booking[b], Written', claimed')
  BY <1>0, RowKept DEF RebookingInv, RowsTrue
<1>2. ASSUME NEW q \in Calls, pc[q] \in {"sim.cancel", "edit.save"}
      PROVE  /\ loc[q].booking \in Bookings /\ loc[q].seen \in Booking
             /\ RowTrue(loc[q].booking, loc[q].seen, Written', claimed')
  BY <1>0, <1>2, RowKept DEF Typed, BookingSteps, Locals, FactsNow, Facts
<1>3. ASSUME NEW q \in Calls, SimCancel(q), b = loc[q].booking
      PROVE  RowTrue(b, booking'[b], Written', claimed')
  <2> DEFINE new == [loc[q].seen EXCEPT !.status = "CANCELED"]
  <2>1. loc[q].seen \in Booking /\ RowTrue(b, loc[q].seen, Written', claimed')
    BY <1>2, <1>3 DEF SimCancel
  <2>2. /\ new.startsAt = loc[q].seen.startsAt /\ new.endsAt = loc[q].seen.endsAt
        /\ new.from = loc[q].seen.from
    BY <2>1 DEF Booking
  <2>3. booking'[b] = new
    BY <1>0, <1>3 DEF SimCancel, TypeOK
  <2> HIDE DEF new
  <2> QED
    BY <2>1, <2>2, <2>3 DEF RowTrue
<1>4. ASSUME NEW q \in Calls, EditSave(q), b = loc[q].booking
      PROVE  RowTrue(b, booking'[b], Written', claimed')
  <2> DEFINE new == Edited(loc[q].body, loc[q].seen, booking[b])
  <2>1. /\ loc[q].seen \in Booking /\ loc[q].body \in Body /\ booking[b] \in Booking
        /\ RowTrue(b, loc[q].seen, Written', claimed')
    BY <1>0, <1>2, <1>4 DEF EditSave, Locals, TypeOK
  <2>2. /\ new.startsAt \in {loc[q].seen.startsAt, booking[b].startsAt, Entered}
        /\ new.endsAt \in {loc[q].seen.endsAt, booking[b].endsAt, Entered}
        /\ \/ new.from \in {loc[q].seen.from, booking[b].from, None}
           \/ new.from \in Cases /\ new.from = loc[q].body.details
    BY <2>1, EditedColumns
  <2>3. booking'[b] = new
    BY <1>0, <1>4 DEF EditSave, TypeOK
  <2>4. new.from \in Cases /\ new.from = loc[q].body.details => <<b, new.from>> \in claimed'
    BY <1>4 DEF EditSave, Claim
  <2> HIDE DEF new
  <2> QED
    BY <1>1, <2>1, <2>2, <2>3, <2>4, RowColumns, EnteredIsNew
<1>5. ASSUME NEW q \in Calls, AppWrite(q), b = loc[q].booking
      PROVE  RowTrue(b, booking'[b], Written', claimed')
  <2>1. PICK c \in Cases, o \in Options :
             c = loc[q].case /\ o = loc[q].option /\ kase[c].booking = b /\ <<c, o>> \in decidedSet
    BY <1>0, <1>5 DEF AppWrite, Typed, AppSteps, FactsNow, Facts
  <2>2. WroteTo(b, c, o)'
    BY <1>0, <1>5, <2>1 DEF AppWrite, OfferFacts, WroteTo
  <2>3. <<b, c, o>> \in Written'
    BY <2>2, WrittenPairs DEF Written
  <2>4. booking'[b].startsAt = o /\ booking'[b].endsAt = o /\ booking'[b].from = c
    BY <1>0, <1>5, <2>1 DEF AppWrite, TypeOK
  <2> QED
    BY <2>1, <2>3, <2>4 DEF RowTrue, TimeTrue
<1>6. CASE booking'[b] = booking[b]
  BY <1>1, <1>6
<1>7. ASSUME NEW q \in Calls, SimCancel(q) \/ EditSave(q) \/ AppWrite(q)
      PROVE  b = loc[q].booking \/ booking'[b] = booking[b]
  BY <1>0, <1>7 DEF SimCancel, EditSave, AppWrite, TypeOK
<1> QED
  BY <1>3, <1>4, <1>5, <1>6, <1>7 DEF Next, vars, Edit, EditRead, ItemRead, AttachRead,
     SimRead, SimOpen, GenRead, AppRead, DecRead, SimFind, SimItem, GenClear, GenSave,
     GenCase, DecOption, DecExisting, DecSave, DecCase, AppDecision, AppOption, AppFind,
     AppItem, AppCase, Publish, ItemSave, Cut

-----------------------------------------------------------------------------
LEMMA InitInv == Init => RebookingInv
<1> SUFFICES ASSUME Init PROVE RebookingInv
  OBVIOUS
<1>1. TypeInv
  BY InitTypes
<1>2. \A q \in Calls : CallFacts(q)
  BY DEF Init, CallFacts, FactsNow, Facts, NoLocals, AppSteps
<1>3. OfferFacts /\ DecisionFacts
  BY DEF Init, OfferFacts, DecisionFacts
<1>4. DecidedHasDecision /\ AppliedWroteBooking
  BY DEF Init, DecidedHasDecision, AppliedWroteBooking
<1>5. RowsTrue
  <2> SUFFICES ASSUME NEW b \in Bookings PROVE RowTrue(b, booking[b], Written, claimed)
    BY DEF RowsTrue
  <2>1. PICK body \in [Bookings -> NewBodies] :
          /\ booking = [d \in Bookings |-> Edited(body[d], NewBooking, NewBooking)]
          /\ claimed = UNION {Claim(d, body[d]) : d \in Bookings}
    BY DEF Init
  <2>2. body[b] \in Body /\ NewBooking \in Booking /\ booking[b] = Edited(body[b], NewBooking, NewBooking)
    BY <2>1, BookingTypes, RebookingAssumption DEF RebookingAssumption
  <2>3. RowTrue(b, NewBooking, Written, claimed)
    BY NoneIsNew DEF RowTrue, TimeTrue, NewBooking
  <2>4. body[b].details \in Cases => <<b, body[b].details>> \in claimed
    BY <2>1 DEF Claim
  <2> DEFINE new == Edited(body[b], NewBooking, NewBooking)
  <2>5. /\ new.startsAt \in {NewBooking.startsAt, Entered}
        /\ new.endsAt \in {NewBooking.endsAt, Entered}
        /\ \/ new.from \in {NewBooking.from, None}
           \/ new.from \in Cases /\ new.from = body[b].details
    BY <2>2, EditedColumns
  <2> HIDE DEF new
  <2> QED
    BY <2>2, <2>3, <2>4, <2>5, RowColumns, EnteredIsNew DEF new
<1> QED
  BY <1>1, <1>2, <1>3, <1>4, <1>5 DEF RebookingInv

LEMMA RebookingInvariant == Spec => []RebookingInv
<1>1. RebookingInv /\ [Next]_vars => RebookingInv'
  <2> SUFFICES ASSUME RebookingInv, [Next]_vars PROVE RebookingInv'
    OBVIOUS
  <2>1. TypeInv' /\ HistoryGrows
    BY TypeStep, Monotone DEF RebookingInv
  <2> QED
    BY <2>1, FactsStep, OfferStep, DecisionStep, StatusStep, BookingStep DEF
       RebookingInv
<1> QED
  BY <1>1, InitInv, PTL DEF Spec

(* No case says DECIDED or APPLIED without a decision row (decide,          *)
(* applyDecision), however calls overlap or are cut short.                  *)
THEOREM DecidedHasDecisionHolds == Spec => []DecidedHasDecision
<1>1. RebookingInv => DecidedHasDecision
  BY DEF RebookingInv
<1> QED
  BY <1>1, RebookingInvariant, PTL

(* Whoever says that a case was applied, its status or an event, is right:  *)
(* its booking was rewritten to an option chosen for it (applyDecision).    *)
THEOREM AppliedWroteBookingHolds == Spec => []AppliedWroteBooking
<1>1. RebookingInv => AppliedWroteBooking
  BY DEF RebookingInv
<1> QED
  BY <1>1, RebookingInvariant, PTL

-----------------------------------------------------------------------------
(* The workflow implements its contract.                                    *)

Offered == {co \in Cases \X Options : offeredFor[co[2]] = co[1]}

LEMMA OfferedPairs ==
  \A c, o : <<c, o>> \in Offered <=> c \in Cases /\ o \in Options /\ offeredFor[o] = c
BY DEF Offered

LEMMA InitContract == Init => Contract!Init
BY NoneIsNew DEF Init, Contract!Init

LEMMA ContractStep ==
  RebookingInv /\ [Next]_vars => [Contract!Next]_(Contract!contractVars)
<1> SUFFICES ASSUME RebookingInv, [Next]_vars
             PROVE  Contract!Next \/ UNCHANGED Contract!contractVars
  OBVIOUS
<1>0. /\ TypeOK /\ OfferFacts
      /\ \A q \in Calls : Typed(pc[q], loc[q], kase) /\ FactsNow(pc[q], loc[q])
  BY DEF RebookingInv, TypeInv, CallTyped, CallFacts
<1>1. ASSUME NEW q \in Calls, NEW O \in SUBSET Options, GenSave(q, O)
      PROVE  Contract!Next
  <2> DEFINE c == loc[q].case
  <2>1. c \in Cases
    BY <1>0, <1>1 DEF GenSave, Typed, GenSteps
  <2>2. \A o \in O, d \in Cases : <<d, o>> \notin Offered
    BY <1>1, OfferedPairs, NoneIsNew DEF GenSave
  <2>3. Offered' = Offered \cup ({c} \X O)
    BY <1>1, <2>1, NoneIsNew DEF GenSave, Offered
  <2>4. Contract!Offer(c, O)
    BY <1>1, <2>2, <2>3 DEF GenSave, Contract!Offer, Offered
  <2> QED
    BY <2>1, <2>4 DEF Contract!Next
<1>2. ASSUME NEW q \in Calls, DecSave(q)
      PROVE  Contract!Next \/ UNCHANGED Contract!contractVars
  <2> DEFINE c == loc[q].case  o == loc[q].option
  <2>1. c \in Cases /\ o \in Options /\ offeredFor[o] = c
    BY <1>0, <1>2 DEF DecSave, Typed, DecSteps, FactsNow, Facts
  <2>2. Contract!Decide(c, o) \/ UNCHANGED Contract!contractVars
    BY <1>2, <2>1 DEF DecSave, Contract!Decide, Contract!contractVars
  <2> QED
    BY <2>1, <2>2 DEF Contract!Next
<1>3. ASSUME NEW q \in Calls, AppWrite(q)
      PROVE  Contract!Next
  <2> DEFINE c == loc[q].case  o == loc[q].option
  <2>1. c \in Cases /\ o \in Options /\ <<c, o>> \in decidedSet
    BY <1>0, <1>3 DEF AppWrite, Typed, AppSteps, FactsNow, Facts
  <2>2. Contract!Apply(c, o)
    BY <1>3, <2>1 DEF AppWrite, Contract!Apply
  <2> QED
    BY <2>1, <2>2 DEF Contract!Next
<1>4. CASE UNCHANGED <<offeredFor, decidedSet, appliedSet>>
  BY <1>4 DEF Contract!contractVars
<1> QED
   BY <1>1, <1>2, <1>3, <1>4 DEF Next, vars, history, Edit, EditRead, ItemRead,
     AttachRead, SimRead, SimOpen, GenRead, AppRead, DecRead, SimCancel, SimFind,
     SimItem, GenClear, GenCase, DecOption, DecExisting, DecCase, AppDecision,
     AppOption, AppFind, AppItem, AppCase, EditSave, ItemSave, Publish, Cut

(* Every interleaving of RebookingService's calls keeps RebookingContract:  *)
(* only offered options are decided, only decided options are written.      *)
THEOREM RefinesContractHolds == Spec => RefinesContract
<1>1. RebookingInv /\ [Next]_vars => [Contract!Next]_(Contract!contractVars)
  BY ContractStep
<1> QED
  BY <1>1, InitContract, RebookingInvariant, PTL DEF Spec, RefinesContract,
     Contract!Spec
-----------------------------------------------------------------------------
(* Calls that are not cut short.  Options are cleared before new ones are   *)
(* saved: a case that says they are ready, or is about to, has options or a *)
(* call that will save some.                                                *)

At(step, c) == \E q \in Calls : pc[q] = step /\ loc[q].case = c

Refilled(c) == opts[c] # {} \/ At("gen.save", c)

SaysReady(c) == kase[c].status = "OPTIONS_READY" \/ At("gen.case", c)

ReadyInv == cuts = 0 => \A c \in Cases : SaysReady(c) => Refilled(c)

-----------------------------------------------------------------------------
(* One call at a time.  What a call has read is still so, an item lags      *)
(* behind its booking only while a call is about to write it, and a decided *)
(* option is missing only while the options are being generated again.      *)

OneBusy == \A p \in Calls, q \in Calls : pc[p] # "idle" /\ pc[q] # "idle" => p = q

Held(s, l, bk, it, op, dec) ==
  /\ s \in {"sim.open", "sim.cancel", "edit.save"} => l.seen = bk[l.booking]
  /\ s \in {"sim.find", "sim.item"} => bk[l.booking].status = "CANCELED"
  /\ s \in {"app.find", "app.item"} => bk[l.booking].status = "CONFIRMED"
  /\ s = "item.save" /\ ~l.flag => l.copy = it[l.item]
  /\ s \in {"dec.existing", "dec.save"} => l.option \in op[l.case]
  /\ s = "dec.case" => dec[l.case] \in op[l.case]

Follows(bk, it) ==
  /\ it.booking \in Bookings
  /\ \/ bk[it.booking].status = "CANCELED" /\ it.status = "CANCELED"
     \/ bk[it.booking].status = "CONFIRMED" /\ it.status = "BOOKED"

ItemPending(s, l, i, it) ==
  \/ s \in {"sim.find", "app.find"} /\ it[i].booking = l.booking
  \/ s \in {"sim.item", "app.item"} /\ i \in l.linked

Regenerating(s, l, c) == s \in {"gen.save", "gen.case"} /\ l.case = c

SerialFacts ==
  /\ OneBusy
  /\ \A q \in Calls : Held(pc[q], loc[q], booking, item, opts, decision)
  /\ \A i \in synced :
       Follows(booking, item[i]) \/ \E q \in Calls : ItemPending(pc[q], loc[q], i, item)
  /\ \A c \in Cases : kase[c].status = "DECIDED" =>
       decision[c] \in opts[c] \/ \E q \in Calls : Regenerating(pc[q], loc[q], c)

SerialInv == ~disturbed => SerialFacts
-----------------------------------------------------------------------------
\* A step that neither begins nor ends saving options.
LEMMA ReadyKept ==
  ASSUME TypeInv, NEW q \in Calls, Moves(q), {pc[q], pc'[q]} \cap {"gen.save", "gen.case"} = {},
         opts' = opts, NEW c \in Cases,
         kase'[c].status = "OPTIONS_READY" => kase[c].status = "OPTIONS_READY"
  PROVE  (SaysReady(c)' => SaysReady(c)) /\ (Refilled(c) => Refilled(c)')
<1>1. \A p \in Calls : p # q => pc'[p] = pc[p] /\ loc'[p] = loc[p]
  BY DEF Moves, TypeInv, TypeOK
<1>. QED  BY <1>1 DEF SaysReady, Refilled, At

LEMMA ReadyStep == RebookingInv /\ ReadyInv /\ [Next]_vars => ReadyInv'
<1>. SUFFICES ASSUME RebookingInv, ReadyInv, [Next]_vars, cuts' = 0, NEW c \in Cases, SaysReady(c)'
              PROVE  Refilled(c)'
  BY DEF ReadyInv
<1>. TypeInv /\ TypeOK /\ \A q \in Calls : Typed(pc[q], loc[q], kase)
  BY DEF RebookingInv, TypeInv, CallTyped
<1>1. ASSUME NEW Q \in SUBSET Calls, Cut(Q) PROVE FALSE
  BY <1>1 DEF Cut, TypeOK
<1>2. SaysReady(c) => Refilled(c)
  <2>1. cuts' = cuts
    BY <1>1 DEF Next, vars, history, Edit, EditRead, ItemRead, AttachRead, SimRead, SimOpen,
       GenRead, AppRead, DecRead, SimCancel, SimFind, SimItem, GenClear, GenSave, GenCase,
       DecOption, DecExisting, DecSave, DecCase, AppDecision, AppOption, AppWrite, AppFind,
       AppItem, AppCase, EditSave, ItemSave, Publish
  <2>. QED  BY <2>1 DEF ReadyInv
<1>3. ASSUME NEW q \in Calls, GenClear(q) PROVE Refilled(c)'
  <2>1. Lands(q, "gen.save", loc[q])
    BY <1>3, GoMoves DEF GenClear, Lands
  <2>2. loc[q].case # c => opts'[c] = opts[c]
    BY <1>3 DEF GenClear, TypeOK
  <2>. QED  BY <1>2, <1>3, <2>1, <2>2 DEF GenClear, Lands, Moves, TypeOK, SaysReady, Refilled, At
<1>4. ASSUME NEW q \in Calls, NEW O \in SUBSET Options, GenSave(q, O) PROVE Refilled(c)'
  <2>1. Lands(q, "gen.case", loc[q])
    BY <1>4, GoMoves DEF GenSave, Lands
  <2>2. /\ loc[q].case # c => opts'[c] = opts[c]
        /\ loc[q].case = c => opts'[c] # {}
    BY <1>4 DEF GenSave, TypeOK
  <2>. QED  BY <1>2, <1>4, <2>1, <2>2 DEF GenSave, Lands, Moves, TypeOK, SaysReady, Refilled, At
<1>5. ASSUME NEW q \in Calls, GenCase(q) PROVE Refilled(c)'
  <2>1. Lands(q, "publish", loc[q])
    BY <1>5, GoMoves DEF GenCase, Lands
  <2>2. loc[q].case # c => kase'[c] = kase[c]
    BY <1>5 DEF GenCase, SetCase, TypeOK
  <2>. QED  BY <1>2, <1>5, <2>1, <2>2 DEF GenCase, Lands, Moves, TypeOK, SaysReady, Refilled, At
<1>6. ASSUME NEW q \in Calls, DecCase(q) \/ AppCase(q) PROVE Refilled(c)'
  <2>1. /\ Lands(q, "publish", loc[q]) /\ pc[q] \in {"dec.case", "app.case"}
        /\ opts' = opts
    BY <1>6, GoMoves DEF DecCase, AppCase, Lands
  <2>2. loc[q].case \in Cases /\ Exists(loc[q].case)
    BY <1>6 DEF DecCase, AppCase, Typed, Exists, DecSteps, AppSteps
  <2>3. kase'[c].status = "OPTIONS_READY" => kase[c].status = "OPTIONS_READY"
    BY <1>6, <2>2, SetCaseTyped DEF DecCase, AppCase, CaseStatus
  <2>. QED  BY <1>2, <2>1, <2>3, ReadyKept DEF Lands
<1>7. ASSUME NEW q \in Calls, NEW d \in Cases, SimOpen(q, d) PROVE Refilled(c)'
  <2>1. /\ Moves(q) /\ pc[q] = "sim.open" /\ pc'[q] \in {"sim.cancel", "publish"}
        /\ opts' = opts
        /\ kase'[c].status = "OPTIONS_READY" => kase[c].status = "OPTIONS_READY"
    BY <1>7, GoWithMoves DEF SimOpen, TypeOK
  <2>. QED  BY <1>2, <2>1, ReadyKept
<1>8. ASSUME NEW q \in Calls, NEW step, Go(q, step) \/ \E l : GoWith(q, step, l),
             {pc[q], step} \cap {"gen.save", "gen.case"} = {}, UNCHANGED <<opts, kase>>
      PROVE  Refilled(c)'
  <2>1. Moves(q) /\ pc'[q] = step
    BY <1>8, GoMoves, GoWithMoves
  <2>. QED  BY <1>2, <1>8, <2>1, ReadyKept
<1>9. ASSUME NEW q \in Calls,
              \/ \E b \in Bookings, body \in Bodies : EditRead(q, b, body)
              \/ \E b \in Bookings, cancels \in BOOLEAN : SimRead(q, b, cancels)
              \/ \E i \in Items, status \in ItemBodies : ItemRead(q, i, status)
              \/ \E i \in Items, b \in Bookings : AttachRead(q, i, b)
              \/ \E d \in Cases : GenRead(q, d) \/ AppRead(q, d)
              \/ \E d \in Cases, o \in Options : DecRead(q, d, o)
       PROVE  Refilled(c)'
  <2> DEFINE first == {"edit.save", "item.save", "sim.open", "gen.clear", "app.decision", "dec.option"}
  <2>1. PICK step \in first : (\E l : Begin(q, step, l)) /\ UNCHANGED <<opts, kase>>
    BY <1>9 DEF Edit, EditRead, ItemRead, AttachRead, SimRead, GenRead, AppRead, DecRead
  <2>2. pc[q] = "idle" /\ Moves(q) /\ pc'[q] \in first
    BY <2>1, BeginMoves DEF Begin
  <2>. QED  BY <1>2, <2>1, <2>2, ReadyKept
<1>10. ASSUME NEW q \in Calls,
              \/ SimCancel(q) \/ SimFind(q) \/ \E i \in Items : SimItem(q, i) \/ AppItem(q, i)
              \/ AppWrite(q) \/ AppFind(q) \/ EditSave(q) \/ ItemSave(q)
       PROVE  Refilled(c)'
  <2>1. /\ pc[q] \notin {"gen.save", "gen.case"} /\ UNCHANGED <<opts, kase>>
        /\ \E step \in {"sim.find", "sim.item", "app.find", "app.item", "app.case", "publish"} :
             Go(q, step) \/ \E l : GoWith(q, step, l)
    BY <1>10 DEF SimCancel, SimFind, SimItem, AppWrite, AppFind, AppItem, EditSave, ItemSave,
       Remaining
  <2>. QED  BY <1>8, <2>1
<1>11. ASSUME NEW q \in Calls, DecOption(q) \/ DecExisting(q) \/ DecSave(q) PROVE Refilled(c)'
  BY <1>8, <1>11 DEF DecOption, DecExisting, DecSave, End
<1>12. ASSUME NEW q \in Calls, AppDecision(q) \/ AppOption(q) \/ Publish(q) PROVE Refilled(c)'
  BY <1>8, <1>12 DEF AppDecision, AppOption, Publish, End
<1>13. CASE UNCHANGED vars
  BY <1>2, <1>13 DEF vars, SaysReady, Refilled, At
<1>. QED  BY <1>1, <1>3, <1>4, <1>5, <1>6, <1>7, <1>9, <1>10, <1>11, <1>12, <1>13 DEF Next

(* Without calls cut short, a case that says OPTIONS_READY has options once *)
(* its calls are done: generateOptions saves some after it has cleared      *)
(* them, however regenerations overlap.                                     *)
THEOREM ReadyHasOptionsHolds == Spec => []ReadyHasOptions
<1>1. Init => ReadyInv
  BY DEF Init, ReadyInv, SaysReady, At
<1>2. ReadyInv => ReadyHasOptions
  BY DEF ReadyInv, ReadyHasOptions, Quiescent, SaysReady, Refilled, At
<1>. QED  BY <1>1, <1>2, ReadyStep, RebookingInvariant, PTL DEF Spec

-----------------------------------------------------------------------------
HeldNow(s, l) == Held(s, l, booking, item, opts, decision)
HeldNext(s, l) == Held(s, l, booking', item', opts', decision')

\* The tables agree, but for what a call at step s with locals l has yet to do.
ItemsNow(s, l) == \A i \in synced : Follows(booking, item[i]) \/ ItemPending(s, l, i, item)
ItemsNext(s, l) == \A i \in synced' : Follows(booking', item'[i]) \/ ItemPending(s, l, i, item')

ChoicesNow(s, l) == \A c \in Cases :
  kase[c].status = "DECIDED" => decision[c] \in opts[c] \/ Regenerating(s, l, c)
ChoicesNext(s, l) == \A c \in Cases :
  kase'[c].status = "DECIDED" => decision'[c] \in opts'[c] \/ Regenerating(s, l, c)

Alone(q) == \A p \in Calls \ {q} : pc[p] = "idle"

LEMMA AloneFacts ==
  ASSUME SerialFacts, NEW q \in Calls, Alone(q)
  PROVE  HeldNow(pc[q], loc[q]) /\ ItemsNow(pc[q], loc[q]) /\ ChoicesNow(pc[q], loc[q])
BY DEF SerialFacts, Alone, HeldNow, ItemsNow, ChoicesNow, ItemPending, Regenerating

LEMMA AloneMove ==
  ASSUME TypeInv, NEW q \in Calls, NEW step, NEW l, Lands(q, step, l), Alone(q),
         HeldNext(step, l), ItemsNext(step, l), ChoicesNext(step, l)
  PROVE  SerialFacts'
<1>1. \A p \in Calls : p # q => pc'[p] = "idle"
  BY DEF Lands, Moves, TypeInv, TypeOK, Alone
<1>2. pc'[q] = step /\ loc'[q] = l
  BY DEF Lands
<1>3. OneBusy'
  BY <1>1 DEF OneBusy
<1>4. ASSUME NEW p \in Calls PROVE Held(pc'[p], loc'[p], booking', item', opts', decision')
  BY <1>1, <1>2 DEF HeldNext, Held
<1>. QED  BY <1>2, <1>3, <1>4 DEF SerialFacts, ItemsNext, ChoicesNext

\* A step that reads only.
LEMMA QuietMove ==
  ASSUME TypeInv, SerialFacts, NEW q \in Calls, NEW step, NEW l, Lands(q, step, l), Alone(q),
         UNCHANGED <<booking, item, kase, opts, decision, synced>>,
         pc[q] \notin {"sim.find", "sim.item", "app.find", "app.item", "gen.save", "gen.case"},
         HeldNow(step, l)
  PROVE  SerialFacts'
<1>1. HeldNext(step, l)
  BY DEF HeldNow, HeldNext
<1>2. ItemsNext(step, l) /\ ChoicesNext(step, l)
  BY AloneFacts DEF ItemsNow, ItemsNext, ItemPending, ChoicesNow, ChoicesNext, Regenerating
<1>. QED  BY <1>1, <1>2, AloneMove

\* Steps at which nothing is held that another call could make untrue.
LEMMA NothingHeld ==
  ASSUME NEW step \in {"idle", "gen.clear", "gen.save", "gen.case", "dec.option", "app.decision",
                       "app.option", "app.write", "app.case", "publish"}, NEW l
  PROVE  HeldNow(step, l) /\ HeldNext(step, l)
BY DEF HeldNow, HeldNext, Held

LEMMA DisturbedStays == [Next]_vars => (disturbed => disturbed')
<1>. SUFFICES ASSUME [Next]_vars PROVE disturbed => disturbed'
  OBVIOUS
<1>1. ASSUME NEW q \in Calls, NEW step, NEW l,
             Begin(q, step, l) \/ Go(q, step) \/ GoWith(q, step, l) \/ End(q)
      PROVE  disturbed => disturbed'
  BY <1>1 DEF Begin, Go, GoWith, End
<1>2. ASSUME NEW q \in Calls,
             \/ \E b \in Bookings, body \in Bodies : EditRead(q, b, body)
             \/ \E b \in Bookings, cancels \in BOOLEAN : SimRead(q, b, cancels)
             \/ \E i \in Items, status \in ItemBodies : ItemRead(q, i, status)
             \/ \E i \in Items, b \in Bookings : AttachRead(q, i, b)
             \/ \E c \in Cases : GenRead(q, c) \/ AppRead(q, c)
             \/ \E c \in Cases, o \in Options : DecRead(q, c, o)
      PROVE  disturbed => disturbed'
  BY <1>1, <1>2 DEF Edit, EditRead, ItemRead, AttachRead, SimRead, GenRead, AppRead, DecRead
<1>3. ASSUME NEW q \in Calls,
             \/ \E c \in Cases : SimOpen(q, c)
             \/ SimCancel(q) \/ SimFind(q) \/ \E i \in Items : SimItem(q, i) \/ AppItem(q, i)
             \/ GenClear(q) \/ \E O \in SUBSET Options : GenSave(q, O)
             \/ GenCase(q) \/ DecOption(q) \/ DecExisting(q) \/ DecSave(q) \/ DecCase(q)
      PROVE  disturbed => disturbed'
  BY <1>1, <1>3 DEF SimOpen, SimCancel, SimFind, SimItem, AppItem, GenClear, GenSave, GenCase,
     DecOption, DecExisting, DecSave, DecCase, Remaining
<1>4. ASSUME NEW q \in Calls,
             \/ AppDecision(q) \/ AppOption(q) \/ AppWrite(q) \/ AppFind(q) \/ AppCase(q)
             \/ EditSave(q) \/ ItemSave(q) \/ Publish(q)
      PROVE  disturbed => disturbed'
  BY <1>1, <1>4 DEF AppDecision, AppOption, AppWrite, AppFind, AppCase, EditSave, ItemSave,
     Publish, Remaining
<1>. QED  BY <1>2, <1>3, <1>4 DEF Next, vars, Cut

LEMMA SerialStep == TypeInv /\ SerialInv /\ [Next]_vars => SerialInv'
<1>. SUFFICES ASSUME TypeInv, SerialInv, [Next]_vars, ~disturbed' PROVE SerialFacts'
  BY DEF SerialInv
<1>. TypeOK /\ \A q \in Calls : loc[q] \in Locals /\ Typed(pc[q], loc[q], kase)
  BY DEF TypeInv, TypeOK, CallTyped
<1>0. ASSUME NEW Q \in SUBSET Calls, Cut(Q) PROVE FALSE
  BY <1>0 DEF Cut
<1>. SerialFacts
  <2>1. disturbed => disturbed'
    BY DisturbedStays
  <2>. QED  BY <2>1 DEF SerialInv
<1>a. ASSUME NEW q \in Calls, pc[q] # "idle"
      PROVE  /\ Alone(q)
             /\ HeldNow(pc[q], loc[q]) /\ ItemsNow(pc[q], loc[q]) /\ ChoicesNow(pc[q], loc[q])
  BY <1>a, AloneFacts DEF SerialFacts, OneBusy, Alone
<1>b. ASSUME NEW q \in Calls, NEW step, NEW l, Begin(q, step, l)
      PROVE  pc[q] = "idle" /\ Lands(q, step, l) /\ Alone(q)
  BY <1>b, BeginMoves DEF Begin, Lands, Alone
<1>1. ASSUME NEW q \in Calls, NEW b \in Bookings, NEW body \in Bodies, EditRead(q, b, body)
      PROVE  SerialFacts'
  <2>. DEFINE l == [NoLocals EXCEPT !.booking = b, !.seen = booking[b], !.body = body]
  <2>1. Begin(q, "edit.save", l) /\ UNCHANGED <<booking, item, kase, opts, decision, synced>>
    BY <1>1 DEF EditRead, Edit
  <2>2. HeldNow("edit.save", l)
    BY DEF HeldNow, Held, NoLocals
  <2>. HIDE DEF l
  <2>. QED  BY <1>b, <2>1, <2>2, QuietMove
<1>2. ASSUME NEW q \in Calls, NEW b \in Bookings, NEW f \in BOOLEAN, SimRead(q, b, f)
      PROVE  SerialFacts'
  <2>. DEFINE l == [NoLocals EXCEPT !.booking = b, !.flag = f, !.seen = booking[b]]
  <2>1. Begin(q, "sim.open", l) /\ UNCHANGED <<booking, item, kase, opts, decision, synced>>
    BY <1>2 DEF SimRead, history
  <2>2. HeldNow("sim.open", l)
    BY DEF HeldNow, Held, NoLocals
  <2>. HIDE DEF l
  <2>. QED  BY <1>b, <2>1, <2>2, QuietMove
<1>3. ASSUME NEW q \in Calls, NEW step \in {"gen.clear", "app.decision", "dec.option"}, NEW l,
             Begin(q, step, l), UNCHANGED <<booking, item, kase, opts, decision, synced>>
      PROVE  SerialFacts'
  BY <1>3, <1>b, NothingHeld, QuietMove
<1>4. ASSUME NEW q \in Calls, NEW c \in Cases, GenRead(q, c) \/ AppRead(q, c) \/ \E o \in Options : DecRead(q, c, o)
      PROVE  SerialFacts'
  <2>1. CASE GenRead(q, c)
    BY <1>3, <2>1 DEF GenRead, history
  <2>2. CASE AppRead(q, c)
    BY <1>3, <2>2 DEF AppRead, history
  <2>3. CASE \E o \in Options : DecRead(q, c, o)
    BY <1>3, <2>3 DEF DecRead, history
  <2>. QED  BY <1>4, <2>1, <2>2, <2>3
<1>5. ASSUME NEW q \in Calls, NEW c \in Cases, SimOpen(q, c) PROVE SerialFacts'
  <2>. DEFINE step == IF loc[q].flag THEN "sim.cancel" ELSE "publish"
              l == [loc[q] EXCEPT !.case = c]
  <2>1. Lands(q, step, l) /\ pc[q] = "sim.open"
    BY <1>5, GoWithMoves DEF SimOpen, Lands
  <2>2. l.booking = loc[q].booking /\ l.seen = loc[q].seen
    BY DEF Locals
  <2>3. HeldNext(step, l)
    BY <1>5, <1>a, <2>1, <2>2 DEF SimOpen, HeldNow, HeldNext, Held
  <2>4. ItemsNext(step, l) /\ ChoicesNext(step, l)
    BY <1>5, <1>a, <2>1, <2>2 DEF SimOpen, history, ItemsNow, ItemsNext, ItemPending, ChoicesNow, ChoicesNext,
       Regenerating, TypeOK
  <2>. HIDE DEF step, l
  <2>. QED  BY <1>a, <2>1, <2>3, <2>4, AloneMove
<1>6. ASSUME NEW q \in Calls, SimCancel(q) PROVE SerialFacts'
  <2>. DEFINE l == [loc[q] EXCEPT !.seen = NewBooking]
  <2>1. Lands(q, "sim.find", l) /\ pc[q] = "sim.cancel" /\ l.booking = loc[q].booking
    BY <1>6, GoWithMoves DEF SimCancel, Lands, Locals
  <2>2. loc[q].booking \in Bookings /\ loc[q].seen \in Booking
    BY <2>1 DEF Typed, BookingSteps, Locals
  <2>3. booking'[loc[q].booking].status = "CANCELED"
    BY <1>6, <2>2 DEF SimCancel, Booking, TypeOK
  <2>4. \A b \in Bookings : b # loc[q].booking => booking'[b] = booking[b]
    BY <1>6 DEF SimCancel, TypeOK
  <2>. HIDE DEF l
  <2>5. HeldNext("sim.find", l)
    BY <2>1, <2>3 DEF HeldNext, Held
  <2>6. ItemsNext("sim.find", l)
    BY <1>6, <1>a, <2>1, <2>4 DEF SimCancel, ItemsNow, ItemsNext, ItemPending, Follows, Linked
  <2>7. ChoicesNext("sim.find", l)
    BY <1>6, <1>a, <2>1 DEF SimCancel, ChoicesNow, ChoicesNext, Regenerating
  <2>. QED  BY <1>a, <2>1, <2>5, <2>6, <2>7, AloneMove
<1>7. ASSUME NEW q \in Calls, NEW L \in SUBSET Items, NEW loop, NEW after,
             <<loop, after>> \in {<<"sim.item", "publish">>, <<"app.item", "app.case">>},
             pc[q] \in {"sim.find", "sim.item", "app.find", "app.item"},
             loop = "sim.item" <=> pc[q] \in {"sim.find", "sim.item"},
             Remaining(q, L, loop, after), UNCHANGED <<booking, kase, opts, decision, synced>>,
             \A i \in synced : \/ i \in L
                               \/ item'[i] = item[i] /\ ~ItemPending(pc[q], loc[q], i, item)
                               \/ Follows(booking, item'[i])
      PROVE  SerialFacts'
  <2>. DEFINE l == [loc[q] EXCEPT !.linked = L]
              step == IF L = {} THEN after ELSE loop
  <2>1. Lands(q, step, l)
    BY <1>7, RemainingMoves
  <2>2. l.booking = loc[q].booking /\ l.linked = L
    BY DEF Locals
  <2>. HIDE DEF l
  <2>3. HeldNext(step, l)
    BY <1>7, <1>a, <2>2 DEF HeldNow, HeldNext, Held
  <2>4. ItemsNext(step, l)
    BY <1>7, <1>a, <2>2 DEF ItemsNow, ItemsNext, ItemPending
  <2>5. ChoicesNext(step, l)
    BY <1>7, <1>a DEF ChoicesNow, ChoicesNext, Regenerating
  <2>. QED  BY <1>7, <1>a, <2>1, <2>3, <2>4, <2>5, AloneMove
<1>18. ASSUME NEW q \in Calls, SimFind(q) \/ AppFind(q) PROVE SerialFacts'
  <2>. DEFINE L == Linked(loc[q].booking)
  <2>1. /\ pc[q] \in {"sim.find", "app.find"} /\ L \in SUBSET Items
        /\ UNCHANGED <<booking, item, kase, opts, decision, synced>>
        /\ \A i \in synced : i \in L \/ ~ItemPending(pc[q], loc[q], i, item)
    BY <1>18 DEF SimFind, AppFind, Linked, ItemPending, history, TypeOK
  <2>2. \/ pc[q] = "sim.find" /\ Remaining(q, L, "sim.item", "publish")
        \/ pc[q] = "app.find" /\ Remaining(q, L, "app.item", "app.case")
    BY <1>18 DEF SimFind, AppFind
  <2>. HIDE DEF L
  <2>. QED  BY <1>7, <2>1, <2>2
<1>19. ASSUME NEW q \in Calls, NEW i \in Items, SimItem(q, i) \/ AppItem(q, i)
      PROVE  SerialFacts'
  <2>. DEFINE L == loc[q].linked \ {i}
  <2>1. /\ pc[q] \in {"sim.item", "app.item"} /\ L \in SUBSET Items
        /\ loc[q].booking \in Bookings
        /\ UNCHANGED <<booking, kase, opts, decision, synced>>
    BY <1>19 DEF SimItem, AppItem, history, Locals, Typed, BookingSteps, AppSteps
  <2>2. Follows(booking, item'[i])
    BY <1>19, <1>a, <2>1 DEF SimItem, AppItem, Follows, HeldNow, Held, TypeOK
  <2>3. \A j \in synced : j # i =>
          j \in L \/ (item'[j] = item[j] /\ ~ItemPending(pc[q], loc[q], j, item))
    <3>1. \A j \in Items : j # i => item'[j] = item[j]
      BY <1>19 DEF SimItem, AppItem, TypeOK
    <3>2. \A j : j # i /\ ItemPending(pc[q], loc[q], j, item) => j \in L
      BY <2>1 DEF ItemPending
    <3>3. \A j \in synced : j \in Items
      BY DEF TypeOK
    <3>. HIDE DEF L
    <3>. QED  BY <3>1, <3>2, <3>3
  <2>4. \/ pc[q] = "sim.item" /\ Remaining(q, L, "sim.item", "publish")
        \/ pc[q] = "app.item" /\ Remaining(q, L, "app.item", "app.case")
    BY <1>19 DEF SimItem, AppItem
  <2>. HIDE DEF L
  <2>. QED  BY <1>7, <2>1, <2>2, <2>3, <2>4
<1>8. ASSUME NEW q \in Calls, GenClear(q) PROVE SerialFacts'
  <2>1. Lands(q, "gen.save", loc[q]) /\ pc[q] = "gen.clear"
    BY <1>8, GoMoves DEF GenClear, Lands
  <2>2. ItemsNext("gen.save", loc[q])
    BY <1>8, <1>a, <2>1 DEF GenClear, history, ItemsNow, ItemsNext, ItemPending
  <2>3. ChoicesNext("gen.save", loc[q])
    BY <1>8, <1>a, <2>1 DEF GenClear, ChoicesNow, ChoicesNext, Regenerating, TypeOK
  <2>. QED  BY <1>a, <2>1, <2>2, <2>3, NothingHeld, AloneMove
<1>9. ASSUME NEW q \in Calls, NEW O \in SUBSET Options, GenSave(q, O) PROVE SerialFacts'
  <2>1. Lands(q, "gen.case", loc[q]) /\ pc[q] = "gen.save"
    BY <1>9, GoMoves DEF GenSave, Lands
  <2>2. ItemsNext("gen.case", loc[q])
    BY <1>9, <1>a, <2>1 DEF GenSave, ItemsNow, ItemsNext, ItemPending
  <2>3. ChoicesNext("gen.case", loc[q])
    BY <1>9, <1>a, <2>1 DEF GenSave, ChoicesNow, ChoicesNext, Regenerating, TypeOK
  <2>. QED  BY <1>a, <2>1, <2>2, <2>3, NothingHeld, AloneMove
<1>10. ASSUME NEW q \in Calls, GenCase(q) \/ DecCase(q) \/ AppCase(q) PROVE SerialFacts'
  <2>. DEFINE c == loc[q].case
  <2>1. /\ Lands(q, "publish", loc[q])
        /\ pc[q] \in {"gen.case", "dec.case", "app.case"}
        /\ UNCHANGED <<booking, item, opts, decision, synced>>
    BY <1>10, GoMoves DEF GenCase, DecCase, AppCase, history, Lands
  <2>2. c \in Cases /\ Exists(c)
    BY <2>1 DEF Typed, Exists, GenSteps, DecSteps, AppSteps
  <2>3. kase'[c].status = "DECIDED" => pc[q] = "dec.case"
    BY <1>10, <2>2 DEF GenCase, DecCase, AppCase, SetCase, TypeOK, Case
  <2>4. \A d \in Cases : d # c => kase'[d] = kase[d]
    BY <1>10, <2>2 DEF GenCase, DecCase, AppCase, SetCase, TypeOK
  <2>5. ItemsNext("publish", loc[q])
    BY <1>a, <2>1 DEF ItemsNow, ItemsNext, ItemPending
  <2>6. ChoicesNext("publish", loc[q])
    BY <1>a, <2>1, <2>3, <2>4 DEF HeldNow, Held, ChoicesNow, ChoicesNext, Regenerating
  <2>. QED  BY <1>a, <2>1, <2>5, <2>6, NothingHeld, AloneMove
<1>11. ASSUME NEW q \in Calls, DecOption(q) PROVE SerialFacts'
  <2>1. /\ pc[q] = "dec.option" /\ UNCHANGED <<booking, item, kase, opts, decision, synced>>
        /\ \/ Lands(q, "dec.existing", loc[q]) /\ loc[q].option \in opts[loc[q].case]
           \/ Lands(q, "idle", NoLocals)
    BY <1>11, GoMoves, EndMoves DEF DecOption, history, Lands
  <2>2. loc[q].option \in opts[loc[q].case] => HeldNow("dec.existing", loc[q])
    BY DEF HeldNow, Held
  <2>. QED  BY <1>a, <2>1, <2>2, NothingHeld, QuietMove
<1>12. ASSUME NEW q \in Calls, DecExisting(q) PROVE SerialFacts'
  <2>. DEFINE l == [loc[q] EXCEPT !.flag = decision[loc[q].case] # None]
  <2>1. /\ pc[q] = "dec.existing" /\ UNCHANGED <<booking, item, kase, opts, decision, synced>>
        /\ Lands(q, "dec.save", l)
    BY <1>12, GoWithMoves DEF DecExisting, history, Lands
  <2>2. l.option = loc[q].option /\ l.case = loc[q].case
    BY DEF Locals
  <2>3. HeldNow("dec.save", l)
    BY <1>a, <2>1, <2>2 DEF HeldNow, Held
  <2>. HIDE DEF l
  <2>. QED  BY <1>a, <2>1, <2>3, QuietMove
<1>13. ASSUME NEW q \in Calls, DecSave(q) PROVE SerialFacts'
  <2>1. pc[q] = "dec.save" /\ UNCHANGED <<booking, item, kase, opts, synced>>
    BY <1>13 DEF DecSave
  <2>2. CASE UNCHANGED decision /\ End(q)
    BY <1>a, <2>1, <2>2, EndMoves, NothingHeld, QuietMove DEF Lands
  <2>3. CASE decision' = [decision EXCEPT ![loc[q].case] = loc[q].option] /\ Go(q, "dec.case")
    <3>1. Lands(q, "dec.case", loc[q])
      BY <2>3, GoMoves DEF Lands
    <3>2. loc[q].case \in Cases /\ loc[q].option \in opts[loc[q].case]
      BY <1>a, <2>1 DEF Typed, DecSteps, HeldNow, Held
    <3>3. HeldNext("dec.case", loc[q])
      BY <2>1, <2>3, <3>2 DEF HeldNext, Held, TypeOK
    <3>4. ItemsNext("dec.case", loc[q])
      BY <1>a, <2>1 DEF ItemsNow, ItemsNext, ItemPending
    <3>5. ChoicesNext("dec.case", loc[q])
      BY <1>a, <2>1, <2>3, <3>2 DEF ChoicesNow, ChoicesNext, Regenerating, TypeOK
    <3>. QED  BY <1>a, <2>1, <3>1, <3>3, <3>4, <3>5, AloneMove
  <2>. QED  BY <1>13, <2>2, <2>3 DEF DecSave
<1>14. ASSUME NEW q \in Calls, AppDecision(q) \/ AppOption(q) \/ Publish(q) PROVE SerialFacts'
  <2>1. /\ pc[q] \in {"app.decision", "app.option", "publish"}
        /\ UNCHANGED <<booking, item, kase, opts, decision, synced>>
    BY <1>14 DEF AppDecision, AppOption, Publish, history
  <2>2. PICK step, l : /\ step \in {"idle", "app.option", "app.write"}
                       /\ Lands(q, step, l)
    BY <1>14, GoMoves, GoWithMoves, EndMoves DEF AppDecision, AppOption, Publish, Lands
  <2>. QED  BY <1>a, <2>1, <2>2, NothingHeld, QuietMove
<1>15. ASSUME NEW q \in Calls, AppWrite(q) PROVE SerialFacts'
  <2>1. Lands(q, "app.find", loc[q]) /\ pc[q] = "app.write"
    BY <1>15, GoMoves DEF AppWrite, Lands
  <2>2. loc[q].booking \in Bookings
    BY <2>1 DEF Typed, AppSteps
  <2>3. HeldNext("app.find", loc[q])
    BY <1>15, <2>2 DEF AppWrite, HeldNext, Held, TypeOK
  <2>4. \A b \in Bookings : b # loc[q].booking => booking'[b] = booking[b]
    BY <1>15 DEF AppWrite, TypeOK
  <2>5. ItemsNext("app.find", loc[q])
    BY <1>15, <1>a, <2>1, <2>4 DEF AppWrite, ItemsNow, ItemsNext, ItemPending, Follows, Linked
  <2>6. ChoicesNext("app.find", loc[q])
    BY <1>15, <1>a, <2>1 DEF AppWrite, ChoicesNow, ChoicesNext, Regenerating
  <2>. QED  BY <1>a, <2>1, <2>3, <2>5, <2>6, AloneMove
<1>16. ASSUME NEW q \in Calls, EditSave(q) PROVE SerialFacts'
  <2>. DEFINE b == loc[q].booking
  <2>1. /\ Lands(q, "publish", NoLocals) /\ pc[q] = "edit.save"
        /\ UNCHANGED <<item, kase, opts, decision>>
    BY <1>16, GoWithMoves DEF EditSave, Lands
  <2>2. b \in Bookings /\ loc[q].seen = booking[b]
    BY <1>a, <2>1 DEF Typed, BookingSteps, HeldNow, Held
  <2>3. \A d \in Bookings : d # b => booking'[d] = booking[d]
    BY <1>16 DEF EditSave, TypeOK
  <2>4. loc[q].body.status = Absent => booking'[b].status = booking[b].status
    BY <1>16, <2>2 DEF EditSave, Edited, Column, TypeOK
  <2>5. \A i \in synced' :
          /\ i \in synced
          /\ item[i].booking = b => loc[q].body.status = Absent
    BY <1>16 DEF EditSave, Linked, TypeOK
  <2>. HIDE DEF b
  <2>6. ItemsNext("publish", NoLocals)
    BY <1>a, <2>1, <2>3, <2>4, <2>5 DEF ItemsNow, ItemsNext, ItemPending, Follows
  <2>7. ChoicesNext("publish", NoLocals)
    BY <1>a, <2>1 DEF ChoicesNow, ChoicesNext, Regenerating
  <2>. QED  BY <1>a, <2>1, <2>6, <2>7, NothingHeld, AloneMove
<1>20. ASSUME NEW q \in Calls, NEW i \in Items,
              \/ \E status \in ItemBodies : ItemRead(q, i, status)
              \/ \E b \in Bookings : AttachRead(q, i, b)
       PROVE  SerialFacts'
  <2>1. PICK f, copy : /\ Edit(q, "item.save", [NoLocals EXCEPT !.item = i, !.flag = f, !.copy = copy])
                       /\ ~f => copy = item[i]
    <3>1. CASE \E b \in Bookings : AttachRead(q, i, b)
      BY <3>1 DEF AttachRead
    <3>2. ASSUME NEW status \in ItemBodies, ItemRead(q, i, status)
          PROVE  \E f, copy : /\ Edit(q, "item.save", [NoLocals EXCEPT !.item = i, !.flag = f, !.copy = copy])
                              /\ ~f => copy = item[i]
      <4>. DEFINE copy == [item[i] EXCEPT !.status = Column(status, @, @)]
      <4>1. item[i] \in Item
        BY DEF TypeOK
      <4>2. status = Absent => Column(status, item[i].status, item[i].status) = item[i].status
        BY DEF Column
      <4>3. ~(status # Absent) => copy = item[i]
        BY <4>1, <4>2 DEF Item
      <4>. HIDE DEF copy
      <4>4. Edit(q, "item.save", [NoLocals EXCEPT !.item = i, !.flag = (status # Absent), !.copy = copy])
        BY <3>2 DEF ItemRead, copy
      <4>. QED  BY <4>3, <4>4
    <3>. QED  BY <1>20, <3>1, <3>2
  <2>. DEFINE l == [NoLocals EXCEPT !.item = i, !.flag = f, !.copy = copy]
  <2>2. Begin(q, "item.save", l) /\ UNCHANGED <<booking, item, kase, opts, decision, synced>>
    BY <2>1 DEF Edit
  <2>3. HeldNow("item.save", l)
    BY <2>1 DEF HeldNow, Held, NoLocals
  <2>. HIDE DEF l
  <2>. QED  BY <1>b, <2>2, <2>3, QuietMove
<1>21. ASSUME NEW q \in Calls, ItemSave(q) PROVE SerialFacts'
  <2>1. /\ Lands(q, "publish", NoLocals) /\ pc[q] = "item.save"
        /\ UNCHANGED <<booking, kase, opts, decision>>
    BY <1>21, GoWithMoves DEF ItemSave, Lands
  <2>2. \A i \in synced' : i \in synced /\ item'[i] = item[i]
    BY <1>21, <1>a, <2>1 DEF ItemSave, HeldNow, Held, Typed, TypeOK
  <2>3. ItemsNext("publish", NoLocals)
    BY <1>a, <2>1, <2>2 DEF ItemsNow, ItemsNext, ItemPending
  <2>4. ChoicesNext("publish", NoLocals)
    BY <1>a, <2>1 DEF ChoicesNow, ChoicesNext, Regenerating
  <2>. QED  BY <1>a, <2>1, <2>3, <2>4, NothingHeld, AloneMove
<1>17. CASE UNCHANGED vars
  BY <1>17 DEF vars, history, SerialFacts, OneBusy
<1>. QED  BY <1>0, <1>1, <1>2, <1>4, <1>5, <1>6, <1>7, <1>8, <1>9, <1>10, <1>11, <1>12, <1>13,
             <1>14, <1>15, <1>16, <1>17, <1>18, <1>19, <1>20, <1>21 DEF Next

LEMMA SerialInvariant == Spec => []SerialInv
<1>1. Init => SerialInv
  BY DEF Init, SerialInv, SerialFacts, OneBusy, Held
<1>2. RebookingInv => TypeInv
  BY DEF RebookingInv
<1>. QED  BY <1>1, <1>2, SerialStep, RebookingInvariant, PTL DEF Spec

(* With one call at a time, the option chosen for a DECIDED case is still   *)
(* there to be applied: decide checks it, and generateOptions, which alone  *)
(* removes options, does not leave the case DECIDED.                        *)
THEOREM DecidedIsApplicableHolds == Spec => []DecidedIsApplicable
<1>1. SerialInv => DecidedIsApplicable
  BY DEF SerialInv, SerialFacts, DecidedIsApplicable, Quiescent, Regenerating
<1>. QED  BY <1>1, SerialInvariant, PTL

(* With one call at a time, an item that was linked to a booking when this  *)
(* was canceled (simulateDisruption) or rebooked (applyDecision) follows    *)
(* it, through whatever clients write since, until they write a status of   *)
(* one of the two or link the item anew (updateBooking, updateItem,         *)
(* attachBookingToItineraryItem).                                           *)
THEOREM ItemFollowsBookingHolds == Spec => []ItemFollowsBooking
<1>1. SerialInv => ItemFollowsBooking
  BY DEF SerialInv, SerialFacts, ItemFollowsBooking, Quiescent, ItemPending, Follows
<1>. QED  BY <1>1, SerialInvariant, PTL

-----------------------------------------------------------------------------
(* With one call at a time, the record of a booking, unless a client        *)
(* entered it, names the case that wrote all of its option times.           *)

Paired(b, bk, W, C) ==
  bk.from # None /\ <<b, bk.from>> \notin C
    => \A o \in {bk.startsAt, bk.endsAt} \cap Options : <<b, bk.from, o>> \in W

PairedRows == \A b \in Bookings : Paired(b, booking[b], Written, claimed)

PairedInv == ~disturbed => PairedRows

\* A row whose options and record are those of a paired row, or a client's.
LEMMA PairedColumns ==
  ASSUME NEW b, NEW W, NEW C, NEW r, NEW t, Paired(b, r, W, C),
         t.startsAt \in Options => t.startsAt = r.startsAt,
         t.endsAt \in Options => t.endsAt = r.endsAt,
         t.from # None => t.from = r.from \/ <<b, t.from>> \in C
  PROVE  Paired(b, t, W, C)
BY DEF Paired

LEMMA PairedStep == RebookingInv /\ SerialInv /\ PairedInv /\ [Next]_vars => PairedInv'
<1>. SUFFICES ASSUME RebookingInv, SerialInv, PairedInv, [Next]_vars, ~disturbed',
                     NEW b \in Bookings
              PROVE  Paired(b, booking'[b], Written', claimed')
  BY DEF PairedInv, PairedRows
<1>1. HistoryGrows /\ SerialFacts /\ PairedRows
  BY Monotone, DisturbedStays DEF RebookingInv, SerialInv, PairedInv
<1>2. /\ TypeOK /\ OfferFacts
      /\ \A q \in Calls : /\ loc[q] \in Locals /\ Typed(pc[q], loc[q], kase)
                          /\ FactsNow(pc[q], loc[q])
  BY DEF RebookingInv, TypeInv, TypeOK, CallTyped, CallFacts
<1>3. Paired(b, booking[b], Written', claimed')
  BY <1>1, <1>2, WrittenGrows DEF PairedRows, Paired, HistoryGrows
<1>4. \A q \in Calls : pc[q] \in {"sim.cancel", "edit.save"} => loc[q].seen = booking[loc[q].booking]
  BY <1>1 DEF SerialFacts, Held
<1>5. ASSUME NEW q \in Calls, SimCancel(q), b = loc[q].booking
      PROVE  Paired(b, booking'[b], Written', claimed')
  <2>1. booking[b] \in Booking /\ booking'[b] = [booking[b] EXCEPT !.status = "CANCELED"]
    BY <1>2, <1>4, <1>5 DEF SimCancel, TypeOK
  <2>2. /\ booking'[b].startsAt = booking[b].startsAt /\ booking'[b].endsAt = booking[b].endsAt
        /\ booking'[b].from = booking[b].from
    BY <2>1 DEF Booking
  <2>. QED  BY <1>3, <2>2, PairedColumns
<1>6. ASSUME NEW q \in Calls, EditSave(q), b = loc[q].booking
      PROVE  Paired(b, booking'[b], Written', claimed')
  <2>. DEFINE new == Edited(loc[q].body, booking[b], booking[b])
  <2>1. /\ loc[q].body \in Body /\ booking[b] \in Booking
        /\ booking'[b] = new
    BY <1>2, <1>4, <1>6 DEF EditSave, Locals, TypeOK
  <2>2. /\ new.startsAt \in {booking[b].startsAt, Entered}
        /\ new.endsAt \in {booking[b].endsAt, Entered}
        /\ \/ new.from \in {booking[b].from, None}
           \/ new.from \in Cases /\ new.from = loc[q].body.details
    BY <2>1, EditedColumns
  <2>3. new.from \in Cases /\ new.from = loc[q].body.details => <<b, new.from>> \in claimed'
    BY <1>6 DEF EditSave, Claim
  <2>. HIDE DEF new
  <2>. QED  BY <1>3, <2>1, <2>2, <2>3, PairedColumns, EnteredIsNew
<1>7. ASSUME NEW q \in Calls, AppWrite(q), b = loc[q].booking
      PROVE  Paired(b, booking'[b], Written', claimed')
  <2>1. PICK c \in Cases, o \in Options :
             c = loc[q].case /\ o = loc[q].option /\ kase[c].booking = b /\ <<c, o>> \in decidedSet
    BY <1>2, <1>7 DEF AppWrite, Typed, AppSteps, FactsNow, Facts
  <2>2. WroteTo(b, c, o)'
    BY <1>2, <1>7, <2>1 DEF AppWrite, OfferFacts, WroteTo
  <2>3. <<b, c, o>> \in Written'
    BY <2>2 DEF Written
  <2>4. booking'[b].startsAt = o /\ booking'[b].endsAt = o /\ booking'[b].from = c
    BY <1>2, <1>7, <2>1 DEF AppWrite, TypeOK
  <2>. QED  BY <2>3, <2>4 DEF Paired
<1>8. CASE booking'[b] = booking[b]
  BY <1>3, <1>8
<1>9. ASSUME NEW q \in Calls, SimCancel(q) \/ EditSave(q) \/ AppWrite(q)
      PROVE  b = loc[q].booking \/ booking'[b] = booking[b]
  BY <1>2, <1>9 DEF SimCancel, EditSave, AppWrite, TypeOK
<1>. QED
  BY <1>5, <1>6, <1>7, <1>8, <1>9 DEF Next, vars, Edit, EditRead, ItemRead, AttachRead,
     SimRead, SimOpen, GenRead, AppRead, DecRead, SimFind, SimItem, GenClear, GenSave,
     GenCase, DecOption, DecExisting, DecSave, DecCase, AppDecision, AppOption, AppFind,
     AppItem, AppCase, Publish, ItemSave, Cut

LEMMA PairedInit == Init => PairedInv
<1>. SUFFICES ASSUME Init, NEW b \in Bookings PROVE Paired(b, booking[b], Written, claimed)
  BY DEF PairedInv, PairedRows
<1>1. PICK body \in [Bookings -> NewBodies] :
        booking = [d \in Bookings |-> Edited(body[d], NewBooking, NewBooking)]
  BY DEF Init
<1>2. body[b] \in Body /\ NewBooking \in Booking /\ booking[b] = Edited(body[b], NewBooking, NewBooking)
  BY <1>1, BookingTypes, RebookingAssumption DEF RebookingAssumption
<1>3. booking[b].startsAt \in {NewBooking.startsAt, Entered} /\ booking[b].endsAt \in {NewBooking.endsAt, Entered}
  BY <1>2, EditedColumns
<1>4. booking[b].startsAt \notin Options /\ booking[b].endsAt \notin Options
  BY <1>3, NoneIsNew, EnteredIsNew DEF NewBooking
<1>. QED  BY <1>4 DEF Paired

(* What a booking says of its rebooking is true, whatever clients send: its *)
(* record and each of its times are a client's or were written by a case of *)
(* this booking (applyDecision), stale copies written back included         *)
(* (simulateDisruption, updateBooking); and with one call at a time they    *)
(* are of the same case.                                                    *)
THEOREM BookingFromDecisionHolds == Spec => []BookingFromDecision
<1>1. Spec => []PairedInv
  BY PairedInit, PairedStep, SerialInvariant, RebookingInvariant, PTL DEF Spec
<1>2. RebookingInv /\ PairedInv => BookingFromDecision
  <2>. SUFFICES ASSUME RebookingInv, PairedInv, NEW b \in Bookings
                PROVE  LET from == booking[b].from
                           chosen == {booking[b].startsAt, booking[b].endsAt} \cap Options
                           recorded == from # None /\ <<b, from>> \notin claimed
                       IN /\ recorded => \E o \in Options : WroteTo(b, from, o)
                          /\ \A o \in chosen : \E c \in Cases : WroteTo(b, c, o)
                          /\ recorded /\ ~disturbed => \A o \in chosen : WroteTo(b, from, o)
    BY DEF BookingFromDecision
  <2>. DEFINE from == booking[b].from
              chosen == {booking[b].startsAt, booking[b].endsAt} \cap Options
              recorded == from # None /\ <<b, from>> \notin claimed
  <2>1. RowTrue(b, booking[b], Written, claimed) /\ (~disturbed => Paired(b, booking[b], Written, claimed))
    BY DEF RebookingInv, RowsTrue, PairedInv, PairedRows
  <2>2. recorded => \E o \in Options : WroteTo(b, from, o)
    BY <2>1, WrittenPairs DEF RowTrue
  <2>3. \A o \in chosen : \E c \in Cases : WroteTo(b, c, o)
    BY <2>1, WrittenPairs DEF RowTrue, TimeTrue
  <2>4. recorded /\ ~disturbed => \A o \in chosen : WroteTo(b, from, o)
    BY <2>1, WrittenPairs DEF Paired
  <2>. QED  BY <2>2, <2>3, <2>4
<1>. QED  BY <1>1, <1>2, RebookingInvariant, PTL
=============================================================================
