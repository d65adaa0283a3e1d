-------------------------- MODULE MembershipProofs --------------------------
(* Proofs about Membership: types, and that the founder of a workspace is   *)
(* its owner for good, for any number of users, calls and cuts; with one    *)
(* call at a time, that every owner stays one.                              *)
EXTENDS Membership, TLAPS

MemberSteps == {"assert", "inv.existing", "inv.save", "read", "role.save", "rem.remove"}
TripSteps == {"trip.check", "trip.save", "trip.member", "trip.publish"}

(* What a suspended call holds, apart from its types.                       *)
Typed(s, l) ==
  /\ s \in MemberSteps => l.target \in Users /\ l.actor \in Users
  /\ s = "assert" => l.op # "none" /\ (l.op # "remove" => l.role \in Roles)
  /\ s \in {"inv.existing", "inv.save"} => l.role \in Roles
  /\ s = "read" /\ l.op # "remove" => l.role \in Roles
  /\ s = "role.save" => l.role \in Roles
  /\ s \in {"role.save", "rem.remove"} => l.copy.role \notin {"NONE", "OWNER"}
  /\ s \in TripSteps => l.actor \in Users
  /\ s \in {"trip.member", "trip.publish"} => l.trip \in Trips

(* The founder's row is the first one, and while it is missing no call can  *)
(* get past the guard; once it is there, no call that is about to save or   *)
(* remove a row holds the founder's, because ReadMember refuses owners.     *)
FounderInv ==
  /\ \A q \in Calls :
       /\ pc[q] = "ws.member" => workspace /\ rows[Founder] = 0
       /\ pc[q] = "ws.member" => \A p \in Calls \ {q} : pc[p] # "ws.member"
       /\ pc[q] \in MemberSteps \cup TripSteps => rows[Founder] > 0
       /\ pc[q] \in {"role.save", "rem.remove"} => loc[q].target # Founder
  /\ rows[Founder] > 0 => workspace
  /\ rows[Founder] = 0 => \A u \in Users : member[u] = NoMember
  /\ FounderStaysOwner

CallsTyped ==
  /\ pc \in [Calls -> Steps]
  /\ loc \in [Calls -> Locals]
  /\ \A q \in Calls : Typed(pc[q], loc[q])

TypeInv == TypeOK /\ CallsTyped

MembershipInv == TypeInv /\ FounderInv

(* A step of call q leaves it at await s with locals l.                     *)
Lands(q, s, l) == /\ pc' = [pc EXCEPT ![q] = s]
                  /\ loc' = [loc EXCEPT ![q] = l]

-----------------------------------------------------------------------------
LEMMA LocalTypes ==
  /\ NoLocals \in Locals
  /\ NoMember \in Member
  /\ \A u \in Users, v \in Users, op \in {"invite", "role", "remove"}, r \in Roles \cup {"NONE"} :
       [NoLocals EXCEPT !.op = op, !.actor = u, !.target = v, !.role = r] \in Locals
  /\ \A u \in Users : [NoLocals EXCEPT !.actor = u] \in Locals
  /\ \A l \in Locals, m \in Member : [l EXCEPT !.copy = m] \in Locals
  /\ \A l \in Locals, t \in Trips : [l EXCEPT !.trip = t] \in Locals
BY DEF NoLocals, NoMember, Locals, Member

(* Saving a copy of a row with another role saves a row.                    *)
LEMMA MemberTypes ==
  /\ \A m \in Member, r \in Roles : m.role # "NONE" => [m EXCEPT !.role = r] \in Member
  /\ \A r \in Roles, n \in Nat : [role |-> r, id |-> n + 1] \in Member
BY DEF Member, NoMember, Roles

LEMMA LandTyped ==
  ASSUME CallsTyped, NEW q \in Calls, NEW s \in Steps, NEW l \in Locals, Typed(s, l), Lands(q, s, l)
  PROVE  CallsTyped'
BY DEF CallsTyped, Lands, Typed

LEMMA IdleTyped == "idle" \in Steps /\ Typed("idle", NoLocals)
BY DEF Steps, Typed, MemberSteps, TripSteps

LEMMA InsertTyped ==
  ASSUME TypeOK, NEW u \in Users, NEW r \in Roles, Insert(u, r), rows[u] < MaxRows
  PROVE  /\ member' \in [Users -> Member]
         /\ rows' \in [Users -> 0..MaxRows]
<1>1. rows[u] + 1 \in 0..MaxRows /\ rows[u] \in Nat
  BY MembershipAssumption DEF TypeOK
<1>2. [role |-> r, id |-> rows[u] + 1] \in Member
  BY <1>1, MemberTypes
<1>. QED BY <1>1, <1>2 DEF TypeOK, Insert

TablesTyped ==
  /\ workspace \in BOOLEAN
  /\ member \in [Users -> Member]
  /\ rows \in [Users -> 0..MaxRows]
  /\ trip \in [Trips -> Users \cup {None}]
  /\ tripOwner \in [Trips -> Users \cup {None}]
  /\ announced \subseteq Trips
  /\ cuts \in 0..MaxCuts
  /\ disturbed \in BOOLEAN

LEMMA TypeSplit == TypeInv <=> TablesTyped /\ CallsTyped
BY DEF TypeInv, TypeOK, TablesTyped, CallsTyped

-----------------------------------------------------------------------------
LEMMA InitInv == Init => MembershipInv
<1>. SUFFICES ASSUME Init PROVE MembershipInv OBVIOUS
<1>1. TablesTyped
  <2>1. NoMember \in Member
    BY LocalTypes
  <2>2. 0 \in 0..MaxRows /\ 0 \in 0..MaxCuts
    BY MembershipAssumption
  <2>. QED BY <2>1, <2>2 DEF Init, TablesTyped
<1>2. CallsTyped
  BY LocalTypes, IdleTyped DEF Init, CallsTyped
<1>3. FounderInv
  BY MembershipAssumption DEF Init, FounderInv, FounderStaysOwner, MemberSteps, TripSteps
<1>. QED BY <1>1, <1>2, <1>3, TypeSplit DEF MembershipInv

LEMMA TypeStep == MembershipInv /\ [Next]_vars => TypeInv'
<1>. SUFFICES ASSUME MembershipInv, [Next]_vars PROVE TablesTyped' /\ CallsTyped'
  BY DEF TypeInv, TypeOK, TablesTyped, CallsTyped
<1>. /\ TablesTyped /\ CallsTyped /\ TypeOK
  BY TypeSplit DEF MembershipInv, TypeInv
<1>1. ASSUME NEW q \in Calls, CreateSave(q) PROVE TablesTyped' /\ CallsTyped'
  <2>1. Typed("ws.member", NoLocals) /\ "ws.member" \in Steps
    BY DEF Typed, MemberSteps, TripSteps, Steps
  <2>2. CallsTyped'
    BY <1>1, <2>1, LocalTypes, LandTyped DEF CreateSave, Begin, Lands
  <2>. QED BY <1>1, <2>2 DEF CreateSave, Begin, TablesTyped
<1>2. ASSUME NEW q \in Calls, CreateOwner(q) PROVE TablesTyped' /\ CallsTyped'
  <2>1. CallsTyped'
    BY <1>2, IdleTyped, LocalTypes, LandTyped DEF CreateOwner, End, GoWith, Lands
  <2>2. rows[Founder] < MaxRows
    BY <1>2, MembershipAssumption DEF CreateOwner, MembershipInv, FounderInv
  <2>3. member' \in [Users -> Member] /\ rows' \in [Users -> 0..MaxRows]
    BY <1>2, <2>2, InsertTyped, MembershipAssumption DEF CreateOwner, Roles
  <2>. QED BY <1>2, <2>1, <2>3 DEF CreateOwner, End, GoWith, TablesTyped
<1>3. ASSUME NEW q \in Calls, NEW op \in {"invite", "role", "remove"}, NEW actor \in Users,
             NEW target \in Users, NEW role \in Granted \cup {"NONE"},
             Guard(q, op, actor, target, role)
      PROVE  TablesTyped' /\ CallsTyped'
  <2>. DEFINE l == [NoLocals EXCEPT !.op = op, !.actor = actor, !.target = target, !.role = role]
  <2>1. role \in Roles \cup {"NONE"}
    BY MembershipAssumption DEF Roles
  <2>2. l \in Locals
    BY <2>1, LocalTypes
  <2>3. Typed("assert", l) /\ "assert" \in Steps
    BY <1>3, <2>1 DEF Guard, Typed, MemberSteps, TripSteps, Steps, NoLocals
  <2>4. CallsTyped'
    BY <1>3, <2>2, <2>3, LandTyped DEF Guard, Begin, Lands
  <2>. QED BY <1>3, <2>4 DEF Guard, Begin, tables, TablesTyped
<1>4. ASSUME NEW q \in Calls, AssertRole(q) PROVE TablesTyped' /\ CallsTyped'
  <2>1. loc[q] \in Locals /\ Typed("assert", loc[q])
    BY <1>4 DEF AssertRole, CallsTyped
  <2>2. CASE MayDo(loc[q].op, loc[q].actor)
    <3>. DEFINE s == IF loc[q].op = "invite" THEN "inv.existing" ELSE "read"
    <3>1. Lands(q, s, loc[q])
      BY <1>4, <2>2 DEF AssertRole, Go, GoWith, Lands
    <3>2. Typed(s, loc[q]) /\ s \in Steps
      BY <2>1 DEF Typed, MemberSteps, TripSteps, Steps
    <3>3. CallsTyped'
      BY <2>1, <3>1, <3>2, LandTyped
    <3>. QED BY <1>4, <2>2, <3>3 DEF AssertRole, Go, GoWith, tables, TablesTyped
  <2>3. CASE ~MayDo(loc[q].op, loc[q].actor)
    <3>1. CallsTyped'
      BY <1>4, <2>3, IdleTyped, LocalTypes, LandTyped DEF AssertRole, End, GoWith, Lands
    <3>. QED BY <1>4, <2>3, <3>1 DEF AssertRole, End, GoWith, tables, TablesTyped
  <2>. QED BY <2>2, <2>3
<1>5. ASSUME NEW q \in Calls, InvExisting(q) PROVE TablesTyped' /\ CallsTyped'
  <2>1. loc[q] \in Locals /\ Typed("inv.existing", loc[q])
    BY <1>5 DEF InvExisting, CallsTyped
  <2>2. Typed("inv.save", loc[q]) /\ "inv.save" \in Steps
    BY <2>1 DEF Typed, MemberSteps, TripSteps, Steps
  <2>3. Lands(q, "inv.save", loc[q]) \/ Lands(q, "idle", NoLocals)
    BY <1>5 DEF InvExisting, Go, End, GoWith, Lands
  <2>4. CallsTyped'
    BY <2>1, <2>2, <2>3, IdleTyped, LocalTypes, LandTyped
  <2>. QED BY <1>5, <2>4 DEF InvExisting, Go, End, GoWith, tables, TablesTyped
<1>6. ASSUME NEW q \in Calls, InvSave(q) PROVE TablesTyped' /\ CallsTyped'
  <2>1. loc[q] \in Locals /\ Typed("inv.save", loc[q])
    BY <1>6 DEF InvSave, CallsTyped
  <2>2. loc[q].target \in Users /\ loc[q].role \in Roles
    BY <2>1 DEF Typed, MemberSteps
  <2>3. CallsTyped'
    BY <1>6, IdleTyped, LocalTypes, LandTyped DEF InvSave, End, GoWith, Lands
  <2>4. member' \in [Users -> Member] /\ rows' \in [Users -> 0..MaxRows]
    BY <1>6, <2>2, InsertTyped DEF InvSave, TablesTyped
  <2>. QED BY <1>6, <2>3, <2>4 DEF InvSave, End, GoWith, TablesTyped
<1>7. ASSUME NEW q \in Calls, ReadMember(q) PROVE TablesTyped' /\ CallsTyped'
  <2>. DEFINE s == IF loc[q].op = "role" THEN "role.save" ELSE "rem.remove"
              l == [loc[q] EXCEPT !.copy = member[loc[q].target]]
  <2>1. loc[q] \in Locals /\ Typed("read", loc[q])
    BY <1>7 DEF ReadMember, CallsTyped
  <2>2. member[loc[q].target] \in Member
    BY <2>1 DEF Typed, MemberSteps, TablesTyped
  <2>3. l \in Locals
    BY <2>1, <2>2, LocalTypes
  <2>4. CASE Present(loc[q].target) /\ member[loc[q].target].role # "OWNER"
    <3>1. Typed(s, l) /\ s \in Steps
      BY <2>1, <2>4 DEF Typed, MemberSteps, TripSteps, Steps, Present, Locals
    <3>2. Lands(q, s, l)
      BY <1>7, <2>4 DEF ReadMember, GoWith, Lands
    <3>. QED BY <2>3, <3>1, <3>2, LandTyped, <1>7, <2>4 DEF ReadMember, GoWith, tables, TablesTyped
  <2>5. CASE ~(Present(loc[q].target) /\ member[loc[q].target].role # "OWNER")
    <3>1. CallsTyped'
      BY <1>7, <2>5, IdleTyped, LocalTypes, LandTyped DEF ReadMember, End, GoWith, Lands
    <3>. QED BY <1>7, <2>5, <3>1 DEF ReadMember, End, GoWith, tables, TablesTyped
  <2>. QED BY <2>4, <2>5
<1>8. ASSUME NEW q \in Calls, RoleSave(q) PROVE TablesTyped' /\ CallsTyped'
  <2>1. loc[q] \in Locals /\ Typed("role.save", loc[q])
    BY <1>8 DEF RoleSave, CallsTyped
  <2>2. [loc[q].copy EXCEPT !.role = loc[q].role] \in Member
    BY <2>1, MemberTypes DEF Typed, Locals
  <2>3. CallsTyped'
    BY <1>8, IdleTyped, LocalTypes, LandTyped DEF RoleSave, End, GoWith, Lands
  <2>4. member' \in [Users -> Member]
    BY <1>8, <2>2 DEF RoleSave, TablesTyped
  <2>. QED BY <1>8, <2>3, <2>4 DEF RoleSave, End, GoWith, TablesTyped
<1>9. ASSUME NEW q \in Calls, RemRemove(q) PROVE TablesTyped' /\ CallsTyped'
  <2>1. CallsTyped'
    BY <1>9, IdleTyped, LocalTypes, LandTyped DEF RemRemove, End, GoWith, Lands
  <2>2. member' \in [Users -> Member]
    BY <1>9, LocalTypes DEF RemRemove, TablesTyped
  <2>. QED BY <1>9, <2>1, <2>2 DEF RemRemove, End, GoWith, TablesTyped
<1>10. ASSUME NEW q \in Calls, NEW u \in Users, TripGuard(q, u) PROVE TablesTyped' /\ CallsTyped'
  <2>. DEFINE l == [NoLocals EXCEPT !.actor = u]
  <2>1. l \in Locals /\ Typed("trip.check", l) /\ "trip.check" \in Steps
    BY LocalTypes DEF Typed, MemberSteps, TripSteps, Steps, NoLocals
  <2>2. CallsTyped'
    BY <1>10, <2>1, LandTyped DEF TripGuard, Begin, Lands
  <2>. QED BY <1>10, <2>2 DEF TripGuard, Begin, tables, TablesTyped
<1>11. ASSUME NEW q \in Calls, TripCheck(q) PROVE TablesTyped' /\ CallsTyped'
  <2>1. loc[q] \in Locals /\ Typed("trip.check", loc[q])
    BY <1>11 DEF TripCheck, CallsTyped
  <2>2. Typed("trip.save", loc[q]) /\ "trip.save" \in Steps
    BY <2>1 DEF Typed, MemberSteps, TripSteps, Steps
  <2>3. Lands(q, "trip.save", loc[q]) \/ Lands(q, "idle", NoLocals)
    BY <1>11 DEF TripCheck, Go, End, GoWith, Lands
  <2>4. CallsTyped'
    BY <2>1, <2>2, <2>3, IdleTyped, LocalTypes, LandTyped
  <2>. QED BY <1>11, <2>4 DEF TripCheck, Go, End, GoWith, tables, TablesTyped
<1>12. ASSUME NEW q \in Calls, NEW t \in Trips, TripSave(q, t) PROVE TablesTyped' /\ CallsTyped'
  <2>. DEFINE l == [loc[q] EXCEPT !.trip = t]
  <2>1. loc[q] \in Locals /\ Typed("trip.save", loc[q])
    BY <1>12 DEF TripSave, CallsTyped
  <2>2. l \in Locals /\ Typed("trip.member", l) /\ "trip.member" \in Steps
    BY <2>1, LocalTypes DEF Typed, MemberSteps, TripSteps, Steps, Locals
  <2>3. CallsTyped'
    BY <1>12, <2>2, LandTyped DEF TripSave, GoWith, Lands
  <2>4. loc[q].actor \in Users
    BY <2>1 DEF Typed, TripSteps
  <2>. QED BY <1>12, <2>3, <2>4 DEF TripSave, GoWith, TablesTyped
<1>13. ASSUME NEW q \in Calls, TripMember(q) PROVE TablesTyped' /\ CallsTyped'
  <2>1. loc[q] \in Locals /\ Typed("trip.member", loc[q])
    BY <1>13 DEF TripMember, CallsTyped
  <2>2. Typed("trip.publish", loc[q]) /\ "trip.publish" \in Steps
    BY <2>1 DEF Typed, MemberSteps, TripSteps, Steps
  <2>3. CallsTyped'
    BY <1>13, <2>1, <2>2, LandTyped DEF TripMember, Go, GoWith, Lands
  <2>4. loc[q].actor \in Users
    BY <2>1 DEF Typed, TripSteps
  <2>. QED BY <1>13, <2>3, <2>4 DEF TripMember, Go, GoWith, TablesTyped
<1>14. ASSUME NEW q \in Calls, TripPublish(q) PROVE TablesTyped' /\ CallsTyped'
  <2>1. loc[q].trip \in Trips
    BY <1>14 DEF TripPublish, CallsTyped, Typed
  <2>2. CallsTyped'
    BY <1>14, IdleTyped, LocalTypes, LandTyped DEF TripPublish, End, GoWith, Lands
  <2>. QED BY <1>14, <2>1, <2>2 DEF TripPublish, End, GoWith, TablesTyped
<1>15. ASSUME NEW Q \in SUBSET Calls, Cut(Q) PROVE TablesTyped' /\ CallsTyped'
  <2>1. CallsTyped'
    BY <1>15, IdleTyped, LocalTypes DEF Cut, CallsTyped
  <2>2. cuts' \in 0..MaxCuts
    BY <1>15, MembershipAssumption DEF Cut, TablesTyped
  <2>. QED BY <1>15, <2>1, <2>2 DEF Cut, tables, TablesTyped
<1>16. CASE UNCHANGED vars
  BY <1>16 DEF vars, TablesTyped, CallsTyped
<1>. QED BY <1>1, <1>2, <1>3, <1>4, <1>5, <1>6, <1>7, <1>8, <1>9, <1>10, <1>11, <1>12, <1>13,
            <1>14, <1>15, <1>16 DEF Next

-----------------------------------------------------------------------------
(* The founder.  Each step but four leaves the rows alone; a call that goes *)
(* on keeps its target.                                                     *)

CallFounder(s, l) ==
  /\ s = "ws.member" => workspace /\ rows[Founder] = 0
  /\ s \in MemberSteps \cup TripSteps => rows[Founder] > 0
  /\ s \in {"role.save", "rem.remove"} => l.target # Founder

RowsFounder ==
  /\ rows[Founder] > 0 => workspace
  /\ rows[Founder] = 0 => \A u \in Users : member[u] = NoMember
  /\ FounderStaysOwner

Alone == \A q \in Calls : pc[q] = "ws.member" => \A p \in Calls \ {q} : pc[p] # "ws.member"

LEMMA FounderSplit ==
  FounderInv <=> (\A q \in Calls : CallFounder(pc[q], loc[q])) /\ RowsFounder /\ Alone
BY DEF FounderInv, CallFounder, RowsFounder, Alone

(* A step that leaves the tables alone needs to be right about its own call *)
(* only.                                                                    *)
LEMMA QuietFounder ==
  ASSUME MembershipInv, UNCHANGED tables, NEW q \in Calls, NEW s \in Steps, NEW l \in Locals,
         Lands(q, s, l), CallFounder(s, l), s # "ws.member"
  PROVE  FounderInv'
<1>. CallsTyped /\ FounderInv
  BY DEF MembershipInv, TypeInv
<1>1. \A p \in Calls : CallFounder(pc[p], loc[p])'
  BY FounderSplit DEF tables, CallFounder, Lands, CallsTyped
<1>2. RowsFounder'
  BY FounderSplit DEF tables, RowsFounder, FounderStaysOwner
<1>3. Alone'
  BY FounderSplit DEF Alone, Lands, CallsTyped
<1>. QED BY <1>1, <1>2, <1>3 DEF FounderInv, CallFounder, RowsFounder, Alone

LEMMA FounderStep == MembershipInv /\ TypeInv' /\ [Next]_vars => FounderInv'
<1>. SUFFICES ASSUME MembershipInv, TypeInv', [Next]_vars PROVE FounderInv' OBVIOUS
<1>. FounderInv /\ TypeOK /\ CallsTyped /\ Founder \in Users
  BY MembershipAssumption DEF MembershipInv, TypeInv
<1>. rows[Founder] \in Nat
  BY MembershipAssumption DEF TypeOK
<1>. USE DEF MemberSteps, TripSteps
<1>. "idle" \in Steps /\ NoLocals \in Locals /\ CallFounder("idle", NoLocals)
  BY LocalTypes, IdleTyped DEF CallFounder
<1>1. ASSUME NEW q \in Calls, CreateSave(q) PROVE FounderInv'
  <2>1. rows[Founder] = 0 /\ \A p \in Calls : pc[p] # "ws.member"
    BY <1>1 DEF CreateSave, FounderInv
  <2>. QED BY <1>1, <2>1 DEF CreateSave, Begin, FounderInv, FounderStaysOwner, CallsTyped
<1>2. ASSUME NEW q \in Calls, CreateOwner(q) PROVE FounderInv'
  <2>1. workspace /\ rows[Founder] = 0 /\ \A p \in Calls \ {q} : pc[p] # "ws.member"
    BY <1>2 DEF CreateOwner, FounderInv
  <2>2. rows'[Founder] = 1 /\ member'[Founder].role = "OWNER"
    BY <1>2, <2>1 DEF CreateOwner, Insert, TypeOK
  <2>3. \A p \in Calls : pc'[p] = "idle"
    BY <1>2, <2>1 DEF CreateOwner, End, GoWith, FounderInv, TypeOK, Steps
  <2>. QED BY <1>2, <2>1, <2>2, <2>3 DEF CreateOwner, FounderInv, FounderStaysOwner
<1>3. ASSUME NEW q \in Calls, NEW op \in {"invite", "role", "remove"}, NEW actor \in Users,
             NEW target \in Users, NEW role \in Granted \cup {"NONE"},
             Guard(q, op, actor, target, role)
      PROVE  FounderInv'
  <2>. DEFINE l == [NoLocals EXCEPT !.op = op, !.actor = actor, !.target = target, !.role = role]
  <2>1. member[actor] # NoMember
    BY <1>3 DEF Guard, MayDo, Level, Needed, NoMember
  <2>2. rows[Founder] > 0
    BY <2>1 DEF FounderInv
  <2>3. l \in Locals
    BY LocalTypes, MembershipAssumption DEF Roles
  <2>. QED BY <1>3, <2>2, <2>3, QuietFounder DEF Guard, Begin, Lands, CallFounder, Steps
<1>4. ASSUME NEW q \in Calls, AssertRole(q) \/ InvExisting(q) \/ TripCheck(q) PROVE FounderInv'
  <2>1. rows[Founder] > 0 /\ loc[q] \in Locals
    BY <1>4 DEF AssertRole, InvExisting, TripCheck, FounderInv, CallsTyped
  <2>2. \A s \in {"inv.existing", "read", "inv.save", "trip.save"} :
          s \in Steps /\ CallFounder(s, loc[q])
    BY <2>1 DEF CallFounder, Steps
  <2>3. UNCHANGED tables
    BY <1>4 DEF AssertRole, InvExisting, TripCheck
  <2>4. \/ \E s \in {"inv.existing", "read", "inv.save", "trip.save"} : Lands(q, s, loc[q])
        \/ Lands(q, "idle", NoLocals)
    BY <1>4 DEF AssertRole, InvExisting, TripCheck, Go, End, GoWith, Lands
  <2>. QED BY <2>1, <2>2, <2>3, <2>4, QuietFounder
<1>5. ASSUME NEW q \in Calls, InvSave(q) PROVE FounderInv'
  <2>1. rows[Founder] > 0 /\ member[Founder].role = "OWNER"
    BY <1>5 DEF InvSave, FounderInv, FounderStaysOwner
  <2>2. Present(Founder)
    BY <2>1 DEF Present
  <2>3. rows'[Founder] = rows[Founder] /\ member'[Founder] = member[Founder]
    BY <1>5, <2>2 DEF InvSave, Insert, TypeOK
  <2>. QED BY <1>5, <2>1, <2>3 DEF InvSave, End, GoWith, FounderInv, FounderStaysOwner, CallsTyped
<1>6. ASSUME NEW q \in Calls, ReadMember(q) PROVE FounderInv'
  <2>. DEFINE s == IF loc[q].op = "role" THEN "role.save" ELSE "rem.remove"
              l == [loc[q] EXCEPT !.copy = member[loc[q].target]]
  <2>1. rows[Founder] > 0 /\ member[Founder].role = "OWNER"
    BY <1>6 DEF ReadMember, FounderInv, FounderStaysOwner
  <2>2. loc[q] \in Locals /\ loc[q].target \in Users
    BY <1>6 DEF ReadMember, CallsTyped, Typed
  <2>3. l \in Locals
    BY <2>2, LocalTypes DEF TypeOK
  <2>4. CASE Present(loc[q].target) /\ member[loc[q].target].role # "OWNER"
    <3>1. CallFounder(s, l) /\ s \in Steps
      BY <2>1, <2>2, <2>4 DEF CallFounder, Steps, Locals
    <3>. QED BY <1>6, <2>3, <2>4, <3>1, QuietFounder DEF ReadMember, GoWith, Lands
  <2>5. CASE ~(Present(loc[q].target) /\ member[loc[q].target].role # "OWNER")
    BY <1>6, <2>5, QuietFounder DEF ReadMember, End, GoWith, Lands
  <2>. QED BY <2>4, <2>5
<1>7. ASSUME NEW q \in Calls, RoleSave(q) \/ RemRemove(q) PROVE FounderInv'
  <2>1. rows[Founder] > 0 /\ loc[q].target # Founder
    BY <1>7 DEF RoleSave, RemRemove, FounderInv
  <2>2. rows' = rows /\ workspace' = workspace /\ member'[Founder] = member[Founder]
    BY <1>7, <2>1 DEF RoleSave, RemRemove, TypeOK
  <2>3. Lands(q, "idle", NoLocals)
    BY <1>7 DEF RoleSave, RemRemove, End, GoWith, Lands
  <2>. QED BY <2>1, <2>2, <2>3 DEF Lands, FounderInv, FounderStaysOwner, CallsTyped
<1>8. ASSUME NEW q \in Calls, NEW u \in Users, TripGuard(q, u) PROVE FounderInv'
  <2>1. member[u] # NoMember
    BY <1>8 DEF TripGuard, MayDo, Level, Needed, NoMember
  <2>2. rows[Founder] > 0
    BY <2>1 DEF FounderInv
  <2>. QED BY <1>8, <2>2, QuietFounder, LocalTypes DEF TripGuard, Begin, Lands, CallFounder, Steps
<1>9. ASSUME NEW q \in Calls, \/ \E t \in Trips : TripSave(q, t)
                              \/ TripMember(q) \/ TripPublish(q)
      PROVE  FounderInv'
  <2>1. UNCHANGED <<workspace, member, rows>>
    BY <1>9 DEF TripSave, TripMember, TripPublish
  <2>2. pc' = [pc EXCEPT ![q] = pc'[q]] /\ pc'[q] \in {"trip.member", "trip.publish", "idle"}
    BY <1>9 DEF TripSave, TripMember, TripPublish, Go, End, GoWith, CallsTyped
  <2>3. \A p \in Calls \ {q} : loc'[p] = loc[p]
    BY <1>9 DEF TripSave, TripMember, TripPublish, Go, End, GoWith, CallsTyped
  <2>4. rows[Founder] > 0
    BY <1>9 DEF TripSave, TripMember, TripPublish, FounderInv
  <2>. QED BY <2>1, <2>2, <2>3, <2>4 DEF FounderInv, FounderStaysOwner, CallsTyped
<1>10. ASSUME NEW Q \in SUBSET Calls, Cut(Q) PROVE FounderInv'
  BY <1>10 DEF Cut, tables, FounderInv, FounderStaysOwner, CallsTyped
<1>11. CASE UNCHANGED vars
  BY <1>11 DEF vars, FounderInv, FounderStaysOwner
<1>. QED BY <1>1, <1>2, <1>3, <1>4, <1>5, <1>6, <1>7, <1>8, <1>9, <1>10, <1>11 DEF Next

-----------------------------------------------------------------------------
(* Owners.  A trip's OWNER row is the one of its creator or missing; while  *)
(* it is missing, and no call was cut short, there is a call that is about  *)
(* to save it, as there is for the workspace.                               *)

Owned(t) == tripOwner[t] = trip[t]

CallTrip(s, l) ==
  /\ s \in {"trip.member", "trip.publish"} => trip[l.trip] = l.actor
  /\ s = "trip.publish" => tripOwner[l.trip] = l.actor

TripInv ==
  /\ \A t \in Trips : tripOwner[t] # None => Owned(t)
  /\ \A t \in announced : Owned(t) /\ trip[t] \in Users

UncutInv ==
  cuts = 0 =>
    /\ workspace => rows[Founder] > 0 \/ \E q \in Calls : pc[q] = "ws.member"
    /\ \A t \in Trips : Owned(t) \/ \E q \in Calls : pc[q] = "trip.member" /\ loc[q].trip = t

OrphanInv == (\A q \in Calls : CallTrip(pc[q], loc[q])) /\ TripInv /\ UncutInv

LEMMA OrphanInit == Init => OrphanInv
BY DEF Init, OrphanInv, CallTrip, TripInv, UncutInv, Owned

(* A step that creates neither workspace nor trip, by a call that owes      *)
(* nobody a row.                                                            *)
LEMMA QuietOrphan ==
  ASSUME MembershipInv, OrphanInv, UNCHANGED <<workspace, trip, tripOwner, announced, cuts>>,
         rows[Founder] > 0 => rows'[Founder] > 0,
         NEW q \in Calls, NEW s, NEW l, Lands(q, s, l),
         pc[q] \notin {"ws.member", "trip.member"}, s \notin {"trip.member", "trip.publish"}
  PROVE  OrphanInv'
<1>. CallsTyped
  BY DEF MembershipInv, TypeInv
<1>1. /\ pc'[q] = s /\ \A p \in Calls : p # q => pc'[p] = pc[p] /\ loc'[p] = loc[p]
  BY DEF Lands, CallsTyped
<1>2. \A p \in Calls : CallTrip(pc[p], loc[p])'
  BY <1>1 DEF OrphanInv, CallTrip
<1>3. TripInv'
  BY DEF OrphanInv, TripInv, Owned
<1>4. UncutInv'
  BY <1>1 DEF OrphanInv, UncutInv, Owned
<1>. QED  BY <1>2, <1>3, <1>4 DEF OrphanInv

LEMMA OrphanStep == MembershipInv /\ TypeInv' /\ OrphanInv /\ [Next]_vars => OrphanInv'
<1>. SUFFICES ASSUME MembershipInv, TypeInv', OrphanInv, [Next]_vars PROVE OrphanInv'
  OBVIOUS
<1>. TypeOK /\ CallsTyped /\ None \notin Users /\ Founder \in Users /\ rows[Founder] \in Nat
  BY MembershipAssumption DEF MembershipInv, TypeInv, TypeOK
<1>1. ASSUME NEW q \in Calls, CreateSave(q) PROVE OrphanInv'
  <2>1. pc'[q] = "ws.member" /\ \A p \in Calls : p # q => pc'[p] = pc[p] /\ loc'[p] = loc[p]
    BY <1>1 DEF CreateSave, Begin, CallsTyped
  <2>2. pc[q] = "idle" /\ UNCHANGED <<trip, tripOwner, announced, cuts, rows>>
    BY <1>1 DEF CreateSave, Begin
  <2>3. \A p \in Calls : CallTrip(pc[p], loc[p])'
    BY <2>1, <2>2 DEF OrphanInv, CallTrip
  <2>4. TripInv' /\ UncutInv'
    BY <2>1, <2>2 DEF OrphanInv, TripInv, UncutInv, Owned
  <2>. QED  BY <2>3, <2>4 DEF OrphanInv
<1>2. ASSUME NEW q \in Calls, CreateOwner(q) PROVE OrphanInv'
  <2>1. pc'[q] = "idle" /\ \A p \in Calls : p # q => pc'[p] = pc[p] /\ loc'[p] = loc[p]
    BY <1>2 DEF CreateOwner, End, GoWith, CallsTyped
  <2>2. /\ pc[q] = "ws.member" /\ UNCHANGED <<workspace, trip, tripOwner, announced, cuts>>
        /\ rows'[Founder] > 0
    BY <1>2 DEF CreateOwner, End, GoWith, Insert, TypeOK
  <2>3. \A p \in Calls : CallTrip(pc[p], loc[p])'
    BY <2>1, <2>2 DEF OrphanInv, CallTrip
  <2>4. TripInv' /\ UncutInv'
    BY <2>1, <2>2 DEF OrphanInv, TripInv, UncutInv, Owned
  <2>. QED  BY <2>3, <2>4 DEF OrphanInv
<1>3. ASSUME NEW q \in Calls, NEW op \in {"invite", "role", "remove"}, NEW actor \in Users,
             NEW target \in Users, NEW role \in Granted \cup {"NONE"},
             Guard(q, op, actor, target, role)
      PROVE  OrphanInv'
  <2>. DEFINE l == [NoLocals EXCEPT !.op = op, !.actor = actor, !.target = target, !.role = role]
  <2>1. /\ pc[q] = "idle" /\ Lands(q, "assert", l) /\ rows' = rows
        /\ UNCHANGED <<workspace, trip, tripOwner, announced, cuts>>
    BY <1>3 DEF Guard, Begin, Lands, tables
  <2>. HIDE DEF l
  <2>. QED  BY <2>1, QuietOrphan
<1>4. ASSUME NEW q \in Calls, AssertRole(q) PROVE OrphanInv'
  BY <1>4, QuietOrphan DEF AssertRole, Go, End, GoWith, Lands, tables
<1>5. ASSUME NEW q \in Calls, InvExisting(q) PROVE OrphanInv'
  BY <1>5, QuietOrphan DEF InvExisting, Go, End, GoWith, Lands, tables
<1>6. ASSUME NEW q \in Calls, InvSave(q) PROVE OrphanInv'
  <2>1. loc[q].target \in Users /\ \A u \in Users : rows[u] \in Nat
    BY <1>6, MembershipAssumption DEF InvSave, TypeOK, CallsTyped, Typed, MemberSteps
  <2>2. rows[Founder] > 0 => rows'[Founder] > 0
    BY <1>6, <2>1 DEF InvSave, Insert, TypeOK
  <2>3. /\ pc[q] = "inv.save" /\ Lands(q, "idle", NoLocals)
        /\ UNCHANGED <<workspace, trip, tripOwner, announced, cuts>>
    BY <1>6 DEF InvSave, End, GoWith, Lands
  <2>. QED  BY <2>2, <2>3, QuietOrphan
<1>7. ASSUME NEW q \in Calls, ReadMember(q) PROVE OrphanInv'
  <2>. DEFINE s == IF loc[q].op = "role" THEN "role.save" ELSE "rem.remove"
              l == [loc[q] EXCEPT !.copy = member[loc[q].target]]
  <2>1. /\ pc[q] = "read" /\ rows' = rows
        /\ UNCHANGED <<workspace, trip, tripOwner, announced, cuts>>
    BY <1>7 DEF ReadMember, End, GoWith, tables
  <2>2. Lands(q, s, l) \/ Lands(q, "idle", NoLocals)
    BY <1>7 DEF ReadMember, End, GoWith, Lands
  <2>3. s \notin {"trip.member", "trip.publish"}
    OBVIOUS
  <2>. HIDE DEF s, l
  <2>. QED  BY <2>1, <2>2, <2>3, QuietOrphan
<1>8. ASSUME NEW q \in Calls, RoleSave(q) PROVE OrphanInv'
  <2>1. /\ pc[q] = "role.save" /\ Lands(q, "idle", NoLocals) /\ rows' = rows
        /\ UNCHANGED <<workspace, trip, tripOwner, announced, cuts>>
    BY <1>8 DEF RoleSave, End, GoWith, Lands
  <2>. QED  BY <2>1, QuietOrphan
<1>9. ASSUME NEW q \in Calls, RemRemove(q) PROVE OrphanInv'
  <2>1. /\ pc[q] = "rem.remove" /\ Lands(q, "idle", NoLocals) /\ rows' = rows
        /\ UNCHANGED <<workspace, trip, tripOwner, announced, cuts>>
    BY <1>9 DEF RemRemove, End, GoWith, Lands
  <2>. QED  BY <2>1, QuietOrphan
<1>10. ASSUME NEW q \in Calls, NEW u \in Users, TripGuard(q, u) PROVE OrphanInv'
  BY <1>10, QuietOrphan DEF TripGuard, Begin, Lands, tables
<1>11. ASSUME NEW q \in Calls, TripCheck(q) PROVE OrphanInv'
  BY <1>11, QuietOrphan DEF TripCheck, Go, End, GoWith, Lands, tables
<1>12. ASSUME NEW q \in Calls, NEW t \in Trips, TripSave(q, t) PROVE OrphanInv'
  <2>1. /\ pc[q] = "trip.save" /\ trip[t] = None /\ loc[q] \in Locals /\ loc[q].actor \in Users
        /\ UNCHANGED <<workspace, rows, tripOwner, announced, cuts>>
    BY <1>12 DEF TripSave, GoWith, CallsTyped, Typed, TripSteps
  <2>2. /\ pc'[q] = "trip.member" /\ loc'[q].trip = t /\ loc'[q].actor = loc[q].actor
        /\ \A p \in Calls : p # q => pc'[p] = pc[p] /\ loc'[p] = loc[p]
    BY <1>12, <2>1 DEF TripSave, GoWith, CallsTyped, Locals
  <2>3. trip'[t] = loc[q].actor /\ \A v \in Trips : v # t => trip'[v] = trip[v]
    BY <1>12 DEF TripSave, TypeOK
  <2>4. ASSUME NEW p \in Calls PROVE CallTrip(pc[p], loc[p])'
    <3>1. CASE p = q
      BY <2>2, <2>3, <3>1 DEF CallTrip
    <3>2. CASE p # q
      <4>1. pc[p] \in {"trip.member", "trip.publish"} => /\ loc[p].trip \in Trips
                                                        /\ trip[loc[p].trip] # None
        BY DEF OrphanInv, CallTrip, CallsTyped, Typed, TripSteps
      <4>. QED  BY <2>1, <2>2, <2>3, <3>2, <4>1 DEF OrphanInv, CallTrip
    <3>. QED  BY <3>1, <3>2
  <2>5. TripInv'
    BY <2>1, <2>3 DEF OrphanInv, TripInv, Owned, TypeOK
  <2>6. UncutInv'
    BY <2>1, <2>2, <2>3 DEF OrphanInv, UncutInv, Owned
  <2>. QED  BY <2>4, <2>5, <2>6 DEF OrphanInv
<1>13. ASSUME NEW q \in Calls, TripMember(q) PROVE OrphanInv'
  <2>. DEFINE t == loc[q].trip
  <2>1. /\ pc[q] = "trip.member" /\ t \in Trips /\ loc[q].actor \in Users
        /\ UNCHANGED <<workspace, rows, trip, announced, cuts>>
    BY <1>13 DEF TripMember, Go, GoWith, CallsTyped, Typed, TripSteps
  <2>2. /\ pc'[q] = "trip.publish" /\ loc'[q] = loc[q]
        /\ \A p \in Calls : p # q => pc'[p] = pc[p] /\ loc'[p] = loc[p]
    BY <1>13 DEF TripMember, Go, GoWith, CallsTyped
  <2>3. /\ tripOwner'[t] = loc[q].actor /\ trip[t] = loc[q].actor
        /\ \A v \in Trips : v # t => tripOwner'[v] = tripOwner[v]
    BY <1>13, <2>1 DEF TripMember, TypeOK, OrphanInv, CallTrip
  <2>. HIDE DEF t
  <2>4. ASSUME NEW p \in Calls PROVE CallTrip(pc[p], loc[p])'
    <3>1. CASE p = q
      BY <2>1, <2>2, <2>3, <3>1 DEF CallTrip, t
    <3>2. CASE p # q
      <4>1. pc[p] = "trip.publish" => loc[p].trip \in Trips
        BY DEF CallsTyped, Typed
      <4>2. CallTrip(pc[p], loc[p])
        BY DEF OrphanInv
      <4>. QED  BY <2>1, <2>2, <2>3, <3>2, <4>1, <4>2 DEF CallTrip
    <3>. QED  BY <3>1, <3>2
  <2>5. TripInv'
    <3>1. ASSUME NEW v \in Trips, tripOwner'[v] # None PROVE Owned(v)'
      BY <2>1, <2>3, <3>1 DEF OrphanInv, TripInv, Owned
    <3>2. ASSUME NEW v \in announced PROVE Owned(v)' /\ trip'[v] \in Users
      <4>1. v \in Trips /\ Owned(v) /\ trip[v] \in Users
        BY DEF OrphanInv, TripInv, TypeOK
      <4>. QED  BY <2>1, <2>3, <4>1 DEF Owned
    <3>. QED  BY <2>1, <3>1, <3>2 DEF TripInv
  <2>6. UncutInv'
    <3>1. \A v \in Trips : Owned(v) => Owned(v)'
      BY <2>1, <2>3 DEF Owned
    <3>2. tripOwner'[t] = trip'[t]
      BY <2>1, <2>3
    <3>3. \A v \in Trips : v # t => \A p \in Calls :
            pc[p] = "trip.member" /\ loc[p].trip = v => pc'[p] = "trip.member" /\ loc'[p].trip = v
      BY <2>2 DEF t
    <3>. QED  BY <2>1, <2>2, <2>3, <3>2, <3>3 DEF OrphanInv, UncutInv, Owned
  <2>. QED  BY <2>4, <2>5, <2>6 DEF OrphanInv
<1>14. ASSUME NEW q \in Calls, TripPublish(q) PROVE OrphanInv'
  <2>1. /\ pc[q] = "trip.publish" /\ loc[q].trip \in Trips /\ loc[q].actor \in Users
        /\ UNCHANGED <<workspace, rows, trip, tripOwner, cuts>>
        /\ announced' = announced \cup {loc[q].trip}
    BY <1>14 DEF TripPublish, End, GoWith, CallsTyped, Typed, TripSteps
  <2>2. pc'[q] = "idle" /\ \A p \in Calls : p # q => pc'[p] = pc[p] /\ loc'[p] = loc[p]
    BY <1>14 DEF TripPublish, End, GoWith, CallsTyped
  <2>3. trip[loc[q].trip] = loc[q].actor /\ Owned(loc[q].trip)
    BY <2>1 DEF OrphanInv, CallTrip, Owned
  <2>4. \A p \in Calls : CallTrip(pc[p], loc[p])'
    BY <2>1, <2>2 DEF OrphanInv, CallTrip
  <2>5. TripInv'
    BY <2>1, <2>3 DEF OrphanInv, TripInv, Owned
  <2>6. UncutInv'
    BY <2>1, <2>2 DEF OrphanInv, UncutInv, Owned
  <2>. QED  BY <2>4, <2>5, <2>6 DEF OrphanInv
<1>15. ASSUME NEW Q \in SUBSET Calls, Cut(Q) PROVE OrphanInv'
  <2>1. cuts' # 0 /\ UNCHANGED <<trip, tripOwner, announced>>
    BY <1>15, MembershipAssumption DEF Cut, tables, TypeOK
  <2>2. \A p \in Calls : CallTrip(pc[p], loc[p])'
    BY <1>15, <2>1 DEF Cut, OrphanInv, CallTrip
  <2>. QED  BY <2>1, <2>2 DEF OrphanInv, TripInv, UncutInv, Owned
<1>16. CASE UNCHANGED vars
  BY <1>16 DEF vars, OrphanInv, CallTrip, TripInv, UncutInv, Owned
<1>. QED BY <1>1, <1>2, <1>3, <1>4, <1>5, <1>6, <1>7, <1>8, <1>9, <1>10, <1>11, <1>12, <1>13,
            <1>14, <1>15, <1>16 DEF Next

LEMMA MembershipInvariant == Spec => []MembershipInv
<1>1. MembershipInv /\ [Next]_vars => MembershipInv'
  BY TypeStep, FounderStep DEF MembershipInv
<1>. QED BY InitInv, <1>1, PTL DEF Spec

(* The variables of Membership keep their types, through every interleaving *)
(* and cut (WorkspaceService, TripsService.createTrip).                     *)
THEOREM TypeCorrect == Spec => []TypeOK
<1>1. MembershipInv => TypeOK
  BY DEF MembershipInv, TypeInv
<1>. QED BY MembershipInvariant, <1>1, PTL

(* updateMemberRole and removeMember never demote or remove the founder,    *)
(* however many calls overlap and wherever they are cut short.              *)
THEOREM FounderStaysOwnerHolds == Spec => []FounderStaysOwner
<1>1. MembershipInv => FounderStaysOwner
  BY DEF MembershipInv, FounderInv
<1>. QED BY MembershipInvariant, <1>1, PTL

(* Unless a call was cut short, all calls that are done have left an owner  *)
(* to the workspace and to every trip they created, and an announced trip   *)
(* has its owner in any case (createWorkspace and createTrip save two rows  *)
(* without a transaction).                                                  *)
THEOREM NoOrphansHolds == Spec => []NoOrphans
<1>1. MembershipInv /\ OrphanInv => NoOrphans
  <2>. SUFFICES ASSUME MembershipInv, OrphanInv PROVE NoOrphans
    OBVIOUS
  <2>1. ASSUME Quiescent, cuts = 0 PROVE /\ workspace => member[Founder].role = "OWNER"
                                         /\ \A t \in Trips : tripOwner[t] = trip[t]
    BY <2>1 DEF Quiescent, OrphanInv, UncutInv, Owned, MembershipInv, FounderInv,
                FounderStaysOwner
  <2>2. \A t \in announced : tripOwner[t] \in Users /\ tripOwner[t] = trip[t]
    BY DEF OrphanInv, TripInv, Owned
  <2>. QED  BY <2>1, <2>2, MembershipAssumption DEF NoOrphans
<1>2. MembershipInv /\ OrphanInv /\ [Next]_vars => (MembershipInv /\ OrphanInv)'
  BY TypeStep, FounderStep, OrphanStep DEF MembershipInv
<1>. QED BY InitInv, OrphanInit, <1>1, <1>2, PTL DEF Spec

-----------------------------------------------------------------------------
(* One call at a time.  Until calls overlap or one is cut short, at most    *)
(* one is under way, and what it has read is still what the table holds.    *)
OneBusy == \A p, q \in Calls : pc[p] # "idle" /\ pc[q] # "idle" => p = q

Fresh(s, l) == s \in {"role.save", "rem.remove"} => member[l.target] = l.copy

SerialInv == ~disturbed => OneBusy /\ \A q \in Calls : Fresh(pc[q], loc[q])

(* The call q takes a step to the await s, alone if nothing is disturbed.   *)
Moves(q, s, l) ==
  /\ Lands(q, s, l)
  /\ ~disturbed' => ~disturbed /\ \A p \in Calls \ {q} : pc[p] = "idle"

LEMMA StartsAlone ==
  ASSUME TypeOK, NEW q \in Calls, NEW s, NEW l, Begin(q, s, l) PROVE Moves(q, s, l)
BY DEF Begin, Moves, Lands, TypeOK

LEMMA GoesAlone ==
  ASSUME SerialInv, NEW q \in Calls, pc[q] # "idle", NEW s, NEW l, GoWith(q, s, l)
  PROVE  Moves(q, s, l)
BY DEF GoWith, Moves, Lands, SerialInv, OneBusy

LEMMA MovesSerially ==
  ASSUME CallsTyped, NEW q \in Calls, NEW s, NEW l, Moves(q, s, l),
         ~disturbed' /\ s \in {"role.save", "rem.remove"} => member'[l.target] = l.copy
  PROVE  SerialInv'
<1>. SUFFICES ASSUME ~disturbed' PROVE OneBusy' /\ \A p \in Calls : Fresh(pc[p], loc[p])'
  BY DEF SerialInv
<1>1. /\ pc'[q] = s /\ loc'[q] = l
      /\ \A p \in Calls \ {q} : pc'[p] = "idle"
  BY DEF Moves, Lands, CallsTyped
<1>. QED  BY <1>1 DEF OneBusy, Fresh

LEMMA SerialInit == Init => SerialInv
BY DEF Init, SerialInv, OneBusy, Fresh

LEMMA SerialStep == TypeInv /\ SerialInv /\ [Next]_vars => SerialInv'
<1>. SUFFICES ASSUME TypeInv, SerialInv, [Next]_vars PROVE SerialInv'
  OBVIOUS
<1>. TypeOK /\ CallsTyped
  BY DEF TypeInv
<1>1. ASSUME NEW q \in Calls, NEW s, s \notin {"role.save", "rem.remove"}, NEW l,
             Begin(q, s, l) \/ (pc[q] # "idle" /\ GoWith(q, s, l))
      PROVE  SerialInv'
  <2>1. Moves(q, s, l)
    BY <1>1, StartsAlone, GoesAlone
  <2>. QED  BY <1>1, <2>1, MovesSerially
<1>2. ASSUME NEW q \in Calls, CreateSave(q) PROVE SerialInv'
  BY <1>1, <1>2 DEF CreateSave
<1>3. ASSUME NEW q \in Calls, NEW op \in {"invite", "role", "remove"}, NEW actor \in Users,
             NEW target \in Users, NEW role \in Granted \cup {"NONE"},
             Guard(q, op, actor, target, role)
      PROVE  SerialInv'
  BY <1>1, <1>3 DEF Guard
<1>4. ASSUME NEW q \in Calls, NEW u \in Users, TripGuard(q, u) PROVE SerialInv'
  BY <1>1, <1>4 DEF TripGuard
<1>5. ASSUME NEW q \in Calls, AssertRole(q) PROVE SerialInv'
  BY <1>1, <1>5 DEF AssertRole, Go, End
<1>6. ASSUME NEW q \in Calls, ReadMember(q) PROVE SerialInv'
  <2>. DEFINE s == IF loc[q].op = "role" THEN "role.save" ELSE "rem.remove"
              l == [loc[q] EXCEPT !.copy = member[loc[q].target]]
  <2>1. CASE GoWith(q, s, l)
    <3>1. l.target = loc[q].target /\ l.copy = member[loc[q].target] /\ member' = member
      BY <1>6 DEF ReadMember, tables, CallsTyped, Locals
    <3>. HIDE DEF s, l
    <3>2. Moves(q, s, l)
      BY <1>6, <2>1, GoesAlone DEF ReadMember
    <3>. QED  BY <3>1, <3>2, MovesSerially
  <2>2. CASE End(q)
    BY <1>1, <1>6, <2>2 DEF ReadMember, End
  <2>. QED  BY <1>6, <2>1, <2>2 DEF ReadMember
<1>7. ASSUME NEW q \in Calls, pc[q] # "idle",
             \/ \E t \in Trips : GoWith(q, "trip.member", [loc[q] EXCEPT !.trip = t])
             \/ End(q) \/ \E s \in {"inv.save", "trip.save", "trip.publish"} : Go(q, s)
      PROVE  SerialInv'
  BY <1>1, <1>7 DEF End, Go
<1>8. ASSUME NEW q \in Calls,
             \/ CreateOwner(q) \/ InvExisting(q) \/ InvSave(q) \/ RoleSave(q) \/ RemRemove(q)
             \/ TripCheck(q) \/ TripMember(q) \/ TripPublish(q) \/ \E t \in Trips : TripSave(q, t)
      PROVE  SerialInv'
  BY <1>7, <1>8 DEF CreateOwner, InvExisting, InvSave, RoleSave, RemRemove, TripCheck, TripMember,
                    TripPublish, TripSave
<1>9. ASSUME NEW Q \in SUBSET Calls, Cut(Q) PROVE SerialInv'
  BY <1>9 DEF Cut, SerialInv
<1>10. CASE UNCHANGED vars
  BY <1>10 DEF vars, SerialInv, OneBusy, Fresh
<1>. QED  BY <1>2, <1>3, <1>4, <1>5, <1>6, <1>8, <1>9, <1>10 DEF Next

(* So a saved or removed row is one of the table, and not an owner's.       *)
SerialRows ==
  ~disturbed' => \A u \in Users :
    \/ member'[u] = member[u]
    \/ member[u].role = "NONE" /\ rows'[u] = rows[u] + 1
    \/ member[u].role \notin {"NONE", "OWNER"}

LEMMA SerialChanges == MembershipInv /\ SerialInv /\ [Next]_vars => SerialRows
<1>. SUFFICES ASSUME MembershipInv, SerialInv, [Next]_vars PROVE SerialRows
  OBVIOUS
<1>. TypeOK /\ CallsTyped /\ FounderInv
  BY DEF MembershipInv, TypeInv
<1>1. CASE UNCHANGED member
  BY <1>1 DEF SerialRows
<1>2. ASSUME NEW v \in Users, NEW r, member[v].role = "NONE", Insert(v, r) PROVE SerialRows
  BY <1>2 DEF SerialRows, Insert, TypeOK
<1>3. ASSUME NEW q \in Calls, CreateOwner(q) PROVE SerialRows
  <2>1. member[Founder] = NoMember /\ Founder \in Users
    BY <1>3, MembershipAssumption DEF CreateOwner, FounderInv
  <2>. QED  BY <1>2, <1>3, <2>1 DEF CreateOwner, NoMember
<1>4. ASSUME NEW q \in Calls, InvSave(q) PROVE SerialRows
  <2>1. loc[q].target \in Users
    BY <1>4 DEF InvSave, CallsTyped, Typed, MemberSteps
  <2>. QED  BY <1>1, <1>2, <1>4, <2>1 DEF InvSave, Present
<1>5. ASSUME NEW q \in Calls, RoleSave(q) \/ RemRemove(q) PROVE SerialRows
  <2>. DEFINE u == loc[q].target
  <2>1. loc[q].copy.role \notin {"NONE", "OWNER"} /\ u \in Users
    BY <1>5 DEF RoleSave, RemRemove, CallsTyped, Typed, MemberSteps
  <2>2. \A v \in Users : v # u => member'[v] = member[v]
    BY <1>5 DEF RoleSave, RemRemove, TypeOK
  <2>3. disturbed' = disturbed
    BY <1>5 DEF RoleSave, RemRemove, End, GoWith
  <2>4. ~disturbed => member[u] = loc[q].copy
    BY <1>5 DEF RoleSave, RemRemove, SerialInv, Fresh
  <2>. QED  BY <2>1, <2>2, <2>3, <2>4 DEF SerialRows
<1>6. ASSUME NEW q \in Calls,
             \/ CreateSave(q) \/ AssertRole(q) \/ InvExisting(q) \/ ReadMember(q)
             \/ TripCheck(q) \/ TripMember(q) \/ TripPublish(q) \/ \E t \in Trips : TripSave(q, t)
             \/ \E u \in Users : TripGuard(q, u)
      PROVE  UNCHANGED member
  BY <1>6 DEF CreateSave, AssertRole, InvExisting, ReadMember, TripCheck, TripMember, TripPublish,
              TripSave, TripGuard, tables
<1>7. ASSUME NEW q \in Calls, NEW op \in {"invite", "role", "remove"}, NEW actor \in Users,
             NEW target \in Users, NEW role \in Granted \cup {"NONE"},
             Guard(q, op, actor, target, role)
      PROVE  UNCHANGED member
  BY <1>7 DEF Guard, tables
<1>8. ASSUME NEW Q \in SUBSET Calls, Cut(Q) PROVE UNCHANGED member
  BY <1>8 DEF Cut, tables
<1>9. UNCHANGED vars => UNCHANGED member
  BY DEF vars
<1>. QED  BY <1>1, <1>3, <1>4, <1>5, <1>6, <1>7, <1>8, <1>9 DEF Next

LEMMA SerialInvariant == Spec => [](MembershipInv /\ SerialInv)
<1>1. MembershipInv /\ SerialInv /\ [Next]_vars => (MembershipInv /\ SerialInv)'
  BY TypeStep, FounderStep, SerialStep DEF MembershipInv
<1>. QED  BY InitInv, SerialInit, <1>1, PTL DEF Spec

(* With one call at a time updateMemberRole and removeMember demote and     *)
(* remove no owner, be it the founder or one who was made an owner.         *)
THEOREM OwnersKeptSeriallyHolds == Spec => OwnersKeptSerially
<1>1. SerialRows => [~disturbed' => \A u \in Users :
                       member[u].role = "OWNER" => member'[u].role = "OWNER"]_vars
  BY DEF SerialRows
<1>2. MembershipInv /\ SerialInv /\ [Next]_vars =>
        [~disturbed' => \A u \in Users :
           member[u].role = "OWNER" => member'[u].role = "OWNER"]_vars
  BY <1>1, SerialChanges
<1>. QED  BY <1>2, SerialInvariant, PTL DEF Spec, OwnersKeptSerially

(* With one call at a time, the save of updateMemberRole never brings a     *)
(* removed member back: who has no row gets one by a new row only.          *)
THEOREM NoResurrectionSeriallyHolds == Spec => NoResurrectionSerially
<1>1. SerialRows => [~disturbed' => \A u \in Users :
                       member[u].role = "NONE" /\ member'[u].role # "NONE" =>
                         rows'[u] = rows[u] + 1]_vars
  BY DEF SerialRows
<1>2. MembershipInv /\ SerialInv /\ [Next]_vars =>
        [~disturbed' => \A u \in Users :
           member[u].role = "NONE" /\ member'[u].role # "NONE" => rows'[u] = rows[u] + 1]_vars
  BY <1>1, SerialChanges
<1>. QED  BY <1>2, SerialInvariant, PTL DEF Spec, NoResurrectionSerially
=============================================================================
