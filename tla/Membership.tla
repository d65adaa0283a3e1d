----------------------------- MODULE Membership -----------------------------
(***************************************************************************)
(* Who belongs to a workspace and to its trips: WorkspaceService with the  *)
(* WorkspaceRoleGuard in front of it, and TripsService.createTrip.  Calls  *)
(* interleave at every await.  A member row that was read is kept across   *)
(* the next awaits: save(row) updates the row with its id, or inserts it   *)
(* again when it has been deleted meanwhile; remove(row) deletes by id.    *)
(* One workspace is modelled: rows of different workspaces share nothing.  *)
(***************************************************************************)
EXTENDS Naturals, FiniteSets

CONSTANTS
  Users, Founder,  \* the founder creates the workspace
  Trips,           \* bound: primary keys of the trips table
  Calls,           \* requests that may be in flight at once
  Granted,         \* bound: the roles that requests ask for
  MaxRows,         \* bound: member rows ever inserted per user
  MaxCuts,         \* bound: how often calls are cut short
  None

ASSUME MembershipAssumption ==
  /\ Founder \in Users
  /\ None \notin Users \cup Trips
  /\ Granted \subseteq {"GUEST", "MEMBER", "ADMIN", "OWNER"}
  /\ MaxRows \in Nat \ {0}
  /\ MaxCuts \in Nat

VARIABLES
  workspace,  \* the workspaces row exists
  member,     \* the workspace_members row of each user
  rows,       \* how many member rows were inserted for each user (their ids)
  trip,       \* the trips table: each trip's createdByUserId
  tripOwner,  \* the trip_members table: each trip's OWNER
  announced,  \* trips whose trip.created event was published
  pc, loc,    \* where each call is suspended and what it holds
  cuts,       \* calls cut short so far
  disturbed   \* history: calls have overlapped, or one was cut short

vars == <<workspace, member, rows, trip, tripOwner, announced, pc, loc, cuts, disturbed>>

tables == <<workspace, member, rows, trip, tripOwner, announced>>

Roles == {"GUEST", "MEMBER", "ADMIN", "OWNER"}

\* Roles as numbered in WORKSPACE_ROLE_LEVEL; a missing row has no level.
Level(role) == CASE role = "OWNER" -> 4 [] role = "ADMIN" -> 3
                 [] role = "MEMBER" -> 2 [] role = "GUEST" -> 1 [] OTHER -> 0

NoMember == [role |-> "NONE", id |-> 0]
Member == {NoMember} \cup [role : Roles, id : Nat \ {0}]

Steps == {"idle", "ws.member", "assert", "inv.existing", "inv.save", "read", "role.save",
          "rem.remove", "trip.check", "trip.save", "trip.member", "trip.publish"}

Locals == [op : {"none", "invite", "role", "remove"}, actor : Users \cup {None},
           target : Users \cup {None}, role : Roles \cup {"NONE"}, copy : Member,
           trip : Trips \cup {None}]

NoLocals == [op |-> "none", actor |-> None, target |-> None, role |-> "NONE",
             copy |-> NoMember, trip |-> None]

Init ==
  /\ workspace = FALSE
  /\ member = [u \in Users |-> NoMember]
  /\ rows = [u \in Users |-> 0]
  /\ trip = [t \in Trips |-> None]
  /\ tripOwner = [t \in Trips |-> None]
  /\ announced = {}
  /\ pc = [q \in Calls |-> "idle"]
  /\ loc = [q \in Calls |-> NoLocals]
  /\ cuts = 0
  /\ disturbed = FALSE

Present(u) == member[u].role # "NONE"

-----------------------------------------------------------------------------
Begin(q, step, locals) ==
  /\ pc[q] = "idle"
  /\ pc' = [pc EXCEPT ![q] = step]
  /\ loc' = [loc EXCEPT ![q] = locals]
  /\ disturbed' = (disturbed \/ \E p \in Calls \ {q} : pc[p] # "idle")
  /\ UNCHANGED cuts

GoWith(q, step, locals) ==
  /\ pc' = [pc EXCEPT ![q] = step]
  /\ loc' = [loc EXCEPT ![q] = locals]
  /\ UNCHANGED <<cuts, disturbed>>

Go(q, step) == GoWith(q, step, loc[q])

End(q) == GoWith(q, "idle", NoLocals)

\* INSERT of a new member row.
Insert(u, role) ==
  /\ member' = [member EXCEPT ![u] = [role |-> role, id |-> rows[u] + 1]]
  /\ rows' = [rows EXCEPT ![u] = @ + 1]

-----------------------------------------------------------------------------
(* createWorkspace(): the workspace row, then the OWNER row of its founder. *)

CreateSave(q) ==
  /\ ~workspace
  /\ Begin(q, "ws.member", NoLocals)
  /\ workspace' = TRUE
  /\ UNCHANGED <<member, rows, trip, tripOwner, announced>>

CreateOwner(q) ==
  /\ pc[q] = "ws.member"
  /\ Insert(Founder, "OWNER")
  /\ End(q)
  /\ UNCHANGED <<workspace, trip, tripOwner, announced>>

-----------------------------------------------------------------------------
(* inviteMember(), updateMemberRole() and removeMember(): the guard checks  *)
(* the caller's role, then assertRole() reads and checks it once more.      *)

Needed(op) == CASE op = "role" -> "OWNER" [] op = "trip" -> "MEMBER" [] OTHER -> "ADMIN"

MayDo(op, u) == Level(member[u].role) >= Level(Needed(op))

Guard(q, op, actor, target, role) ==
  /\ MayDo(op, actor)
  /\ op = "remove" => role = "NONE"
  /\ op # "remove" => role # "NONE"
  /\ Begin(q, "assert", [NoLocals EXCEPT !.op = op, !.actor = actor, !.target = target,
                           !.role = role])
  /\ UNCHANGED tables

AssertRole(q) ==
  /\ pc[q] = "assert"
  /\ IF MayDo(loc[q].op, loc[q].actor)
     THEN Go(q, IF loc[q].op = "invite" THEN "inv.existing" ELSE "read")
     ELSE End(q)
  /\ UNCHANGED tables

\* 409 when there is a row already.
InvExisting(q) ==
  /\ pc[q] = "inv.existing"
  /\ IF Present(loc[q].target) THEN End(q) ELSE Go(q, "inv.save")
  /\ UNCHANGED tables

\* The unique index on (workspace, user) refuses a second row.
InvSave(q) ==
  /\ pc[q] = "inv.save"
  /\ \/ /\ ~Present(loc[q].target) /\ rows[loc[q].target] < MaxRows
        /\ Insert(loc[q].target, loc[q].role)
     \/ Present(loc[q].target) /\ UNCHANGED <<member, rows>>
  /\ End(q)
  /\ UNCHANGED <<workspace, trip, tripOwner, announced>>

\* Mutant: an owner's row is not refused.
ReadMemberAnyRole(q) ==
  /\ pc[q] = "read"
  /\ IF Present(loc[q].target)
     THEN GoWith(q, IF loc[q].op = "role" THEN "role.save" ELSE "rem.remove",
                 [loc[q] EXCEPT !.copy = member[loc[q].target]])
     ELSE End(q)
  /\ UNCHANGED tables

\* Mutant: a missing row is not refused.
ReadMemberMissing(q) ==
  /\ pc[q] = "read"
  /\ IF member[loc[q].target].role # "OWNER"
     THEN GoWith(q, IF loc[q].op = "role" THEN "role.save" ELSE "rem.remove",
                 [loc[q] EXCEPT !.copy = member[loc[q].target]])
     ELSE End(q)
  /\ UNCHANGED tables

\* 404 when there is no such row; 400 when it is an owner's.
ReadMember(q) ==
  /\ pc[q] = "read"
  /\ IF Present(loc[q].target) /\ member[loc[q].target].role # "OWNER"
     THEN GoWith(q, IF loc[q].op = "role" THEN "role.save" ELSE "rem.remove",
                 [loc[q] EXCEPT !.copy = member[loc[q].target]])
     ELSE End(q)
  /\ UNCHANGED tables

SameRow(q) == Present(loc[q].target) /\ member[loc[q].target].id = loc[q].copy.id

\* save(member): an update of the same row, or an insert when the user has
\* none any more; a newer row of the user makes the unique index refuse it.
RoleSave(q) ==
  /\ pc[q] = "role.save"
  /\ IF SameRow(q) \/ ~Present(loc[q].target)
     THEN member' = [member EXCEPT ![loc[q].target] =
                       [loc[q].copy EXCEPT !.role = loc[q].role]]
     ELSE UNCHANGED member
  /\ End(q)
  /\ UNCHANGED <<workspace, rows, trip, tripOwner, announced>>

\* Mutant: the row is kept without a role.
RemRemoveKeepsRow(q) ==
  /\ pc[q] = "rem.remove"
  /\ IF SameRow(q)
     THEN member' = [member EXCEPT ![loc[q].target].role = "NONE"]
     ELSE UNCHANGED member
  /\ End(q)
  /\ UNCHANGED <<workspace, rows, trip, tripOwner, announced>>

\* remove(member): nothing happens when the row has gone.
RemRemove(q) ==
  /\ pc[q] = "rem.remove"
  /\ IF SameRow(q)
     THEN member' = [member EXCEPT ![loc[q].target] = NoMember]
     ELSE UNCHANGED member
  /\ End(q)
  /\ UNCHANGED <<workspace, rows, trip, tripOwner, announced>>

-----------------------------------------------------------------------------
(* createTrip(): the guard asks for a MEMBER, the service for any row; then *)
(* the trip row, its OWNER row, the event.                                  *)

TripGuard(q, u) ==
  /\ MayDo("trip", u)
  /\ Begin(q, "trip.check", [NoLocals EXCEPT !.actor = u])
  /\ UNCHANGED tables

TripCheck(q) ==
  /\ pc[q] = "trip.check"
  /\ IF Present(loc[q].actor) THEN Go(q, "trip.save") ELSE End(q)
  /\ UNCHANGED tables

\* Mutant: the event is published before the OWNER row is saved.
TripSavePublishesFirst(q, t) ==
  /\ pc[q] = "trip.save"
  /\ trip[t] = None
  /\ trip' = [trip EXCEPT ![t] = loc[q].actor]
  /\ announced' = announced \cup {t}
  /\ GoWith(q, "trip.member", [loc[q] EXCEPT !.trip = t])
  /\ UNCHANGED <<workspace, member, rows, tripOwner>>

TripSave(q, t) ==
  /\ pc[q] = "trip.save"
  /\ trip[t] = None
  /\ trip' = [trip EXCEPT ![t] = loc[q].actor]
  /\ GoWith(q, "trip.member", [loc[q] EXCEPT !.trip = t])
  /\ UNCHANGED <<workspace, member, rows, tripOwner, announced>>

TripMember(q) ==
  /\ pc[q] = "trip.member"
  /\ tripOwner' = [tripOwner EXCEPT ![loc[q].trip] = loc[q].actor]
  /\ Go(q, "trip.publish")
  /\ UNCHANGED <<workspace, member, rows, trip, announced>>

TripPublish(q) ==
  /\ pc[q] = "trip.publish"
  /\ announced' = announced \cup {loc[q].trip}
  /\ End(q)
  /\ UNCHANGED <<workspace, member, rows, trip, tripOwner>>

-----------------------------------------------------------------------------
\* A database error ends one call where it is, a crash all of them.
Cut(Q) ==
  /\ cuts < MaxCuts
  /\ \E q \in Q : pc[q] # "idle"
  /\ pc' = [q \in Calls |-> IF q \in Q THEN "idle" ELSE pc[q]]
  /\ loc' = [q \in Calls |-> IF q \in Q THEN NoLocals ELSE loc[q]]
  /\ cuts' = cuts + 1
  /\ disturbed' = TRUE
  /\ UNCHANGED tables

Next ==
  \/ \E q \in Calls :
       \/ CreateSave(q) \/ CreateOwner(q)
       \/ \E op \in {"invite", "role", "remove"}, actor, target \in Users,
             role \in Granted \cup {"NONE"} : Guard(q, op, actor, target, role)
       \/ AssertRole(q) \/ InvExisting(q) \/ InvSave(q)
       \/ ReadMember(q) \/ RoleSave(q) \/ RemRemove(q)
       \/ \E u \in Users : TripGuard(q, u)
       \/ \E t \in Trips : TripSave(q, t)
       \/ TripCheck(q) \/ TripMember(q) \/ TripPublish(q)
  \/ \E Q \in SUBSET Calls : Cut(Q)

Spec == Init /\ [][Next]_vars
-----------------------------------------------------------------------------
TypeOK ==
  /\ workspace \in BOOLEAN
  /\ member \in [Users -> Member]
  /\ rows \in [Users -> 0..MaxRows]
  /\ trip \in [Trips -> Users \cup {None}]
  /\ tripOwner \in [Trips -> Users \cup {None}]
  /\ announced \subseteq Trips
  /\ pc \in [Calls -> Steps]
  /\ loc \in [Calls -> Locals]
  /\ cuts \in 0..MaxCuts
  /\ disturbed \in BOOLEAN

Quiescent == \A q \in Calls : pc[q] = "idle"

(* Once the founder has a row it is an OWNER row for good: updateMemberRole *)
(* and removeMember refuse owners, and because nobody ever sees the founder *)
(* in another role, not even a stale copy can demote or remove the founder. *)
FounderStaysOwner == rows[Founder] > 0 => member[Founder].role = "OWNER"

(* When all calls are done and none was cut short, the workspace has an     *)
(* owner and every trip is owned by the user who created it; and a trip     *)
(* that was announced has its owner, whatever was cut short.                *)
NoOrphans ==
  /\ Quiescent /\ cuts = 0 =>
       /\ workspace => \E u \in Users : member[u].role = "OWNER"
       /\ \A t \in Trips : tripOwner[t] = trip[t]
  /\ \A t \in announced : tripOwner[t] \in Users /\ tripOwner[t] = trip[t]

(* With one call at a time, no owner is ever demoted or removed, not only   *)
(* the founder.                                                             *)
OwnersKeptSerially ==
  [][~disturbed' => \A u \in Users :
       member[u].role = "OWNER" => member'[u].role = "OWNER"]_vars

(* With one call at a time, a user who has no row gets one by a new row     *)
(* only: saving a role never brings a removed member back.                  *)
NoResurrectionSerially ==
  [][~disturbed' => \A u \in Users :
       member[u].role = "NONE" /\ member'[u].role # "NONE" => rows'[u] = rows[u] + 1]_vars

(* "Cannot change the owner role.", "Cannot remove the workspace owner."    *)
(* (updateMemberRole, removeMember): the same, whatever calls overlap.      *)
OwnersKept ==
  [][\A u \in Users : member[u].role = "OWNER" => member'[u].role = "OWNER"]_vars
=============================================================================
