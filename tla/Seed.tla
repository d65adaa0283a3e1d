--------------------------------- MODULE Seed ---------------------------------
(***************************************************************************)
(* seed.ts: fills an empty development database with two workspaces, two   *)
(* trips and the contents of one of them.  Each save is a transaction of   *)
(* its own; the script may fail between any two of them, and a second run  *)
(* fails at the users' unique e-mail addresses.  A row is its table and    *)
(* number, the rows that it refers to and, if it is about something done   *)
(* in a trip, that trip and the users who did it.                          *)
(***************************************************************************)
EXTENDS Naturals, Sequences

VARIABLES
  seeding,  \* a run is under way
  saved     \* how many of the saves have been done

seedVars == <<seeding, saved>>

Entry(table, n, refs) == [id |-> <<table, n>>, refs |-> refs, trip |-> 0, by |-> {}]
Users(U) == {<<"user", u>> : u \in U}

\* A row of trip t, written by the users U.
InTrip(t, U, table, n, refs) ==
  [id |-> <<table, n>>, refs |-> refs \cup Users(U) \cup {<<"trip", t>>}, trip |-> t, by |-> U]

\* Memberships are numbered by the place and the user: workspace 1, user 2 is 12.
Membership(table, of, place, u) == Entry(table, 10 * place + u, {<<of, place>>} \cup Users({u}))

-----------------------------------------------------------------------------
SeedUsers == {Entry("user", u, {}) : u \in 1..4}

SeedWorkspaces == {Entry("workspace", w, {}) : w \in 1..2}

SeedWorkspaceMembers ==
  {Membership("workspace_member", "workspace", 1, u) : u \in 1..4} \cup
  {Membership("workspace_member", "workspace", 2, u) : u \in 1..2}

SeedTrips == {Entry("trip", t, {<<"workspace", t>>, <<"user", 1>>}) : t \in 1..2}

\* James, user 4, is invited to trip 1 only.
SeedTripMembers ==
  {Membership("trip_member", "trip", 1, u) : u \in 1..4} \cup
  {Membership("trip_member", "trip", 2, u) : u \in 1..2}

SeedBookings ==
  LET by == <<1, 1, 2, 3, 2, 1, 3>> IN
  {InTrip(1, {by[n]}, "booking", n, {}) : n \in 1..7}

SeedDays == {InTrip(1, {}, "day", n, {}) : n \in 1..8}

\* An item of a day, with its booking (0 for none) and its author.
SeedItem(n, day, booking, u) ==
  InTrip(1, {u}, "item", n, {<<"day", day>>} \cup {<<"booking", b>> : b \in {booking} \ {0}})

SeedItemsDays1To4 ==
  LET day     == <<1, 1, 1, 2, 2, 2, 3, 3, 4>>
      booking == <<1, 3, 0, 5, 0, 0, 0, 4, 0>>
      by      == <<1, 2, 3, 2, 3, 1, 2, 3, 1>>
  IN {SeedItem(n, day[n], booking[n], by[n]) : n \in 1..9}

SeedItemsDays5To8 ==
  LET day     == <<5, 5, 6, 6, 7, 7, 8, 8>>
      booking == <<6, 0, 0, 0, 0, 0, 0, 2>>
      by      == <<1, 2, 3, 1, 2, 1, 2, 1>>
  IN {SeedItem(9 + n, day[n], booking[n], by[n]) : n \in 1..8}

SeedItems == SeedItemsDays1To4 \cup SeedItemsDays5To8

SeedProposal == {InTrip(1, {1}, "proposal", 1, {})}

SeedOptions ==
  LET by == <<1, 3, 2>> IN
  {InTrip(1, {by[n]}, "option", n, {<<"proposal", 1>>}) : n \in 1..3}

\* Votes are numbered by option and user.
SeedVote(o, u) == InTrip(1, {u}, "vote", 10 * o + u, {<<"option", o>>})

SeedVotes == {SeedVote(1, 1), SeedVote(1, 3), SeedVote(3, 2)}

SeedClosedProposal == {InTrip(1, {2}, "proposal", 2, {})}

SeedClosedOptions ==
  LET by == <<2, 3>> IN
  {InTrip(1, {by[n]}, "option", 3 + n, {<<"proposal", 2>>}) : n \in 1..2}

SeedClosedVotes == {SeedVote(4, 1), SeedVote(4, 2), SeedVote(4, 4), SeedVote(5, 3)}

SeedComments ==
  LET by == <<2, 3, 1, 2>> IN
  {InTrip(1, {by[n]}, "comment", n, IF n = 2 THEN {<<"item", 4>>} ELSE {}) : n \in 1..4}

\* Assignee and author.
SeedTasks ==
  LET who == <<{3, 1}, {2, 1}, {1}, {1, 2}, {2, 3}, {3, 1}>> IN
  {InTrip(1, who[n], "task", n, {}) : n \in 1..6}

\* Rows whose objects are not in the bucket.
SeedDocuments ==
  LET by == <<1, 2, 1, 1, 3, 1>> IN
  {InTrip(1, {by[n]}, "document", n, {}) : n \in 1..6}

SeedRuleSet == {InTrip(1, {}, "rule_set", 1, {})}

SeedRules == {Entry("rule", n, {<<"rule_set", 1>>}) : n \in 1..4}

\* Recipient and actor.
SeedNotifications ==
  LET who == <<{1, 2}, {1, 2}, {1, 3}, {2, 1}, {3, 2}, {1}>> IN
  {InTrip(1, who[n], "notification", n, {}) : n \in 1..6}

SeedDisruption == {InTrip(1, {1}, "disruption", 1, {<<"booking", 6>>})}

SeedCase == {InTrip(1, {}, "rebooking_case", 1, {<<"booking", 6>>, <<"disruption", 1>>})}

SeedCaseOptions == {Entry("rebooking_option", n, {<<"rebooking_case", 1>>}) : n \in 1..3}

SeedAuditLog ==
  LET by == <<1, 1, 1, 2, 2, 1, 3, 1>>
      target == <<<<"workspace", 1>>, <<"trip", 1>>, <<"booking", 1>>, <<"day", 1>>,
                  <<"item", 4>>, <<"proposal", 1>>, <<"task", 1>>, <<"document", 1>>>>
  IN {InTrip(1, {by[n]}, "audit_log", n, {<<"workspace", 1>>, target[n]}) : n \in 1..8}

\* Mutant: comments are saved before the items that they are about.
SavesCommentsEarly ==
  <<SeedUsers, SeedWorkspaces, SeedWorkspaceMembers, SeedTrips, SeedTripMembers, SeedBookings,
    SeedDays, SeedComments, SeedItems>>

\* The order in which the script saves.
Saves ==
  <<SeedUsers, SeedWorkspaces, SeedWorkspaceMembers, SeedTrips, SeedTripMembers, SeedBookings,
    SeedDays, SeedItems, SeedProposal, SeedOptions, SeedVotes, SeedClosedProposal,
    SeedClosedOptions, SeedClosedVotes, SeedComments, SeedTasks, SeedDocuments, SeedRuleSet,
    SeedRules, SeedNotifications, SeedDisruption, SeedCase, SeedCaseOptions, SeedAuditLog>>

-----------------------------------------------------------------------------
SeedInit == seeding = FALSE /\ saved = 0

\* A second run fails at its first save and changes nothing.
SeedStart == ~seeding /\ saved = 0 /\ seeding' = TRUE /\ UNCHANGED saved

SeedSave ==
  /\ seeding
  /\ saved' = saved + 1
  /\ seeding' = (saved + 1 < Len(Saves))

SeedFails == seeding /\ seeding' = FALSE /\ UNCHANGED saved

SeedNext == SeedStart \/ SeedSave \/ SeedFails

-----------------------------------------------------------------------------
Seeded == UNION {Saves[n] : n \in 1..saved}
SeededIds == {r.id : r \in Seeded}

(* Wherever the script stops, every row it has saved refers to rows that    *)
(* are there, and whoever acts in a trip is a member of it.                 *)
SeedReferencesHold ==
  /\ \A r \in Seeded : r.refs \subseteq SeededIds
  /\ \A r \in Seeded : \A u \in r.by : <<"trip_member", 10 * r.trip + u>> \in SeededIds
=============================================================================
