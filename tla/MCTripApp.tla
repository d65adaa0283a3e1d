------------------------------ MODULE MCTripApp ------------------------------
EXTENDS TripApp

MCRequests ==
  {{}, {[type |-> "VEG_ONLY", enabled |-> TRUE], [type |-> "NO_REDEYE", enabled |-> TRUE]},
   {[type |-> "VEG_ONLY", enabled |-> FALSE], [type |-> "BUDGET_MAX_PER_PERSON", enabled |-> TRUE]}}

\* UTC, ten hours ahead of it, and the nights to winter and to summer time.
MCClocks ==
  {c \in [0..LastDay + 1 -> {0, 60, 600}] :
     /\ <<c[1], c[2]>> \in {<<0, 0>>, <<600, 600>>, <<60, 0>>, <<0, 60>>}
     /\ \A d \in DOMAIN c : c[d] = IF d < 2 THEN c[1] ELSE c[2]}

\* The keys that some mutation writes.
MCWatchedKeys ==
  {qk.workspaces, qk.workspace, qk.trips, qk.members, qk.itinerary, qk.bookings, qk.tasks,
   qk.documents, qk.comments, qk.proposals, qk.rules}

\* Pages that lead to a creation, list trips, or are one of the trip's own.  A
\* creation leads to /workspace besides.
MCOpenPaths == {"/workspaces", "/workspace/new", "/", "/trips/new", "/itinerary"}

\* Calls, tabs and slots have the same names, so that one symmetry serves them all.
MCSymmetry == Permutations(Calls)
=============================================================================
