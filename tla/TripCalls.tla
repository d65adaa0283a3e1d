------------------------------ MODULE TripCalls ------------------------------
(***************************************************************************)
(* What the services of a trip's contents have in common.  Their tables    *)
(* map primary keys to rows; None is "no such row".  A call reads a row,   *)
(* keeps the copy over its next awaits and saves it back: save(copy)       *)
(* updates the row with that key, or inserts it again when it has been     *)
(* deleted meanwhile.  It ends by publishing an event about the row.       *)
(* assertTripAccess reads trip_members, which nothing here changes, and    *)
(* only ends calls of strangers: the calls modelled are those of members.  *)
(***************************************************************************)
EXTENDS Naturals, FiniteSets

CONSTANTS
  Keys,     \* bound: primary keys of all the tables (uuids, never used twice)
  Calls,    \* requests that may be in flight at once
  MaxCuts,  \* bound: how often calls are cut short
  None

ASSUME TripCallsAssumption == None \notin Keys /\ MaxCuts \in Nat

VARIABLES
  row,       \* the tables: the row of each key
  used,      \* keys that were ever inserted
  told,      \* per key: the last event about it, and what that event says
  pc, loc,   \* where each call is suspended and what it holds
  cuts,      \* calls cut short so far
  disturbed  \* history: calls have overlapped, or one was cut short

callVars == <<pc, loc, cuts, disturbed>>
tableVars == <<row, used, told>>

NoLocals == [op |-> "none", key |-> None, copy |-> None, input |-> None, gone |-> {}]

\* Deleted rows.
Gone == {k \in used : row[k] = None}

Quiescent == \A q \in Calls : pc[q] = "idle"

\* The first look-up of a call; gone remembers what was deleted before it.
Begin(q, step, locals) ==
  /\ pc[q] = "idle"
  /\ pc' = [pc EXCEPT ![q] = step]
  /\ loc' = [loc EXCEPT ![q] = [locals EXCEPT !.gone = Gone]]
  /\ disturbed' = (disturbed \/ ~Quiescent)
  /\ UNCHANGED cuts

GoWith(q, step, locals) ==
  /\ pc' = [pc EXCEPT ![q] = step]
  /\ loc' = [loc EXCEPT ![q] = locals]
  /\ UNCHANGED <<cuts, disturbed>>

End(q) == GoWith(q, "idle", NoLocals)

\* save() of a new entity.
Insert(k, r) ==
  /\ k \notin used
  /\ row' = [row EXCEPT ![k] = r]
  /\ used' = used \cup {k}

\* save() of an entity that was read; remove() of one.
SaveBack(k, r) == row' = [row EXCEPT ![k] = r] /\ UNCHANGED used
RemoveRow(k) == SaveBack(k, None)

\* EventsService.publish, the last step of a call.  An event is filed under the
\* row that it tells of, also where its aggregateId names another one (a vote's
\* option, an evaluation's item, an attached booking).
Publish(q, step) ==
  /\ pc[q] = step
  /\ told' = [told EXCEPT ![loc[q].key] = [type |-> loc[q].op, row |-> loc[q].copy]]
  /\ End(q)
  /\ UNCHANGED <<row, used>>

\* A database or storage error ends one call where it is, a crash all of them.
Cut(Q) ==
  /\ cuts < MaxCuts
  /\ \E q \in Q : pc[q] # "idle"
  /\ pc' = [q \in Calls |-> IF q \in Q THEN "idle" ELSE pc[q]]
  /\ loc' = [q \in Calls |-> IF q \in Q THEN NoLocals ELSE loc[q]]
  /\ cuts' = cuts + 1
  /\ disturbed' = TRUE
  /\ UNCHANGED tableVars

CallsInit ==
  /\ pc = [q \in Calls |-> "idle"]
  /\ loc = [q \in Calls |-> NoLocals]
  /\ cuts = 0
  /\ disturbed = FALSE
=============================================================================
