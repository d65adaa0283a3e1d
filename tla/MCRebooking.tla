---------------------------- MODULE MCRebooking ----------------------------
(* Small instances of Rebooking for TLC. *)
EXTENDS Rebooking, TLC

\* Nothing, or a status, a time, no end and a record at once.
MCBodies ==
  {NoBody} \cup {[status |-> "CANCELED", startsAt |-> Entered, endsAt |-> Null, details |-> c] : c \in Cases}

\* A confirmed booking with a start.
MCNewBodies == {[NoBody EXCEPT !.status = "CONFIRMED", !.startsAt = Entered]}

MCItemBodies == {Absent, "IDEA"}

\* Keys of one table, and requests, are interchangeable.
MCSymmetry == Permutations(Cases) \cup Permutations(Options) \cup Permutations(Calls)
=============================================================================
