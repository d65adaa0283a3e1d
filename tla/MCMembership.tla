--------------------------- MODULE MCMembership ---------------------------
(* Small instances of Membership for TLC. *)
EXTENDS Membership, TLC

\* Requests, and the users other than the founder, are interchangeable.
MCSymmetry == Permutations(Calls) \cup Permutations(Users \ {Founder})
=============================================================================
