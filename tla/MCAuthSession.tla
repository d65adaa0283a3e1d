--------------------------- MODULE MCAuthSession ---------------------------
(* Small instances of AuthSession for TLC. *)
EXTENDS AuthSession, TLC

\* Tabs are interchangeable (for the run without liveness).
MCSymmetry == Permutations(Tabs)
=============================================================================
