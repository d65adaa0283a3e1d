------------------------------ MODULE MCOutbox ------------------------------
(* Small instances of Outbox for TLC: an event whose subscriber may throw    *)
(* (the first) beside one whose subscriber cannot (the last).                *)
EXTENDS Outbox

MCFallible == {1}
=============================================================================
