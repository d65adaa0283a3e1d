-------------------------- MODULE RebookingContract --------------------------
(***************************************************************************)
(* What the rebooking workflow promises, without its tables and awaits: a  *)
(* booking is only ever rewritten to an option that was chosen for a case, *)
(* and only an option that was offered for a case is ever chosen for it.   *)
(***************************************************************************)
CONSTANTS Cases, Options

VARIABLES
  offered,   \* pairs <<case, option>>: generated for the case so far
  decided,   \* ... recorded as the decision of the case so far
  applied    \* ... written into the case's booking so far

contractVars == <<offered, decided, applied>>

Init == offered = {} /\ decided = {} /\ applied = {}

\* Options are generated for one case; an option belongs to no other case.
Offer(c, O) ==
  /\ \A o \in O, d \in Cases : <<d, o>> \notin offered
  /\ offered' = offered \cup ({c} \X O)
  /\ UNCHANGED <<decided, applied>>

Decide(c, o) ==
  /\ <<c, o>> \in offered
  /\ decided' = decided \cup {<<c, o>>}
  /\ UNCHANGED <<offered, applied>>

Apply(c, o) ==
  /\ <<c, o>> \in decided
  /\ applied' = applied \cup {<<c, o>>}
  /\ UNCHANGED <<offered, decided>>

Next ==
  \E c \in Cases :
    \/ \E O \in SUBSET Options : Offer(c, O)
    \/ \E o \in Options : Decide(c, o) \/ Apply(c, o)

Spec == Init /\ [][Next]_contractVars
=============================================================================
