--------------------------- MODULE PayoutContract ---------------------------
(***************************************************************************)
(* What the operator promises about the payout address that the payment    *)
(* service is given: it follows the addresses the owner declares, late     *)
(* perhaps and not each of them, but in their order; a malformed address   *)
(* appears as no address at all; and the service starts with none.  It     *)
(* says nothing once somebody else has written the objects on the way.     *)
(***************************************************************************)
EXTENDS Naturals, Sequences

CONSTANTS
  Addresses, \* what an owner types in
  Valid,     \* the well-formed addresses among them
  Empty      \* no address

VARIABLES
  declared,  \* the addresses of the Shop, in the order they were declared
  at,        \* the one the payment service has reached, 0 for none yet
  shown,     \* what the payment service is given
  touched    \* whether anybody but the operator has written on the way

vars == <<declared, at, shown, touched>>

Typed == Addresses \cup {Empty}

\* What the payment service is given when it has reached position p of d.
Given(d, p) == IF p > 0 /\ d[p] \in Valid THEN d[p] ELSE Empty

Init ==
  /\ declared \in {<<a>> : a \in Typed}
  /\ at = 0
  /\ shown = Empty
  /\ touched = FALSE

Declare ==
  /\ \E a \in Typed : declared' = Append(declared, a)
  /\ UNCHANGED <<at, shown, touched>>

Follow ==
  /\ at' \in at..Len(declared)
  /\ shown' = Given(declared, at')
  /\ UNCHANGED <<declared, touched>>

\* Somebody else writes: from then on nothing is promised of what is shown.
Meddle ==
  /\ touched' = TRUE
  /\ at' \in Nat /\ shown' \in Typed
  /\ declared' = declared \/ \E a \in Typed : declared' = Append(declared, a)

Next == Declare \/ Follow \/ Meddle

Spec == Init /\ [][Next]_vars
=============================================================================
