--------------------------- MODULE PlannerPromise ---------------------------
(***************************************************************************)
(* What a repair session promises the planner, with no solver in it        *)
(* (solver.partition, "precedence is part of the contract"; carry_forward, *)
(* "permission for ONE solve"):                                            *)
(*   - a plan moves only orders that are in trouble or that the planner    *)
(*     allowed to be displaced in this very turn;                          *)
(*   - it moves no order the planner's standing words protect;             *)
(*   - it gives no car to two orders;                                      *)
(*   - a permission ends with the turn, a protection does not.             *)
(***************************************************************************)
EXTENDS Integers

CONSTANTS Order, Vehicle, NoCar

VARIABLES held, settled, offer, consent, protected

vars == <<held, settled, offer, consent, protected>>

NoDoubleBooking(p) ==
  \A o, q \in Order : o # q /\ p[o] # NoCar => p[o] # p[q]

\* The offers the promise leaves open.
Acceptable ==
  {p \in [Order -> Vehicle \cup {NoCar}] :
     /\ NoDoubleBooking(p)
     /\ \A o \in Order : p[o] # held[o] => /\ o \notin settled \/ o \in consent
                                           /\ o \notin protected}

Init ==
  /\ held \in [Order -> Vehicle \cup {NoCar}]
  /\ settled \in SUBSET Order
  /\ offer = held
  /\ consent = {}
  /\ protected = {}

\* The planner allows displacements, for this turn.
Allow ==
  /\ offer = held
  /\ consent' \in SUBSET Order
  /\ UNCHANGED <<held, settled, offer, protected>>

\* The planner says which orders to leave alone, until they say otherwise.
Protect ==
  /\ offer = held
  /\ protected' \in SUBSET Order
  /\ UNCHANGED <<held, settled, offer, consent>>

Propose ==
  /\ offer = held
  /\ offer' \in Acceptable
  /\ UNCHANGED <<held, settled, consent, protected>>

EndTurn ==
  /\ offer' = held
  /\ consent' = {}
  /\ UNCHANGED <<held, settled, protected>>

Next == Allow \/ Protect \/ Propose \/ EndTurn

Spec == Init /\ [][Next]_vars
=============================================================================
