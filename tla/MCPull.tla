------------------------------- MODULE MCPull -------------------------------
(***************************************************************************)
(* Instances of Pull for TLC: scenario files of a few rows, each with at   *)
(* most one thing wrong.                                                   *)
(***************************************************************************)
EXTENDS Pull

CONSTANTS k1, k2, c1, c2

Line(k) ==
  [key |-> k, model |-> "m", promise |-> 2, holds |-> Blank, commitment |-> "hard"]

\* What a row of orders.csv may look like: whole, or with one gap.
OrderShapes ==
  LET whole == {[Line(k) EXCEPT !.holds = c] : k \in {k1, k2}, c \in {c1, c2, Blank}}
  IN  whole
      \cup {[Line(k1) EXCEPT !.model = "n", !.holds = c1]}
      \cup {[row EXCEPT !.key = Blank] : row \in {Line(k1)}}
      \cup {[Line(k2) EXCEPT !.holds = c1, !.promise = 0],
            [Line(k2) EXCEPT !.holds = c2, !.model = Blank],
            [Line(k2) EXCEPT !.holds = c1, !.commitment = Blank]}

\* The car of a row: c1 and the nameless one are of model m, c2 of either.
Supply(c, m, day) == [code |-> c, model |-> m, by |-> day, inPool |-> TRUE]

VehicleShapes ==
  {Supply(c1, "m", 2), Supply(c1, "m", 3), Supply(c2, "m", 1), Supply(Blank, "m", 1),
   Supply(c1, Blank, 1), Supply(c1, "m", 0),
   [Supply(c1, "m", 1) EXCEPT !.inPool = FALSE]}

Files(shapes, most) == UNION {[1..n -> shapes] : n \in 0..most}

MCOrderFiles == Files(OrderShapes, 2)
MCVehicleFiles == Files(VehicleShapes, 2)
=============================================================================
