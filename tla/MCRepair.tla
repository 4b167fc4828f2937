------------------------------ MODULE MCRepair ------------------------------
(***************************************************************************)
(* Instances of Repair for TLC: three order lines on two job cards, up to  *)
(* four cars, prices of solver_config.yaml at scale 100 instead of 1000    *)
(* and with no_car_cost at 10^6 instead of 10^7 (TLC's integers have 32    *)
(* bits; it still outweighs every lateness of a 25-day calendar).          *)
(***************************************************************************)
EXTENDS Repair

CONSTANTS c1, c2, c3, c4, jobA, jobB

MCCardOf == [o \in 1..3 |-> IF o = 3 THEN jobB ELSE jobA]

MCStepWeight == [normal |-> 1, high |-> 2, urgent |-> 4]

\* round(100 * d^1.5) for d = 0..25
LateTable ==
  << 0, 100, 283, 520, 800, 1118, 1470, 1852, 2263,
     2700, 3162, 3648, 4157, 4687, 5238, 5809, 6400, 7009,
     7637, 8282, 8944, 9623, 10319, 11030, 11758, 12500 >>

MCLateCost == [d \in 0..25 |-> LateTable[d + 1]]

MCBreakCost == [hard |-> 40000, soft |-> 20000]

\* The ends and the middle of churn_price_sweep.
MCSweep == <<0, 25, 100>>

Book(alloc, promise, firm, eta, model) ==
  [ alloc      |-> alloc,
    promise    |-> promise,
    wants      |-> [o \in Order |-> "m"],
    commitment |-> [o \in Order |-> IF o \in firm THEN "hard" ELSE "soft"],
    eta        |-> eta,
    model      |-> model ]

Etas(a, b, c, d) ==
  [v \in Vehicle |-> CASE v = c1 -> a [] v = c2 -> b [] v = c3 -> c [] OTHER -> d]

\* Cars not in odd are of the model everybody wants.
ModelBut(odd) == [v \in Vehicle |-> IF v \in odd THEN "n" ELSE "m"]

-----------------------------------------------------------------------------
(* Steering over several turns, on a few telling books.                    *)

TellingBooks ==
  { \* 1 is twenty days late, 2 settled with an early car, 3 holds none
    Book(<<c1, c2, NoCar>>, <<5, 9, 8>>, {2}, Etas(25, 3, 20, 20), ModelBut({c4})),
    \* one car, wanted by the order that holds it and by one without
    Book(<<c1, NoCar, NoCar>>, <<5, 9, 25>>, {}, Etas(5, 25, 25, 25), ModelBut({c2, c3})),
    \* days late 1 and 9 may be traded for 5 and 5
    Book(<<c1, c2, c3>>, <<7, 3, 9>>, {1}, Etas(8, 12, 9, 25), ModelBut({c4})),
    \* the settled order 2 holds a car of the wrong model
    Book(<<c1, c2, c3>>, <<5, 9, 8>>, {2, 3}, Etas(25, 3, 8, 12), ModelBut({c2, c4})),
    \* an idle car would help the late order 1
    Book(<<c1, c2, c3>>, <<5, 9, 8>>, {3}, Etas(8, 3, 8, 5), ModelBut({})) }

TurnBooks ==
  TellingBooks \cup
  { Book(alloc, promise, {1}, Etas(7, 3, 20, 9), ModelBut(odd)) :
      alloc \in {<<c1, c2, c3>>, <<c3, NoCar, c1>>, <<c1, c4, NoCar>>},
      promise \in {5, 10} \X {5, 10} \X {10}, odd \in {{c2}} }

TurnPriority ==
  { <<>>,
    <<[order |-> 1, step |-> "urgent"]>>,
    <<[order |-> jobA, step |-> "high"], [order |-> 2, step |-> "urgnet"]>> }

TurnOnly == { NoFilter, [NoFilter EXCEPT !.from = 4, !.to = 8] }

TurnNever == { {}, {1}, {jobA} }

TurnAlso == { NoFilter, [NoFilter EXCEPT !.orders = {2}], [NoFilter EXCEPT !.models = {"m"}, !.to = 8] }

TurnChurn == { NoPrice, 3 }

-----------------------------------------------------------------------------
(* One solve, on every small book.                                         *)

\* At most one order holds no car; nobody holds c4.
Holdings ==
  {a \in [Order -> {c1, c2, c3, NoCar}] :
     Matching(a) /\ Cardinality({o \in Order : a[o] = NoCar}) <= 1}

Promises == {<<3, 7, 12>>, <<7, 12, 3>>, <<12, 12, 7>>, <<7, 7, 3>>}

SweepBooks ==
  { Book(alloc, promise, {1}, Etas(6, 12, late, 9), ModelBut(odd)) :
      alloc \in Holdings, promise \in Promises, late \in {10, 15}, odd \in {{}, {c2}} }

SweepPriority == { <<[order |-> 2, step |-> "urgent"]>> }

NoOnly == {NoFilter}
NoNever == {{}}
NoAlso == {NoFilter}
NoChurn == {NoPrice}
=============================================================================
