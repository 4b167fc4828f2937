------------------------------- MODULE Solver -------------------------------
(***************************************************************************)
(* The repair solver, src/xas_allocation/solver.py: who may move           *)
(* (partition), what a pairing and a move cost, and the assignments of     *)
(* least cost at one churn price.  Everything here is a function of a      *)
(* snapshot s, a combined override ov and a churn price.                   *)
(*                                                                         *)
(* Orders are the positions 1..NumOrders of their keys in the solver's     *)
(* fixed sort.  Dates are days 1..MaxDay, 0 standing for "not set" in a    *)
(* filter.  Costs are the integers handed to the min-cost-flow library:    *)
(* LateCost[d] is the scaled late_days^1.5, the other prices come from     *)
(* solver_config.yaml in the same scale.                                   *)
(***************************************************************************)
EXTENDS Totals, Sequences, FiniteSets

CONSTANTS
  NumOrders,     \* how many orders the pull holds
  Vehicle,       \* the car pool
  NoCar,         \* "holds no car" (an absent allocation, the dummy node)
  Model,         \* sales models
  Card,          \* job cards
  CardOf,        \* the job card each order line sits on
  MaxDay,        \* the last day of the calendar
  StepWeight,    \* priority step -> weight (priority_steps)
  DefaultStep,   \* default_priority_step
  LateCost,      \* days late -> scaled convex cost
  EarlyCost,     \* scaled cost of one early day (early_weight)
  BreakCost,     \* commitment -> scaled price of a kept promise (break_cost)
  NoCarCost,     \* scaled cost of leaving an order with no car
  Scale,         \* cost_scale
  Sweep          \* churn_price_sweep, ascending

Order == 1..NumOrders
Name == Order \cup Card            \* what a planner may call an order by
Day == 1..MaxDay
Commitment == {"hard", "soft"}
NoPrice == -1                      \* the override sets no churn price

ASSUME SolverAssumption ==
  /\ NumOrders \in Nat \ {0}
  /\ MaxDay \in Nat
  /\ NoCar \notin Vehicle
  /\ Card \cap Order = {}
  /\ CardOf \in [Order -> Card]
  /\ DefaultStep \in DOMAIN StepWeight
  /\ \A step \in DOMAIN StepWeight : StepWeight[step] \in Nat
  /\ LateCost \in [0..MaxDay -> Nat]
  /\ EarlyCost \in Nat
  /\ BreakCost \in [Commitment -> Nat]
  /\ NoCarCost \in Nat
  /\ Scale \in Nat \ {0}
  /\ Sweep \in Seq(Nat)
  /\ Len(Sweep) > 0
  /\ \A i, j \in DOMAIN Sweep : i < j => Sweep[i] < Sweep[j]

-----------------------------------------------------------------------------
(* The data one solve reads: the flattened snapshot and the override.      *)

Snapshot ==
  [ alloc      : [Order -> Vehicle \cup {NoCar}],
    promise    : [Order -> Day],
    wants      : [Order -> Model],
    commitment : [Order -> Commitment],
    eta        : [Vehicle -> Day],
    model      : [Vehicle -> Model] ]

\* A car claimed twice yields no allocation for anyone (datasource.translate),
\* so the allocation a session starts from is a matching.
Matching(p) ==
  \A o, q \in Order : o # q /\ p[o] # NoCar => p[o] # p[q]

Filter ==
  [models : SUBSET Model, orders : SUBSET Name, from : 0..MaxDay, to : 0..MaxDay]

NoFilter == [models |-> {}, orders |-> {}, from |-> 0, to |-> 0]

-----------------------------------------------------------------------------
(* Prices.                                                                 *)

\* Whether a set of order names refers to order o: the line or its card.
NamesOrder(o, names) == o \in names \/ CardOf[o] \in names

\* The step the planner set for o this turn; the last entry naming it wins.
StepOf(o, priority) ==
  LET naming == {i \in DOMAIN priority : NamesOrder(o, {priority[i].order})}
      last   == CHOOSE i \in naming : \A j \in naming : j <= i
  IN  IF naming = {} THEN DefaultStep ELSE priority[last].step

\* An unknown step raises while the override is compiled, whoever it names.
StepsKnown(priority) ==
  \A i \in DOMAIN priority : priority[i].step \in DOMAIN StepWeight

EffectiveWeight(o, ov) == StepWeight[StepOf(o, ov.priority)]

Tardiness(s, o, v) ==
  IF s.eta[v] > s.promise[o] THEN s.eta[v] - s.promise[o] ELSE 0

Earliness(s, o, v) ==
  IF s.promise[o] > s.eta[v] THEN s.promise[o] - s.eta[v] ELSE 0

PairCost(s, ov, o, v) ==
  EffectiveWeight(o, ov) * (LateCost[Tardiness(s, o, v)] + EarlyCost * Earliness(s, o, v))

\* Mutant: breaking a promise is free.
NoBreakCost(s, o) == 0

\* What taking o's car away breaks: nothing when it holds none or is late.
BreakCostOf(s, o) ==
  IF s.alloc[o] = NoCar THEN 0
  ELSE IF Tardiness(s, o, s.alloc[o]) > 0 THEN 0
  ELSE BreakCost[s.commitment[o]]

Eligible(s, o, v) == s.wants[o] = s.model[v]

-----------------------------------------------------------------------------
(* Who may move: never beats only beats also.                              *)

Disrupted(s) ==
  {o \in Order : s.alloc[o] # NoCar /\ Tardiness(s, o, s.alloc[o]) > 0}

FilterActive(f) == f.models # {} \/ f.orders # {} \/ f.from # 0 \/ f.to # 0

Matches(s, o, f) ==
  /\ f.models # {} => s.wants[o] \in f.models
  /\ f.orders # {} => NamesOrder(o, f.orders)
  /\ f.from # 0 => s.promise[o] >= f.from
  /\ f.to # 0 => s.promise[o] <= f.to

NeedsHelp(s, o) == o \in Disrupted(s) \/ s.alloc[o] = NoCar

\* may_move.also: anyone, or the orders of an active filter.
Authorised(s, o, ov) ==
  ov.anyone \/ (FilterActive(ov.also) /\ Matches(s, o, ov.also))

\* Mutant: an explicit permission beats `never`.
FreeOrdersAlsoFirst(s, ov) ==
  {o \in Order : /\ NeedsHelp(s, o) \/ Authorised(s, o, ov)
                 /\ NamesOrder(o, ov.never) => Authorised(s, o, ov)
                 /\ FilterActive(ov.only) => Matches(s, o, ov.only)}

FreeOrders(s, ov) ==
  {o \in Order : /\ ~NamesOrder(o, ov.never)
                 /\ NeedsHelp(s, o) \/ Authorised(s, o, ov)
                 /\ FilterActive(ov.only) => Matches(s, o, ov.only)}

\* Mutant: a pinned order's car is not consumed.
EveryVehicle(s, ov) == Vehicle

\* Every car not held by a pinned order.
FreeVehicles(s, ov) ==
  Vehicle \ {s.alloc[o] : o \in Order \ FreeOrders(s, ov)}

-----------------------------------------------------------------------------
(* The min-cost flow at one churn price.                                   *)

\* churn price and broken promise, charged on every arc that changes o's car.
MoveCost(s, o, price) == Scale * price + BreakCostOf(s, o)

\* Mutants of ArcCost: churn charged on a car landing off the promised date
\* rather than on a changed car; the no-car dummy without its price.
ArcCostChargingDates(s, ov, price, o, v) ==
  IF v = NoCar THEN NoCarCost + MoveCost(s, o, price)
  ELSE PairCost(s, ov, o, v)
         + (IF s.eta[v] # s.promise[o] THEN MoveCost(s, o, price) ELSE 0)
ArcCostFreeDummy(s, ov, price, o, v) ==
  (IF v = NoCar THEN 0 ELSE PairCost(s, ov, o, v))
    + (IF v # s.alloc[o] THEN MoveCost(s, o, price) ELSE 0)

ArcCost(s, ov, price, o, v) ==
  (IF v = NoCar THEN NoCarCost ELSE PairCost(s, ov, o, v))
    + (IF v # s.alloc[o] THEN MoveCost(s, o, price) ELSE 0)

\* Mutant: arcs to cars of any model.
ReachableAnyModel(s, ov, o) == FreeVehicles(s, ov)

\* The cars o has an arc to.
Reachable(s, ov, o) == {v \in FreeVehicles(s, ov) : Eligible(s, o, v)}

\* The integral flows: pinned orders keep what they hold, each free order
\* takes one eligible free car or the no-car dummy, a car is taken once.
Plans(s, ov) ==
  LET free  == FreeOrders(s, ov)
      reach == [o \in free |-> Reachable(s, ov, o) \cup {NoCar}]
  IN  {p \in [Order -> Vehicle \cup {NoCar}] :
         /\ \A o \in Order \ free : p[o] = s.alloc[o]
         /\ \A o \in free : p[o] \in reach[o]
         /\ \A o, q \in free : o # q /\ p[o] # NoCar => p[o] # p[q]}

Objective(s, ov, price, p) ==
  LET free == FreeOrders(s, ov)
  IN  Total([o \in Order |-> IF o \in free THEN ArcCost(s, ov, price, o, p[o]) ELSE 0],
            NumOrders)

\* The plans the library may return: it solves to optimality and says so.
Solutions(s, ov, price) ==
  LET plans == Plans(s, ov)
      cost  == [p \in plans |-> Objective(s, ov, price, p)]
  IN  {p \in plans : \A q \in plans : cost[p] <= cost[q]}

Unfilled(s, ov, p) == {o \in FreeOrders(s, ov) : p[o] = NoCar}

\* Mutant: an order that lost its car is not a change.
NChangesTaken(s, ov, p) ==
  LET free == FreeOrders(s, ov)
  IN  Total([o \in Order |-> IF o \in free /\ p[o] # NoCar /\ s.alloc[o] # p[o]
                              THEN 1 ELSE 0], NumOrders)

\* n_changes: free orders whose car differs from the one they held.
NChanges(s, ov, p) ==
  LET free == FreeOrders(s, ov)
  IN  Total([o \in Order |-> IF o \in free /\ s.alloc[o] # p[o] THEN 1 ELSE 0], NumOrders)

\* _self_check: the pairings it reports, and its verdict.  (That every order is
\* placed cannot fail: whoever is out of play and without a car is held out.)
WrongModel(s, p) == {o \in Order : p[o] # NoCar /\ ~Eligible(s, o, p[o])}
SelfCheckOk(s, p) == WrongModel(s, p) = {} /\ Matching(p)

\* Mutant: the middle position of the sweep for its price.
MiddlePosition(ov) == IF ov.churn # NoPrice THEN ov.churn ELSE Len(Sweep) \div 2

\* The price presented as "the" plan: the override's, else the middle one.
ChosenPrice(ov) ==
  IF ov.churn # NoPrice THEN ov.churn ELSE Sweep[(Len(Sweep) \div 2) + 1]
=============================================================================
