------------------------------- MODULE Repair -------------------------------
(***************************************************************************)
(* A repair session, src/xas_allocation/session.py over solver.py.  The    *)
(* pull is frozen when the session starts.  The agent keeps ONE override   *)
(* object and edits it as the planner speaks; a solve sweeps the churn     *)
(* price over it, presents one price as "the" plan and writes it down;     *)
(* carry_forward makes the override of the next turn out of this one.      *)
(*                                                                         *)
(* Two variables record what the planner said, apart from the override     *)
(* the code keeps: consent (the orders they allowed to be displaced this   *)
(* turn) and protected (the orders their latest `never` and `only` put     *)
(* out of reach).  No action of the program reads them.                    *)
(***************************************************************************)
EXTENDS Solver

CONSTANTS
  Books,            \* the pulls a session may start from
  PriorityChoices, OnlyChoices, NeverChoices,
  AlsoChoices, ChurnChoices   \* what a planner may ask for, lever by lever

Override ==
  [ priority : Seq([order : Name, step : STRING]),
    only     : Filter,
    anyone   : BOOLEAN,
    also     : Filter,
    never    : SUBSET Name,
    churn    : ChurnChoices \cup {NoPrice} ]

ASSUME RepairAssumption ==
  /\ Books \subseteq Snapshot
  /\ \A s \in Books : Matching(s.alloc)
  /\ PriorityChoices \subseteq Seq([order : Name, step : STRING])
  /\ OnlyChoices \subseteq Filter
  /\ AlsoChoices \subseteq Filter
  /\ NeverChoices \subseteq SUBSET Name
  /\ ChurnChoices \subseteq Nat \cup {NoPrice}

VARIABLES
  snap,        \* the frozen snapshot of this session
  override,    \* the combined override
  phase,       \* "steering", "sweeping" or "reported"
  results,     \* the plans solved so far, one per price of the sweep
  plan,        \* [price, cars]: the plan presented; nothing moved before that
  consent,     \* history: orders the planner allowed to be displaced this turn
  protected    \* history: orders the planner's standing words keep in place

vars == <<snap, override, phase, results, plan, consent, protected>>

-----------------------------------------------------------------------------
EmptyOverride ==
  [ priority |-> <<>>, only |-> NoFilter, anyone |-> FALSE, also |-> NoFilter,
    never |-> {}, churn |-> NoPrice ]

\* Nothing proposed: everyone keeps the car they hold.
NothingProposed(s) == [price |-> NoPrice, cars |-> s.alloc]

\* Mutants of CarryForward: the permission lives on; the whole of may_move, or
\* the priority, goes with it.
CarryForwardKeepingPermission(ov) == ov
CarryForwardDroppingPriority(ov) ==
  [ov EXCEPT !.anyone = FALSE, !.also = NoFilter, !.priority = <<>>]
CarryForwardDroppingMayMove(ov) ==
  [ov EXCEPT !.anyone = FALSE, !.also = NoFilter, !.only = NoFilter, !.never = {}]

\* The next turn's override: the bump permission is spent, all else stands.
CarryForward(ov) == [ov EXCEPT !.anyone = FALSE, !.also = NoFilter]

\* What the words `never` and `only` put out of reach.
OutOfReach(s, never, only) ==
  {o \in Order : NamesOrder(o, never) \/ (FilterActive(only) /\ ~Matches(s, o, only))}

\* Holding a car that meets the promise: what a displacement disturbs.
SettledOrders(s) == {o \in Order : s.alloc[o] # NoCar /\ o \notin Disrupted(s)}

Init ==
  /\ snap \in Books
  /\ override = EmptyOverride
  /\ phase = "steering"
  /\ results = <<>>
  /\ plan = NothingProposed(snap)
  /\ consent = {}
  /\ protected = {}

-----------------------------------------------------------------------------
(* The planner speaks; the agent edits the override.                       *)

Edit(ov) ==
  /\ phase = "steering"
  /\ override' = ov
  /\ UNCHANGED <<snap, phase, results, plan>>

SetPriority ==
  \E pr \in PriorityChoices :
    /\ Edit([override EXCEPT !.priority = pr])
    /\ UNCHANGED <<consent, protected>>

SetChurn ==
  \E price \in ChurnChoices :
    /\ Edit([override EXCEPT !.churn = price])
    /\ UNCHANGED <<consent, protected>>

SetOnly ==
  \E f \in OnlyChoices :
    /\ Edit([override EXCEPT !.only = f])
    /\ protected' = OutOfReach(snap, override.never, f)
    /\ UNCHANGED consent

SetNever ==
  \E names \in NeverChoices :
    /\ Edit([override EXCEPT !.never = names])
    /\ protected' = OutOfReach(snap, names, override.only)
    /\ UNCHANGED consent

\* "You may bump these": a filter under may_move.also.  An empty filter is an
\* override half built by the agent and allows nobody.
GrantFilter ==
  \E f \in AlsoChoices :
    /\ Edit([override EXCEPT !.anyone = FALSE, !.also = f])
    /\ consent' = IF FilterActive(f) THEN {o \in Order : Matches(snap, o, f)} ELSE {}
    /\ UNCHANGED protected

\* "Bump whoever you must": may_move.also = true.
GrantAnyone ==
  /\ Edit([override EXCEPT !.anyone = TRUE, !.also = NoFilter])
  /\ consent' = Order
  /\ UNCHANGED protected

-----------------------------------------------------------------------------
(* repair_and_report.                                                      *)

\* partition, and with it the check on the steps: an unknown step raises here,
\* before anything is solved or written.
BeginSweep ==
  /\ phase = "steering"
  /\ StepsKnown(override.priority)
  /\ phase' = "sweeping"
  /\ UNCHANGED <<snap, override, results, plan, consent, protected>>

\* One turn of churn_sweep's loop.
SolveNextPrice ==
  /\ phase = "sweeping"
  /\ Len(results) < Len(Sweep)
  /\ \E p \in Solutions(snap, override, Sweep[Len(results) + 1]) :
       results' = Append(results, p)
  /\ UNCHANGED <<snap, override, phase, plan, consent, protected>>

\* The price to present: solved by the sweep, or solved once more when the
\* planner steered off it.  save_plan writes the plan; the report follows.
Present ==
  /\ phase = "sweeping"
  /\ Len(results) = Len(Sweep)
  /\ LET price == ChosenPrice(override)
         swept == {i \in DOMAIN Sweep : Sweep[i] = price}
     IN  \E p \in IF swept # {} THEN {results[i] : i \in swept}
                                ELSE Solutions(snap, override, price) :
           plan' = [price |-> price, cars |-> p]
  /\ phase' = "reported"
  /\ UNCHANGED <<snap, override, results, consent, protected>>

\* carry_forward, once the plan is out.
NextTurn ==
  /\ phase = "reported"
  /\ override' = CarryForward(override)
  /\ phase' = "steering"
  /\ results' = <<>>
  /\ plan' = NothingProposed(snap)
  /\ consent' = {}
  /\ UNCHANGED <<snap, protected>>

Next ==
  \/ SetPriority
  \/ SetChurn
  \/ SetOnly
  \/ SetNever
  \/ GrantFilter
  \/ GrantAnyone
  \/ BeginSweep
  \/ SolveNextPrice
  \/ Present
  \/ NextTurn

Spec == Init /\ [][Next]_vars

-----------------------------------------------------------------------------
(* What the plan record and the report say of a plan.                      *)

RowStatus(s, ov, p, o) ==
  IF o \in Unfilled(s, ov, p) THEN "no_car"
  ELSE IF p[o] # NoCar /\ p[o] # s.alloc[o] THEN "moved"
  ELSE "unchanged"

RowsWith(s, ov, p, status) == {o \in Order : RowStatus(s, ov, p, o) = status}

\* still_late: allocated past the promise, whatever was done about it
StillLate(s, p) == {o \in Order : p[o] # NoCar /\ Tardiness(s, o, p[o]) > 0}

\* bump_candidates: settled orders whose car is of the model of an order that
\* is still late, and lands by that order's promise.
BumpCandidates(s, p) ==
  {o \in SettledOrders(s) :
     \E late \in Disrupted(s) \cap StillLate(s, p) :
       /\ s.model[s.alloc[o]] = s.wants[late]
       /\ s.eta[s.alloc[o]] <= s.promise[late]}

\* The orders of a plan whose car is not the one they held.
Movers(s, p) == {o \in Order : p[o] # s.alloc[o]}

\* Every plan solved this turn, presented or only swept.
ComputedPlans ==
  {results[i] : i \in DOMAIN results} \cup (IF phase = "reported" THEN {plan.cars} ELSE {})

-----------------------------------------------------------------------------
(* Properties.                                                             *)

TypeOK ==
  /\ snap \in Books
  /\ override \in Override
  /\ phase \in {"steering", "sweeping", "reported"}
  /\ results \in Seq([Order -> Vehicle \cup {NoCar}])
  /\ Len(results) <= Len(Sweep)
  /\ plan \in [price : ChurnChoices \cup {NoPrice} \cup {Sweep[i] : i \in DOMAIN Sweep},
               cars : [Order -> Vehicle \cup {NoCar}]]
  /\ consent \in SUBSET Order
  /\ protected \in SUBSET Order

\* A settled order changes car, in any plan computed this turn, only if the
\* planner allowed it since the last turn ended: carry_forward spent every
\* older permission, and no other lever widens the free set (solver.py,
\* "nothing is ever bumped without it").
NoUninvitedBump ==
  \A p \in ComputedPlans : Movers(snap, p) \cap SettledOrders(snap) \subseteq consent

\* An order the planner put out of reach keeps its car in every plan, however
\* many turns ago they said so and whatever was allowed since ("never beats
\* only beats also").
ProtectedStay ==
  \A p \in ComputedPlans : Movers(snap, p) \cap protected = {}

\* No plan gives one car to two orders, pinned or free: freeing an order frees
\* its car, pinning one consumes it.
NoDoubleBooking == \A p \in ComputedPlans : Matching(p)

\* What the self-check of a plan reports (solver.py:463) is never the solver's
\* doing: exactly the wrong-model pairings the pull came with, of the orders the
\* steering keeps in place.  It fails on every plan as long as there is one, and
\* clears when they are put in play: those that are never keep such a car.
MismatchesAreInherited ==
  LET stuck == WrongModel(snap, snap.alloc) \ FreeOrders(snap, override)
  IN  \A p \in ComputedPlans : /\ WrongModel(snap, p) = stuck
                                /\ SelfCheckOk(snap, p) <=> stuck = {}

\* Along the sweep a dearer change never buys more changes, and fewer changes
\* are never cheaper in lateness, earliness and broken promises: what makes the
\* results a frontier a planner can walk.
FrontierMonotone ==
  \A i, j \in DOMAIN results :
    i < j => /\ NChanges(snap, override, results[j]) <= NChanges(snap, override, results[i])
             /\ Objective(snap, override, 0, results[i]) <= Objective(snap, override, 0, results[j])

\* No plan leaves more orders without a car than the cars and the steering
\* force it to: no_car_cost outweighs every lateness, churn and break price.
FewestWithoutCar ==
  phase = "reported" =>
    \A p \in ComputedPlans, q \in Plans(snap, override) :
      Cardinality(Unfilled(snap, override, p)) <= Cardinality(Unfilled(snap, override, q))

\* A settled order is displaced for somebody: the car it loses is taken by
\* another order.  (A car of the wrong model is given up in any case.)
NoIdleDisplacement ==
  \A p \in ComputedPlans : \A o \in Movers(snap, p) \cap SettledOrders(snap) :
    Eligible(snap, o, snap.alloc[o]) => \E q \in Order \ {o} : p[q] = snap.alloc[o]

\* The other reason an order can still be late (session.py:406 has one only): a
\* compatible car that is left idle would cost more to move to than it would
\* save, at the price the plan was solved at.  Nobody goes without beside one.
Solved ==
  {[price |-> Sweep[i], cars |-> results[i]] : i \in DOMAIN results}
    \cup (IF phase = "reported" THEN {plan} ELSE {})

Idle(p) == {v \in Vehicle : \A o \in Order : p[o] # v}

IdleCarsDoNotPay ==
  \A solved \in Solved : \A o \in FreeOrders(snap, override), v \in Idle(solved.cars) :
    LET car == solved.cars[o]
        moving(w) == IF w # snap.alloc[o] THEN MoveCost(snap, o, solved.price) ELSE 0
    IN  Eligible(snap, o, v) =>
          /\ car # NoCar
          /\ PairCost(snap, override, o, car) - PairCost(snap, override, o, v)
               <= moving(v) - moving(car)

\* Once a plan is applied, the standing steering at the same price asks for no
\* further change: on a pull with the plan in place, keeping every car is a
\* solution again.
Adopted(p) == [snap EXCEPT !.alloc = p]

RepairSettles ==
  phase = "reported" =>
    \A i \in DOMAIN results :
      results[i] \in Solutions(Adopted(results[i]), CarryForward(override), Sweep[i])

\* The solver's n_changes is the moved rows of plan.json plus the orders whose
\* row says no_car although they held one.
ChangesAddUp ==
  phase = "reported" =>
    NChanges(snap, override, plan.cars) =
      Cardinality(RowsWith(snap, override, plan.cars, "moved"))
        + Cardinality({o \in RowsWith(snap, override, plan.cars, "no_car") :
                         snap.alloc[o] # NoCar})

-----------------------------------------------------------------------------
(* What the code's texts say that the code does not do.                    *)

\* session.py:406 "The one reason an order can still be late after a repair":
\* "no compatible car free".
LateOnlyForWantOfACar ==
  phase = "reported" =>
    \A o \in StillLate(snap, plan.cars), v \in Vehicle :
      Eligible(snap, o, v) /\ (\A q \in Order : plan.cars[q] # v)
        => Tardiness(snap, o, v) >= Tardiness(snap, o, plan.cars[o])

\* session.py:266 "Untouched orders the planner *could* authorize displacing":
\* naming a candidate under may_move.also puts it in play.
CandidatesCanBeBumped ==
  phase = "reported" =>
    \A o \in BumpCandidates(snap, plan.cars) :
      o \in FreeOrders(snap, [override EXCEPT !.anyone = FALSE,
                                              !.also = [NoFilter EXCEPT !.orders = {o}]])

-----------------------------------------------------------------------------
\* The session implements its promise to the planner.
Promise == INSTANCE PlannerPromise
             WITH held <- snap.alloc, settled <- SettledOrders(snap), offer <- plan.cars

ImplementsPromise == Promise!Spec
=============================================================================
