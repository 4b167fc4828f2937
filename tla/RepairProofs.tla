---------------------------- MODULE RepairProofs ----------------------------
(***************************************************************************)
(* Proofs about Repair, for every pull, every calendar, every price list   *)
(* and any number of orders and turns.                                     *)
(*                                                                         *)
(* The inductive invariant IInv ties the two history variables to the      *)
(* override the code keeps (consent is what the override authorises NOW,   *)
(* protected is what its never and only exclude NOW), and every computed   *)
(* plan to the override in force.  The session's safety then reduces to    *)
(* what the solver's constraints say of one plan (the lemmas about Plans), *)
(* and the frontier to one fact about sums (SumLemmas!TotalLinear).        *)
(***************************************************************************)
EXTENDS Repair, SumLemmas

Car == Vehicle \cup {NoCar}

-----------------------------------------------------------------------------
(* Facts about one plan.                                                   *)

\* A planned order that moves was free to: pinned orders keep their car.
LEMMA MoversAreFree ==
  ASSUME NEW s, NEW ov, NEW p \in Plans(s, ov)
  PROVE  Movers(s, p) \subseteq FreeOrders(s, ov)
BY DEF Plans, Movers

\* A settled order that moves was authorised by the override being solved.
LEMMA SettledMoversAuthorised ==
  ASSUME NEW s, NEW ov, NEW p \in Plans(s, ov)
  PROVE  Movers(s, p) \cap SettledOrders(s) \subseteq {o \in Order : Authorised(s, o, ov)}
BY MoversAreFree DEF FreeOrders, NeedsHelp, SettledOrders

\* No order that never or only excludes moves.
LEMMA MoversWithinReach ==
  ASSUME NEW s, NEW ov, NEW p \in Plans(s, ov)
  PROVE  Movers(s, p) \cap OutOfReach(s, ov.never, ov.only) = {}
BY MoversAreFree DEF FreeOrders, OutOfReach

\* A plan made from a matching is a matching: free orders take distinct cars,
\* pinned orders held distinct cars, and a free car is no pinned order's.
LEMMA PlanIsMatching ==
  ASSUME NEW s, NEW ov, NEW p \in Plans(s, ov), Matching(s.alloc)
  PROVE  Matching(p)
<1> SUFFICES ASSUME NEW o \in Order, NEW q \in Order, o # q, p[o] # NoCar
             PROVE  p[o] # p[q]
  BY DEF Matching
<1> DEFINE free == FreeOrders(s, ov)
<1>1. \A x \in Order \ free : p[x] = s.alloc[x]
  BY DEF Plans
<1>2. \A x \in free : p[x] # NoCar => \A y \in Order \ free : p[x] # s.alloc[y]
  BY DEF Plans, Reachable, FreeVehicles
<1>3. \A x, y \in free : x # y /\ p[x] # NoCar => p[x] # p[y]
  BY DEF Plans
<1>4. CASE o \in free /\ q \in free
  BY <1>3, <1>4
<1>5. CASE o \in free /\ q \notin free
  BY <1>1, <1>2, <1>5
<1>6. CASE o \notin free /\ q \in free
  BY <1>1, <1>2, <1>6
<1>7. CASE o \notin free /\ q \notin free
  BY <1>1, <1>7 DEF Matching
<1> QED
  BY <1>4, <1>5, <1>6, <1>7

\* The orders holding a car of another model in a plan are the pinned ones that
\* came with it.
LEMMA PlanPairsModels ==
  ASSUME NEW s, NEW ov, NEW p \in Plans(s, ov)
  PROVE  WrongModel(s, p) = WrongModel(s, s.alloc) \ FreeOrders(s, ov)
<1>1. ASSUME NEW o \in FreeOrders(s, ov), p[o] # NoCar
      PROVE  Eligible(s, o, p[o])
  BY <1>1 DEF Plans, Reachable
<1>2. \A o \in Order \ FreeOrders(s, ov) : p[o] = s.alloc[o]
  BY DEF Plans
<1> QED
  BY <1>1, <1>2 DEF WrongModel

-----------------------------------------------------------------------------
(* The inductive invariant.                                                *)

\* The history variables say what the override says.
WordsMatchOverride ==
  /\ consent = {o \in Order : Authorised(snap, o, override)}
  /\ protected = OutOfReach(snap, override.never, override.only)

\* The churn prices a solve may be asked for.
Prices == (ChurnChoices \ {NoPrice}) \cup {Sweep[i] : i \in DOMAIN Sweep}

\* What was solved was solved under the override in force.
SolvedUnderOverride ==
  /\ \A i \in DOMAIN results : results[i] \in Solutions(snap, override, Sweep[i])
  /\ phase = "reported" =>
       /\ plan.cars \in Plans(snap, override)
       /\ plan.price \in Prices /\ plan.cars \in Solutions(snap, override, plan.price)

\* Nothing is solved while the planner speaks, nothing is proposed before a
\* report, and a solve has passed the check on the priority steps.
PhasesInOrder ==
  /\ phase = "steering" => results = <<>>
  /\ phase # "reported" => plan = NothingProposed(snap)
  /\ phase # "steering" => StepsKnown(override.priority)

IInv == TypeOK /\ WordsMatchOverride /\ SolvedUnderOverride /\ PhasesInOrder

\* The empty filter is a filter, and it is not in effect.
LEMMA NoFilterIdle == NoFilter \in Filter /\ ~FilterActive(NoFilter)
BY SolverAssumption DEF NoFilter, Filter, FilterActive

\* The price presented is one of the sweep's or one the planner asked for.
LEMMA ChosenPriceKnown ==
  ASSUME NEW ov \in Override
  PROVE  /\ ChosenPrice(ov) \in ChurnChoices \cup {NoPrice} \cup {Sweep[i] : i \in DOMAIN Sweep}
         /\ ChosenPrice(ov) \in Prices
<1>1. Len(Sweep) \in Nat /\ Len(Sweep) > 0 /\ DOMAIN Sweep = 1..Len(Sweep)
  BY SolverAssumption
<1>2. (Len(Sweep) \div 2) + 1 \in DOMAIN Sweep
  BY <1>1
<1> QED
  BY <1>2 DEF ChosenPrice, Override, Prices

\* A solution is a plan.
LEMMA SolutionIsPlan ==
  ASSUME NEW s, NEW ov, NEW price
  PROVE  Solutions(s, ov, price) \subseteq Plans(s, ov)
BY DEF Solutions


-----------------------------------------------------------------------------
(* The invariant is inductive.                                             *)

\* It holds when the session starts.
LEMMA InitIInv == Init => IInv
<1> SUFFICES ASSUME Init PROVE IInv
  OBVIOUS
<1> USE DEF Init
<1>1. snap \in Snapshot /\ snap.alloc \in [Order -> Vehicle \cup {NoCar}]
  BY RepairAssumption DEF Snapshot
<1>2. override \in Override
  BY NoFilterIdle DEF EmptyOverride, Override
<1>3. TypeOK
  BY <1>1, <1>2 DEF TypeOK, NothingProposed
<1>4. WordsMatchOverride
  BY NoFilterIdle DEF WordsMatchOverride, EmptyOverride, Authorised, OutOfReach, NamesOrder
<1>5. SolvedUnderOverride /\ PhasesInOrder
  BY DEF SolvedUnderOverride, PhasesInOrder
<1> QED
  BY <1>3, <1>4, <1>5 DEF IInv

\* An edit of the override that keeps the history in step keeps the invariant:
\* nothing is solved yet.
LEMMA EditKeepsIInv ==
  ASSUME IInv, NEW ov \in Override, Edit(ov), WordsMatchOverride',
         consent' \in SUBSET Order, protected' \in SUBSET Order
  PROVE  IInv'
<1> USE DEF Edit, IInv
<1>1. TypeOK'
  BY DEF TypeOK
<1>2. SolvedUnderOverride'
  <2>1. results' = <<>> /\ phase' = "steering"
    BY DEF PhasesInOrder
  <2> QED BY <2>1 DEF SolvedUnderOverride
<1>3. PhasesInOrder'
  BY DEF PhasesInOrder
<1> QED
  BY <1>1, <1>2, <1>3

\* Every step keeps it.
LEMMA NextIInv == IInv /\ [Next]_vars => IInv'
<1> SUFFICES ASSUME IInv, [Next]_vars PROVE IInv'
  OBVIOUS
<1> USE DEF IInv
<1>0. override \in Override /\ snap \in Books
  BY DEF TypeOK
<1>1. CASE SetPriority
  <2>1. PICK pr \in PriorityChoices : /\ Edit([override EXCEPT !.priority = pr])
                                      /\ UNCHANGED <<consent, protected>>
    BY <1>1 DEF SetPriority
  <2> DEFINE ov == [override EXCEPT !.priority = pr]
  <2>2. ov \in Override
    BY <1>0, RepairAssumption DEF Override
  <2>3. /\ ov.anyone = override.anyone /\ ov.also = override.also
        /\ ov.never = override.never /\ ov.only = override.only
    BY <1>0 DEF Override
  <2>4. WordsMatchOverride'
    BY <2>1, <2>3 DEF WordsMatchOverride, Authorised, Edit
  <2> HIDE DEF ov
  <2> QED BY <2>1, <2>2, <2>4, EditKeepsIInv DEF TypeOK, ov
<1>2. CASE SetChurn
  <2>1. PICK price \in ChurnChoices : /\ Edit([override EXCEPT !.churn = price])
                                      /\ UNCHANGED <<consent, protected>>
    BY <1>2 DEF SetChurn
  <2> DEFINE ov == [override EXCEPT !.churn = price]
  <2>2. ov \in Override
    BY <1>0 DEF Override
  <2>3. /\ ov.anyone = override.anyone /\ ov.also = override.also
        /\ ov.never = override.never /\ ov.only = override.only
    BY <1>0 DEF Override
  <2>4. WordsMatchOverride'
    BY <2>1, <2>3 DEF WordsMatchOverride, Authorised, Edit
  <2> HIDE DEF ov
  <2> QED BY <2>1, <2>2, <2>4, EditKeepsIInv DEF TypeOK, ov
<1>3. CASE SetOnly
  <2>1. PICK f \in OnlyChoices : /\ Edit([override EXCEPT !.only = f])
                                 /\ protected' = OutOfReach(snap, override.never, f)
                                 /\ UNCHANGED consent
    BY <1>3 DEF SetOnly
  <2> DEFINE ov == [override EXCEPT !.only = f]
  <2>2. ov \in Override
    BY <1>0, RepairAssumption DEF Override
  <2>3. /\ ov.anyone = override.anyone /\ ov.also = override.also
        /\ ov.never = override.never /\ ov.only = f
    BY <1>0 DEF Override
  <2>4. WordsMatchOverride'
    BY <2>1, <2>3 DEF WordsMatchOverride, Authorised, Edit
  <2> HIDE DEF ov
  <2> QED BY <2>1, <2>2, <2>4, EditKeepsIInv DEF TypeOK, OutOfReach, ov
<1>4. CASE SetNever
  <2>1. PICK names \in NeverChoices : /\ Edit([override EXCEPT !.never = names])
                                      /\ protected' = OutOfReach(snap, names, override.only)
                                      /\ UNCHANGED consent
    BY <1>4 DEF SetNever
  <2> DEFINE ov == [override EXCEPT !.never = names]
  <2>2. ov \in Override
    BY <1>0, RepairAssumption DEF Override
  <2>3. /\ ov.anyone = override.anyone /\ ov.also = override.also
        /\ ov.never = names /\ ov.only = override.only
    BY <1>0 DEF Override
  <2>4. WordsMatchOverride'
    BY <2>1, <2>3 DEF WordsMatchOverride, Authorised, Edit
  <2> HIDE DEF ov
  <2> QED BY <2>1, <2>2, <2>4, EditKeepsIInv DEF TypeOK, OutOfReach, ov
<1>5. CASE GrantFilter
  <2>1. PICK f \in AlsoChoices :
          /\ Edit([override EXCEPT !.anyone = FALSE, !.also = f])
          /\ consent' = IF FilterActive(f) THEN {o \in Order : Matches(snap, o, f)} ELSE {}
          /\ UNCHANGED protected
    BY <1>5 DEF GrantFilter
  <2> DEFINE ov == [override EXCEPT !.anyone = FALSE, !.also = f]
  <2>2. ov \in Override
    BY <1>0, RepairAssumption DEF Override
  <2>3. /\ ov.anyone = FALSE /\ ov.also = f
        /\ ov.never = override.never /\ ov.only = override.only
    BY <1>0 DEF Override
  <2>4. WordsMatchOverride'
    BY <2>1, <2>3 DEF WordsMatchOverride, Authorised, Edit
  <2> HIDE DEF ov
  <2> QED BY <2>1, <2>2, <2>4, EditKeepsIInv DEF TypeOK, ov
<1>6. CASE GrantAnyone
  <2> DEFINE ov == [override EXCEPT !.anyone = TRUE, !.also = NoFilter]
  <2>2. ov \in Override
    BY <1>0, NoFilterIdle DEF Override
  <2>3. /\ ov.anyone = TRUE
        /\ ov.never = override.never /\ ov.only = override.only
    BY <1>0 DEF Override
  <2>4. WordsMatchOverride'
    BY <1>6, <2>3 DEF GrantAnyone, WordsMatchOverride, Authorised, Edit
  <2> HIDE DEF ov
  <2> QED BY <1>6, <2>2, <2>4, EditKeepsIInv DEF GrantAnyone, TypeOK, ov
<1>7. CASE BeginSweep
  <2> USE <1>7 DEF BeginSweep
  <2>1. TypeOK'
    BY DEF TypeOK
  <2>2. WordsMatchOverride'
    BY DEF WordsMatchOverride
  <2>3. SolvedUnderOverride' /\ PhasesInOrder'
    BY DEF SolvedUnderOverride, PhasesInOrder
  <2> QED BY <2>1, <2>2, <2>3
<1>8. CASE SolveNextPrice
  <2> USE <1>8 DEF SolveNextPrice
  <2> DEFINE price == Sweep[Len(results) + 1]
  <2>1. PICK p \in Solutions(snap, override, price) : results' = Append(results, p)
    OBVIOUS
  <2>2. p \in [Order -> Vehicle \cup {NoCar}]
    BY <2>1, SolutionIsPlan DEF Plans
  <2>3. /\ results' \in Seq([Order -> Vehicle \cup {NoCar}])
        /\ Len(results') <= Len(Sweep)
        /\ DOMAIN results' = 1..(Len(results) + 1)
        /\ results'[Len(results) + 1] = p
        /\ \A i \in DOMAIN results : results'[i] = results[i]
        /\ DOMAIN results = 1..Len(results)
    <3>1. Len(results) \in Nat /\ Len(Sweep) \in Nat
      BY SolverAssumption DEF TypeOK
    <3> QED BY <2>1, <2>2, <3>1 DEF TypeOK
  <2>4. TypeOK'
    BY <2>3 DEF TypeOK
  <2>5. WordsMatchOverride'
    BY DEF WordsMatchOverride
  <2>6. SolvedUnderOverride'
    <3>1. ASSUME NEW i \in DOMAIN results'
          PROVE  results'[i] \in Solutions(snap, override, Sweep[i])
      <4>1. i = Len(results) + 1 \/ i \in DOMAIN results
        BY <2>3 DEF TypeOK
      <4> QED BY <4>1, <2>1, <2>3 DEF SolvedUnderOverride
    <3> QED BY <3>1 DEF SolvedUnderOverride
  <2>7. PhasesInOrder'
    BY DEF PhasesInOrder
  <2> QED BY <2>4, <2>5, <2>6, <2>7
<1>9. CASE Present
  <2> USE <1>9 DEF Present
  <2> DEFINE price == ChosenPrice(override)
             swept == {i \in DOMAIN Sweep : Sweep[i] = price}
  <2>1. PICK p \in IF swept # {} THEN {results[i] : i \in swept}
                                 ELSE Solutions(snap, override, price) :
          plan' = [price |-> price, cars |-> p]
    OBVIOUS
  <2>2. p \in Plans(snap, override) /\ p \in Solutions(snap, override, price)
    <3>1. CASE swept # {}
      <4>1. PICK i \in DOMAIN Sweep : p = results[i]
        BY <2>1, <3>1
      <4>2. i \in DOMAIN results
        BY SolverAssumption DEF TypeOK
      <4> QED BY <4>1, <4>2, SolutionIsPlan DEF SolvedUnderOverride
    <3>2. CASE swept = {}
      BY <2>1, <3>2, SolutionIsPlan
    <3> QED BY <3>1, <3>2
  <2>3. p \in [Order -> Vehicle \cup {NoCar}]
    BY <2>2 DEF Plans
  <2>4. TypeOK'
    BY <1>0, <2>1, <2>3, ChosenPriceKnown DEF TypeOK
  <2>5. WordsMatchOverride'
    BY DEF WordsMatchOverride
  <2>6. SolvedUnderOverride'
    BY <1>0, <2>1, <2>2, ChosenPriceKnown DEF SolvedUnderOverride, TypeOK
  <2>7. PhasesInOrder'
    BY DEF PhasesInOrder
  <2> QED BY <2>4, <2>5, <2>6, <2>7
<1>10. CASE NextTurn
  <2> USE <1>10 DEF NextTurn
  <2>1. override' \in Override
    BY <1>0, NoFilterIdle DEF Override, CarryForward
  <2>2. /\ override'.anyone = FALSE /\ override'.also = NoFilter
        /\ override'.never = override.never /\ override'.only = override.only
    BY <1>0 DEF Override, CarryForward
  <2>3. snap.alloc \in [Order -> Vehicle \cup {NoCar}]
    BY <1>0, RepairAssumption DEF Snapshot
  <2>4. TypeOK'
    BY <2>1, <2>3 DEF TypeOK, NothingProposed
  <2>5. WordsMatchOverride'
    BY <2>2, NoFilterIdle DEF WordsMatchOverride, Authorised
  <2>6. SolvedUnderOverride' /\ PhasesInOrder'
    BY DEF SolvedUnderOverride, PhasesInOrder
  <2> QED BY <2>4, <2>5, <2>6
<1>11. CASE UNCHANGED vars
  <2> USE <1>11 DEF vars
  <2>1. TypeOK'
    BY DEF TypeOK
  <2>2. WordsMatchOverride'
    BY DEF WordsMatchOverride
  <2>3. SolvedUnderOverride' /\ PhasesInOrder'
    BY DEF SolvedUnderOverride, PhasesInOrder
  <2> QED BY <2>1, <2>2, <2>3
<1> QED
  BY <1>1, <1>2, <1>3, <1>4, <1>5, <1>6, <1>7, <1>8, <1>9, <1>10, <1>11 DEF Next

\* So it holds of every reachable state.
THEOREM InvariantHolds == Spec => []IInv
<1>1. Init => IInv
  BY InitIInv
<1>2. IInv /\ [Next]_vars => IInv'
  BY NextIInv
<1> QED
  BY <1>1, <1>2, PTL DEF Spec

-----------------------------------------------------------------------------
(* What the session guarantees of every plan it computes.                  *)

\* Under the invariant, a computed plan is a plan of the override in force,
\* made from a pull in which no car is held twice.
LEMMA ComputedUnderOverride ==
  ASSUME IInv, NEW p \in ComputedPlans
  PROVE  p \in Plans(snap, override) /\ Matching(snap.alloc)
<1>1. Matching(snap.alloc)
  BY RepairAssumption DEF IInv, TypeOK
<1>2. p \in Plans(snap, override)
  BY SolutionIsPlan DEF IInv, SolvedUnderOverride, ComputedPlans
<1> QED
  BY <1>1, <1>2

\* The types of the session's state are kept.
THEOREM TypeCorrect == Spec => []TypeOK
<1>1. IInv => TypeOK
  BY DEF IInv
<1> QED
  BY <1>1, InvariantHolds, PTL

\* Nobody settled is displaced without a permission given this turn.
THEOREM NeverBumpsUninvited == Spec => []NoUninvitedBump
<1>1. IInv => NoUninvitedBump
  BY ComputedUnderOverride, SettledMoversAuthorised
    DEF NoUninvitedBump, IInv, WordsMatchOverride
<1> QED
  BY <1>1, InvariantHolds, PTL

\* Nobody the planner's standing words protect is moved, in any later turn.
THEOREM ProtectionHolds == Spec => []ProtectedStay
<1>1. IInv => ProtectedStay
  BY ComputedUnderOverride, MoversWithinReach DEF ProtectedStay, IInv, WordsMatchOverride
<1> QED
  BY <1>1, InvariantHolds, PTL

\* No car is given to two orders.
THEOREM NeverDoubleBooks == Spec => []NoDoubleBooking
<1>1. IInv => NoDoubleBooking
  BY ComputedUnderOverride, PlanIsMatching DEF NoDoubleBooking
<1> QED
  BY <1>1, InvariantHolds, PTL

\* The self-check of a plan reports the wrong-model pairings the pull came with
\* and the steering keeps, all of them and nothing the solver chose.
THEOREM OnlyInheritedMismatches == Spec => []MismatchesAreInherited
<1>1. IInv => MismatchesAreInherited
  BY ComputedUnderOverride, PlanPairsModels, PlanIsMatching
    DEF MismatchesAreInherited, SelfCheckOk
<1> QED
  BY <1>1, InvariantHolds, PTL

-----------------------------------------------------------------------------
(* Candidates for displacement.                                            *)

\* What is true of "Untouched orders the planner *could* authorize displacing"
\* (session.py:266): naming any order under may_move.also puts it in play,
\* unless the planner's standing words keep it in place; only those candidates
\* are offered in vain.
THEOREM UnprotectedCandidatesCanBeBumped ==
  Spec => [](\A o \in BumpCandidates(snap, plan.cars) \ protected :
               o \in FreeOrders(snap, [override EXCEPT !.anyone = FALSE,
                                                       !.also = [NoFilter EXCEPT !.orders = {o}]]))
<1>1. ASSUME IInv, NEW o \in BumpCandidates(snap, plan.cars) \ protected
      PROVE  o \in FreeOrders(snap, [override EXCEPT !.anyone = FALSE,
                                                     !.also = [NoFilter EXCEPT !.orders = {o}]])
  <2> DEFINE naming == [NoFilter EXCEPT !.orders = {o}]
             ov == [override EXCEPT !.anyone = FALSE, !.also = naming]
  <2>1. o \in Order
    BY <1>1 DEF BumpCandidates, SettledOrders
  <2>2. naming = [models |-> {}, orders |-> {o}, from |-> 0, to |-> 0]
    BY DEF NoFilter
  <2>3. FilterActive(naming) /\ Matches(snap, o, naming)
    BY <2>2 DEF FilterActive, Matches, NamesOrder
  <2>4. ov.also = naming /\ ov.never = override.never /\ ov.only = override.only
    BY <1>1 DEF IInv, TypeOK, Override
  <2> HIDE DEF ov, naming
  <2>5. Authorised(snap, o, ov)
    BY <2>3, <2>4 DEF Authorised
  <2>6. ~NamesOrder(o, ov.never) /\ (FilterActive(ov.only) => Matches(snap, o, ov.only))
    BY <1>1, <2>1, <2>4 DEF IInv, WordsMatchOverride, OutOfReach
  <2>7. o \in FreeOrders(snap, ov)
    BY <2>1, <2>5, <2>6 DEF FreeOrders
  <2> QED BY <2>7 DEF ov, naming
<1>2. IInv => \A o \in BumpCandidates(snap, plan.cars) \ protected :
                o \in FreeOrders(snap, [override EXCEPT !.anyone = FALSE,
                                                        !.also = [NoFilter EXCEPT !.orders = {o}]])
  BY <1>1
<1> QED
  BY <1>2, InvariantHolds, PTL

-----------------------------------------------------------------------------
(* The churn sweep is a frontier.                                          *)

\* A list of positions has a last member in any non-empty set of them: the
\* "last entry wins" of a priority list names an entry.
LEMMA LastPosition ==
  ASSUME NEW n \in Nat, NEW S \in SUBSET (1..n), S # {}
  PROVE  \E i \in S : \A j \in S : j <= i
<1> DEFINE B == {n - i : i \in S}
<1>1. B \in SUBSET Nat /\ \E b : b \in B
  <2>1. PICK i \in S : TRUE
    OBVIOUS
  <2>2. n - i \in B
    BY <2>1
  <2>3. \A x \in B : x \in Nat
    OBVIOUS
  <2> HIDE DEF B
  <2> QED BY <2>2, <2>3
<1>2. PICK m \in B : \A k \in B : m <= k
  <2> HIDE DEF B
  <2> QED BY <1>1, LeastElement
<1>3. PICK i \in S : m = n - i
  OBVIOUS
<1>4. ASSUME NEW j \in S PROVE j <= i
  <2>1. m <= n - j
    BY <1>2
  <2> QED BY <2>1, <1>3
<1> QED
  BY <1>4

\* With its steps known, an override gives every order a step that has a weight.
LEMMA StepIsKnown ==
  ASSUME NEW ov \in Override, StepsKnown(ov.priority), NEW o \in Order
  PROVE  StepOf(o, ov.priority) \in DOMAIN StepWeight
<1> DEFINE pr == ov.priority
           naming == {i \in DOMAIN pr : NamesOrder(o, {pr[i].order})}
           last == CHOOSE i \in naming : \A j \in naming : j <= i
<1>1. pr \in Seq([order : Name, step : STRING])
  BY DEF Override
<1>2. Len(pr) \in Nat /\ DOMAIN pr = 1..Len(pr)
  BY <1>1
<1>3. CASE naming = {}
  BY <1>3, SolverAssumption DEF StepOf
<1>4. CASE naming # {}
  <2>1. naming \in SUBSET (1..Len(pr))
    BY <1>2
  <2>2. \E i \in naming : \A j \in naming : j <= i
    <3> HIDE DEF naming, pr
    <3> QED BY <1>2, <1>4, <2>1, LastPosition
  <2>3. last \in DOMAIN pr
    BY <2>2
  <2>4. pr[last].step \in DOMAIN StepWeight
    BY <2>3 DEF StepsKnown
  <2>5. StepOf(o, ov.priority) = pr[last].step
    BY <1>4 DEF StepOf
  <2> QED BY <2>4, <2>5
<1> QED
  BY <1>3, <1>4

LEMMA WeightIsNat ==
  ASSUME NEW ov \in Override, StepsKnown(ov.priority), NEW o \in Order
  PROVE  EffectiveWeight(o, ov) \in Nat
BY StepIsKnown, SolverAssumption DEF EffectiveWeight

\* The price of a pairing, and of breaking one, is a natural number.
LEMMA CostsAreNat ==
  ASSUME NEW s \in Snapshot, NEW ov \in Override, StepsKnown(ov.priority), NEW o \in Order
  PROVE  /\ BreakCostOf(s, o) \in Nat
         /\ \A v \in Vehicle : PairCost(s, ov, o, v) \in Nat
<1>1. /\ s.promise[o] \in Day
      /\ s.commitment[o] \in Commitment
      /\ \A v \in Vehicle : s.eta[v] \in Day
  BY DEF Snapshot
<1>2. MaxDay \in Nat /\ Day = 1..MaxDay
  BY SolverAssumption DEF Day
<1>3. ASSUME NEW v \in Vehicle
      PROVE  Tardiness(s, o, v) \in 0..MaxDay /\ Earliness(s, o, v) \in Nat
  <2>1. s.eta[v] \in 1..MaxDay /\ s.promise[o] \in 1..MaxDay
    BY <1>1, <1>2
  <2> QED BY <2>1, <1>2 DEF Tardiness, Earliness
<1>4. BreakCostOf(s, o) \in Nat
  BY <1>1, SolverAssumption DEF BreakCostOf
<1>5. ASSUME NEW v \in Vehicle PROVE PairCost(s, ov, o, v) \in Nat
  <2>1. EffectiveWeight(o, ov) \in Nat
    BY WeightIsNat
  <2>2. LateCost[Tardiness(s, o, v)] \in Nat /\ EarlyCost \in Nat
    BY <1>3, SolverAssumption
  <2> DEFINE w == EffectiveWeight(o, ov)
             l == LateCost[Tardiness(s, o, v)]
             e == Earliness(s, o, v)
  <2>3. EarlyCost * e \in Nat
    <3> HIDE DEF e
    <3> QED BY <1>3, <2>2 DEF e
  <2>4. w * (l + EarlyCost * e) \in Nat
    <3> DEFINE c == EarlyCost * e
    <3>1. w \in Nat /\ l \in Nat /\ c \in Nat
      BY <2>1, <2>2, <2>3
    <3> HIDE DEF w, l, c
    <3>2. w * (l + c) \in Nat
      BY <3>1
    <3> QED BY <3>2 DEF c
  <2> QED BY <2>4 DEF PairCost
<1> QED
  BY <1>4, <1>5

\* The objective at a churn price is the objective at price 0 plus the scaled
\* price times the number of changes, whatever the plan.
LEMMA ObjectiveSplits ==
  ASSUME NEW s \in Snapshot, NEW ov \in Override, StepsKnown(ov.priority),
         NEW p \in Plans(s, ov), NEW price \in Nat
  PROVE  /\ Objective(s, ov, 0, p) \in Int
         /\ NChanges(s, ov, p) \in Int
         /\ Objective(s, ov, price, p)
              = Objective(s, ov, 0, p) + (Scale * price) * NChanges(s, ov, p)
<1> DEFINE free == FreeOrders(s, ov)
           k == Scale * price
           a == [o \in Order |-> IF o \in free THEN ArcCost(s, ov, 0, o, p[o]) ELSE 0]
           b == [o \in Order |-> IF o \in free /\ s.alloc[o] # p[o] THEN 1 ELSE 0]
           c == [o \in Order |-> IF o \in free THEN ArcCost(s, ov, price, o, p[o]) ELSE 0]
<1>1. k \in Int /\ Scale * 0 = 0 /\ NumOrders \in Nat /\ Order = 1..NumOrders
  BY SolverAssumption DEF Order
<1>2. ASSUME NEW i \in Order
      PROVE  a[i] \in Int /\ b[i] \in Int /\ c[i] = a[i] + k * b[i]
  <2> DEFINE pair == IF p[i] = NoCar THEN NoCarCost ELSE PairCost(s, ov, i, p[i])
             brk == BreakCostOf(s, i)
  <2>1. pair \in Int /\ brk \in Int
    <3>1. p[i] \in Vehicle \cup {NoCar}
      BY DEF Plans
    <3> QED BY <3>1, CostsAreNat, SolverAssumption
  <2>2. ArcCost(s, ov, 0, i, p[i]) = pair + (IF p[i] # s.alloc[i] THEN Scale * 0 + brk ELSE 0)
    BY DEF ArcCost, MoveCost
  <2>3. ArcCost(s, ov, price, i, p[i]) = pair + (IF p[i] # s.alloc[i] THEN k + brk ELSE 0)
    BY DEF ArcCost, MoveCost
  <2> HIDE DEF pair, brk, k
  <2>4. CASE i \in free /\ p[i] # s.alloc[i]
    BY <2>1, <2>2, <2>3, <2>4, <1>1
  <2>5. CASE i \in free /\ p[i] = s.alloc[i]
    BY <2>1, <2>2, <2>3, <2>5, <1>1
  <2>6. CASE i \notin free
    BY <2>6, <1>1
  <2> QED BY <2>4, <2>5, <2>6
<1>3. /\ Objective(s, ov, 0, p) = Total(a, NumOrders)
      /\ Objective(s, ov, price, p) = Total(c, NumOrders)
      /\ NChanges(s, ov, p) = Total(b, NumOrders)
  BY DEF Objective, NChanges
<1> HIDE DEF a, b, c, k
<1>4. /\ Total(a, NumOrders) \in Int
      /\ Total(b, NumOrders) \in Int
      /\ Total(c, NumOrders) = Total(a, NumOrders) + k * Total(b, NumOrders)
  <2>1. \A i \in 1..NumOrders : a[i] \in Int
    BY <1>1, <1>2
  <2>2. \A i \in 1..NumOrders : b[i] \in Int
    BY <1>1, <1>2
  <2>3. \A i \in 1..NumOrders : c[i] = a[i] + k * b[i]
    BY <1>1, <1>2
  <2>4. k \in Int /\ NumOrders \in Nat
    BY <1>1
  <2> QED BY <2>1, <2>2, <2>3, <2>4, TotalLinear
<1> QED
  BY <1>3, <1>4 DEF k

\* If x is best when a change costs j and y is best when it costs k > j, then y
\* makes no more changes than x.
LEMMA DearerMeansFewer ==
  ASSUME NEW j \in Int, NEW k \in Int, j < k,
         NEW a \in Int, NEW m \in Int, NEW b \in Int, NEW n \in Int,
         a + j * m <= b + j * n,
         b + k * n <= a + k * m
  PROVE  n <= m
<1>1. (k - j) * (n - m) <= 0
  BY Z3
<1>2. k - j > 0
  OBVIOUS
<1> QED
  BY <1>1, <1>2, Z3

\* If x is the best at a price and makes more changes than y, it costs less
\* beside them.
LEMMA MoreIsCheaper ==
  ASSUME NEW j \in Nat, NEW a \in Int, NEW m \in Int, NEW b \in Int, NEW n \in Int,
         a + j * m <= b + j * n, n <= m
  PROVE  a <= b
<1>1. j * (m - n) >= 0
  BY Z3
<1> QED
  BY <1>1, Z3

\* Along the sweep the number of changes never grows and the rest of the cost
\* never falls, whichever optimum the flow library returns at each price.
THEOREM SweepIsFrontier == Spec => []FrontierMonotone
<1>1. ASSUME IInv PROVE FrontierMonotone
  <2> SUFFICES ASSUME NEW i \in DOMAIN results, NEW j \in DOMAIN results, i < j
               PROVE  /\ NChanges(snap, override, results[j])
                           <= NChanges(snap, override, results[i])
                      /\ Objective(snap, override, 0, results[i])
                           <= Objective(snap, override, 0, results[j])
    BY DEF FrontierMonotone
  <2> DEFINE x == results[i]  y == results[j]
             lo == Sweep[i]   hi == Sweep[j]
  <2>1. snap \in Snapshot /\ override \in Override
    BY <1>1, RepairAssumption DEF IInv, TypeOK
  <2>2. StepsKnown(override.priority)
    BY <1>1 DEF IInv, PhasesInOrder
  <2>3. i \in DOMAIN Sweep /\ j \in DOMAIN Sweep /\ lo \in Nat /\ hi \in Nat /\ lo < hi
    <3>1. /\ results \in Seq([Order -> Vehicle \cup {NoCar}])
          /\ Len(results) <= Len(Sweep)
      BY <1>1 DEF IInv, TypeOK
    <3>2. i \in DOMAIN Sweep /\ j \in DOMAIN Sweep
      BY <3>1, SolverAssumption
    <3>3. lo \in Nat /\ hi \in Nat
      BY <3>2, SolverAssumption
    <3>4. lo < hi
      BY <3>2, SolverAssumption
    <3> QED BY <3>2, <3>3, <3>4
  <2>4. x \in Solutions(snap, override, lo) /\ y \in Solutions(snap, override, hi)
    BY <1>1 DEF IInv, SolvedUnderOverride
  <2>5. x \in Plans(snap, override) /\ y \in Plans(snap, override)
    BY <2>4, SolutionIsPlan
  <2>6. /\ Objective(snap, override, lo, x) <= Objective(snap, override, lo, y)
        /\ Objective(snap, override, hi, y) <= Objective(snap, override, hi, x)
    BY <2>4, <2>5 DEF Solutions
  <2> HIDE DEF x, y, lo, hi
  <2> DEFINE ax == Objective(snap, override, 0, x)  mx == NChanges(snap, override, x)
             ay == Objective(snap, override, 0, y)  my == NChanges(snap, override, y)
  <2>7. /\ ax \in Int /\ mx \in Int /\ ay \in Int /\ my \in Int
        /\ ax + (Scale * lo) * mx <= ay + (Scale * lo) * my
        /\ ay + (Scale * hi) * my <= ax + (Scale * hi) * mx
    BY <2>1, <2>2, <2>3, <2>5, <2>6, ObjectiveSplits
  <2>8. Scale * lo \in Nat /\ Scale * hi \in Int /\ Scale * lo < Scale * hi
    BY <2>3, SolverAssumption, Z3
  <2> HIDE DEF ax, mx, ay, my
  <2>9. my <= mx
    BY <2>7, <2>8, DearerMeansFewer
  <2>10. ax <= ay
    BY <2>7, <2>8, <2>9, MoreIsCheaper
  <2> QED BY <2>9, <2>10 DEF ax, ay, mx, my, x, y
<1> QED
  BY <1>1, InvariantHolds, PTL

-----------------------------------------------------------------------------
(* A repair settles.  x is a plan of (s, ov), now in place; ov keeps its   *)
(* standing levers and has lost its permission.                            *)

Placed(s, x) == [s EXCEPT !.alloc = x]

LEMMA PlacedFields ==
  ASSUME NEW s \in Snapshot, NEW x \in [Order -> Car]
  PROVE  /\ Placed(s, x) \in Snapshot
         /\ Placed(s, x).alloc = x
         /\ Placed(s, x).promise = s.promise /\ Placed(s, x).wants = s.wants
         /\ Placed(s, x).commitment = s.commitment
         /\ Placed(s, x).eta = s.eta /\ Placed(s, x).model = s.model
BY DEF Placed, Snapshot, Car

LEMMA CarriedFields ==
  ASSUME NEW ov \in Override
  PROVE  /\ CarryForward(ov) \in Override
         /\ CarryForward(ov).priority = ov.priority
         /\ CarryForward(ov).never = ov.never /\ CarryForward(ov).only = ov.only
         /\ \A s, o : ~Authorised(s, o, CarryForward(ov))
BY NoFilterIdle DEF CarryForward, Override, Authorised

\* The permission spent and the plan in place, nobody new is in play.
LEMMA FewerAreFree ==
  ASSUME NEW s \in Snapshot, NEW ov \in Override, NEW x \in Plans(s, ov)
  PROVE  /\ FreeOrders(Placed(s, x), CarryForward(ov)) \subseteq FreeOrders(s, ov)
         /\ \A o \in FreeOrders(Placed(s, x), CarryForward(ov)) : NeedsHelp(Placed(s, x), o)
<1> DEFINE t == Placed(s, x)
           w == CarryForward(ov)
<1>1. x \in [Order -> Car]
  BY DEF Plans, Car
<1>2. /\ t.alloc = x /\ t.promise = s.promise /\ t.wants = s.wants /\ t.eta = s.eta
      /\ w.never = ov.never /\ w.only = ov.only /\ \A r, o : ~Authorised(r, o, w)
  BY <1>1, PlacedFields, CarriedFields
<1> HIDE DEF t, w
<1>3. ASSUME NEW o \in FreeOrders(t, w)
      PROVE  NeedsHelp(t, o) /\ o \in FreeOrders(s, ov)
  <2>1. NeedsHelp(t, o) /\ o \in Order
    BY <1>2, <1>3 DEF FreeOrders
  <2>2. FilterActive(ov.only) => Matches(s, o, ov.only)
    BY <1>2, <1>3 DEF FreeOrders, Matches
  <2>3. CASE x[o] = s.alloc[o]
    <3>1. NeedsHelp(s, o)
      BY <1>2, <2>1, <2>3 DEF NeedsHelp, Disrupted, Tardiness
    <3> QED BY <1>2, <1>3, <2>1, <2>2, <3>1 DEF FreeOrders
  <2>4. CASE x[o] # s.alloc[o]
    BY <2>1, <2>4 DEF Plans
  <2> QED BY <2>1, <2>3, <2>4
<1> QED
  BY <1>3 DEF t, w

\* Every plan from there is one that could have been made in the first place.
LEMMA FewerPlans ==
  ASSUME NEW s \in Snapshot, NEW ov \in Override, NEW x \in Plans(s, ov), Matching(s.alloc)
  PROVE  /\ x \in Plans(Placed(s, x), CarryForward(ov))
         /\ Plans(Placed(s, x), CarryForward(ov)) \subseteq Plans(s, ov)
<1> DEFINE t == Placed(s, x)
           w == CarryForward(ov)
           free == FreeOrders(s, ov)
           less == FreeOrders(t, w)
<1>1. x \in [Order -> Car]
  BY DEF Plans, Car
<1>2. t.alloc = x /\ t.wants = s.wants /\ t.model = s.model
  BY <1>1, PlacedFields
<1>3. less \subseteq free /\ free \subseteq Order
  BY FewerAreFree DEF FreeOrders
<1>4. /\ \A o \in Order \ free : x[o] = s.alloc[o]
      /\ \A o \in free : x[o] # NoCar => x[o] \in FreeVehicles(s, ov) /\ Eligible(s, o, x[o])
      /\ \A o, q \in free : o # q /\ x[o] # NoCar => x[o] # x[q]
  BY DEF Plans, Reachable
<1>5. Matching(x)
  BY PlanIsMatching
<1> HIDE DEF t, w, free, less
<1>6. x \in Plans(t, w)
  <2>1. ASSUME NEW o \in less, x[o] # NoCar PROVE x[o] \in Reachable(t, w, o)
    <3>1. x[o] \in Vehicle /\ Eligible(t, o, x[o])
      BY <1>1, <1>2, <1>3, <1>4, <2>1 DEF Eligible, Car
    <3>2. \A q \in Order \ less : x[q] # x[o]
      BY <1>3, <1>5, <2>1 DEF Matching
    <3> QED BY <1>2, <3>1, <3>2 DEF Reachable, FreeVehicles, less
  <2> QED BY <1>1, <1>2, <1>3, <1>4, <2>1 DEF Plans, Car, less
<1>7. ASSUME NEW q \in Plans(t, w) PROVE q \in Plans(s, ov)
  <2>1. /\ q \in [Order -> Car]
        /\ \A o \in Order \ less : q[o] = x[o]
        /\ \A o \in less : q[o] # NoCar => q[o] \in FreeVehicles(t, w) /\ Eligible(s, o, q[o])
        /\ \A o, r \in less : o # r /\ q[o] # NoCar => q[o] # q[r]
    BY <1>2 DEF Plans, Reachable, Eligible, Car, less
  <2>2. ASSUME NEW o \in free, q[o] # NoCar PROVE q[o] \in Reachable(s, ov, o)
    <3>1. CASE o \in less
      <4>1. q[o] \in Vehicle /\ \A r \in Order \ less : q[o] # x[r]
        BY <1>2, <2>1, <2>2, <3>1 DEF FreeVehicles, less
      <4>2. \A r \in Order \ free : q[o] # s.alloc[r]
        BY <1>3, <1>4, <4>1
      <4> QED BY <2>1, <2>2, <3>1, <4>1, <4>2 DEF Reachable, FreeVehicles, free
    <3>2. CASE o \notin less
      BY <1>3, <1>4, <2>1, <2>2, <3>2 DEF Reachable
    <3> QED BY <3>1, <3>2
  <2>3. ASSUME NEW o \in free, NEW r \in free, o # r, q[o] # NoCar PROVE q[o] # q[r]
    <3>1. \A z \in less : q[z] # NoCar => \A y \in Order \ less : q[z] # x[y]
      BY <1>2, <2>1 DEF FreeVehicles, less
    <3> QED BY <1>3, <1>4, <2>1, <2>3, <3>1
  <2>4. \A o \in Order \ free : q[o] = s.alloc[o]
    BY <1>3, <1>4, <2>1
  <2> QED BY <2>1, <2>2, <2>3, <2>4 DEF Plans, Car, free
<1> QED
  BY <1>6, <1>7 DEF t, w

\* What another plan q would save or cost from there, order by order, is at
\* least what it would have saved or cost over x in the first place: whoever is
\* still in play has no promise left to break.
LEMMA NothingLeftToGain ==
  ASSUME NEW s \in Snapshot, NEW ov \in Override, StepsKnown(ov.priority),
         NEW x \in Plans(s, ov), NEW price \in Nat, Matching(s.alloc),
         NEW q \in Plans(Placed(s, x), CarryForward(ov)), NEW o \in Order
  PROVE  LET t == Placed(s, x)
             w == CarryForward(ov)
             Before(p) == IF o \in FreeOrders(s, ov) THEN ArcCost(s, ov, price, o, p[o]) ELSE 0
             After(p)  == IF o \in FreeOrders(t, w) THEN ArcCost(t, w, price, o, p[o]) ELSE 0
         IN  /\ Before(q) \in Int /\ Before(x) \in Int /\ After(q) \in Int /\ After(x) \in Int
             /\ After(x) + Before(q) <= After(q) + Before(x)
<1> DEFINE t == Placed(s, x)
           w == CarryForward(ov)
           free == FreeOrders(s, ov)
           less == FreeOrders(t, w)
           Pair(v) == IF v = NoCar THEN NoCarCost ELSE PairCost(s, ov, o, v)
           k == Scale * price
           brk == BreakCostOf(s, o)
<1>1. x \in [Order -> Car] /\ q \in [Order -> Car]
  BY DEF Plans, Car
<1>2. /\ t.alloc = x /\ t.promise = s.promise /\ t.eta = s.eta /\ t.commitment = s.commitment
      /\ w.priority = ov.priority
  BY <1>1, PlacedFields, CarriedFields
<1>3. less \subseteq free /\ (o \in less => NeedsHelp(t, o))
  BY FewerAreFree
<1>4. k \in Nat /\ brk \in Nat /\ Pair(x[o]) \in Int /\ Pair(q[o]) \in Int
  <2>1. k \in Nat
    BY SolverAssumption
  <2>2. brk \in Nat
    <3>1. s.commitment[o] \in Commitment
      BY DEF Snapshot
    <3> QED BY <3>1, SolverAssumption DEF BreakCostOf
  <2>3. \A v \in Car : Pair(v) \in Int
    BY CostsAreNat, SolverAssumption DEF Car
  <2> HIDE DEF Pair
  <2> QED BY <1>1, <2>1, <2>2, <2>3
<1>5. o \in less => BreakCostOf(t, o) = 0
  BY <1>2, <1>3 DEF NeedsHelp, Disrupted, BreakCostOf
<1>6. x[o] = s.alloc[o] => BreakCostOf(t, o) = brk
  BY <1>2 DEF BreakCostOf, Tardiness
<1>7. \A p : ArcCost(s, ov, price, o, p[o]) = Pair(p[o]) + (IF p[o] # s.alloc[o] THEN k + brk ELSE 0)
  BY DEF ArcCost, MoveCost
<1>8. \A p : ArcCost(t, w, price, o, p[o])
               = Pair(p[o]) + (IF p[o] # x[o] THEN k + BreakCostOf(t, o) ELSE 0)
  <2>1. \A v : PairCost(t, w, o, v) = PairCost(s, ov, o, v)
    BY <1>2 DEF PairCost, EffectiveWeight, Tardiness, Earliness
  <2> QED BY <1>2, <2>1 DEF ArcCost, MoveCost
<1>9. o \notin less => q[o] = x[o]
  BY <1>2 DEF Plans
<1> HIDE DEF t, w, free, less, Pair, k, brk
<1>10. CASE o \notin free
  BY <1>3, <1>10 DEF free, less, t, w
<1>11. CASE o \in free /\ o \notin less
  BY <1>4, <1>7, <1>9, <1>11 DEF free, less, t, w
<1>12. CASE o \in less
  <2>1. /\ ArcCost(s, ov, price, o, q[o]) = Pair(q[o]) + (IF q[o] # s.alloc[o] THEN k + brk ELSE 0)
        /\ ArcCost(s, ov, price, o, x[o]) = Pair(x[o]) + (IF x[o] # s.alloc[o] THEN k + brk ELSE 0)
        /\ ArcCost(t, w, price, o, q[o]) = Pair(q[o]) + (IF q[o] # x[o] THEN k + 0 ELSE 0)
        /\ ArcCost(t, w, price, o, x[o]) = Pair(x[o]) + 0
    BY <1>5, <1>7, <1>8, <1>12
  <2>2. o \in free /\ (x[o] = s.alloc[o] => brk = 0)
    BY <1>3, <1>5, <1>6, <1>12
  <2> QED BY <1>4, <1>12, <2>1, <2>2 DEF free, less, t, w
<1> QED
  BY <1>10, <1>11, <1>12

\* A plan once adopted asks for no further change: with its cars in place, the
\* permission spent and the standing steering as it was, keeping every car is
\* again a solution at the same price, so a planner who accepts a plan and runs
\* the repair again is not sent round in circles.
THEOREM AdoptedPlanIsFinal == Spec => []RepairSettles
<1>1. ASSUME IInv PROVE RepairSettles
  <2> SUFFICES ASSUME NEW i \in DOMAIN results
               PROVE  results[i] \in Solutions(Adopted(results[i]), CarryForward(override), Sweep[i])
    BY DEF RepairSettles
  <2> DEFINE x == results[i]
             price == Sweep[i]
             t == Placed(snap, x)
             w == CarryForward(override)
  <2>1. /\ snap \in Snapshot /\ override \in Override /\ Matching(snap.alloc)
        /\ StepsKnown(override.priority)
    BY <1>1, RepairAssumption DEF IInv, TypeOK, PhasesInOrder
  <2>2. price \in Nat
    <3>1. /\ results \in Seq([Order -> Vehicle \cup {NoCar}])
          /\ Len(results) <= Len(Sweep)
      BY <1>1 DEF IInv, TypeOK
    <3>2. i \in DOMAIN Sweep
      BY <3>1, SolverAssumption
    <3> QED BY <3>2, SolverAssumption
  <2>3. x \in Solutions(snap, override, price) /\ x \in Plans(snap, override)
    BY <1>1, SolutionIsPlan DEF IInv, SolvedUnderOverride
  <2> HIDE DEF x, price
  <2>4. x \in Plans(t, w) /\ Plans(t, w) \subseteq Plans(snap, override)
    BY <2>1, <2>3, FewerPlans
  <2>5. ASSUME NEW q \in Plans(t, w)
        PROVE  Objective(t, w, price, x) <= Objective(t, w, price, q)
    <3> DEFINE Before(p) == [o \in Order |-> IF o \in FreeOrders(snap, override)
                                             THEN ArcCost(snap, override, price, o, p[o]) ELSE 0]
               After(p)  == [o \in Order |-> IF o \in FreeOrders(t, w)
                                             THEN ArcCost(t, w, price, o, p[o]) ELSE 0]
               bq == Before(q)  bx == Before(x)  aq == After(q)  ax == After(x)
               low == [o \in Order |-> ax[o] + bq[o]]
               high == [o \in Order |-> aq[o] + bx[o]]
    <3>1. NumOrders \in Nat /\ Order = 1..NumOrders
      BY SolverAssumption DEF Order
    <3>2. ASSUME NEW o \in Order
          PROVE  /\ bq[o] \in Int /\ bx[o] \in Int /\ aq[o] \in Int /\ ax[o] \in Int
                 /\ ax[o] + bq[o] <= aq[o] + bx[o]
      BY <2>1, <2>2, <2>3, <2>5, NothingLeftToGain
    <3>3. Total(bx, NumOrders) <= Total(bq, NumOrders)
      BY <2>3, <2>4, <2>5 DEF Solutions, Objective
    <3> HIDE DEF bq, bx, aq, ax
    <3> HIDE DEF low, high
    <3>4. /\ Total(low, NumOrders) = Total(ax, NumOrders) + Total(bq, NumOrders)
          /\ Total(ax, NumOrders) \in Int /\ Total(bq, NumOrders) \in Int
      <4>1. \A o \in 1..NumOrders : ax[o] \in Int /\ bq[o] \in Int /\ low[o] = ax[o] + bq[o]
        BY <3>1, <3>2 DEF low
      <4> QED BY <3>1, <4>1, TotalPlus
    <3>5. /\ Total(high, NumOrders) = Total(aq, NumOrders) + Total(bx, NumOrders)
          /\ Total(aq, NumOrders) \in Int /\ Total(bx, NumOrders) \in Int
      <4>1. \A o \in 1..NumOrders : aq[o] \in Int /\ bx[o] \in Int /\ high[o] = aq[o] + bx[o]
        BY <3>1, <3>2 DEF high
      <4> QED BY <3>1, <4>1, TotalPlus
    <3>6. Total(low, NumOrders) <= Total(high, NumOrders)
      <4>1. \A o \in 1..NumOrders : low[o] \in Int /\ high[o] \in Int /\ low[o] <= high[o]
        BY <3>1, <3>2 DEF low, high
      <4> QED BY <3>1, <4>1, TotalMonotone
    <3>7. Total(ax, NumOrders) <= Total(aq, NumOrders)
      BY <3>3, <3>4, <3>5, <3>6
    <3> QED BY <3>7 DEF Objective, ax, aq
  <2>6. x \in Solutions(t, w, price)
    BY <2>4, <2>5 DEF Solutions
  <2> QED BY <2>6 DEF x, price, Adopted, Placed
<1> QED
  BY <1>1, InvariantHolds, PTL

-----------------------------------------------------------------------------
(* The counts.                                                             *)

\* The orders n_changes counts are those plan.json calls moved and those it
\* calls no_car that held one.
LEMMA ChangedApart ==
  ASSUME NEW s, s.alloc \in [Order -> Car], NEW ov, NEW p \in Plans(s, ov)
  PROVE  LET changed == {o \in Order : o \in FreeOrders(s, ov) /\ s.alloc[o] # p[o]}
             moved   == RowsWith(s, ov, p, "moved")
             lost    == {o \in RowsWith(s, ov, p, "no_car") : s.alloc[o] # NoCar}
         IN  changed = moved \cup lost /\ moved \cap lost = {}
<1>1. \A o \in Order \ FreeOrders(s, ov) : p[o] = s.alloc[o]
  BY DEF Plans
<1> QED
  BY <1>1 DEF RowsWith, RowStatus, Unfilled, FreeOrders

\* The number of changes the solver gives and the counts of the plan record are
\* taken from different data, and agree for every plan of every size.
THEOREM CountsAgreeWithChanges == Spec => []ChangesAddUp
<1>1. ASSUME IInv PROVE ChangesAddUp
  <2> SUFFICES ASSUME phase = "reported"
               PROVE  NChanges(snap, override, plan.cars) =
                        Cardinality(RowsWith(snap, override, plan.cars, "moved"))
                          + Cardinality({o \in RowsWith(snap, override, plan.cars, "no_car") :
                                           snap.alloc[o] # NoCar})
    BY DEF ChangesAddUp
  <2> DEFINE free    == FreeOrders(snap, override)
             p       == plan.cars
             changed == {o \in Order : o \in free /\ snap.alloc[o] # p[o]}
             moved   == RowsWith(snap, override, p, "moved")
             lost    == {o \in RowsWith(snap, override, p, "no_car") : snap.alloc[o] # NoCar}
             a       == [o \in Order |-> IF o \in free /\ snap.alloc[o] # p[o] THEN 1 ELSE 0]
  <2>1. snap.alloc \in [Order -> Car] /\ p \in Plans(snap, override)
    BY <1>1, RepairAssumption DEF IInv, TypeOK, SolvedUnderOverride, Snapshot, Car
  <2>2. changed = moved \cup lost /\ moved \cap lost = {}
    BY <2>1, ChangedApart
  <2>3. NumOrders \in Nat /\ Order = 1..NumOrders
    BY SolverAssumption DEF Order
  <2>4. NChanges(snap, override, p) = Cardinality(changed)
    <3>1. \A i \in 1..NumOrders : a[i] = IF i \in changed THEN 1 ELSE 0
      BY <2>3
    <3>2. changed = {i \in 1..NumOrders : i \in changed}
      BY <2>3
    <3>3. NChanges(snap, override, p) = Total(a, NumOrders)
      BY DEF NChanges
    <3> HIDE DEF a, changed
    <3> QED BY <2>3, <3>1, <3>2, <3>3, TotalCounts
  <2>5. IsFiniteSet(moved) /\ IsFiniteSet(lost)
    <3>1. moved \subseteq Order /\ lost \subseteq Order
      BY DEF RowsWith
    <3>2. IsFiniteSet(Order)
      BY <2>3, FS_Interval
    <3> HIDE DEF moved, lost
    <3> QED BY <3>1, <3>2, FS_Subset
  <2> HIDE DEF changed, moved, lost
  <2>6. Cardinality(changed) = Cardinality(moved) + Cardinality(lost)
    BY <2>2, <2>5, UnionApart
  <2> QED BY <2>4, <2>6 DEF moved, lost
<1> QED
  BY <1>1, InvariantHolds, PTL

-----------------------------------------------------------------------------
(* What the prices buy.  Two properties depend on the price list; each is  *)
(* proved for every list with which it can hold at all.                    *)

\* solver_config.yaml: a kept promise costs more than any number of early days
\* the calendar has, and a car on the day costs nothing.
BreakPricesCover ==
  /\ LateCost[0] = 0
  /\ \A step \in DOMAIN StepWeight, c \in Commitment, early \in 0..MaxDay :
       StepWeight[step] * (0 + EarlyCost * early) < BreakCost[c]

\* What an order that gets a car can cost, all prices together.
CostsAtMost(most) ==
  \A step \in DOMAIN StepWeight, late, early \in 0..MaxDay, c \in Commitment, price \in Prices :
    StepWeight[step] * (LateCost[late] + EarlyCost * early) + (Scale * price + BreakCost[c]) <= most

\* solver_config.yaml: one order without a car costs more than the worst pairing
\* and the dearest move of every order together.
NoCarOutweighs ==
  \E most \in Nat : NumOrders * most < NoCarCost /\ CostsAtMost(most)

\* Every plan computed is the best at some price the session knows.
LEMMA ComputedIsBest ==
  ASSUME IInv, NEW p \in ComputedPlans
  PROVE  \E price \in Prices : p \in Solutions(snap, override, price)
<1>1. CASE \E i \in DOMAIN results : p = results[i]
  <2>1. PICK i \in DOMAIN results : p = results[i]
    BY <1>1
  <2>2. i \in DOMAIN Sweep
    BY <2>1, SolverAssumption DEF IInv, TypeOK
  <2> QED BY <2>1, <2>2 DEF IInv, SolvedUnderOverride, Prices
<1>2. CASE phase = "reported" /\ p = plan.cars
  BY <1>2 DEF IInv, SolvedUnderOverride
<1> QED
  BY <1>1, <1>2 DEF ComputedPlans

LEMMA PricesAreNat == Prices \subseteq Nat
<1>1. \A i \in DOMAIN Sweep : Sweep[i] \in Nat
  BY SolverAssumption
<1>2. ChurnChoices \ {NoPrice} \subseteq Nat
  BY RepairAssumption
<1> QED
  BY <1>1, <1>2 DEF Prices

\* What one free order's arc costs, by what it has in the plan.
LEMMA ArcIsNat ==
  ASSUME NEW s \in Snapshot, NEW ov \in Override, StepsKnown(ov.priority), NEW o \in Order,
         NEW price \in Nat, NEW v \in Car
  PROVE  /\ ArcCost(s, ov, price, o, v) \in Nat
         /\ MoveCost(s, o, price) \in Nat
<1>1. Scale * price \in Nat
  BY SolverAssumption
<1>2. BreakCostOf(s, o) \in Nat
  BY SolverAssumption DEF BreakCostOf, Snapshot
<1>3. MoveCost(s, o, price) \in Nat
  BY <1>1, <1>2 DEF MoveCost
<1> DEFINE pair == IF v = NoCar THEN NoCarCost ELSE PairCost(s, ov, o, v)
           move == MoveCost(s, o, price)
<1>4. pair \in Nat
  BY CostsAreNat, SolverAssumption DEF Car
<1>5. ArcCost(s, ov, price, o, v) = pair + (IF v # s.alloc[o] THEN move ELSE 0)
  BY DEF ArcCost
<1> HIDE DEF pair, move
<1> QED
  BY <1>3, <1>4, <1>5 DEF move

\* A free order may have any car it has an arc to that nobody else has.
LEMMA ReassigningIsPlan ==
  ASSUME NEW s, NEW ov, NEW p \in Plans(s, ov), NEW o \in FreeOrders(s, ov),
         NEW v \in Reachable(s, ov, o), \A r \in Order \ {o} : p[r] # v
  PROVE  [p EXCEPT ![o] = v] \in Plans(s, ov)
<1> DEFINE q == [p EXCEPT ![o] = v]
           free == FreeOrders(s, ov)
<1>1. o \in Order /\ v \in Vehicle /\ p \in [Order -> Car]
  BY DEF FreeOrders, Reachable, FreeVehicles, Plans, Car
<1>2. q \in [Order -> Car] /\ q[o] = v /\ \A r \in Order \ {o} : q[r] = p[r]
  BY <1>1 DEF Car
<1>3. \A r \in Order \ free : q[r] = s.alloc[r]
  BY <1>2 DEF Plans
<1>4. \A r \in free : q[r] \in Reachable(s, ov, r) \cup {NoCar}
  BY <1>2 DEF Plans, FreeOrders
<1>5. \A r, z \in free : r # z /\ q[r] # NoCar => q[r] # q[z]
  BY <1>1, <1>2 DEF Plans, FreeOrders
<1> HIDE DEF q
<1> QED
  BY <1>2, <1>3, <1>4, <1>5 DEF Plans, Car, q

\* Its own car is one a displaced order has an arc to.
LEMMA OwnCarIsReachable ==
  ASSUME NEW s \in Snapshot, NEW ov, Matching(s.alloc), NEW o \in FreeOrders(s, ov),
         s.alloc[o] # NoCar, Eligible(s, o, s.alloc[o])
  PROVE  s.alloc[o] \in Reachable(s, ov, o)
<1>1. o \in Order /\ s.alloc[o] \in Vehicle
  BY DEF FreeOrders, Snapshot
<1>2. \A r \in Order \ FreeOrders(s, ov) : s.alloc[r] # s.alloc[o]
  BY <1>1 DEF Matching
<1> QED
  BY <1>1, <1>2 DEF Reachable, FreeVehicles

\* A best plan cannot be changed so that one order pays less and none more.
LEMMA BestIsEfficient ==
  ASSUME NEW s \in Snapshot, NEW ov \in Override, StepsKnown(ov.priority), NEW price \in Nat,
         NEW p \in Solutions(s, ov, price), NEW q \in Plans(s, ov), NEW o \in FreeOrders(s, ov),
         \A r \in FreeOrders(s, ov) \ {o} :
           ArcCost(s, ov, price, r, q[r]) <= ArcCost(s, ov, price, r, p[r])
  PROVE  ArcCost(s, ov, price, o, p[o]) <= ArcCost(s, ov, price, o, q[o])
<1> DEFINE free == FreeOrders(s, ov)
           Cost(x) == [r \in Order |-> IF r \in free THEN ArcCost(s, ov, price, r, x[r]) ELSE 0]
           cp == Cost(p)
           cq == Cost(q)
           one == [r \in Order |-> IF r \in {o} THEN 1 ELSE 0]
           up == [r \in Order |-> cq[r] + one[r]]
<1>1. NumOrders \in Nat /\ Order = 1..NumOrders /\ o \in Order
  BY SolverAssumption DEF Order, FreeOrders
<1>2. p \in Plans(s, ov) /\ p \in [Order -> Car] /\ q \in [Order -> Car]
  BY SolutionIsPlan DEF Plans, Car
<1>3. \A r \in Order : /\ ArcCost(s, ov, price, r, p[r]) \in Int
                       /\ ArcCost(s, ov, price, r, q[r]) \in Int
  BY <1>2, ArcIsNat
<1>4. \A r \in Order : cp[r] \in Int /\ cq[r] \in Int /\ one[r] \in Int /\ up[r] = cq[r] + one[r]
  BY <1>3
<1>5. Total(cp, NumOrders) <= Total(cq, NumOrders)
  BY DEF Solutions, Objective
<1> SUFFICES ASSUME ~(ArcCost(s, ov, price, o, p[o]) <= ArcCost(s, ov, price, o, q[o])) PROVE FALSE
  OBVIOUS
<1>6. \A r \in Order : up[r] \in Int /\ up[r] <= cp[r]
  <2> SUFFICES ASSUME NEW r \in Order PROVE up[r] \in Int /\ up[r] <= cp[r]
    OBVIOUS
  <2>1. CASE r = o
    BY <1>1, <1>3, <2>1
  <2>2. CASE r # o
    BY <1>3, <2>2
  <2> QED BY <2>1, <2>2
<1>7. Total(one, NumOrders) = 1
  <2>1. \A i \in 1..NumOrders : one[i] = IF i \in {o} THEN 1 ELSE 0
    BY <1>1
  <2>2. {i \in 1..NumOrders : i \in {o}} = {o}
    BY <1>1
  <2> HIDE DEF one
  <2>3. Total(one, NumOrders) = Cardinality({i \in 1..NumOrders : i \in {o}})
    BY <1>1, <2>1, TotalCounts
  <2> QED BY <2>2, <2>3, FS_Singleton
<1> HIDE DEF cp, cq, up, one
<1>8. /\ Total(up, NumOrders) = Total(cq, NumOrders) + Total(one, NumOrders)
      /\ Total(cq, NumOrders) \in Int
  <2>1. \A i \in 1..NumOrders : cq[i] \in Int /\ one[i] \in Int /\ up[i] = cq[i] + one[i]
    BY <1>1, <1>4
  <2> QED BY <1>1, <2>1, TotalPlus
<1>9. Total(up, NumOrders) <= Total(cp, NumOrders)
  BY <1>1, <1>4, <1>6, TotalMonotone
<1>10. Total(cp, NumOrders) \in Int
  <2> DEFINE sum == [r \in Order |-> cp[r] + one[r]]
  <2>1. \A i \in 1..NumOrders : cp[i] \in Int /\ one[i] \in Int /\ sum[i] = cp[i] + one[i]
    BY <1>1, <1>4
  <2> HIDE DEF sum
  <2> QED BY <1>1, <2>1, TotalPlus
<1> QED
  BY <1>5, <1>7, <1>8, <1>9, <1>10

\* Its own car on time is the cheapest thing a settled order can have.
LEMMA OwnCarIsCheapest ==
  ASSUME BreakPricesCover, NEW s \in Snapshot, NEW ov \in Override, StepsKnown(ov.priority),
         NEW o \in SettledOrders(s), NEW price \in Nat, NEW v \in Car, v # s.alloc[o]
  PROVE  ArcCost(s, ov, price, o, s.alloc[o]) < ArcCost(s, ov, price, o, v)
<1> DEFINE own == s.alloc[o]
<1>1. /\ o \in Order /\ own \in Vehicle /\ own # NoCar /\ Tardiness(s, o, own) = 0
      /\ s.commitment[o] \in Commitment
  <2>1. o \in Order /\ own \in Vehicle \cup {NoCar} /\ own # NoCar /\ o \notin Disrupted(s)
    BY DEF SettledOrders, NeedsHelp, Snapshot
  <2>2. s.eta[own] \in Nat /\ s.promise[o] \in Nat
    BY <2>1, SolverAssumption DEF Snapshot, Day
  <2> QED BY <2>1, <2>2 DEF Disrupted, Tardiness, Snapshot
<1>2. Earliness(s, o, own) \in 0..MaxDay
  BY <1>1, SolverAssumption DEF Earliness, Snapshot, Day
<1> DEFINE step == StepOf(o, ov.priority)
           early == Earliness(s, o, own)
<1>3. ArcCost(s, ov, price, o, own) = PairCost(s, ov, o, own) + 0
  BY <1>1 DEF ArcCost
<1>4. ArcCost(s, ov, price, o, own) < BreakCost[s.commitment[o]]
  <2>1. PairCost(s, ov, o, own) = StepWeight[step] * (0 + EarlyCost * early)
    BY <1>1 DEF PairCost, EffectiveWeight, BreakPricesCover
  <2>2. step \in DOMAIN StepWeight
    BY <1>1, StepIsKnown
  <2>3. StepWeight[step] * (0 + EarlyCost * early) < BreakCost[s.commitment[o]]
    <3> HIDE DEF step, early
    <3> QED BY <1>1, <1>2, <2>2 DEF BreakPricesCover, early
  <2>4. PairCost(s, ov, o, own) \in Int
    BY <1>1, CostsAreNat
  <2> QED BY <1>3, <2>1, <2>3, <2>4
<1>5. BreakCostOf(s, o) = BreakCost[s.commitment[o]] /\ BreakCostOf(s, o) \in Nat
  BY <1>1, SolverAssumption DEF BreakCostOf
<1>6. (IF v = NoCar THEN NoCarCost ELSE PairCost(s, ov, o, v)) \in Nat
  <2>1. CASE v = NoCar
    BY <2>1, SolverAssumption
  <2>2. CASE v # NoCar
    <3>1. v \in Vehicle
      BY <2>2 DEF Car
    <3>2. Tardiness(s, o, v) \in 0..MaxDay /\ Earliness(s, o, v) \in Nat
      <4>1. s.eta[v] \in 0..MaxDay /\ s.promise[o] \in 0..MaxDay
        BY <1>1, <3>1 DEF Snapshot, Day
      <4>2. MaxDay \in Nat
        BY SolverAssumption
      <4> QED BY <4>1, <4>2 DEF Tardiness, Earliness
    <3>3. LateCost[Tardiness(s, o, v)] \in Nat /\ EarlyCost \in Nat
      BY <3>2, SolverAssumption
    <3> QED BY <2>2, <1>1, <3>2, <3>3, WeightIsNat, Z3 DEF PairCost
  <2> QED BY <2>1, <2>2
<1>7. Scale * price \in Nat /\ ArcCost(s, ov, price, o, own) \in Int
  <2>1. Scale * price \in Nat
    BY SolverAssumption
  <2>2. own \in Car
    BY <1>1 DEF Car
  <2> QED BY <1>1, <2>1, <2>2, ArcIsNat
<1>8. ArcCost(s, ov, price, o, v)
        = (IF v = NoCar THEN NoCarCost ELSE PairCost(s, ov, o, v)) + (Scale * price + BreakCostOf(s, o))
  BY DEF ArcCost, MoveCost
<1> DEFINE a == ArcCost(s, ov, price, o, own)
           b == ArcCost(s, ov, price, o, v)
           pair == IF v = NoCar THEN NoCarCost ELSE PairCost(s, ov, o, v)
           k == Scale * price
           brk == BreakCostOf(s, o)
<1>9. a \in Int /\ pair \in Nat /\ k \in Nat /\ brk \in Nat /\ a < brk /\ b = pair + (k + brk)
  BY <1>4, <1>5, <1>6, <1>7, <1>8
<1> HIDE DEF a, b, pair, k, brk
<1>10. a < b
  BY <1>9
<1> QED
  BY <1>10 DEF a, b

\* A settled order is displaced only for another that takes its car: with prices
\* that cover a promise, a plan that takes a car nobody then has is no optimum.
THEOREM DisplacedForSomebody ==
  ASSUME BreakPricesCover
  PROVE  Spec => []NoIdleDisplacement
<1>1. ASSUME IInv PROVE NoIdleDisplacement
  <2> SUFFICES ASSUME NEW p \in ComputedPlans, NEW o \in Movers(snap, p) \cap SettledOrders(snap),
                      Eligible(snap, o, snap.alloc[o]),
                      \A r \in Order \ {o} : p[r] # snap.alloc[o]
               PROVE  FALSE
    BY DEF NoIdleDisplacement
  <2>1. PICK price \in Prices : p \in Solutions(snap, override, price)
    BY <1>1, ComputedIsBest
  <2>2. /\ snap \in Snapshot /\ override \in Override /\ Matching(snap.alloc)
        /\ StepsKnown(override.priority)
    <3>1. phase # "steering"
      BY <1>1 DEF ComputedPlans, IInv, PhasesInOrder
    <3> QED BY <1>1, <3>1, RepairAssumption DEF IInv, TypeOK, PhasesInOrder
  <2>3. p \in Plans(snap, override) /\ p \in [Order -> Car] /\ price \in Nat
    BY <2>1, SolutionIsPlan, PricesAreNat DEF Plans, Car
  <2>4. /\ o \in Order /\ o \in SettledOrders(snap)
        /\ p[o] # snap.alloc[o] /\ snap.alloc[o] # NoCar /\ snap.alloc[o] \in Car
        /\ o \in FreeOrders(snap, override)
    BY <2>2, <2>3, MoversAreFree DEF Movers, SettledOrders, Snapshot, Car
  <2> DEFINE q == [p EXCEPT ![o] = snap.alloc[o]]
  <2>5. q \in Plans(snap, override)
    BY <2>2, <2>3, <2>4, OwnCarIsReachable, ReassigningIsPlan
  <2>6. q[o] = snap.alloc[o] /\ q \in [Order -> Car] /\ \A r \in Order \ {o} : q[r] = p[r]
    BY <2>3, <2>4
  <2> HIDE DEF q
  <2>7. \A r \in FreeOrders(snap, override) \ {o} :
          ArcCost(snap, override, price, r, q[r]) <= ArcCost(snap, override, price, r, p[r])
    <3>1. \A r \in Order : ArcCost(snap, override, price, r, p[r]) \in Int
      BY <2>2, <2>3, ArcIsNat
    <3> QED BY <2>6, <3>1 DEF FreeOrders
  <2>8. ArcCost(snap, override, price, o, p[o]) <= ArcCost(snap, override, price, o, q[o])
    BY <2>1, <2>2, <2>3, <2>4, <2>5, <2>7, BestIsEfficient
  <2>9. ArcCost(snap, override, price, o, q[o]) < ArcCost(snap, override, price, o, p[o])
    BY <2>2, <2>3, <2>4, <2>6, OwnCarIsCheapest
  <2>10. /\ ArcCost(snap, override, price, o, q[o]) \in Int
         /\ ArcCost(snap, override, price, o, p[o]) \in Int
    BY <2>2, <2>3, <2>4, <2>6, ArcIsNat
  <2> QED BY <2>8, <2>9, <2>10
<1> QED
  BY <1>1, InvariantHolds, PTL

\* What a free order's arc costs beside the price of having no car.
LEMMA ArcWithin ==
  ASSUME NEW most \in Nat,
         CostsAtMost(most),
         NEW s \in Snapshot, NEW ov \in Override, StepsKnown(ov.priority), NEW o \in Order,
         NEW price \in Prices, NEW v \in Car
  PROVE  \E rest \in 0..most :
           ArcCost(s, ov, price, o, v) = (IF v = NoCar THEN NoCarCost ELSE 0) + rest
<1> DEFINE step == StepOf(o, ov.priority)
           move == MoveCost(s, o, price)
           com == s.commitment[o]
           k == Scale * price
<1>1. /\ step \in DOMAIN StepWeight /\ com \in Commitment /\ price \in Nat
      /\ StepWeight[step] \in Nat /\ BreakCost[com] \in Nat
  BY StepIsKnown, PricesAreNat, SolverAssumption DEF Snapshot
<1>2. k \in Nat
  BY <1>1, SolverAssumption
<1>3. move \in Nat /\ move <= k + BreakCost[com]
  <2>1. BreakCostOf(s, o) \in {0, BreakCost[com]}
    BY DEF BreakCostOf
  <2> HIDE DEF k, com
  <2> QED BY <1>1, <1>2, <2>1 DEF MoveCost, k
<1>4. \A late, early \in 0..MaxDay :
        StepWeight[step] * (LateCost[late] + EarlyCost * early) + (k + BreakCost[com]) <= most
  BY <1>1 DEF CostsAtMost
<1>5. \A late, early \in 0..MaxDay :
        /\ StepWeight[step] * (LateCost[late] + EarlyCost * early) \in Nat
        /\ StepWeight[step] * (LateCost[late] + EarlyCost * early) + move <= most
  <2> SUFFICES ASSUME NEW late \in 0..MaxDay, NEW early \in 0..MaxDay
               PROVE  /\ StepWeight[step] * (LateCost[late] + EarlyCost * early) \in Nat
                      /\ StepWeight[step] * (LateCost[late] + EarlyCost * early) + move <= most
    OBVIOUS
  <2> DEFINE w == StepWeight[step]
             l == LateCost[late]
             c == EarlyCost * early
             pair == w * (l + c)
             brk == BreakCost[com]
  <2>1. w \in Nat /\ l \in Nat /\ brk \in Nat
    BY <1>1, SolverAssumption
  <2>2. c \in Nat
    <3>1. EarlyCost \in Nat /\ early \in Nat
      BY SolverAssumption
    <3> QED BY <3>1
  <2>3. pair + (k + brk) <= most
    BY <1>4
  <2> HIDE DEF w, l, c, brk, k, move
  <2>4. pair \in Nat
    BY <2>1, <2>2
  <2> HIDE DEF pair
  <2>5. move <= k + brk
    BY <1>3 DEF brk
  <2>6. pair + move <= most
    BY <1>2, <1>3, <2>1, <2>3, <2>4, <2>5
  <2> QED BY <2>4, <2>6 DEF pair, w, l, c
<1>6. v # NoCar => \E late, early \in 0..MaxDay :
        PairCost(s, ov, o, v) = StepWeight[step] * (LateCost[late] + EarlyCost * early)
  <2> SUFFICES ASSUME v # NoCar
               PROVE  \E late, early \in 0..MaxDay :
                        PairCost(s, ov, o, v) = StepWeight[step] * (LateCost[late] + EarlyCost * early)
    OBVIOUS
  <2>1. s.eta[v] \in 1..MaxDay /\ s.promise[o] \in 1..MaxDay /\ MaxDay \in Nat
    BY SolverAssumption DEF Snapshot, Car, Day
  <2>2. Tardiness(s, o, v) \in 0..MaxDay /\ Earliness(s, o, v) \in 0..MaxDay
    BY <2>1 DEF Tardiness, Earliness
  <2> QED BY <2>2 DEF PairCost, EffectiveWeight
<1>7. move <= most
  <2> DEFINE w == StepWeight[step] * (LateCost[0] + EarlyCost * 0)
  <2>1. 0 \in 0..MaxDay
    BY SolverAssumption
  <2>2. w \in Nat /\ w + move <= most
    BY <1>5, <2>1
  <2> HIDE DEF w, move
  <2> QED BY <1>3, <2>2
<1> DEFINE add == IF v # s.alloc[o] THEN move ELSE 0
           pair == IF v = NoCar THEN 0 ELSE PairCost(s, ov, o, v)
<1>8. pair \in Nat /\ add \in Nat /\ pair + add <= most
  <2> HIDE DEF move, step
  <2>1. add \in {0, move}
    OBVIOUS
  <2>2. CASE v = NoCar
    BY <1>3, <1>7, <2>1, <2>2
  <2>3. CASE v # NoCar
    <3>1. pair \in Nat /\ pair + move <= most
      BY <1>5, <1>6, <2>3
    <3> HIDE DEF pair, add
    <3> QED BY <1>3, <2>1, <3>1
  <2> QED BY <2>2, <2>3
<1>9. ArcCost(s, ov, price, o, v) = (IF v = NoCar THEN NoCarCost ELSE 0) + (pair + add)
  <2>1. ArcCost(s, ov, price, o, v)
          = (IF v = NoCar THEN NoCarCost ELSE PairCost(s, ov, o, v)) + add
    BY DEF ArcCost
  <2>2. CASE v = NoCar
    <3> HIDE DEF add
    <3> QED BY <1>8, <2>1, <2>2, SolverAssumption
  <2>3. CASE v # NoCar
    <3>1. PairCost(s, ov, o, v) = pair
      BY <2>3
    <3> HIDE DEF add, pair
    <3> QED BY <1>8, <2>1, <2>3, <3>1
  <2> QED BY <2>2, <2>3
<1> HIDE DEF pair, add
<1> QED
  BY <1>8, <1>9

\* The objective of a plan: so many times the price of having no car, and for
\* each order no more than what it may cost beside.
LEMMA ObjectiveWithin ==
  ASSUME NEW most \in Nat,
         CostsAtMost(most),
         NEW s \in Snapshot, NEW ov \in Override, StepsKnown(ov.priority), NEW price \in Prices,
         NEW p \in Plans(s, ov)
  PROVE  /\ Cardinality(Unfilled(s, ov, p)) \in Nat
         /\ Objective(s, ov, price, p) \in Int
         /\ NoCarCost * Cardinality(Unfilled(s, ov, p)) <= Objective(s, ov, price, p)
         /\ Objective(s, ov, price, p)
              <= NoCarCost * Cardinality(Unfilled(s, ov, p)) + NumOrders * most
<1> DEFINE free == FreeOrders(s, ov)
           none == Unfilled(s, ov, p)
           cost == [o \in Order |-> IF o \in free THEN ArcCost(s, ov, price, o, p[o]) ELSE 0]
           zero == [o \in Order |-> 0]
           one  == [o \in Order |-> 1]
           lack == [o \in Order |-> IF o \in none THEN 1 ELSE 0]
           low  == [o \in Order |-> zero[o] + NoCarCost * lack[o]]
           top  == [o \in Order |-> zero[o] + most * one[o]]
           high == [o \in Order |-> top[o] + NoCarCost * lack[o]]
<1>1. NumOrders \in Nat /\ Order = 1..NumOrders /\ NoCarCost \in Nat /\ NoCarCost \in Int
  BY SolverAssumption DEF Order
<1>2. ASSUME NEW o \in Order
      PROVE  /\ zero[o] = 0 /\ one[o] = 1 /\ lack[o] \in {0, 1}
             /\ low[o] = NoCarCost * lack[o] /\ low[o] \in Int
             /\ top[o] = most /\ high[o] = most + low[o]
             /\ cost[o] \in Int /\ low[o] <= cost[o] /\ cost[o] <= high[o]
  <2>1. zero[o] = 0 /\ one[o] = 1 /\ lack[o] = (IF o \in none THEN 1 ELSE 0)
    OBVIOUS
  <2>2. low[o] = (IF o \in none THEN NoCarCost ELSE 0)
    <3> HIDE DEF none
    <3>1. low[o] = 0 + NoCarCost * lack[o]
      BY <2>1
    <3> QED BY <1>1, <2>1, <3>1
  <2>3. top[o] = most
    OBVIOUS
  <2>4. low[o] = NoCarCost * lack[o] /\ high[o] = most + low[o]
    BY <1>1, <2>1, <2>3
  <2>5. o \in none <=> o \in free /\ p[o] = NoCar
    BY DEF Unfilled
  <2>6. p[o] \in Car
    BY DEF Plans, Car
  <2>7. PICK rest \in 0..most :
          ArcCost(s, ov, price, o, p[o]) = (IF p[o] = NoCar THEN NoCarCost ELSE 0) + rest
    BY <2>6, ArcWithin
  <2>8. \/ cost[o] = low[o] + rest
        \/ cost[o] = 0 /\ low[o] = 0
    BY <1>1, <2>2, <2>5, <2>7
  <2>9. low[o] \in Int
    BY <1>1, <2>2
  <2> HIDE DEF zero, one, lack, low, top, high, cost
  <2> QED BY <2>1, <2>3, <2>4, <2>7, <2>8, <2>9
<1>3. /\ Total(zero, NumOrders) = 0
      /\ Total(one, NumOrders) = NumOrders
      /\ Total(lack, NumOrders) = Cardinality(none)
      /\ Cardinality(none) \in Nat
  <2>1. Total(zero, NumOrders) = Cardinality({i \in 1..NumOrders : i \in {}})
    <3> DEFINE nobody == {}
    <3>1. \A i \in 1..NumOrders : zero[i] = IF i \in nobody THEN 1 ELSE 0
      BY <1>1
    <3> HIDE DEF zero, nobody
    <3>2. Total(zero, NumOrders) = Cardinality({i \in 1..NumOrders : i \in nobody})
      BY <1>1, <3>1, TotalCounts
    <3> QED BY <3>2 DEF nobody
  <2>2. Total(one, NumOrders) = Cardinality({i \in 1..NumOrders : i \in 1..NumOrders})
    <3>1. \A i \in 1..NumOrders : one[i] = IF i \in 1..NumOrders THEN 1 ELSE 0
      BY <1>1
    <3> HIDE DEF one
    <3> QED BY <1>1, <3>1, TotalCounts
  <2>3. Total(lack, NumOrders) = Cardinality({i \in 1..NumOrders : i \in none})
    <3>1. \A i \in 1..NumOrders : lack[i] = IF i \in none THEN 1 ELSE 0
      BY <1>1
    <3> HIDE DEF lack, none
    <3> QED BY <1>1, <3>1, TotalCounts
  <2>4. {i \in 1..NumOrders : i \in none} = none /\ none \subseteq 1..NumOrders
    BY <1>1 DEF Unfilled, FreeOrders
  <2>5. IsFiniteSet(1..NumOrders) /\ Cardinality(1..NumOrders) = NumOrders
    BY <1>1, FS_Interval
  <2>6. {i \in 1..NumOrders : i \in {}} = {} /\ {i \in 1..NumOrders : i \in 1..NumOrders} = 1..NumOrders
    OBVIOUS
  <2> HIDE DEF none, zero, one, lack
  <2>7. IsFiniteSet(none) /\ Cardinality(none) \in Nat
    BY <2>4, <2>5, FS_Subset, FS_CardinalityType
  <2> QED BY <2>1, <2>2, <2>3, <2>4, <2>5, <2>6, <2>7, FS_EmptySet
<1>4. Objective(s, ov, price, p) = Total(cost, NumOrders)
  BY DEF Objective
<1> HIDE DEF none, cost, zero, one, lack, low, top, high
<1>5. Total(low, NumOrders) = NoCarCost * Cardinality(none)
  <2>1. \A i \in 1..NumOrders : zero[i] \in Int
    BY <1>1, <1>2
  <2>3. \A i \in 1..NumOrders : lack[i] \in Int
    BY <1>1, <1>2
  <2>4. \A i \in 1..NumOrders : low[i] = zero[i] + NoCarCost * lack[i]
    BY <1>1 DEF low
  <2>2. Total(low, NumOrders) = Total(zero, NumOrders) + NoCarCost * Total(lack, NumOrders)
    BY <1>1, <2>1, <2>3, <2>4, TotalLinear
  <2> QED BY <1>1, <1>3, <2>2
<1>6. Total(top, NumOrders) = most * NumOrders
  <2>1. \A i \in 1..NumOrders : zero[i] \in Int
    BY <1>1, <1>2
  <2>3. \A i \in 1..NumOrders : one[i] \in Int
    BY <1>1, <1>2
  <2>4. \A i \in 1..NumOrders : top[i] = zero[i] + most * one[i]
    BY <1>1 DEF top
  <2>2. Total(top, NumOrders) = Total(zero, NumOrders) + most * Total(one, NumOrders)
    BY <1>1, <2>1, <2>3, <2>4, TotalLinear
  <2> QED BY <1>1, <1>3, <2>2
<1>7. /\ Total(high, NumOrders) = Total(top, NumOrders) + Total(low, NumOrders)
      /\ Total(top, NumOrders) \in Int /\ Total(low, NumOrders) \in Int
  <2>1. \A i \in 1..NumOrders : top[i] \in Int /\ low[i] \in Int /\ high[i] = top[i] + low[i]
    BY <1>1, <1>2
  <2>2. NumOrders \in Nat
    BY <1>1
  <2> QED BY <2>1, <2>2, TotalPlus
<1>8. Total(low, NumOrders) <= Total(cost, NumOrders) /\ Total(cost, NumOrders) <= Total(high, NumOrders)
  <2>1. \A i \in 1..NumOrders : low[i] \in Int /\ cost[i] \in Int /\ low[i] <= cost[i]
    BY <1>1, <1>2
  <2>2. \A i \in 1..NumOrders : cost[i] \in Int /\ high[i] \in Int /\ cost[i] <= high[i]
    BY <1>1, <1>2
  <2> QED BY <1>1, <2>1, <2>2, TotalMonotone
<1>9. Total(cost, NumOrders) \in Int
  <2> DEFINE sum == [o \in Order |-> cost[o] + cost[o]]
  <2>1. \A i \in 1..NumOrders : cost[i] \in Int /\ cost[i] \in Int /\ sum[i] = cost[i] + cost[i]
    BY <1>1, <1>2
  <2> HIDE DEF sum
  <2> QED BY <1>1, <2>1, TotalPlus
<1>10. most * NumOrders = NumOrders * most
  BY <1>1
<1> QED
  BY <1>3, <1>4, <1>5, <1>6, <1>7, <1>8, <1>9, <1>10 DEF none

\* One order the fewer without a car outweighs everything else in a plan.
LEMMA FewerLacking ==
  ASSUME NEW c \in Nat, NEW m \in Nat, NEW a \in Nat, NEW b \in Nat, m < c, c * a <= c * b + m
  PROVE  a <= b
<1> SUFFICES ASSUME a >= b + 1 PROVE FALSE
  OBVIOUS
<1>1. c * a >= c * (b + 1)
  BY Z3
<1>2. c * (b + 1) = c * b + c
  BY Z3
<1> QED
  BY <1>1, <1>2, Z3

\* The best plan at any price lacks no more cars than any other plan of the same
\* free set.
LEMMA BestLacksFewest ==
  ASSUME NoCarOutweighs, NEW s \in Snapshot, NEW ov \in Override, StepsKnown(ov.priority),
         NEW price \in Prices, NEW p \in Solutions(s, ov, price), NEW q \in Plans(s, ov)
  PROVE  Cardinality(Unfilled(s, ov, p)) <= Cardinality(Unfilled(s, ov, q))
<1>1. PICK most \in Nat : NumOrders * most < NoCarCost /\ CostsAtMost(most)
  BY DEF NoCarOutweighs
<1>2. p \in Plans(s, ov) /\ Objective(s, ov, price, p) <= Objective(s, ov, price, q)
  BY DEF Solutions
<1> DEFINE up == Cardinality(Unfilled(s, ov, p))
           uq == Cardinality(Unfilled(s, ov, q))
           op == Objective(s, ov, price, p)
           oq == Objective(s, ov, price, q)
<1>3. up \in Nat /\ op \in Int /\ NoCarCost * up <= op
  BY <1>1, <1>2, ObjectiveWithin
<1>4. uq \in Nat /\ oq \in Int /\ oq <= NoCarCost * uq + NumOrders * most
  BY <1>1, ObjectiveWithin
<1>5. NoCarCost \in Nat /\ NumOrders * most \in Nat
  BY <1>1, SolverAssumption
<1> HIDE DEF up, uq
<1>6. NoCarCost * up \in Int /\ NoCarCost * uq \in Int
  BY <1>3, <1>4, <1>5
<1>7. NoCarCost * up <= NoCarCost * uq + NumOrders * most
  BY <1>2, <1>3, <1>4, <1>5, <1>6
<1>8. up <= uq
  BY <1>1, <1>3, <1>4, <1>5, <1>7, FewerLacking
<1> QED BY <1>8 DEF up, uq

\* No plan leaves more orders without a car than any other would, as long as
\* the price list puts one such order above everything else together.
THEOREM FewestGoWithout ==
  ASSUME NoCarOutweighs
  PROVE  Spec => []FewestWithoutCar
<1>1. ASSUME IInv PROVE FewestWithoutCar
  <2> SUFFICES ASSUME NEW p \in ComputedPlans, NEW q \in Plans(snap, override), phase = "reported"
               PROVE  Cardinality(Unfilled(snap, override, p))
                        <= Cardinality(Unfilled(snap, override, q))
    BY DEF FewestWithoutCar
  <2>1. PICK price \in Prices : p \in Solutions(snap, override, price)
    BY <1>1, ComputedIsBest
  <2>2. snap \in Snapshot /\ override \in Override /\ StepsKnown(override.priority)
    BY <1>1, RepairAssumption DEF IInv, TypeOK, PhasesInOrder
  <2> QED BY <2>1, <2>2, BestLacksFewest
<1> QED
  BY <1>1, InvariantHolds, PTL

\* The planner who allows more is never worse off in orders without a car: with
\* the same never and only, whatever else is allowed on top, whoever is made
\* urgent and whatever a change costs, no best plan leaves more of them.  On a
\* pull whose settled orders hold cars of the right model, that is: one that
\* holds another is freed by the permission and has no arc back to its car.
THEOREM AllowingMoreLeavesNoMoreWithout ==
  ASSUME NoCarOutweighs,
         NEW s \in Snapshot, Matching(s.alloc),
         \A o \in SettledOrders(s) : Eligible(s, o, s.alloc[o]),
         NEW ov \in Override, NEW wider \in Override, StepsKnown(wider.priority),
         wider.never = ov.never, wider.only = ov.only,
         \A o \in Order : Authorised(s, o, ov) => Authorised(s, o, wider),
         NEW before \in Prices, NEW p \in Solutions(s, ov, before),
         NEW after \in Prices, NEW q \in Solutions(s, wider, after)
  PROVE  Cardinality(Unfilled(s, wider, q)) <= Cardinality(Unfilled(s, ov, p))
<1> DEFINE free == FreeOrders(s, ov)
           more == FreeOrders(s, wider)
<1>1. p \in Plans(s, ov) /\ p \in [Order -> Car]
  BY DEF Solutions, Plans, Car
<1>2. free \subseteq more /\ more \subseteq Order
  BY DEF FreeOrders
<1>3. \A o \in more \ free : o \in SettledOrders(s)
  BY DEF FreeOrders, NeedsHelp, SettledOrders
<1>4. /\ \A o \in Order \ free : p[o] = s.alloc[o]
      /\ \A o \in free : p[o] # NoCar => p[o] \in FreeVehicles(s, ov) /\ Eligible(s, o, p[o])
  BY <1>1 DEF Plans, Reachable
<1>5. Matching(p)
  BY <1>1, PlanIsMatching
<1>6. p \in Plans(s, wider)
  <2>1. ASSUME NEW o \in more, p[o] # NoCar PROVE p[o] \in Reachable(s, wider, o)
    <3>1. p[o] \in Vehicle /\ Eligible(s, o, p[o])
      BY <1>1, <1>2, <1>3, <1>4, <2>1 DEF Car
    <3>2. \A r \in Order \ more : s.alloc[r] # p[o]
      BY <1>2, <1>4, <1>5, <2>1 DEF Matching
    <3> QED BY <3>1, <3>2 DEF Reachable, FreeVehicles
  <2> HIDE DEF free
  <2>2. \A o \in Order \ more : p[o] = s.alloc[o]
    BY <1>2, <1>4
  <2>3. \A o, r \in more : o # r /\ p[o] # NoCar => p[o] # p[r]
    BY <1>2, <1>5 DEF Matching
  <2> QED BY <1>1, <2>1, <2>2, <2>3 DEF Plans, Car
<1>7. Unfilled(s, wider, p) = Unfilled(s, ov, p)
  <2>1. \A o \in more \ free : p[o] # NoCar
    BY <1>2, <1>3, <1>4 DEF SettledOrders
  <2> QED BY <1>2, <2>1 DEF Unfilled
<1> QED
  BY <1>6, <1>7, BestLacksFewest

\* A car that nobody has in a plan is one its compatible free orders could have.
LEMMA IdleIsReachable ==
  ASSUME NEW s, NEW ov, NEW p \in Plans(s, ov), NEW o \in Order, NEW v \in Idle(p), Eligible(s, o, v)
  PROVE  v \in Reachable(s, ov, o) /\ \A r \in Order \ {o} : p[r] # v
BY DEF Idle, Reachable, FreeVehicles, Plans

\* Whatever was solved this turn is the best at its own price.
LEMMA SolvedIsBest ==
  ASSUME IInv, NEW solved \in Solved
  PROVE  /\ solved.price \in Prices /\ solved.cars \in Solutions(snap, override, solved.price)
         /\ phase # "steering"
<1>1. CASE \E i \in DOMAIN results : solved = [price |-> Sweep[i], cars |-> results[i]]
  <2>1. PICK i \in DOMAIN results : solved = [price |-> Sweep[i], cars |-> results[i]]
    BY <1>1
  <2>2. i \in DOMAIN Sweep /\ results # <<>>
    BY <2>1, SolverAssumption DEF IInv, TypeOK
  <2> QED BY <2>1, <2>2 DEF IInv, SolvedUnderOverride, PhasesInOrder, Prices
<1>2. CASE phase = "reported" /\ solved = plan
  BY <1>2 DEF IInv, SolvedUnderOverride
<1> QED
  BY <1>1, <1>2 DEF Solved

\* An order is late beside an idle car only if the move would cost more than it
\* saves, and goes without a car only if no idle one is compatible: for every
\* price list that puts an order without a car above everything else.
THEOREM LateForAReason ==
  ASSUME NoCarOutweighs
  PROVE  Spec => []IdleCarsDoNotPay
<1>1. ASSUME IInv PROVE IdleCarsDoNotPay
  <2> SUFFICES ASSUME NEW solved \in Solved, NEW o \in FreeOrders(snap, override),
                      NEW v \in Idle(solved.cars), Eligible(snap, o, v)
               PROVE  LET car == solved.cars[o]
                          moving(w) == IF w # snap.alloc[o] THEN MoveCost(snap, o, solved.price) ELSE 0
                      IN  /\ car # NoCar
                          /\ PairCost(snap, override, o, car) - PairCost(snap, override, o, v)
                               <= moving(v) - moving(car)
    BY DEF IdleCarsDoNotPay
  <2> DEFINE p == solved.cars
             price == solved.price
             car == p[o]
             q == [p EXCEPT ![o] = v]
             Arc(w) == ArcCost(snap, override, price, o, w)
             moving(w) == IF w # snap.alloc[o] THEN MoveCost(snap, o, price) ELSE 0
  <2>1. /\ price \in Prices /\ price \in Nat /\ p \in Solutions(snap, override, price)
        /\ p \in Plans(snap, override) /\ p \in [Order -> Car]
    <3>1. price \in Prices /\ p \in Solutions(snap, override, price)
      BY <1>1, SolvedIsBest
    <3>2. price \in Nat /\ p \in Plans(snap, override)
      BY <3>1, SolutionIsPlan, PricesAreNat
    <3> HIDE DEF p
    <3> QED BY <3>1, <3>2 DEF Plans, Car
  <2>2. /\ snap \in Snapshot /\ override \in Override /\ StepsKnown(override.priority)
    BY <1>1, SolvedIsBest, RepairAssumption DEF IInv, TypeOK, PhasesInOrder
  <2>3. o \in Order /\ v \in Vehicle /\ v \in Car /\ v # NoCar /\ car \in Car
    BY <2>1, SolverAssumption DEF FreeOrders, Idle, Car
  <2>4. q \in Plans(snap, override)
    BY <2>1, <2>3, IdleIsReachable, ReassigningIsPlan
  <2>5. Arc(car) <= Arc(v)
    <3>1. q[o] = v /\ \A r \in Order \ {o} : q[r] = p[r]
      BY <2>1, <2>3
    <3>2. \A r \in Order : ArcCost(snap, override, price, r, p[r]) \in Int
      BY <2>1, <2>2, ArcIsNat
    <3>3. \A r \in FreeOrders(snap, override) \ {o} :
            ArcCost(snap, override, price, r, q[r]) <= ArcCost(snap, override, price, r, p[r])
      BY <3>1, <3>2 DEF FreeOrders
    <3> HIDE DEF q
    <3>4. ArcCost(snap, override, price, o, p[o]) <= ArcCost(snap, override, price, o, q[o])
      BY <2>1, <2>2, <2>4, <3>3, BestIsEfficient
    <3> QED BY <3>1, <3>4
  <2>6. car # NoCar
    <3> SUFFICES ASSUME car = NoCar PROVE FALSE
      OBVIOUS
    <3>1. PICK most \in Nat : NumOrders * most < NoCarCost /\ CostsAtMost(most)
      BY DEF NoCarOutweighs
    <3>2. PICK rest \in 0..most : Arc(car) = NoCarCost + rest
      BY <2>1, <2>2, <2>3, <3>1, ArcWithin
    <3>3. PICK other \in 0..most : Arc(v) = 0 + other
      BY <2>1, <2>2, <2>3, <3>1, ArcWithin
    <3>4. most <= NumOrders * most
      BY SolverAssumption, Z3
    <3>5. NumOrders * most \in Nat /\ NoCarCost \in Nat
      BY SolverAssumption
    <3> HIDE DEF Arc, car
    <3> QED BY <2>5, <3>1, <3>2, <3>3, <3>4, <3>5
  <2>7. /\ Arc(car) = PairCost(snap, override, o, car) + moving(car)
        /\ Arc(v) = PairCost(snap, override, o, v) + moving(v)
    BY <2>3, <2>6 DEF ArcCost
  <2>8. /\ PairCost(snap, override, o, car) \in Int /\ PairCost(snap, override, o, v) \in Int
        /\ MoveCost(snap, o, price) \in Nat
    BY <2>1, <2>2, <2>3, <2>6, CostsAreNat, ArcIsNat DEF Car
  <2>9. moving(car) \in Int /\ moving(v) \in Int
    BY <2>8
  <2> HIDE DEF Arc, moving
  <2>10. PairCost(snap, override, o, car) - PairCost(snap, override, o, v) <= moving(v) - moving(car)
    BY <2>5, <2>7, <2>8, <2>9
  <2> QED BY <2>6, <2>10 DEF moving
<1> QED
  BY <1>1, InvariantHolds, PTL

-----------------------------------------------------------------------------
(* The solver always has an answer.                                        *)

\* The pinned orders keep their cars and nobody else has one: no steering, no
\* shortage and no inherited mismatch leaves the flow without a solution.
LEMMA NobodyServedIsPlan ==
  ASSUME NEW s \in Snapshot, NEW ov
  PROVE  [o \in Order |-> IF o \in FreeOrders(s, ov) THEN NoCar ELSE s.alloc[o]] \in Plans(s, ov)
BY DEF Plans, Snapshot, FreeOrders

\* No plan costs less than nothing.
LEMMA ObjectiveIsNat ==
  ASSUME NEW s \in Snapshot, NEW ov \in Override, StepsKnown(ov.priority), NEW price \in Nat,
         NEW p \in Plans(s, ov)
  PROVE  Objective(s, ov, price, p) \in Nat
<1> DEFINE cost == [o \in Order |-> IF o \in FreeOrders(s, ov)
                                    THEN ArcCost(s, ov, price, o, p[o]) ELSE 0]
           zero == [o \in Order |-> 0]
<1>1. NumOrders \in Nat /\ Order = 1..NumOrders
  BY SolverAssumption DEF Order
<1>2. \A o \in Order : cost[o] \in Nat /\ zero[o] = 0
  BY ArcIsNat DEF Plans, Car
<1>3. Objective(s, ov, price, p) = Total(cost, NumOrders)
  BY DEF Objective
<1> DEFINE sum == [o \in Order |-> cost[o] + zero[o]]
           none == [o \in Order |-> zero[o] + zero[o]]
<1>4. /\ \A i \in 1..NumOrders : cost[i] \in Int /\ zero[i] \in Int /\ sum[i] = cost[i] + zero[i]
      /\ \A i \in 1..NumOrders : zero[i] \in Int /\ zero[i] \in Int /\ none[i] = zero[i] + zero[i]
  BY <1>1, <1>2
<1>5. none = zero
  OBVIOUS
<1> HIDE DEF cost, zero, sum, none
<1>6. Total(cost, NumOrders) \in Int
  BY <1>1, <1>4, TotalPlus
<1>7. Total(zero, NumOrders) = 0
  <2>1. /\ Total(zero, NumOrders) \in Int
        /\ Total(none, NumOrders) = Total(zero, NumOrders) + Total(zero, NumOrders)
    BY <1>1, <1>4, TotalPlus
  <2>2. \A x \in Int : x = x + x => x = 0
    OBVIOUS
  <2>3. Total(none, NumOrders) = Total(zero, NumOrders)
    BY <1>5
  <2> QED BY <2>1, <2>2, <2>3
<1>8. Total(zero, NumOrders) <= Total(cost, NumOrders)
  BY <1>1, <1>2, TotalMonotone
<1> QED
  BY <1>3, <1>6, <1>7, <1>8

\* Once the steps are known to be steps, solving at any price the session can
\* ask for has an answer: the sweep and the report never stop half way.
THEOREM SolverAlwaysAnswers ==
  Spec => [](phase # "steering" => \A price \in Prices : Solutions(snap, override, price) # {})
<1>1. ASSUME IInv, phase # "steering", NEW price \in Prices
      PROVE  Solutions(snap, override, price) # {}
  <2> DEFINE plans == Plans(snap, override)
             costs == {Objective(snap, override, price, p) : p \in plans}
  <2>1. /\ snap \in Snapshot /\ override \in Override /\ StepsKnown(override.priority)
        /\ price \in Nat
    BY <1>1, RepairAssumption, PricesAreNat DEF IInv, TypeOK, PhasesInOrder
  <2>2. PICK p0 \in plans : TRUE
    BY <2>1, NobodyServedIsPlan
  <2>3. costs \in SUBSET Nat /\ Objective(snap, override, price, p0) \in costs
    BY <2>1, <2>2, ObjectiveIsNat
  <2>4. PICK least \in costs : \A k \in costs : least <= k
    <3> HIDE DEF costs
    <3> QED BY <2>3, LeastElement
  <2>5. PICK p \in plans : Objective(snap, override, price, p) = least
    BY <2>4
  <2>6. p \in Solutions(snap, override, price)
    BY <2>4, <2>5 DEF Solutions
  <2> QED BY <2>6
<1>2. IInv => (phase # "steering" => \A price \in Prices : Solutions(snap, override, price) # {})
  BY <1>1
<1> QED
  BY <1>2, InvariantHolds, PTL

-----------------------------------------------------------------------------
(* The session implements its promise.                                     *)

\* A plan of the override in force is acceptable to the planner.
LEMMA PlanAcceptable ==
  ASSUME IInv, NEW p \in Plans(snap, override)
  PROVE  p \in Promise!Acceptable
<1>1. p \in [Order -> Vehicle \cup {NoCar}]
  BY DEF Plans
<1>2. Promise!NoDoubleBooking(p)
  BY PlanIsMatching, RepairAssumption DEF Promise!NoDoubleBooking, Matching, IInv, TypeOK
<1>3. ASSUME NEW o \in Order, p[o] # snap.alloc[o]
      PROVE  (o \notin SettledOrders(snap) \/ o \in consent) /\ o \notin protected
  <2>1. o \in Movers(snap, p)
    BY <1>3 DEF Movers
  <2> QED BY <2>1, SettledMoversAuthorised, MoversWithinReach DEF IInv, WordsMatchOverride
<1> QED
  BY <1>1, <1>2, <1>3 DEF Promise!Acceptable

\* Every behaviour of the session is one its promise allows: edits of may_move
\* are Allow and Protect, a report is Propose, carry_forward is EndTurn, and
\* everything else is invisible to the planner.
THEOREM SessionKeepsPromise == Spec => ImplementsPromise
<1>1. Init => Promise!Init
  <2> SUFFICES ASSUME Init PROVE Promise!Init
    OBVIOUS
  <2>1. snap.alloc \in [Order -> Vehicle \cup {NoCar}]
    BY RepairAssumption DEF Init, Snapshot
  <2>2. SettledOrders(snap) \in SUBSET Order
    BY DEF SettledOrders
  <2> QED BY <2>1, <2>2 DEF Init, NothingProposed, Promise!Init
<1>2. ASSUME IInv, [Next]_vars PROVE [Promise!Next]_(Promise!vars)
  <2> DEFINE Invisible == UNCHANGED <<snap, plan, consent, protected>>
  <2>1. Invisible => UNCHANGED Promise!vars
    BY DEF Promise!vars
  <2>2. phase = "steering" => plan.cars = snap.alloc
    BY <1>2 DEF IInv, PhasesInOrder, NothingProposed
  <2>3. consent' \in SUBSET Order /\ protected' \in SUBSET Order
    BY <1>2, NextIInv DEF IInv, TypeOK
  <2>4. CASE SetPriority \/ SetChurn
    <3>1. Invisible
      BY <2>4 DEF SetPriority, SetChurn, Edit
    <3> QED BY <3>1, <2>1
  <2>5. CASE SetOnly \/ SetNever
    <3>1. phase = "steering" /\ UNCHANGED <<snap, plan, consent>>
      BY <2>5 DEF SetOnly, SetNever, Edit
    <3> QED BY <3>1, <2>2, <2>3 DEF Promise!Next, Promise!Protect
  <2>6. CASE GrantFilter \/ GrantAnyone
    <3>1. phase = "steering" /\ UNCHANGED <<snap, plan, protected>>
      BY <2>6 DEF GrantFilter, GrantAnyone, Edit
    <3> QED BY <3>1, <2>2, <2>3 DEF Promise!Next, Promise!Allow
  <2>7. CASE BeginSweep \/ SolveNextPrice
    <3>1. Invisible
      BY <2>7 DEF BeginSweep, SolveNextPrice
    <3> QED BY <3>1, <2>1
  <2>8. CASE Present
    <3>1. plan.cars = snap.alloc
      BY <1>2, <2>8 DEF Present, IInv, PhasesInOrder, NothingProposed
    <3>2. UNCHANGED <<snap, override, consent, protected>> /\ phase' = "reported"
      BY <2>8 DEF Present
    <3>3. plan'.cars \in Plans(snap, override)
      BY <1>2, <3>2, NextIInv DEF IInv, SolvedUnderOverride
    <3>4. plan'.cars \in Promise!Acceptable
      BY <1>2, <3>3, PlanAcceptable
    <3> QED BY <3>1, <3>2, <3>4 DEF Promise!Next, Promise!Propose
  <2>9. CASE NextTurn
    <3>1. plan'.cars = snap.alloc /\ consent' = {} /\ UNCHANGED <<snap, protected>>
      BY <2>9 DEF NextTurn, NothingProposed
    <3> QED BY <3>1 DEF Promise!Next, Promise!EndTurn
  <2>10. CASE UNCHANGED vars
    <3>1. Invisible
      BY <2>10 DEF vars
    <3> QED BY <3>1, <2>1
  <2> QED
    BY <1>2, <2>4, <2>5, <2>6, <2>7, <2>8, <2>9, <2>10 DEF Next
<1> QED
  BY <1>1, <1>2, InvariantHolds, PTL DEF Spec, ImplementsPromise, Promise!Spec
=============================================================================
