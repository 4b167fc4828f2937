---------------------------- MODULE PullProofs ----------------------------
(***************************************************************************)
(* Proofs about Pull, for every pair of scenario files.                    *)
(*                                                                         *)
(* IInv says where each copy comes from: the mounted document is what      *)
(* translate makes of the files, the host's copy and the summary are made  *)
(* from it, and so is the sandbox's snapshot.  What the properties say     *)
(* then follows from facts about Document, LateOnHost and Flatten alone.   *)
(***************************************************************************)
EXTENDS Pull, SumLemmas

IInv ==
  /\ orderRows \in OrderFiles
  /\ vehicleRows \in VehicleFiles
  /\ mounted # NotYet =>
       ~TranslateRaises(orderRows) /\ mounted = Document(orderRows, vehicleRows)
  /\ cached # NotYet => mounted # NotYet /\ cached = HostPull(mounted)
  /\ told # NotYet => mounted # NotYet /\ told = Summary(HostPull(mounted))
  /\ snapshot # NotYet => mounted # NotYet /\ snapshot = Flatten(mounted)
  /\ plan # NotYet => snapshot # NotYet /\ plan \in Outcomes(snapshot)

\* The four copies stay what they were made from: the pull is read once, and a
\* restart fetches the same document again.
THEOREM InvariantHolds == Spec => []IInv
<1>1. Init => IInv
  BY DEF Init, IInv
<1>2. IInv /\ [Next]_vars => IInv'
  <2> SUFFICES ASSUME IInv, [Next]_vars PROVE IInv'
    OBVIOUS
  <2>1. CASE NewSession
    <3>1. mounted' # NotYet
      BY <2>1, DocumentAssumption DEF NewSession, IInv
    <3>2. told = NotYet /\ snapshot = NotYet /\ plan = NotYet
      BY <2>1 DEF NewSession, IInv
    <3> QED BY <2>1, <3>1, <3>2 DEF NewSession, IInv
  <2>2. CASE Restart
    BY <2>2 DEF Restart, IInv
  <2>3. CASE PullSnapshot
    BY <2>3 DEF PullSnapshot, PullFor, IInv
  <2>4. CASE RunFlatten
    <3>1. snapshot # NotYet => snapshot' = snapshot
      BY <2>4 DEF RunFlatten, IInv
    <3> QED BY <2>4, <3>1 DEF RunFlatten, IInv
  <2>5. CASE RepairTurn
    BY <2>5 DEF RepairTurn, IInv
  <2>6. CASE PushPlan
    <3>1. /\ plan # NotYet
          /\ cached' = PullFor
          /\ UNCHANGED <<orderRows, vehicleRows, mounted, told, snapshot, plan>>
      BY <2>6 DEF PushPlan
    <3>2. cached' = HostPull(mounted)
      BY <3>1 DEF PullFor, IInv
    <3> QED BY <3>1, <3>2 DEF IInv
  <2>7. CASE UNCHANGED vars
    BY <2>7 DEF vars, IInv
  <2> QED BY <2>1, <2>2, <2>3, <2>4, <2>5, <2>6, <2>7 DEF Next
<1> QED
  BY <1>1, <1>2, PTL DEF Spec

-----------------------------------------------------------------------------
(* The document.                                                           *)

\* Each kept order is in it under its key, holding what its row's link allows.
LEMMA DocumentOrders ==
  ASSUME NEW orders, NEW vehicles, ~TranslateRaises(orders), NEW i \in KeptRows(orders)
  PROVE  LET doc == Document(orders, vehicles)
         IN  /\ orders[i].key \in DOMAIN doc.orders
             /\ doc.orders[orders[i].key].model = orders[i].model
             /\ doc.orders[orders[i].key].promise = orders[i].promise
             /\ doc.orders[orders[i].key].car = Link(orders, DOMAIN doc.cars, orders[i].holds)
<1> DEFINE kept == KeptRows(orders)
           row(k) == CHOOSE j \in kept : orders[j].key = k
<1>1. row(orders[i].key) = i
  BY DEF TranslateRaises
<1> QED
  BY <1>1 DEF Document

\* Nothing else is in it.
LEMMA DocumentKeys ==
  ASSUME NEW orders, NEW vehicles, NEW k \in DOMAIN Document(orders, vehicles).orders
  PROVE  \E i \in KeptRows(orders) : k = orders[i].key
BY DEF Document

\* A car of the document comes from a usable row.
LEMMA DocumentCars ==
  ASSUME NEW orders, NEW vehicles
  PROVE  LET doc == Document(orders, vehicles)
         IN  /\ DOMAIN doc.cars = {vehicles[i].code : i \in ReachableRows(orders, vehicles)}
             /\ \A c \in DOMAIN doc.cars :
                  \E i \in ReachableRows(orders, vehicles) :
                    doc.cars[c] = [model |-> vehicles[i].model, by |-> vehicles[i].by]
<1> DEFINE reach == ReachableRows(orders, vehicles)
           row(c) == CHOOSE j \in reach : vehicles[j].code = c
<1>1. ASSUME NEW j \in reach
      PROVE  row(vehicles[j].code) \in reach
  OBVIOUS
<1> QED
  BY <1>1 DEF Document

\* The car an order holds in it is in it, and only that order's row claims it.
LEMMA DocumentLinks ==
  ASSUME NEW orders \in Seq(OrderRow), NEW vehicles, ~TranslateRaises(orders),
         NEW k \in DOMAIN Document(orders, vehicles).orders,
         Document(orders, vehicles).orders[k].car # NoCar
  PROVE  LET doc == Document(orders, vehicles)
             car == doc.orders[k].car
         IN  /\ car \in DOMAIN doc.cars
             /\ car # Blank
             /\ \A i \in DOMAIN orders : orders[i].holds = car => orders[i].key = k
<1> DEFINE doc == Document(orders, vehicles)
           car == doc.orders[k].car
<1>1. PICK i \in KeptRows(orders) : k = orders[i].key
  BY DocumentKeys
<1>2. car = Link(orders, DOMAIN doc.cars, orders[i].holds)
  <2>1. doc.orders[orders[i].key].car = Link(orders, DOMAIN doc.cars, orders[i].holds)
    BY DocumentOrders
  <2> QED BY <1>1, <2>1
<1>3. /\ car = orders[i].holds /\ car # Blank
      /\ car \notin Contested(orders) /\ car \in DOMAIN doc.cars
  BY <1>2 DEF Link
<1>4. i \in DOMAIN orders /\ orders[i] \in OrderRow
  BY DEF KeptRows
<1>5. car \in Code
  BY <1>3, <1>4 DEF OrderRow
<1>6. \A j \in DOMAIN orders : orders[j].holds = car => j = i
  BY <1>3, <1>4, <1>5 DEF Contested
<1> QED
  BY <1>1, <1>3, <1>6

\* The car an order holds in the mounted document is claimed by no other row of
\* the file: what a plan starts from is a matching.
THEOREM CarsInDisputeAreNobodys == Spec => []NobodyElsesCar
<1>1. IInv => NobodyElsesCar
  BY PullAssumption, DocumentLinks DEF IInv, NobodyElsesCar
<1> QED
  BY <1>1, InvariantHolds, PTL

\* Of the usable rows of a car, the first one is taken up (translate's seen_cars).
LEMMA FirstUsableRow ==
  ASSUME NEW vehicles \in Seq(VehicleRow), NEW i \in DOMAIN vehicles, Usable(vehicles[i])
  PROVE  \E j \in SupplyRows(vehicles) : vehicles[j].code = vehicles[i].code
<1> DEFINE B == {j \in DOMAIN vehicles : Usable(vehicles[j]) /\ vehicles[j].code = vehicles[i].code}
<1>1. B \in SUBSET Nat /\ i \in B
  OBVIOUS
<1>2. PICK j \in B : \A k \in B : j <= k
  <2> HIDE DEF B
  <2> QED BY <1>1, LeastElement
<1>3. ASSUME NEW k \in DOMAIN vehicles, k < j, Usable(vehicles[k])
      PROVE  vehicles[k].code # vehicles[j].code
  BY <1>2, <1>3
<1> QED
  BY <1>2, <1>3 DEF SupplyRows

\* No unusable, repeated or pruned row takes away a car somebody could be given:
\* a car with a usable row of a wanted model is in the mounted document.
THEOREM UsableCarsReachThePlan == Spec => []NoSupplyLost
<1>1. ASSUME IInv PROVE NoSupplyLost
  <2> SUFFICES ASSUME mounted # NotYet,
                      NEW i \in DOMAIN vehicleRows,
                      Usable(vehicleRows[i]), vehicleRows[i].code # Blank,
                      vehicleRows[i].model \in Wanted(orderRows)
               PROVE  vehicleRows[i].code \in DOMAIN mounted.cars
    BY DEF NoSupplyLost
  <2>1. vehicleRows \in VehicleFiles /\ vehicleRows \in Seq(VehicleRow)
    BY <1>1, PullAssumption DEF IInv
  <2>2. PICK j \in SupplyRows(vehicleRows) : vehicleRows[j].code = vehicleRows[i].code
    BY <2>1, FirstUsableRow
  <2>3. j \in DOMAIN vehicleRows /\ Usable(vehicleRows[j])
    BY DEF SupplyRows
  <2>4. vehicleRows[j].model = vehicleRows[i].model
    BY <2>1, <2>2, <2>3, OneModelAssumption DEF Usable
  <2>5. j \in ReachableRows(orderRows, vehicleRows)
    BY <2>4 DEF ReachableRows
  <2> QED BY <1>1, <2>2, <2>5, DocumentCars DEF IInv
<1> QED
  BY <1>1, InvariantHolds, PTL

-----------------------------------------------------------------------------
(* The two sides.                                                          *)

\* Every row of the document is one flatten keeps, and every allocation in it
\* is to a car it keeps.
LEMMA FlattenKeepsAll ==
  ASSUME NEW orders \in Seq(OrderRow), NEW vehicles \in Seq(VehicleRow),
         ~TranslateRaises(orders)
  PROVE  LET doc == Document(orders, vehicles)
             s   == Flatten(doc)
         IN  /\ s.skipped = {}
             /\ DOMAIN s.orders = DOMAIN doc.orders
             /\ DOMAIN s.cars = DOMAIN doc.cars
             /\ \A k \in DOMAIN doc.orders : s.alloc[k] = doc.orders[k].car
             /\ s.late = LateOnHost(doc)
<1> DEFINE doc == Document(orders, vehicles)
           keys == {k \in DOMAIN doc.orders : doc.orders[k].model # Blank /\ doc.orders[k].promise # 0}
           cars == {c \in DOMAIN doc.cars : doc.cars[c].model # Blank /\ doc.cars[c].by # 0}
           links == {k \in keys : doc.orders[k].car \notin {NoCar, Blank}}
           sound == {k \in links : doc.orders[k].car \in cars}
<1>1. keys = DOMAIN doc.orders
  <2>1. ASSUME NEW k \in DOMAIN doc.orders
        PROVE  doc.orders[k].model # Blank /\ doc.orders[k].promise # 0
    <3>1. PICK i \in KeptRows(orders) : k = orders[i].key
      BY DocumentKeys
    <3>2. doc.orders[k].model = orders[i].model /\ doc.orders[k].promise = orders[i].promise
      <4>1. /\ doc.orders[orders[i].key].model = orders[i].model
            /\ doc.orders[orders[i].key].promise = orders[i].promise
        BY DocumentOrders
      <4> QED BY <3>1, <4>1
    <3> QED BY <3>2 DEF KeptRows, KeptOrder
  <2> QED BY <2>1
<1>2. cars = DOMAIN doc.cars
  <2>1. ASSUME NEW c \in DOMAIN doc.cars
        PROVE  doc.cars[c].model # Blank /\ doc.cars[c].by # 0
    <3>1. PICK i \in ReachableRows(orders, vehicles) :
            doc.cars[c] = [model |-> vehicles[i].model, by |-> vehicles[i].by]
      BY DocumentCars
    <3> QED BY <3>1 DEF ReachableRows, SupplyRows, Usable
  <2> QED BY <2>1
<1>3. \A k \in DOMAIN doc.orders :
        doc.orders[k].car # NoCar => doc.orders[k].car \in DOMAIN doc.cars /\ doc.orders[k].car # Blank
  BY DocumentLinks
<1>4. sound = {k \in DOMAIN doc.orders : doc.orders[k].car # NoCar} /\ links = sound
  <2> HIDE DEF doc, keys, cars
  <2> QED BY <1>1, <1>2, <1>3
<1>5. NoCar \notin DOMAIN doc.cars
  <2>1. ASSUME NEW i \in ReachableRows(orders, vehicles) PROVE vehicles[i].code \in Code \cup {Blank}
    <3>1. i \in DOMAIN vehicles
      BY DEF ReachableRows, SupplyRows
    <3>2. vehicles[i] \in VehicleRow
      BY <3>1
    <3> QED BY <3>2 DEF VehicleRow
  <2> QED BY <2>1, DocumentCars, PullAssumption
<1>6. LateInSandbox(doc, sound) = LateOnHost(doc)
  <2> HIDE DEF doc, keys, cars, links, sound
  <2> QED BY <1>3, <1>4, <1>5 DEF LateInSandbox, LateOnHost
<1>7. Flatten(doc) =
        [ orders  |-> [k \in keys |-> doc.orders[k].model],
          cars    |-> [c \in cars |-> doc.cars[c].model],
          alloc   |-> [k \in keys |-> IF k \in sound THEN doc.orders[k].car ELSE NoCar],
          late    |-> LateInSandbox(doc, sound),
          skipped |-> (DOMAIN doc.orders \ keys) \cup (DOMAIN doc.cars \ cars) \cup (links \ sound) ]
  BY DEF Flatten
<1> HIDE DEF doc, keys, cars, links, sound
<1>8. Flatten(doc).skipped = {}
  BY <1>1, <1>2, <1>4, <1>7
<1>9. \A k \in DOMAIN doc.orders : Flatten(doc).alloc[k] = doc.orders[k].car
  BY <1>1, <1>4, <1>7
<1>10. /\ DOMAIN Flatten(doc).orders = DOMAIN doc.orders
       /\ DOMAIN Flatten(doc).cars = DOMAIN doc.cars
       /\ Flatten(doc).late = LateOnHost(doc)
  BY <1>1, <1>2, <1>6, <1>7
<1> QED
  BY <1>8, <1>9, <1>10 DEF doc

\* flatten skips nothing of a document translate wrote.
THEOREM NothingIsSkipped == Spec => []BackstopSilent
<1>1. IInv => BackstopSilent
  BY PullAssumption, FlattenKeepsAll DEF IInv, BackstopSilent
<1> QED
  BY <1>1, InvariantHolds, PTL

\* What a repair starts from, Repair's premise about its books: no car is held
\* twice, every held car is one of the pull, and every order of the document is
\* there to be repaired, whatever gaps, repetitions and disputes the files have.
THEOREM RepairsStartFromAMatching ==
  Spec => [](snapshot # NotYet =>
               /\ DOMAIN snapshot.alloc = DOMAIN mounted.orders
               /\ \A k \in DOMAIN snapshot.alloc :
                    snapshot.alloc[k] # NoCar =>
                      /\ snapshot.alloc[k] \in DOMAIN snapshot.cars
                      /\ \A l \in DOMAIN snapshot.alloc :
                           l # k => snapshot.alloc[l] # snapshot.alloc[k])
<1>1. ASSUME IInv, snapshot # NotYet
      PROVE  /\ DOMAIN snapshot.alloc = DOMAIN mounted.orders
             /\ \A k \in DOMAIN snapshot.alloc :
                  snapshot.alloc[k] # NoCar =>
                    /\ snapshot.alloc[k] \in DOMAIN snapshot.cars
                    /\ \A l \in DOMAIN snapshot.alloc :
                         l # k => snapshot.alloc[l] # snapshot.alloc[k]
  <2> DEFINE doc == Document(orderRows, vehicleRows)
  <2>1. /\ orderRows \in Seq(OrderRow) /\ vehicleRows \in Seq(VehicleRow)
        /\ ~TranslateRaises(orderRows) /\ mounted = doc /\ snapshot = Flatten(doc)
    BY <1>1, PullAssumption DEF IInv
  <2>2. /\ DOMAIN snapshot.orders = DOMAIN doc.orders /\ DOMAIN snapshot.cars = DOMAIN doc.cars
        /\ \A k \in DOMAIN doc.orders : snapshot.alloc[k] = doc.orders[k].car
    BY <2>1, FlattenKeepsAll
  <2>3. DOMAIN snapshot.alloc = DOMAIN snapshot.orders
    BY <2>1 DEF Flatten
  <2>4. \A k \in DOMAIN doc.orders : doc.orders[k].car # NoCar =>
          /\ doc.orders[k].car \in DOMAIN doc.cars
          /\ \A i \in DOMAIN orderRows : orderRows[i].holds = doc.orders[k].car => orderRows[i].key = k
    BY <2>1, DocumentLinks
  <2>5. \A l \in DOMAIN doc.orders : doc.orders[l].car # NoCar =>
          \E i \in DOMAIN orderRows : orderRows[i].key = l /\ orderRows[i].holds = doc.orders[l].car
    <3>1. TAKE l \in DOMAIN doc.orders
    <3>2. PICK i \in KeptRows(orderRows) : l = orderRows[i].key
      BY DocumentKeys
    <3>3. doc.orders[orderRows[i].key].car = Link(orderRows, DOMAIN doc.cars, orderRows[i].holds)
      BY <2>1, DocumentOrders
    <3> HIDE DEF doc
    <3> QED BY <3>2, <3>3 DEF Link, KeptRows
  <2> HIDE DEF doc
  <2> QED BY <2>1, <2>2, <2>3, <2>4, <2>5
<1> QED
  BY <1>1, InvariantHolds, PTL

\* How far "dropping it is lossless" (datasource.py:369) goes: an order loses a
\* car nobody disputes only if no order of the file asks for that car's model.
THEOREM OnlyUnwantedModelsAreLost ==
  Spec => [](mounted # NotYet =>
               \A i \in KeptRows(orderRows), j \in SupplyRows(vehicleRows) :
                 /\ orderRows[i].holds = vehicleRows[j].code
                 /\ orderRows[i].holds \notin Contested(orderRows) \cup {Blank}
                 /\ mounted.orders[orderRows[i].key].car # orderRows[i].holds
                 => vehicleRows[j].model \notin Wanted(orderRows))
<1>1. ASSUME IInv, mounted # NotYet, NEW i \in KeptRows(orderRows), NEW j \in SupplyRows(vehicleRows),
             orderRows[i].holds = vehicleRows[j].code,
             orderRows[i].holds \notin Contested(orderRows) \cup {Blank},
             vehicleRows[j].model \in Wanted(orderRows)
      PROVE  mounted.orders[orderRows[i].key].car = orderRows[i].holds
  <2> DEFINE doc == Document(orderRows, vehicleRows)
  <2>1. ~TranslateRaises(orderRows) /\ mounted = doc
    BY <1>1 DEF IInv
  <2>2. vehicleRows[j].code \in DOMAIN doc.cars
    <3>1. j \in ReachableRows(orderRows, vehicleRows)
      BY <1>1 DEF ReachableRows
    <3> QED BY <3>1, DocumentCars
  <2>3. doc.orders[orderRows[i].key].car = Link(orderRows, DOMAIN doc.cars, orderRows[i].holds)
    BY <2>1, DocumentOrders
  <2> HIDE DEF doc
  <2> QED BY <1>1, <2>1, <2>2, <2>3 DEF Link
<1>2. IInv => (mounted # NotYet =>
               \A i \in KeptRows(orderRows), j \in SupplyRows(vehicleRows) :
                 /\ orderRows[i].holds = vehicleRows[j].code
                 /\ orderRows[i].holds \notin Contested(orderRows) \cup {Blank}
                 /\ mounted.orders[orderRows[i].key].car # orderRows[i].holds
                 => vehicleRows[j].model \notin Wanted(orderRows))
  BY <1>1
<1> QED
  BY <1>2, InvariantHolds, PTL

\* The keys of a document are finitely many.
LEMMA DocumentFinite ==
  ASSUME NEW orders \in Seq(OrderRow), NEW vehicles
  PROVE  IsFiniteSet(DOMAIN Document(orders, vehicles).orders)
<1> DEFINE keys == {orders[i].key : i \in KeptRows(orders)}
           key == [i \in KeptRows(orders) |-> orders[i].key]
<1>1. IsFiniteSet(KeptRows(orders))
  <2>1. KeptRows(orders) \in SUBSET (1..Len(orders)) /\ Len(orders) \in Nat
    BY DEF KeptRows
  <2>2. IsFiniteSet(1..Len(orders))
    BY <2>1, FS_Interval
  <2> QED BY <2>1, <2>2, FS_Subset
<1>2. key \in Surjection(KeptRows(orders), keys)
  BY DEF Surjection
<1>3. IsFiniteSet(keys)
  <2> HIDE DEF keys, key
  <2> QED BY <1>1, <1>2, FS_Surjection
<1> QED
  BY <1>3 DEF Document

\* As many cars are held as orders hold one.
LEMMA HoldersAndCars ==
  ASSUME NEW orders \in Seq(OrderRow), NEW vehicles, ~TranslateRaises(orders)
  PROVE  LET doc     == Document(orders, vehicles)
             keys    == DOMAIN doc.orders
             holding == {k \in keys : doc.orders[k].car # NoCar}
             held    == {doc.orders[k].car : k \in keys} \ {NoCar}
         IN  /\ Cardinality(held) = Cardinality(holding)
             /\ Cardinality({k \in keys : doc.orders[k].car = NoCar})
                  = Cardinality(keys) - Cardinality(holding)
<1> DEFINE doc     == Document(orders, vehicles)
           keys    == DOMAIN doc.orders
           holding == {k \in keys : doc.orders[k].car # NoCar}
           held    == {doc.orders[k].car : k \in keys} \ {NoCar}
           without == {k \in keys : doc.orders[k].car = NoCar}
           carOf   == [k \in holding |-> doc.orders[k].car]
<1>1. IsFiniteSet(keys)
  BY DocumentFinite
<1>2. ASSUME NEW k \in holding, NEW l \in holding, doc.orders[k].car = doc.orders[l].car
      PROVE  k = l
  <2>1. PICK i \in KeptRows(orders) : k = orders[i].key
    BY DocumentKeys
  <2>2. doc.orders[k].car = Link(orders, DOMAIN doc.cars, orders[i].holds)
    <3>1. doc.orders[orders[i].key].car = Link(orders, DOMAIN doc.cars, orders[i].holds)
      BY DocumentOrders
    <3> QED BY <2>1, <3>1
  <2>3. doc.orders[l].car = orders[i].holds /\ i \in DOMAIN orders
    BY <1>2, <2>2 DEF Link, KeptRows
  <2> QED BY <2>1, <2>3, DocumentLinks
<1>3. held = {doc.orders[k].car : k \in holding}
  OBVIOUS
<1> HIDE DEF doc, keys
<1>4. carOf \in Bijection(holding, held)
  BY <1>2, <1>3 DEF Bijection, Injection, Surjection, IsInjective
<1>5. IsFiniteSet(holding)
  BY <1>1, FS_Subset
<1>6. Cardinality(held) = Cardinality(holding)
  <2> HIDE DEF holding, held, carOf
  <2> QED BY <1>4, <1>5, FS_Bijection DEF ExistsBijection
<1>7. without = keys \ holding /\ holding = keys \cap holding
  OBVIOUS
<1>8. Cardinality(without) = Cardinality(keys) - Cardinality(holding)
  <2> HIDE DEF holding, without
  <2>1. Cardinality(keys \ holding) = Cardinality(keys) - Cardinality(keys \cap holding)
    BY <1>1, FS_Difference
  <2> QED BY <1>7, <2>1
<1> QED
  BY <1>6, <1>8 DEF doc, keys

\* What the agent was told is what it finds in its snapshot, whether the host
\* still had the pull or fetched it again.
THEOREM ToldIsWhatIsMounted == Spec => []SidesAgree
<1>1. ASSUME IInv PROVE SidesAgree
  <2> SUFFICES ASSUME told # NotYet, snapshot # NotYet
               PROVE  LET holding == {k \in DOMAIN snapshot.orders : snapshot.alloc[k] # NoCar}
                      IN  /\ told.late = snapshot.late
                          /\ told.orders = Cardinality(DOMAIN snapshot.orders)
                          /\ told.holding = Cardinality(holding)
                          /\ told.without = told.orders - told.holding
                          /\ told.free = Cardinality(DOMAIN snapshot.cars
                                                       \ {snapshot.alloc[k] : k \in holding})
    BY DEF SidesAgree
  <2> DEFINE doc     == Document(orderRows, vehicleRows)
             keys    == DOMAIN doc.orders
             holding == {k \in keys : doc.orders[k].car # NoCar}
             held    == {doc.orders[k].car : k \in keys} \ {NoCar}
             without == {k \in keys : doc.orders[k].car = NoCar}
  <2>1. /\ orderRows \in Seq(OrderRow) /\ vehicleRows \in Seq(VehicleRow)
        /\ ~TranslateRaises(orderRows)
        /\ told = Summary(HostPull(doc)) /\ snapshot = Flatten(doc)
    BY <1>1, PullAssumption DEF IInv
  <2>2. /\ DOMAIN snapshot.orders = keys
        /\ DOMAIN snapshot.cars = DOMAIN doc.cars
        /\ \A k \in keys : snapshot.alloc[k] = doc.orders[k].car
        /\ snapshot.late = LateOnHost(doc)
    BY <2>1, FlattenKeepsAll
  <2>3. /\ told.orders = Cardinality(keys)
        /\ told.holding = Cardinality(held)
        /\ told.without = Cardinality(without)
        /\ told.free = Cardinality(DOMAIN doc.cars \ held)
        /\ told.late = LateOnHost(doc)
    BY <2>1 DEF Summary, HostPull
  <2>4. /\ Cardinality(held) = Cardinality(holding)
        /\ Cardinality(without) = Cardinality(keys) - Cardinality(holding)
    BY <2>1, HoldersAndCars
  <2> HIDE DEF doc
  <2>5. /\ {k \in DOMAIN snapshot.orders : snapshot.alloc[k] # NoCar} = holding
        /\ {snapshot.alloc[k] : k \in holding} = held
    BY <2>2
  <2> HIDE DEF keys, holding, held, without
  <2> QED BY <2>2, <2>3, <2>4, <2>5
<1> QED
  BY <1>1, InvariantHolds, PTL

-----------------------------------------------------------------------------
(* The types of the document.                                              *)

LEMMA DocumentTyped ==
  ASSUME NEW orders \in Seq(OrderRow), NEW vehicles \in Seq(VehicleRow),
         ~TranslateRaises(orders)
  PROVE  LET doc == Document(orders, vehicles)
         IN  /\ DOMAIN doc.orders \subseteq Key
             /\ DOMAIN doc.cars \subseteq Code \cup {Blank}
             /\ \A k \in DOMAIN doc.orders :
                  doc.orders[k] \in
                    [model : Model, promise : 1..LastDay, commitment : Commitment,
                     car : DOMAIN doc.cars \cup {NoCar}]
             /\ \A c \in DOMAIN doc.cars : doc.cars[c] \in [model : Model, by : 1..LastDay]
<1> DEFINE doc == Document(orders, vehicles)
           kept == KeptRows(orders)
           row(k) == orders[CHOOSE j \in kept : orders[j].key = k]
<1>1. ASSUME NEW k \in DOMAIN doc.orders
      PROVE  /\ k \in Key
             /\ doc.orders[k] \in
                  [model : Model, promise : 1..LastDay, commitment : Commitment,
                   car : DOMAIN doc.cars \cup {NoCar}]
  <2>1. PICK i \in kept : k = orders[i].key
    BY DocumentKeys
  <2>2. \E j \in kept : row(k) = orders[j]
    BY <2>1
  <2>3. PICK j \in kept : row(k) = orders[j]
    BY <2>2
  <2>4. orders[j] \in OrderRow /\ KeptOrder(orders[j]) /\ orders[i] \in OrderRow /\ KeptOrder(orders[i])
    BY DEF KeptRows
  <2>5. /\ orders[j].model \in Model /\ orders[j].promise \in 1..LastDay
        /\ orders[j].commitment \in Commitment /\ k \in Key
    BY <2>1, <2>4, PullAssumption DEF OrderRow, KeptOrder
  <2>6. doc.orders[k] = [ model |-> row(k).model, promise |-> row(k).promise,
                          commitment |-> row(k).commitment,
                          car |-> Link(orders, DOMAIN doc.cars, row(k).holds) ]
    BY <2>1 DEF Document
  <2>7. Link(orders, DOMAIN doc.cars, orders[j].holds) \in DOMAIN doc.cars \cup {NoCar}
    BY DEF Link
  <2> HIDE DEF doc
  <2> QED BY <2>3, <2>5, <2>6, <2>7
<1>2. ASSUME NEW c \in DOMAIN doc.cars
      PROVE  c \in Code \cup {Blank} /\ doc.cars[c] \in [model : Model, by : 1..LastDay]
  <2>1. PICK i \in ReachableRows(orders, vehicles) :
          doc.cars[c] = [model |-> vehicles[i].model, by |-> vehicles[i].by]
    BY DocumentCars
  <2>2. PICK j \in ReachableRows(orders, vehicles) : c = vehicles[j].code
    BY DocumentCars
  <2>3. /\ vehicles[i] \in VehicleRow /\ vehicles[j] \in VehicleRow /\ Usable(vehicles[i])
    BY DEF ReachableRows, SupplyRows
  <2>4. vehicles[i].model \in Model /\ vehicles[i].by \in 1..LastDay /\ c \in Code \cup {Blank}
    BY <2>2, <2>3, PullAssumption DEF VehicleRow, Usable
  <2> QED BY <2>1, <2>4
<1> QED
  BY <1>1, <1>2

\* The document and the host's copy of it keep their types, for every pair of
\* files: no row without a key, model, date or commitment is in it.
THEOREM TypeCorrect == Spec => []TypeOK
<1>1. ASSUME IInv PROVE TypeOK
  <2>1. orderRows \in Seq(OrderRow) /\ vehicleRows \in Seq(VehicleRow)
    BY <1>1, PullAssumption DEF IInv
  <2>2. cached # NotYet => cached.doc = mounted
    BY <1>1 DEF IInv, HostPull
  <2> QED BY <1>1, <2>1, <2>2, DocumentTyped DEF IInv, TypeOK
<1> QED
  BY <1>1, InvariantHolds, PTL

-----------------------------------------------------------------------------
(* The write-back.                                                         *)

\* The rows and counts of a plan made on a document: one row an order, with the
\* car the document gives it.
MadeFor(doc, rows, counts) ==
  /\ IsFiniteSet(rows)
  /\ \A row \in rows :
       /\ row.order \in DOMAIN doc.orders
       /\ row.was = doc.orders[row.order].car
       /\ row.was # Blank
       /\ row.status \in {"moved", "no_car"}
       /\ row.bumped => row.status = "moved"
       /\ DOMAIN row = {"order", "was", "status", "bumped"}
  /\ \A row, other \in rows : row.order = other.order => row = other
  /\ CountsAgree(rows, counts)

LEMMA PlanRows ==
  ASSUME NEW orders \in Seq(OrderRow), NEW vehicles \in Seq(VehicleRow),
         ~TranslateRaises(orders), NEW p
  PROVE  LET doc == Document(orders, vehicles)
             s   == Flatten(doc)
         IN  MadeFor(doc, ChangedRows(s, p), PlanCounts(s, p))
<1> DEFINE doc  == Document(orders, vehicles)
           s    == Flatten(doc)
           keys == DOMAIN s.orders
           rows == ChangedRows(s, p)
           all  == {PlanRow(s, p, k) : k \in keys}
           rowOf == [k \in keys |-> PlanRow(s, p, k)]
<1>1. keys = DOMAIN doc.orders /\ \A k \in keys : s.alloc[k] = doc.orders[k].car
  BY FlattenKeepsAll
<1>2. \A k \in keys : doc.orders[k].car # Blank
  <2>1. \A k \in DOMAIN doc.orders : doc.orders[k].car # NoCar => doc.orders[k].car # Blank
    BY DocumentLinks
  <2> QED BY <1>1, <2>1, PullAssumption
<1>3. IsFiniteSet(keys)
  BY <1>1, DocumentFinite
<1> HIDE DEF doc, s, keys
<1>4. ASSUME NEW k
      PROVE  /\ DOMAIN PlanRow(s, p, k) = {"order", "was", "status", "bumped"}
             /\ PlanRow(s, p, k).order = k /\ PlanRow(s, p, k).was = s.alloc[k]
             /\ PlanRow(s, p, k).status \in {"moved", "no_car", "unchanged"}
             /\ PlanRow(s, p, k).bumped \in BOOLEAN
             /\ PlanRow(s, p, k).bumped => PlanRow(s, p, k).status = "moved"
  BY DEF PlanRow, Status
<1>5. /\ rows = {row \in all : row.status # "unchanged"}
      /\ RowsWith(rows, "moved") = RowsWith(all, "moved")
      /\ RowsWith(rows, "no_car") = RowsWith(all, "no_car")
      /\ Bumped(rows) = Bumped(all)
  BY <1>4 DEF ChangedRows, RowsWith, Bumped, keys
<1>6. rowOf \in Bijection(keys, all)
  BY <1>4 DEF Bijection, Injection, Surjection, IsInjective
<1>7. IsFiniteSet(all) /\ Cardinality(all) = Cardinality(keys)
  <2> HIDE DEF all, rowOf
  <2> QED BY <1>3, <1>6, FS_Bijection DEF ExistsBijection
<1>8. /\ Cardinality(RowsWith(all, "moved")) + Cardinality(RowsWith(all, "unchanged"))
           + Cardinality(RowsWith(all, "no_car")) = Cardinality(keys)
  <2> DEFINE moved == RowsWith(all, "moved")
             same  == RowsWith(all, "unchanged")
             none  == RowsWith(all, "no_car")
  <2>1. all = (moved \cup same) \cup none
    BY <1>4 DEF RowsWith
  <2>2. moved \cap same = {} /\ (moved \cup same) \cap none = {}
    BY DEF RowsWith
  <2>3. moved \subseteq all /\ same \subseteq all /\ none \subseteq all
    BY DEF RowsWith
  <2> HIDE DEF all, moved, same, none
  <2>4. IsFiniteSet(moved) /\ IsFiniteSet(same) /\ IsFiniteSet(none)
    BY <1>7, <2>3, FS_Subset
  <2>5. /\ IsFiniteSet(moved \cup same)
        /\ Cardinality(moved \cup same) = Cardinality(moved) + Cardinality(same)
    BY <2>2, <2>4, UnionApart
  <2>6. Cardinality(all) = Cardinality(moved \cup same) + Cardinality(none)
    BY <2>1, <2>2, <2>4, <2>5, UnionApart
  <2> QED BY <1>7, <2>5, <2>6 DEF moved, same, none
<1>9. CountsAgree(rows, PlanCounts(s, p))
  <2> HIDE DEF rows
  <2> QED BY <1>5, <1>8 DEF CountsAgree, PlanCounts, keys, all
<1>10. IsFiniteSet(rows)
  <2>1. rows \subseteq all
    BY <1>5
  <2> HIDE DEF rows, all
  <2> QED BY <1>7, <2>1, FS_Subset
<1>11. ASSUME NEW row \in rows
       PROVE  /\ row.order \in keys /\ row = PlanRow(s, p, row.order) /\ row.status # "unchanged"
  BY <1>4, <1>5
<1> HIDE DEF rows, all
<1>12. \A row \in rows :
        /\ row.order \in DOMAIN doc.orders
        /\ row.was = doc.orders[row.order].car
        /\ row.was # Blank
        /\ row.status \in {"moved", "no_car"}
        /\ row.bumped => row.status = "moved"
        /\ DOMAIN row = {"order", "was", "status", "bumped"}
  BY <1>1, <1>2, <1>4, <1>11
<1>13. \A row, other \in rows : row.order = other.order => row = other
  BY <1>11
<1> QED
  BY <1>9, <1>10, <1>12, <1>13 DEF MadeFor, rows, s, doc

\* A set with one element taken out, or another put in its place.
LEMMA OneLess ==
  ASSUME NEW S, IsFiniteSet(S), NEW x \in S
  PROVE  /\ IsFiniteSet(S \ {x}) /\ Cardinality(S) \in Nat
         /\ Cardinality(S \ {x}) = Cardinality(S) - 1
         /\ Cardinality(S \ {x}) # Cardinality(S)
BY FS_RemoveElement, FS_CardinalityType

LEMMA OneReplaced ==
  ASSUME NEW S, IsFiniteSet(S), NEW x \in S, NEW y, y \notin S \ {x}
  PROVE  Cardinality((S \ {x}) \cup {y}) = Cardinality(S)
<1>1. IsFiniteSet(S \ {x}) /\ Cardinality(S) \in Nat /\ Cardinality(S \ {x}) = Cardinality(S) - 1
  BY OneLess
<1>2. Cardinality((S \ {x}) \cup {y}) = Cardinality(S \ {x}) + 1
  BY <1>1, FS_AddElement
<1> QED BY <1>1, <1>2

\* What check_plan says of the rows of a plan, with one of them lost or with
\* another car written into it.
JudgedOf(doc, rows, counts, row) ==
  LET mistyped == Copied(rows, row, "was")
  IN  /\ StaleRows(rows, doc) = {}
      /\ ~CountsAgree(Copied(rows, row, "lost"), counts)
      /\ CountsAgree(mistyped, counts)
      /\ Cardinality(StaleRows(mistyped, doc)) = 1
      /\ Cardinality(mistyped \ StaleRows(mistyped, doc)) = Cardinality(rows) - 1

LEMMA Judged ==
  ASSUME NEW rows, NEW counts, NEW doc, NEW row \in rows, MadeFor(doc, rows, counts)
  PROVE  JudgedOf(doc, rows, counts, row)
<1> DEFINE bad == [row EXCEPT !.was = Blank]
           sent == (rows \ {row}) \cup {bad}
           same == /\ bad.order = row.order /\ bad.status = row.status
                   /\ bad.bumped = row.bumped /\ bad.was = Blank
<1> USE DEF MadeFor
<1>1. StaleRows(rows, doc) = {}
  BY DEF StaleRows
<1>2. /\ Copied(rows, row, "lost") = rows \ {row}
      /\ Copied(rows, row, "was") = sent
  BY DEF Copied
<1>3. same
  OBVIOUS
<1>4. bad \notin rows
  BY <1>3
<1> HIDE DEF bad
<1>5. ~CountsAgree(rows \ {row}, counts)
  <2>1. ASSUME NEW status \in {"moved", "no_car"}, row.status = status
        PROVE  Cardinality(RowsWith(rows \ {row}, status)) # Cardinality(RowsWith(rows, status))
    <3>1. /\ RowsWith(rows \ {row}, status) = RowsWith(rows, status) \ {row}
          /\ row \in RowsWith(rows, status) /\ RowsWith(rows, status) \subseteq rows
      BY <2>1 DEF RowsWith
    <3>2. IsFiniteSet(RowsWith(rows, status))
      BY <3>1, FS_Subset
    <3>3. Cardinality(RowsWith(rows, status) \ {row}) # Cardinality(RowsWith(rows, status))
      BY <3>1, <3>2, OneLess
    <3> QED BY <3>1, <3>3, Zenon
  <2> QED BY <2>1 DEF CountsAgree
<1>6. CountsAgree(sent, counts)
  <2>1. ASSUME NEW status
        PROVE  Cardinality(RowsWith(sent, status)) = Cardinality(RowsWith(rows, status))
    <3>1. RowsWith(rows, status) \subseteq rows
      BY DEF RowsWith
    <3>2. IsFiniteSet(RowsWith(rows, status))
      BY <3>1, FS_Subset
    <3>3. CASE row.status = status
      <4>1. /\ RowsWith(sent, status) = (RowsWith(rows, status) \ {row}) \cup {bad}
            /\ row \in RowsWith(rows, status) /\ bad \notin RowsWith(rows, status) \ {row}
        BY <1>3, <1>4, <3>3 DEF RowsWith
      <4>2. Cardinality((RowsWith(rows, status) \ {row}) \cup {bad}) = Cardinality(RowsWith(rows, status))
        BY <3>2, <4>1, OneReplaced
      <4> QED BY <4>1, <4>2, Zenon
    <3>4. CASE row.status # status
      <4>1. RowsWith(sent, status) = RowsWith(rows, status)
        BY <1>3, <3>4 DEF RowsWith
      <4> QED BY <4>1
    <3> QED BY <3>3, <3>4
  <2>2. Cardinality(Bumped(sent)) = Cardinality(Bumped(rows))
    <3>1. Bumped(rows) \subseteq rows
      BY DEF Bumped
    <3>2. IsFiniteSet(Bumped(rows))
      BY <3>1, FS_Subset
    <3>3. CASE row.bumped
      <4>1. /\ Bumped(sent) = (Bumped(rows) \ {row}) \cup {bad}
            /\ row \in Bumped(rows) /\ bad \notin Bumped(rows) \ {row}
        BY <1>3, <1>4, <3>3 DEF Bumped
      <4>2. Cardinality((Bumped(rows) \ {row}) \cup {bad}) = Cardinality(Bumped(rows))
        BY <3>2, <4>1, OneReplaced
      <4> QED BY <4>1, <4>2, Zenon
    <3>4. CASE ~row.bumped
      <4>1. Bumped(sent) = Bumped(rows)
        BY <1>3, <3>4 DEF Bumped
      <4> QED BY <4>1
    <3> QED BY <3>3, <3>4
  <2> QED BY <2>1, <2>2 DEF CountsAgree
<1>7. StaleRows(sent, doc) = {bad}
  BY <1>3 DEF StaleRows
<1>8. sent \ {bad} = rows \ {row}
  BY <1>4
<1>9. Cardinality({bad}) = 1 /\ Cardinality(rows \ {row}) = Cardinality(rows) - 1
  BY FS_Singleton, OneLess
<1> HIDE DEF sent
<1> QED
  BY <1>1, <1>2, <1>5, <1>6, <1>7, <1>8, <1>9 DEF JudgedOf

\* One push, of a plan of this document, with at most one slip.
LEMMA PushJudged ==
  ASSUME IInv, PushPlan
  PROVE  PlanStagedWhole'
<1> DEFINE rows   == ChangedRows(snapshot, plan)
           counts == PlanCounts(snapshot, plan)
<1>1. /\ mounted # NotYet /\ snapshot = Flatten(mounted) /\ plan # NotYet
      /\ mounted = Document(orderRows, vehicleRows) /\ ~TranslateRaises(orderRows)
      /\ orderRows \in Seq(OrderRow) /\ vehicleRows \in Seq(VehicleRow)
  BY PullAssumption DEF PushPlan, IInv
<1>2. cached'.doc = mounted
  BY <1>1 DEF PushPlan, PullFor, IInv, HostPull
<1>3. PICK slip \in Slip, row \in rows :
        answer' = [ slip |-> slip,
                    sent |-> Cardinality(rows),
                    verdict |-> CheckPlan(Copied(rows, row, slip),
                                          IF slip = "mode" THEN "apply" ELSE "stage",
                                          slip # "pull", counts, mounted) ]
  BY <1>2 DEF PushPlan
<1>4. CountsAgree(rows, counts) /\ JudgedOf(mounted, rows, counts, row)
  <2>1. MadeFor(mounted, rows, counts)
    BY <1>1, PlanRows
  <2> HIDE DEF rows, counts
  <2> QED BY <1>3, <2>1, Judged DEF MadeFor
<1> HIDE DEF rows, counts
<1>5. CASE slip = "none"
  <2>1. Copied(rows, row, slip) = rows
    BY <1>5 DEF Copied
  <2>2. answer'.verdict = [refused |-> FALSE, staged |-> Cardinality(rows), rejected |-> Cardinality({})]
    BY <1>3, <1>4, <1>5, <2>1 DEF CheckPlan, JudgedOf
  <2> QED BY <1>3, <1>5, <2>2 DEF PlanStagedWhole
<1>6. CASE slip = "was"
  <2> DEFINE sent == Copied(rows, row, "was")
  <2>1. answer'.verdict = [ refused |-> FALSE,
                            staged |-> Cardinality(sent \ StaleRows(sent, mounted)),
                            rejected |-> Cardinality(StaleRows(sent, mounted)) ]
    BY <1>3, <1>4, <1>6 DEF CheckPlan, JudgedOf
  <2> QED BY <1>3, <1>4, <1>6, <2>1 DEF JudgedOf, PlanStagedWhole
<1>7. CASE slip \in {"lost", "pull", "mode"}
  <2>1. answer'.verdict = [refused |-> TRUE, staged |-> 0, rejected |-> 0]
    BY <1>3, <1>4, <1>7 DEF CheckPlan, JudgedOf
  <2> QED BY <1>3, <1>7, <2>1 DEF PlanStagedWhole
<1>8. CASE slip = "order"
  BY <1>3, <1>8 DEF PlanStagedWhole
<1> QED
  BY <1>5, <1>6, <1>7, <1>8 DEF Slip

\* For every scenario, every plan the solver may present and any restart in
\* between: sent as it stands a plan is staged whole, with a row lost or made
\* for another pull it is refused, with one car mistyped that row alone is not
\* staged.
THEOREM PlansComeHomeWhole == Spec => []PlanStagedWhole
<1>1. Init => PlanStagedWhole
  BY DEF Init, PlanStagedWhole
<1>2. IInv /\ PlanStagedWhole /\ [Next]_vars => PlanStagedWhole'
  <2> SUFFICES ASSUME IInv, PlanStagedWhole, [Next]_vars PROVE PlanStagedWhole'
    OBVIOUS
  <2>1. CASE PushPlan
    BY <2>1, PushJudged
  <2>2. CASE RepairTurn
    BY <2>2 DEF RepairTurn, PlanStagedWhole
  <2>3. CASE NewSession \/ Restart \/ PullSnapshot \/ RunFlatten \/ UNCHANGED vars
    <3>1. answer' = answer
      BY <2>3 DEF NewSession, Restart, PullSnapshot, RunFlatten, vars
    <3> QED BY <3>1 DEF PlanStagedWhole
  <2> QED BY <2>1, <2>2, <2>3 DEF Next
<1> QED
  BY <1>1, <1>2, InvariantHolds, PTL DEF Spec

=============================================================================
