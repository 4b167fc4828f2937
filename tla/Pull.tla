-------------------------------- MODULE Pull --------------------------------
(***************************************************************************)
(* The pull of one session and the way back: the scenario's two files are  *)
(* translated on the host into one document (datasource.py), mounted into  *)
(* the sandbox, flattened there into the solver's snapshot (flatten.py),   *)
(* and a plan solved on it is sent back row by row and held against the    *)
(* document (alloc_tools.check_plan).  The host keeps the document in      *)
(* memory and fetches the mounted copy after a restart (web.py).           *)
(*                                                                         *)
(* A row is a record of the fields the mapping reads, Blank standing for   *)
(* an empty cell.  Dates are days, 0 for none; a plan is any outcome the   *)
(* solver may have under any steering.                                     *)
(***************************************************************************)
EXTENDS Integers, Sequences, FiniteSets

CONSTANTS
  Key,            \* card and line of an order
  Code,           \* vehicle codes
  Model,          \* sales models
  Blank,          \* an empty cell
  NoCar,          \* null: the order holds no car
  LastDay,
  OrderFiles, VehicleFiles,   \* the files a session may start from
  NotYet

Commitment == {"hard", "soft"}

OrderRow ==
  [ key : Key \cup {Blank}, model : Model \cup {Blank}, promise : 0..LastDay,
    holds : Code \cup {Blank}, commitment : Commitment \cup {Blank} ]

VehicleRow ==
  [ code : Code \cup {Blank}, model : Model \cup {Blank}, by : 0..LastDay,
    inPool : BOOLEAN ]

ASSUME PullAssumption ==
  /\ NoCar \notin Code \cup {Blank}
  /\ Blank \notin Key \cup Code \cup Model
  /\ LastDay \in Nat
  /\ OrderFiles \subseteq Seq(OrderRow)
  /\ VehicleFiles \subseteq Seq(VehicleRow)

\* The rows of one car agree on its model, where they give one.
ASSUME OneModelAssumption ==
  \A vehicles \in VehicleFiles : \A i, j \in DOMAIN vehicles :
    /\ vehicles[i].code = vehicles[j].code
    /\ Blank \notin {vehicles[i].code, vehicles[i].model, vehicles[j].model}
    => vehicles[i].model = vehicles[j].model

VARIABLES
  orderRows, vehicleRows,  \* the scenario's files
  mounted,      \* the document mounted for the session
  cached,       \* the host's copy of it, with the late orders
  told,         \* the summary the agent was last given
  snapshot,     \* what the sandbox flattened
  plan,         \* the plan presented last, in plan.json
  answer        \* what the last write-back was answered

vars == <<orderRows, vehicleRows, mounted, cached, told, snapshot, plan, answer>>

-----------------------------------------------------------------------------
(* translate.                                                              *)

\* Mutant: an order without a promised date is kept.
KeptUndated(row) == row.key # Blank /\ row.model # Blank /\ row.commitment # Blank

\* The rows that survive; the others are dropped, and counted by the first of
\* their gaps (the counts are left out).
KeptOrder(row) ==
  row.key # Blank /\ row.model # Blank /\ row.promise # 0 /\ row.commitment # Blank

KeptRows(orders) == {i \in DOMAIN orders : KeptOrder(orders[i])}

\* Two rows with one key: translate raises.
TranslateRaises(orders) ==
  \E i, j \in KeptRows(orders) : i # j /\ orders[i].key = orders[j].key

Usable(row) == row.inPool /\ row.model # Blank /\ row.by # 0

\* Mutant: a car's code is claimed by its first row, usable or not.
SupplyRowsClaimedFirst(vehicles) ==
  {i \in DOMAIN vehicles :
     Usable(vehicles[i]) /\ \A j \in DOMAIN vehicles : j < i => vehicles[j].code # vehicles[i].code}

\* The first usable row of each car.
SupplyRows(vehicles) ==
  {i \in DOMAIN vehicles :
     /\ Usable(vehicles[i])
     /\ \A j \in DOMAIN vehicles :
          j < i /\ Usable(vehicles[j]) => vehicles[j].code # vehicles[i].code}

Wanted(orders) == {orders[i].model : i \in KeptRows(orders)}

\* Cars of a model nobody wants are pruned.
ReachableRows(orders, vehicles) ==
  {i \in SupplyRows(vehicles) : vehicles[i].model \in Wanted(orders)}

\* Mutant: only the kept rows' claims count.
ContestedByKept(orders) ==
  {c \in Code : \E i, j \in KeptRows(orders) :
     i # j /\ orders[i].holds = c /\ orders[j].holds = c}

\* Cars two rows of the file claim, kept or not.
Contested(orders) ==
  {c \in Code : \E i, j \in DOMAIN orders :
     i # j /\ orders[i].holds = c /\ orders[j].holds = c}

\* Mutant: a held car that is not in the document stays held.
LinkUnchecked(orders, codes, car) ==
  IF car = Blank \/ car \in Contested(orders) THEN NoCar ELSE car

\* The car a kept order holds in the document.
Link(orders, codes, car) ==
  IF car = Blank \/ car \in Contested(orders) \/ car \notin codes THEN NoCar ELSE car

\* The document: orders by key, cars by code.
Document(orders, vehicles) ==
  LET kept  == KeptRows(orders)
      reach == ReachableRows(orders, vehicles)
      codes == {vehicles[i].code : i \in reach}
  IN  [ orders |-> [k \in {orders[i].key : i \in kept} |->
                      LET row == orders[CHOOSE i \in kept : orders[i].key = k]
                      IN  [ model |-> row.model, promise |-> row.promise,
                            commitment |-> row.commitment,
                            car |-> Link(orders, codes, row.holds) ]],
        cars   |-> [c \in codes |->
                      LET row == vehicles[CHOOSE i \in reach : vehicles[i].code = c]
                      IN  [model |-> row.model, by |-> row.by]] ]

ASSUME DocumentAssumption ==
  \A orders \in OrderFiles, vehicles \in VehicleFiles : Document(orders, vehicles) # NotYet

\* Orders whose own car lands past the promise, as the host derives them: when
\* it translates, and again when it has fetched the mounted document.
LateOnHost(doc) ==
  {k \in DOMAIN doc.orders :
     LET car == doc.orders[k].car
     IN  car \in DOMAIN doc.cars /\ doc.cars[car].by > doc.orders[k].promise}

HostPull(doc) == [doc |-> doc, late |-> LateOnHost(doc)]

\* summarize: what crosses into the agent's context.
Summary(pull) ==
  LET held == {pull.doc.orders[k].car : k \in DOMAIN pull.doc.orders} \ {NoCar}
  IN  [ orders  |-> Cardinality(DOMAIN pull.doc.orders),
        cars    |-> Cardinality(DOMAIN pull.doc.cars),
        holding |-> Cardinality(held),
        without |-> Cardinality({k \in DOMAIN pull.doc.orders : pull.doc.orders[k].car = NoCar}),
        free    |-> Cardinality(DOMAIN pull.doc.cars \ held),
        late    |-> pull.late ]

-----------------------------------------------------------------------------
(* flatten, in the sandbox.                                                *)

\* Mutant: a car that lands on the promised day counts as late.
LateOnTheDay(doc, sound) ==
  {k \in sound : doc.cars[doc.orders[k].car].by >= doc.orders[k].promise}

\* The disruption, derived again from the allocations that are left.
LateInSandbox(doc, sound) ==
  {k \in sound : doc.cars[doc.orders[k].car].by > doc.orders[k].promise}

\* Rows without what makes them solvable are skipped, then the allocations to
\* cars that did not survive.
Flatten(doc) ==
  LET orders == {k \in DOMAIN doc.orders : doc.orders[k].model # Blank /\ doc.orders[k].promise # 0}
      cars   == {c \in DOMAIN doc.cars : doc.cars[c].model # Blank /\ doc.cars[c].by # 0}
      links  == {k \in orders : doc.orders[k].car \notin {NoCar, Blank}}
      sound  == {k \in links : doc.orders[k].car \in cars}
  IN  [ orders  |-> [k \in orders |-> doc.orders[k].model],
        cars    |-> [c \in cars |-> doc.cars[c].model],
        alloc   |-> [k \in orders |-> IF k \in sound THEN doc.orders[k].car ELSE NoCar],
        late    |-> LateInSandbox(doc, sound),
        skipped |-> (DOMAIN doc.orders \ orders) \cup (DOMAIN doc.cars \ cars) \cup (links \ sound) ]

\* What the solver may make of a snapshot, whatever the steering: some orders
\* pinned, each other one on a car of its model no pinned order has, or on none.
Outcomes(s) ==
  LET orders == DOMAIN s.orders
      Outcome(free) ==
        {p \in [orders -> DOMAIN s.cars \cup {NoCar}] :
           /\ \A k \in orders \ free : p[k] = s.alloc[k]
           /\ \A k \in free : p[k] # NoCar => s.cars[p[k]] = s.orders[k]
           /\ \A k, l \in orders : k # l /\ p[k] # NoCar => p[k] # p[l]}
  IN  UNION {{[cars |-> p, unfilled |-> {k \in free : p[k] = NoCar}] : p \in Outcome(free)} :
               free \in SUBSET orders}

-----------------------------------------------------------------------------
(* plan.json and its way back.                                             *)

Status(s, p, k) ==
  IF k \in p.unfilled THEN "no_car"
  ELSE IF p.cars[k] \notin {NoCar, Blank, s.alloc[k]} THEN "moved"
  ELSE "unchanged"

\* A row of plan.json.
PlanRow(s, p, k) ==
  LET status == Status(s, p, k)
  IN  [ order |-> k, was |-> s.alloc[k], status |-> status,
        bumped |-> status = "moved" /\ k \notin s.late /\ s.alloc[k] # NoCar ]

\* The rows that travel.
ChangedRows(s, p) ==
  {row \in {PlanRow(s, p, k) : k \in DOMAIN s.orders} : row.status # "unchanged"}

RowsWith(rows, status) == {row \in rows : row.status = status}
Bumped(rows) == {row \in rows : row.bumped}

\* The counts block.
PlanCounts(s, p) ==
  LET rows == {PlanRow(s, p, k) : k \in DOMAIN s.orders}
  IN  [ orders    |-> Cardinality(DOMAIN s.orders),
        moved     |-> Cardinality(RowsWith(rows, "moved")),
        unchanged |-> Cardinality(RowsWith(rows, "unchanged")),
        no_car    |-> Cardinality(RowsWith(rows, "no_car")),
        bumped    |-> Cardinality(Bumped(rows)) ]

\* Rows naming an order of the document with another car than it holds.
StaleRows(rows, doc) ==
  {row \in rows : row.order \in DOMAIN doc.orders /\ row.was # doc.orders[row.order].car}

\* Mutant: the orders left without a car are not recounted.
CountsAgreeOnMoves(rows, counts) ==
  /\ counts.moved = Cardinality(RowsWith(rows, "moved"))
  /\ counts.bumped = Cardinality(Bumped(rows))
  /\ counts.moved + counts.unchanged + counts.no_car = counts.orders

\* The rows recounted, and the three statuses making up the book.
CountsAgree(rows, counts) ==
  /\ counts.moved = Cardinality(RowsWith(rows, "moved"))
  /\ counts.no_car = Cardinality(RowsWith(rows, "no_car"))
  /\ counts.bumped = Cardinality(Bumped(rows))
  /\ counts.moved + counts.unchanged + counts.no_car = counts.orders

\* mine: pull_id and source are those of this session's pull.
CheckPlan(rows, mode, mine, counts, doc) ==
  IF mode = "stage" /\ mine /\ CountsAgree(rows, counts)
  THEN [ refused  |-> FALSE,
         staged   |-> Cardinality(rows \ StaleRows(rows, doc)),
         rejected |-> Cardinality(StaleRows(rows, doc)) ]
  ELSE [refused |-> TRUE, staged |-> 0, rejected |-> 0]

-----------------------------------------------------------------------------
Init ==
  /\ orderRows \in OrderFiles
  /\ vehicleRows \in VehicleFiles
  /\ mounted = NotYet
  /\ cached = NotYet
  /\ told = NotYet
  /\ snapshot = NotYet
  /\ plan = NotYet
  /\ answer = NotYet

\* The pull is read once, when the session is created.
NewSession ==
  /\ mounted = NotYet
  /\ ~TranslateRaises(orderRows)
  /\ mounted' = Document(orderRows, vehicleRows)
  /\ cached' = HostPull(mounted')
  /\ UNCHANGED <<orderRows, vehicleRows, told, snapshot, plan, answer>>

\* The process restarts, the session lives on.
Restart ==
  /\ cached' = NotYet
  /\ UNCHANGED <<orderRows, vehicleRows, mounted, told, snapshot, plan, answer>>

\* The host's copy, fetched from the session's files when it has none.
PullFor == IF cached # NotYet THEN cached ELSE HostPull(mounted)

PullSnapshot ==
  /\ mounted # NotYet
  /\ cached' = PullFor
  /\ told' = Summary(cached')
  /\ UNCHANGED <<orderRows, vehicleRows, mounted, snapshot, plan, answer>>

\* The agent runs the command the summary came with.
RunFlatten ==
  /\ told # NotYet
  /\ snapshot' = Flatten(mounted)
  /\ UNCHANGED <<orderRows, vehicleRows, mounted, cached, told, plan, answer>>

RepairTurn ==
  /\ snapshot # NotYet
  /\ plan' \in Outcomes(snapshot)
  /\ answer' = NotYet
  /\ UNCHANGED <<orderRows, vehicleRows, mounted, cached, told, snapshot>>

\* What an agent copying plan.json by hand may get wrong, one thing at a time:
\* a row lost, a car or an order mistyped, another pull's id, another mode.  A
\* plan that changes nothing has no row to send.
Slip == {"none", "lost", "was", "order", "pull", "mode"}

Copied(rows, row, slip) ==
  CASE slip = "lost"  -> rows \ {row}
    [] slip = "was"   -> (rows \ {row}) \cup {[row EXCEPT !.was = Blank]}
    [] slip = "order" -> (rows \ {row}) \cup {[row EXCEPT !.order = Blank]}
    [] OTHER          -> rows

PushPlan ==
  /\ plan # NotYet
  /\ cached' = PullFor
  /\ LET rows == ChangedRows(snapshot, plan)
     IN  \E slip \in Slip, row \in rows :
           answer' = [ slip |-> slip,
                       sent |-> Cardinality(rows),
                       verdict |-> CheckPlan(Copied(rows, row, slip),
                                             IF slip = "mode" THEN "apply" ELSE "stage",
                                             slip # "pull", PlanCounts(snapshot, plan),
                                             cached'.doc) ]
  /\ UNCHANGED <<orderRows, vehicleRows, mounted, told, snapshot, plan>>

Next ==
  \/ NewSession \/ Restart
  \/ PullSnapshot \/ RunFlatten \/ RepairTurn \/ PushPlan

Spec == Init /\ [][Next]_vars

-----------------------------------------------------------------------------
(* Properties.                                                             *)

TypeOK ==
  /\ orderRows \in OrderFiles
  /\ vehicleRows \in VehicleFiles
  /\ mounted # NotYet =>
       /\ DOMAIN mounted.orders \subseteq Key
       /\ DOMAIN mounted.cars \subseteq Code \cup {Blank}
       /\ \A k \in DOMAIN mounted.orders :
            mounted.orders[k] \in
              [model : Model, promise : 1..LastDay, commitment : Commitment,
               car : DOMAIN mounted.cars \cup {NoCar}]
       /\ \A c \in DOMAIN mounted.cars : mounted.cars[c] \in [model : Model, by : 1..LastDay]
  /\ cached # NotYet => cached.doc = mounted

\* The car an order holds in the document is claimed by no other row of the
\* file, kept or dropped (datasource.py:380-385): the plan starts from a
\* matching, and a car in dispute is nobody's.
NobodyElsesCar ==
  mounted # NotYet =>
    \A k \in DOMAIN mounted.orders :
      LET car == mounted.orders[k].car
      IN  car # NoCar =>
            \A i \in DOMAIN orderRows : orderRows[i].holds = car => orderRows[i].key = k

\* An unusable or repeated row does not take a car away: whatever an order could
\* be given by some row of the file is in the document (datasource.py:280-285).
NoSupplyLost ==
  mounted # NotYet =>
    \A i \in DOMAIN vehicleRows :
      /\ Usable(vehicleRows[i]) /\ vehicleRows[i].code # Blank
      /\ vehicleRows[i].model \in Wanted(orderRows)
      => vehicleRows[i].code \in DOMAIN mounted.cars

\* flatten finds nothing to skip in a document translate wrote: its counts are
\* "a backstop" (flatten.py:63-64), and no order or allocation is lost on the way.
BackstopSilent == snapshot # NotYet => snapshot.skipped = {}

\* The two sides "must agree" (datasource.py:418): what the agent was told,
\* before or after a restart of the host, is what it finds in its snapshot.
SidesAgree ==
  told # NotYet /\ snapshot # NotYet =>
    LET holding == {k \in DOMAIN snapshot.orders : snapshot.alloc[k] # NoCar}
    IN  /\ told.late = snapshot.late
        /\ told.orders = Cardinality(DOMAIN snapshot.orders)
        /\ told.holding = Cardinality(holding)
        /\ told.without = told.orders - told.holding
        /\ told.free = Cardinality(DOMAIN snapshot.cars \ {snapshot.alloc[k] : k \in holding})

\* A plan sent as it stands is staged whole, also after a restart; with one row
\* missing, or made for another pull, it is refused; a row that names the wrong
\* car is the one that does not stage (check_plan).
PlanStagedWhole ==
  answer # NotYet =>
    LET verdict == answer.verdict
    IN  /\ answer.slip = "none" => ~verdict.refused /\ verdict.staged = answer.sent
        /\ answer.slip = "was" =>
             ~verdict.refused /\ verdict.rejected = 1 /\ verdict.staged = answer.sent - 1
        /\ answer.slip \in {"lost", "pull", "mode"} => verdict.refused

\* datasource.py:369 "dropping it is lossless": no order loses the car it holds
\* because no order asked for that car's model.
PruningLossless ==
  mounted # NotYet =>
    \A i \in KeptRows(orderRows) :
      /\ orderRows[i].holds \in {vehicleRows[j].code : j \in SupplyRows(vehicleRows)}
      /\ orderRows[i].holds \notin Contested(orderRows) \cup {Blank}
      => mounted.orders[orderRows[i].key].car = orderRows[i].holds
=============================================================================
