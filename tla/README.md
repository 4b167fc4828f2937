# Verification of the XAS repair agent

TLA+ models of the managed agent in this repository: what each part keeps, what
each operation does to it, what the parts promise one another, and checks and
proofs that they do. Source paths are relative to the repository root (`src/` in
PROJECT.json); line numbers are those of the commit the modules were written from.

## 1. The system and its parts

A planner talks to an agent about orders whose cars arrive too late. The agent is
hosted by a platform (sessions, files, a credential vault); this repository holds
the host process that owns the planner's browser and the company's data
(`web.py`, `datasource.py`, `alloc_tools.py`, `appmcp_auth.py`), the code mounted
into the agent's sandbox (`xas_allocation/`), and scripts around both.

```
 browser ──HTTP──> web.py ──sessions API──> platform ──> agent in its sandbox
   ^  index.html     │  one active session     │            │ override.json
   └──── SSE ────────┘  one tool answerer      │            │ repair_and_report
                     │  one rotator            │            v
                     ├─ appmcp_auth ─> gateway ─> vault ─> app MCP of the agent
                     └─ alloc_tools <── custom tool calls ── (get pull, write plan)
                          └─ datasource ──> scenario files (orders.csv, vehicles.csv)
```

| part | state it keeps | operations | what makes it correct |
|---|---|---|---|
| Repair solver `xas_allocation/solver.py` | none; functions of the frozen pull, the combined override, a price | `partition`, arc costs, `_solve_one`, `churn_sweep`, `_self_check` | one car per order; nobody moved who may not move; no order needlessly without a car; the sweep is a frontier |
| Repair session `xas_allocation/session.py` | one override object across turns, the plan last presented | the planner's edits, `repair_and_report`, `save_plan`, `carry_forward` | a permission to displace lives one turn; a protection lives until withdrawn; the report tells the truth about the plan |
| Session switchboard `web.py` | `_active`, `_answering`, `_rotating`, `_lock`; on the platform, each session's life and its agent's work | `/sessions/new`, `/activate`, `/stop`, `/message`, `/interrupt`, `_detach` | one session at a time; a session is answered before its agent can ask; no request is stuck |
| App-MCP credential `appmcp_auth.py` | the bearer in the vault, `_user_token` | `mint`, `rotate`, `rotate_once`, `rotate_forever` | the bearer in the vault is alive whenever a session needs it |
| Pull `datasource.py`, `xas_allocation/flatten.py`, `web.py` | the scenario's files, the document mounted per session, the host's copy `_pull_by_session`, the sandbox's snapshot | `translate`, `document`, `_pull_for`, `flatten` | no car held twice, no usable car lost; host and sandbox see the same book |
| Custom tools `alloc_tools.py` | none | `summarize`, `check_plan` | a plan is judged against the pull it was made from |
| Event relay and page `web.py`, `static/index.html` | the page's `viewing`, `active`, transcript | `/events`, `follow`, `showNewOutputs`, the buttons | nothing lost, doubled or shown under another session |
| Files and downloads `web.py` | none | `/files` | reads only |
| Agent setup `setup_agent.py` | the ids in `.env`; on the platform, an environment, three skills and an agent per target | create, update or keep each, one call after the other | a run after one cut short finishes it without a second copy; the development target never touches the live one |
| Scenario carving `scenario_engine/` | none | offline generation | data preparation |
| Date phrases `skills/xas-reporting/dates.py` | none | `resolve`, `as_utc` | periods that follow each other share one boundary; the moment of asking is in the current ones |
| Phrasebook, decisions, `appmcp.py` | none beyond a call | text tables, a log, a client | - |

How they interact. `web.py` runs everything in one asyncio process: a handler
runs alone between two awaits, so handlers, the tool answerer and the rotator
interleave at awaits only. `_lock` serialises the three operations that change
session; `message` and `interrupt` take no lock. The answerer and the rotator are
tasks owned by the attached session, started and cancelled by the lock's holder.
The pull is taken once per session and mounted: from then on the sandbox works
with the frozen copy, which is why the repair session is a closed system whose
only inputs are the planner's words.

Where it is hard:

- **steering over several turns** - the override combines sentences said turns
  apart, with the precedence "never beats only beats also", and loses only one
  of them when a turn ends;
- **optimal plans with ties** - properties must hold for every optimal plan the
  flow library may return, not for the one a test happened to see;
- **awaits under and outside the lock** - `activate` makes a session reachable
  before it is answered; `stop` and `message` read `_active` twice;
- **partial failure** - a refused interrupt or archive, a create whose answer is
  lost, one attachment of several refused, a rotation cancelled half way;
- **a login kills the one before it** - two rotations must never overlap, and
  the period has to leave room for the calls themselves;
- **hand-made files and copies** - rows with gaps, rows repeated, a car in two
  orders' names; the same facts derived on the host and again in the sandbox, and a
  plan the agent copies back by hand;
- **answers in any order** - each button of the page is a request of its own and the
  event stream reconnects by itself; the page learns of a switch only from answers;
- **a script cut short** - what a setup run made is known to the next run only if the
  operator pasted the ids it printed;
- **restarts** - every global of the process is forgotten, the platform's sessions
  and the vault are not.

PROJECT.json lists these, and the rest, as hazards at their lines, each with the
properties that guard it or the reason no run checks one.

## 2. Modules

| module | models | how it corresponds |
|---|---|---|
| `Totals` | - | sums of a function over `1..n`, as a recursive function |
| `Solver` | `solver.py` | `FreeOrders`/`FreeVehicles` = `partition`; `ArcCost`, `PairCost`, `BreakCostOf`, `EffectiveWeight` = the costs handed to the flow library; `Solutions` = the flows of least cost, any of which the library may return; `NChanges`, `ChosenPrice` |
| `Repair` | `session.py` over `solver.py` | `override` is the object in override.json; one action per lever the planner has, then `BeginSweep` (compile and check the override), `SolveNextPrice` (one pass of `churn_sweep`'s loop), `Present` (`save_plan` and the report), `NextTurn` (`carry_forward`). `consent` and `protected` are history: what the planner said, kept apart from the override so that the code's bookkeeping can be wrong about it |
| `PlannerPromise` | abstract | what a planner may rely on: an order moves only if it needs help or was allowed this turn, never if protected; `Repair` implements it |
| `MCRepair` | - | instances for TLC |
| `SumLemmas`, `RepairProofs` | - | proofs |
| `Sessions` | `web.py` | each action is the code of one handler between two awaits; `queue` is `_lock` (its head holds it), `pc` the await a handler stands at; `work` and `life` are the platform's; `wedged` is a session whose tool call nobody answers (`web.py:561`) |
| `Switchboard` | abstract | attach, let go, attach: one session at a time |
| `Handover` | abstract | what the session routes and the credential agree on: one renewal at a time, with no session attached, once per attachment; `Sessions` and `Credential` each implement it |
| `MCSessions`, `SessionsProofs` | - | symmetry sets, proofs |
| `Credential` | `appmcp_auth.py`, and `web.py` where sessions start and detach | actors `handler` (the rotation when a session is taken up) and `rotator`; a rotation is `login`, `answer`, `store`; time passes in minutes with `Tick` |
| `MCCredential`, `CredentialProofs` | - | instance, proofs |
| `Pull` | `datasource.py`, `flatten.py`, `alloc_tools.py`, `web.py` where the pull is cached | `Document` = `translate` and `document`, one operator per stage of it; `mounted`, `cached`, `told`, `snapshot` are the four copies a session has of its book; `NewSession` reads the files once, `Restart` forgets `cached` and `PullFor` (`_pull_for`) rebuilds it; `RepairTurn` presents any plan the solver may (`Outcomes`), `PushPlan` sends its changed rows and counts with at most one slip of the hand, and `CheckPlan` judges them |
| `MCPull`, `PullProofs` | - | rows and files, proofs |
| `Relay` | `web.events` | one browser connection: `ListHistory` (the list, cut at the limit), `OpenStream`, `Advance` (one upstream event handed on or skipped), `Reconnect`. The platform's log of a session and how much of it the stream has handed out are two variables: the stream carries no history |
| `Page` | `static/index.html`, and `web.py` as far as the page sees it | each action is a function of the page up to its next await, or one request being served; `calls` are the page's requests in flight, each answered, refused or lost in any order. `server` is `_active`: `Sessions` has the handlers await by await, here a locked one is a step (creating, two). `Elsewhere` is another tab or a restart; `moved` and `settled` are history |
| `MCPage`, `PageProofs` | - | what sessions said before, symmetry sets; proofs |
| `Setup` | `setup_agent.py` | `dotenv` is what a run loads, `seen` what earlier runs printed and nobody pasted yet; `made`, `current`, `attached` are the platform's. A run goes through the kinds in `main`'s order (`Then`), and `Creates`, `Updates`, `Keeps` say which of its three paths it is on; `Crash` before or after any call, `CreateUnheard` when the answer is lost. `Paste` is the operator, `Edit` a change in the repository; `lost` and `halfway` are history |
| `SetupProofs` | - | proofs |
| `Dates` | `skills/xas-reporting/dates.py` | no state: `resolve` gives the range of days of a phrase, over Python's calendar as day numbers; `as_utc` a day's first second in UTC; its theorems are in the same module |

`Repair` composes `Solver`; `Repair` implements `PlannerPromise` and `Sessions`
implements `Switchboard` through refinement mappings (`INSTANCE ... WITH`).
`Sessions` and `Credential` share the lock and the detach: `Credential` takes from
`Sessions` what its lock gives (a session is taken up only with none attached and
one handler at a time, `TakeUp`'s guard), and `Sessions` takes the rotation as
one await that ends well or badly. They are kept apart because their product
multiplies minutes by interleavings. What each takes of the other is written down
once, in `Handover`, and both are checked and proved to keep it. For `Sessions`
(`RenewedBetweenSessions`, `RenewalsKeepApart`) a session is attached while its runner
is: that is what earns `TakeUp`'s guard. For `Credential` (`RenewsBetweenSessions`,
`RenewsOnlyBetween`) it is attached while its rotator lives, which the guard says
nothing of: the handler logs in only once that rotator is gone, because `_detach`
waited for it and it never outlives its session.
`Pull` and `Repair` meet at the snapshot: what `Pull` proves of it
(`RepairsStartFromAMatching`: every order of the document is there, and no car is
held twice) is what `RepairAssumption` takes of the books, and
`Pull` lets the solver have any plan where `Repair` has the optimal ones.
`Page` composes `Relay` with the page; with `Sessions` it shares `_active`, whose
every change there is one of `ServeNewBegin`, `ServeNewCreate`, `ServeActivate`,
`ServeStop` here or, when the page did not ask for it, `Elsewhere`.

Every operator that models code is in PROJECT.json's map with the lines it stands
for. Operators named as mutants in a comment are the definitions a plausible slip
would have produced; they are used by nothing and serve to show that each
property can fail.

## 3. What is checked

| run | instance | what it shows |
|---|---|---|
| `repair_turns` | 3 orders on 2 job cards, 4 cars, telling books, every lever over any number of turns | `NoUninvitedBump`, `ProtectedStay`: a settled order moves only with this turn's consent, a protected one never; `NoDoubleBooking`; `ChangesAddUp`: plan.json's counts agree with the solver's; `ImplementsPromise` |
| `repair_sweep` | every book of a small family, with and without a permission, one priority lever | `FrontierMonotone`: dearer changes are never more, and fewer changes never cheaper in lateness, earliness and broken promises; `FewestWithoutCar`; `NoIdleDisplacement`: nobody is displaced for nothing; `IdleCarsDoNotPay`: nobody goes without a car, or is late, beside an idle one that would save more than the move costs; `RepairSettles`: an adopted plan asks for no more changes; `MismatchesAreInherited`: the self-check reports exactly the wrong-model pairings the pull came with and the steering keeps, so it fails on account of the pull and never of the solver |
| `repair_whylate` | as turns | **violated**: an order is reported late for want of a compatible car while one stands free |
| `repair_candidates` | as turns | **violated**: an order under `never` is offered for displacement |
| `sessions_board` | 2 sessions, 2 requests in flight, 1 attachment, failing calls, dying runner, restarts | `OnlyActiveAnswered`, `ActiveIsAttached`, `OneAtATime` (refinement of `Switchboard`), `RenewedBetweenSessions` (refinement of `Handover`), `EveryRequestEnds` (liveness) |
| `sessions_unanswered` | no refused platform call, no dying runner (creations may fail, uploads be refused and the process restart as ever) | **violated**: a message sent while `activate` refreshes the credential sets an unanswered agent to work |
| `sessions_halfsent` | 2 attachments, no failing platform | **violated**: the second attachment is refused, the first stays uploaded, no turn quotes it |
| `credential_rotation` | 30 / 20 / 1 minutes, calls up to 1 minute | `BearerGood`, `KeptIsStored`, `NoDeadTokenStored`, `RenewsBetweenSessions` (refinement of `Handover`), `RotatorGoesOn` (liveness) |
| `credential_refusal` | the same | **violated**: one refused login lets the bearer expire, the retry comes 21 minutes later |
| `pull_rows` | files of up to 2 order and 2 vehicle rows, of 12 and 7 shapes; 2 cars, 2 models, 3 days | `NobodyElsesCar`, `NoSupplyLost`: what the document says of who holds what and what there is; `BackstopSilent`, `SidesAgree`: the sandbox finds what the host told, before and after a restart; `PlanStagedWhole`: which copies of a plan are staged whole, in part, or refused |
| `page_tab` | 2 sessions, 2 requests in flight, 1 output, 1 file, a history limit of 2, 3 moves of planner, agents and faults | `MessagesOnCourse`: a message reaches the session on screen, unless the server moved behind the page or the controls were not refreshed; `FilesLeaveWithTheirMessage`: files leave the tray only with the message that carried them; `OutputsDrawnOnce`; `ReplayThenFollow`: a transcript is the history listed and what followed, in order and each once, all of the session on screen, and once caught up it lacks only what fell between the list and the stream; `ButtonAgrees`: the stop button shows when the agent works |
| `pull_pruned` | the same | **violated**: an order holding a car of a model nobody asks for loses it to the pruning |

The violated runs each state what a comment or message of the repository says;
PROJECT.json's findings quote the line and say what the run shows.

### Bounds, and why they are enough

- *Three orders.* A displacement chain needs two, a chain through a third
  (swap, then someone left without a car) needs three; the two job cards are there
  because planners name orders by card or by line. The fourth car is the idle one.
- *Books.* `TellingBooks` each hold one situation described in `MCRepair`; the
  families around them vary holdings, promises and commitments. A plan depends on
  the days only through lateness and earliness, so a 25-day calendar with late
  cars up to 20 days reaches both sides of each trade (lateness 5^1.5 twice against
  1 and 9^1.5; a break price of 200 or 400 against the lateness it can buy off).
- *Prices* are those of `solver_config.yaml`: weights, break cost, early weight,
  churn prices; the sweep is its two ends and its middle (0, 25, 100). Two numbers
  differ because TLC's integers have 32 bits: `cost_scale` is 100 instead of 1000,
  and `no_car_cost` 10^6 instead of 10^7, which still outweighs every lateness of
  the calendar. `RepairProofs` does not fix any of them.
- *Turns* are unbounded: `NextTurn` starts a new turn and the state space is finite.
- *Two requests, two sessions.* The lock has one holder and waiting ones; a second
  request is what reads `_active` early and acts late. A third adds waiters with
  the same choices. A session id is handed out once; after both exist, `NewCreate`
  can only fail, as with a refused create.
- *Two rows of each kind.* What `translate` compares is pairs: two orders with one
  key, two claims on one car, an earlier and a later row of one car; an order and
  the car it holds. Each shape has at most one gap, since a row is dropped at its
  first; the proofs cover files of any length and any rows. Three days are before,
  on and after the promise.
- *Minutes.* Every call ends within `MaxCall`, 1 minute in the run; the proof covers
  every combination with `RotateEvery + 4*MaxCall < InnerTTL`, so with 20 and 30 up to
  2 minutes a call. This is an assumption: the code limits the login only (30 s,
  `appmcp_auth.py:245`), the vault update and the session create run on the client's
  default timeout and retries, which allow more. Should they take longer, `BearerGood`
  is not promised. `age` stops counting at `InnerTTL`, `refused`
  at 2: nothing looks further.

- *One page.* Two requests in flight are what crosses; two sessions are what a switch
  needs; the history limit of 2 is reached and passed; one output suffices for two
  polls, or a poll and a reconnect, to meet on it. `MaxMoves` counts what
  the planner clicks, what agents do, and faults (a lost answer, a reconnect, another
  tab) together; everything that follows from a move is free. With three spent
  nothing more need happen, so the run does not look for deadlock. 1.7 million states.
- *The hypotheses of the priced theorems* (`BreakPricesCover`, `NoCarOutweighs`,
  section 4) hold for the constants of both repair runs.

### Fairness

`Spec` alone has none, and every safety property and refinement is checked under it.

- `Sessions!FairSpec`: weak fairness of each handler's own steps. Every await in
  them is a call with the client library's timeout, so it returns or raises, a
  cancelled task ends (`_detach` awaits one that has no shield), and asyncio's
  ready queue and `asyncio.Lock` are first come first served. Nothing is assumed
  of the planner, the agent, the runner or restarts.
- `Credential!FairSpec`: time passes, calls return or raise (within `MaxCall`, see
  Minutes above), and a sleeper whose time is over is woken. Nothing is assumed about calls
  succeeding, or about sessions being taken up.

## 4. What is proved

Checked by the TLA+ proof system for every value of the constants, under the
named assumptions only.

**Repair** (`RepairProofs`; assumptions `SolverAssumption`, `RepairAssumption`: shapes
of the constants, an ascending sweep, and pulls that hold no car twice).
`InvariantHolds` is `Spec => []IInv`. The properties alone are not inductive: that
a plan displaces only with consent says nothing about the override the *next*
plan is solved under. `IInv` adds `WordsMatchOverride` (whoever the override
authorises was allowed this turn, whoever was put out of reach is out of the
override's reach), `SolvedUnderOverride` (each plan is an optimal plan of the
override as it stands, at its own price: no edit slips in between sweep and report), and
`PhasesInOrder`. From it and lemmas about `partition` (who moves is free, a free
settled order was authorised, plans are matchings):
`TypeCorrect`, `NeverBumpsUninvited`, `ProtectionHolds`, `NeverDoubleBooks`,
`OnlyInheritedMismatches`, `CountsAgreeWithChanges`, `AdoptedPlanIsFinal`,
`SweepIsFrontier`, and the refinement `SessionKeepsPromise`. `OnlyInheritedMismatches` is
what a failed self-check means: `violations` names exactly the orders the steering keeps on
a car of another model, and no choice of the solver is ever among them. `SweepIsFrontier` is the exchange argument: the objective at
a price is a fixed part plus `Scale * price * NChanges` (`ObjectiveSplits`, from the
linearity of finite sums in `SumLemmas`), so two plans optimal at two prices, put
against one another, cannot have the dearer one make more changes (`DearerMeansFewer`),
nor the one with more changes the higher fixed part (`MoreIsCheaper`).
`AdoptedPlanIsFinal` uses the same split: on a book with the plan in place, keeping
it costs nothing more, and any rival would have been a rival before.

Three properties hold because of the price list, and are proved for every list with
which they can:
- `DisplacedForSomebody` (`NoIdleDisplacement`) under `BreakPricesCover`: a promise kept
  costs more than being early by all the calendar's days, at every weight. Giving
  an idle car back to the order it was taken from is then a cheaper plan. With the
  prices of `solver_config.yaml` (0.15 a day early, weights up to 4, 200 for the cheaper
  promise) that is a calendar of up to 333 days.
- `FewestGoWithout` (`FewestWithoutCar`) under `NoCarOutweighs`: `no_car_cost` is more than
  the worst pairing and the dearest move of every order together. The objective then
  lies between two multiples of it (`ObjectiveWithin`), and fewer multiples win. It is
  a condition on the size of the book as well: 10^7 covers books of some two
  thousand orders if any of them could be 90 days late at weight 4.
- `LateForAReason` (`IdleCarsDoNotPay`), under `NoCarOutweighs` too. Giving an order an
  idle car is a plan (`ReassigningIsPlan`), and a best plan cannot be changed so that
  one order pays less and none more (`BestIsEfficient`): so the idle car saves no more
  than its move costs. It is what is true of the report's one reason for lateness,
  which `repair_whylate` refutes: for want of a car, *or* because the change costs more
  than it saves at the plan's price.

`SolverAlwaysAnswers`: once the steps are known to be steps, every price has a best
plan, whatever the steering and the pull (nobody served is a plan, no plan costs less
than nothing, and a set of naturals has a least element); the sweep and the report
never stop half way. `UnprotectedCandidatesCanBeBumped` is the boundary of
`repair_candidates`: a candidate offered in vain is one the standing never and only
protect. `AllowingMoreLeavesNoMoreWithout`: with never and only as they were, a wider
permission, at whatever priorities and price, leaves no more orders without a car,
because a plan of the narrower one is a plan of the wider one with the same orders
lacking. It needs settled orders to hold cars of their own model: one that holds
another is freed by "bump whoever you must" and has no arc back to its car.

**Sessions** (`SessionsProofs`; the module's own assumption on the constants). `IInv`
says what stands in the lock's queue (`QueueInOrder`), how far its head has got and
what it has done to the globals by then (`HolderAt`), and that the one runner
alive is the one `_answering` holds (`Globals`). None of the properties is inductive
without it: that a handler between two awaits left `_active` as it was is what makes
its next step sound. `OnlyTheActiveIsAnswered`, `ActiveStaysAttached`, `TypeCorrect`, and
`OneSessionAtATime`, the refinement of `Switchboard` - for any number of requests at once,
where the run has two. `RenewalsKeepApart`, the refinement of `Handover`, needs one more
invariant, `AtTheLock`: who is past the lock's door stands in its queue. Then only the
queue's head can be between letting go and attaching, and `HolderAt` says no session is
attached while it is.

**Credential** (`CredentialProofs`; assumption `RotateEvery + 4*MaxCall < InnerTTL`,
which 20 and 30 minutes leave room for). `BearerStaysGood`, `NoDeadTokenStored`
(`RotationsNeverOverlap`), `KeptIsStored` (`UploadsUseTheBearer`), `TypeCorrect`. The
invariant adds that handler and rotator are never at work together (`Apart`) and
bounds the age of the newest login at each place of either (`AgesInCalls`,
`AgesBetweenCalls`): asleep with `wait` minutes to go, the login is at most
`3*MaxCall + RotateEvery - wait` old, and so on through the calls. `RenewsOnlyBetween` is
the other half of `Handover`: the handler logs in for a session only once the rotator of
the one before has ended, wherever it was cut off, and a rotator starts only behind such
a login. It needs `Apart` (a rotator lives only with its session) and that no call, however
it ends, puts an actor to rest or starts one; a detach that forgets the rotator breaks it.

**Pull** (`PullProofs`; assumptions `PullAssumption`: shapes of the constants;
`OneModelAssumption`: the rows of one car agree on its model where they give one;
`DocumentAssumption`: the value standing for "no document yet" is not one). `IInv`
says where each copy comes from: `mounted` is `Document` of the files, `cached` and
`told` are made from `mounted`, `snapshot` is `Flatten(mounted)`. Inductive because the
files are read once and `PullFor` rebuilds from `mounted`. The rest are lemmas about
`Document` and `Flatten`: the order a key names (`DocumentOrders`, from
`TranslateRaises`), the links left (`DocumentLinks`), the first usable row of a car
(`FirstUsableRow`, by a least element), nothing skipped (`FlattenKeepsAll`), and as
many cars held as orders holding one (`HoldersAndCars`, a bijection), whence
`CarsInDisputeAreNobodys`, `UsableCarsReachThePlan`, `NothingIsSkipped`,
`ToldIsWhatIsMounted`, `TypeCorrect`. `PlansComeHomeWhole` (`PlanStagedWhole`) follows a
plan from `RepairTurn` to `CheckPlan`: the rows sent are the changed orders of the same
document the host judges by, so counts and holders agree unless the hand slipped.
`RepairsStartFromAMatching` is the premise of `Repair`, kept through both translations.
`OnlyUnwantedModelsAreLost` is the boundary of `pull_pruned`: pruning takes an undisputed,
usable car from the order that holds it only if no kept order asks for its model.

`OneModelAssumption` is needed: if a car's rows disagree on its model, the first
usable row decides, and the car is lost to the orders that want the other.

**Setup** (`SetupProofs`; no assumptions). `NoDuplicates` (`NothingTwice`), `EndedRunsDeploy`
(`EndedIsDeployed`), `AgentsCarryTheirOwn` (`CarriesItsOwn`), `TargetsAreApart`
(`KeepsToItsTarget`), for any number of runs, crashes, lost answers and edits on both
targets. No run checks this module: its proofs leave nothing a small instance would
add, and TLC on one target (227 thousand states) agrees and finds both
hypotheses needed. They are the two histories:
- `lost`: a run began before an id printed by an earlier one was pasted, or the answer
  of a creation never came. Then the script makes a second resource; `setup_agent.py`
  has no way to know of the first.
- `halfway`: something in the repository was edited after a first run was cut short and
  before it was finished. A cold start keeps the environment and the skills it
  finds, so it ends ("Setup complete") with what they held before the edit. In the same
  way a run that finds the agent's id but not the environment's or the allocation
  skill's takes the cold start and leaves the agent as it is.

`IInv` adds whose the ids are (`Owned`, `Apart`), what the run knows at its place
(`RunLoaded`), and that nothing made is unknown (`NoneForgotten`) or out of date (`UpToDate`).

**Page** (`PageProofs`; the assumptions on the constants of `Relay` and `Page`: no session is
called None, outputs are no event numbers). `MessagesReachTheirSession` (`MessagesOnCourse`),
`FilesLeaveTogether` (`FilesLeaveWithTheirMessage`), `NoOutputTwice` (`OutputsDrawnOnce`),
`ButtonFollowsTheAgent` (`ButtonAgrees`), `TranscriptIsReplay` (`ReplayThenFollow`), `TypeCorrect`: for any number of requests in flight,
sessions, files, polls, faults, any log and any limit of the history, where the run has
two requests and three moves. `IInv` says which knowledge of `_active` is good
(`OnCourse`: the page's while nothing moved behind it, an answer's while it is
`fresh`), that a message nobody interfered with has taken up a beginning of the tray,
the whole of it once it is posted (`Carried`), and that every output on screen is
claimed (`Claimed`). The button needs a second invariant, `Following`: what a
connection has passed lies within what the session produced, and the page goes by
the last status in it or, after a reconnect, by one the new connection has still to
meet. What is handed on is later than everything passed before, in the list or after
it, so statuses are never taken out of order; what the stream repeats of the list
is skipped and changes nothing. The transcript needs the same fact and a third
invariant, `Replayed`: since the connection began, what was drawn is what there was to
draw among the events passed, in the order of their positions. An output drawn between
two events is set apart (`OutputsAside`), an event handed on is later than all drawn
before it (`DrawReplays`), and a reconnect begins a new transcript (`NothingYet`).

**Dates** (no assumptions). `NextMonthIsNext`: 32 days from the first of a month always reach
the next month and never the one after it. `PeriodsTile`: what "last" names ends where
"this" begins, and is what "this" was on the day before, for days, weeks, months and years.
`NowIsInside`: the moment of asking lies within the bounds, in UTC, of every current
period and after every past one; this is where the dealership's clock matters, as from
21:00 UTC its day is the next one. The argument goes through `OrdinalInjective`: a day has
one number and a number one day, so going back from numbers to dates is exact. Years
have no end in the module; Python stops at 9999. Days are numbered as
`date.toordinal` does.

**Model-checked only.** Liveness (`EveryRequestEnds`, `RotatorGoesOn`): fairness and
ENABLED are out of the prover's reach. Every other property of a passing run is the
statement of a theorem. RECURSIVE operators are used nowhere: sums are recursive
functions.

## 5. Abstractions

- *Rounding.* The code rounds `weight * (late^1.5 + ...) * scale` once per arc; the
  model multiplies a rounded table by the integer weight. The two differ by less
  than one unit of `weight/scale` days, and only between plans tied that closely.
- *The flow library* is external: it returns some integral flow of least cost. The
  model returns each of them.
- *Orders, cars, models, cards* are names; dates are days. The wording of tables and
  messages is left out, the classes the report and plan.json put orders in are not.
- *An interrupt* reads `_active` and awaits the platform's call without the lock: two
  steps, between which another session may have become the active one.
- *Reading the pull, uploading it and creating a session* is one await in `Sessions`:
  no global changes between its parts, and each failure of them ends the same way.
- *A cancelled login* takes effect at once or never. A gateway that acts on it after
  the next session's own login would kill that one; the code can neither see nor
  prevent it.
- *The outer seven days* of the wrapped bearer and the encryption are left out: a
  rotation renews both.
- *Rows* are records of the fields the mapping reads and a day is a number: trimming
  and the parsing of dates are left out, with the text that `_day` lets through and
  `parse_date` then refuses (a hazard in PROJECT.json). The counts of dropped rows and
  the labels carried along are left out; a row's own `mode`, `pull_id` and `source` are
  right or wrong.
- *The session's files* hold the mounted document alone when the host rebuilds its
  copy; the code takes the last file of that name.
- *The page* draws an entry per event; how it looks is left out. The relay lists a
  history in one step. A message of the page is its session, its files and whether the
  page knew better; the text is left out. The page goes on following the session
  on screen after a stop, as the code does.
- *What a setup run uploads* (skill folders, prompt, environment) is current or not.
- *The agent's copying* goes wrong in at most one thing at a time.
- A settled order that ends with no car has the row status `no_car` and is not
  counted among the bumped; the model keeps that and states nothing about it.

## 6. What the models show beside the properties

Worth knowing, and, except for the second, nothing the repository speaks of:

- `MessagesOnCourse` needs its two exceptions. A message goes to another session than
  the one on screen if `_active` moved where the page could not see it: another tab, a
  restart, two answers that crossed, a new session whose creation failed after the
  old one was let go; and in the short time between an answer and the list that
  refreshes the controls.
- The sweep is called a "Pareto frontier of (changes vs weighted late-days)"
  (`solver.py:533`). It is one of changes against the whole cost without them (convex
  lateness, earliness, broken promises), which `FrontierMonotone` states and
  `SweepIsFrontier` proves. In weighted late-days alone it is not: orders promised for
  days 2, 17 and 3, the second at weight 4 and the first holding the car of day 18, cars
  of days 17, 6, 18 and 24, give three changes and 22 weighted late-days at price 0, two
  changes and 19 at price 25.
- Allowing more displacements can leave an order without a car in one case: a settled
  order that holds a car of another model (`AllowingMoreLeavesNoMoreWithout`).
- The choice buttons of an old transcript are alive: pressed while viewing a
  past session they send to the active one.
- Pressing Enter twice before the first answer sends the message twice. Taking a file
  out of the tray while a message is being sent changes what is still to be uploaded.
- A file of the session viewed before may be drawn into the transcript of the one
  viewed now, when its listing was under way at the switch.
- `Relay!Gap`: an event that comes between the list and the opening of the stream is
  drawn only after the next reconnect, and one past the limit of the list only if a
  stream was open when it came.

## 7. Not modelled, and the plan

Built in this order: repair (the program's own logic), switchboard (where the
interleavings are), credential (time), pull (the data's way in and the plan's way
back), relay and page (what the planner sees), setup, date phrases. What could follow:
liveness of following in `Page` (a live connection draws everything in the end), whose
graph is too large for TLC at the bounds `page_tab` has.

Left out for good: scenario carving and the phrasebook (offline or pure text), the
decision log and the command line client (nothing beyond a call), downloads
(stateless reads), layout and wording everywhere.
