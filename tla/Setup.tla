-------------------------------- MODULE Setup --------------------------------
(***************************************************************************)
(* setup_agent.py, run by hand: an environment, three skills and the agent *)
(* are created or brought up to date, one call to the platform after the   *)
(* other, for the target XAS_DEV chooses.  What a run knows of earlier     *)
(* ones is the .env file it loads, and that holds what the operator pasted *)
(* into it from the screens of those runs.  A run may be cut short at any  *)
(* call, before the platform has heard it or after.                        *)
(***************************************************************************)
EXTENDS Integers

CONSTANT SelfHosted   \* environments that are not cloud ones

\* .env has keys of its own for each.
Target == {"dev", "live"}

\* What the platform hands out, and a line missing in .env.
Ident == Nat \ {0}
Unset == 0

Kind  == {"env", "alloc", "reporting", "transfer", "agent"}
Skill == {"alloc", "reporting", "transfer"}

VARIABLES
  dotenv,     \* .env, per target
  seen,       \* ids the last runs printed that are not in .env yet
  made,       \* platform: what there is, per target and kind
  current,    \* platform: the resources that hold what the repository holds
  attached,   \* platform: the skills each agent carries
  run,        \* the run under way: its target, the ids it loaded, has, its place
  lost,       \* history: a run began without an id an earlier one had created
  halfway     \* history: the repository was edited while a set was half made

vars == <<dotenv, seen, made, current, attached, run, lost, halfway>>

Nothing == [k \in Kind |-> Unset]

Then == [env |-> "alloc", alloc |-> "reporting", reporting |-> "transfer",
         transfer |-> "agent", agent |-> "ended"]

UnderWay == run.at \in Kind

-----------------------------------------------------------------------------
(* A target starts with nothing, or with the agent that predates the other *)
(* skills ("the allocation agent already exists").                         *)

Beginnings ==
  {ids \in [Kind -> Ident \cup {Unset}] :
     /\ ids = Nothing \/ \A k \in {"agent", "env", "alloc"} : ids[k] # Unset
     /\ \A k, l \in Kind : ids[k] = ids[l] /\ ids[k] # Unset => k = l}

Init ==
  /\ dotenv \in [Target -> Beginnings]
  /\ \A t, u \in Target : \A k, l \in Kind :
       dotenv[t][k] = dotenv[u][l] /\ dotenv[t][k] # Unset => t = u
  /\ seen = [t \in Target |-> Nothing]
  /\ made = [t \in Target |-> [k \in Kind |-> {dotenv[t][k]} \ {Unset}]]
  /\ current = {}
  /\ attached \in [Ident -> [Skill -> Ident \cup {Unset}]]
  /\ \A a \in Ident, s \in Skill : attached[a][s] # Unset =>
       \E t \in Target : a = dotenv[t]["agent"] /\ attached[a][s] = dotenv[t][s]
  /\ run \in [target : Target, given : {Nothing}, ids : {Nothing}, at : {"off"}]
  /\ lost = FALSE
  /\ halfway = FALSE

-----------------------------------------------------------------------------
(* What main does with each kind, in the order all three of its paths have *)
(* (cold start, migration, everything there): an id that .env lacks is     *)
(* created; the others are updated, but a cold start keeps them as they    *)
(* are, the transfer skill excepted.                                       *)

ColdStart == \E k \in {"agent", "env", "alloc"} : run.given[k] = Unset

Creates(k) == run.given[k] = Unset

Keeps(k) == ~Creates(k) /\ ColdStart /\ k # "transfer"

Updates(k) == ~Creates(k) /\ ~Keeps(k)

\* No allocation skill on the live agent; every entry is sent every time.
Skills(t, ids) ==
  [s \in Skill |-> IF s = "alloc" /\ t = "live" THEN Unset ELSE ids[s]]

Carry(k, id) ==
  attached' = IF k = "agent" THEN [attached EXCEPT ![id] = Skills(run.target, run.ids)]
                             ELSE attached

GoOn(k, id) == run' = [run EXCEPT !.ids[k] = id, !.at = Then[k]]

CutShort == run' = [run EXCEPT !.at = "off"]

Known == [t \in Target |-> [k \in Kind |->
            IF seen[t][k] # Unset THEN seen[t][k] ELSE dotenv[t][k]]]

\* A set has an agent or is not finished.
HalfMade(t) == Known[t]["agent"] = Unset /\ \E k \in Kind : Known[t][k] # Unset

-----------------------------------------------------------------------------
(* The run.  A self-hosted environment ends it before it changes anything  *)
(* (the operator is told to clear the ids: a set of its own).              *)

Begin(t) ==
  /\ ~UnderWay
  /\ dotenv[t]["env"] \notin SelfHosted
  /\ run' = [target |-> t, given |-> dotenv[t], ids |-> dotenv[t], at |-> "env"]
  /\ lost' = (lost \/ \E k \in Kind : seen[t][k] # Unset)
  /\ UNCHANGED <<dotenv, seen, made, current, attached, halfway>>

Made(k, id) ==
  /\ \A t \in Target : \A l \in Kind : id \notin made[t][l]
  /\ id \notin SelfHosted
  /\ made' = [made EXCEPT ![run.target][k] = @ \cup {id}]
  /\ current' = current \cup {id}
  /\ Carry(k, id)

\* The id is printed as soon as the call returns.
Create(k, id) ==
  /\ run.at = k
  /\ Creates(k)
  /\ Made(k, id)
  /\ seen' = [seen EXCEPT ![run.target][k] = id]
  /\ GoOn(k, id)
  /\ UNCHANGED <<dotenv, lost, halfway>>

\* The platform creates it and the answer does not arrive.
CreateUnheard(k, id) ==
  /\ run.at = k
  /\ Creates(k)
  /\ Made(k, id)
  /\ CutShort
  /\ lost' = TRUE
  /\ UNCHANGED <<dotenv, seen, halfway>>

Update(k) ==
  /\ run.at = k
  /\ Updates(k)
  /\ current' = current \cup {run.given[k]}
  /\ Carry(k, run.given[k])
  /\ GoOn(k, run.given[k]) \/ CutShort
  /\ UNCHANGED <<dotenv, seen, made, lost, halfway>>

Keep(k) ==
  /\ run.at = k
  /\ Keeps(k)
  /\ GoOn(k, run.given[k])
  /\ UNCHANGED <<dotenv, seen, made, current, attached, lost, halfway>>

Crash ==
  /\ UnderWay
  /\ CutShort
  /\ UNCHANGED <<dotenv, seen, made, current, attached, lost, halfway>>

-----------------------------------------------------------------------------
(* The operator, between runs.                                             *)

\* Some of the printed lines, under the keys they were printed with.
Paste(t, lines) ==
  /\ ~UnderWay
  /\ lines \subseteq {k \in Kind : seen[t][k] # Unset}
  /\ dotenv' = [dotenv EXCEPT ![t] = [k \in Kind |-> IF k \in lines THEN seen[t][k] ELSE @[k]]]
  /\ seen' = [seen EXCEPT ![t] = [k \in Kind |-> IF k \in lines THEN Unset ELSE @[k]]]
  /\ UNCHANGED <<made, current, attached, run, lost, halfway>>

\* A prompt, a skill or the solver is edited; nothing deployed is current then.
Edit ==
  /\ current' = {}
  /\ halfway' = (halfway \/ UnderWay \/ \E t \in Target : HalfMade(t))
  /\ run' = [run EXCEPT !.at = IF UnderWay THEN @ ELSE "off"]
  /\ UNCHANGED <<dotenv, seen, made, attached, lost>>

Next ==
  \/ \E t \in Target : Begin(t)
  \/ \E t \in Target, lines \in SUBSET Kind : Paste(t, lines)
  \/ \E k \in Kind : Update(k) \/ Keep(k)
  \/ \E k \in Kind, id \in Ident : Create(k, id) \/ CreateUnheard(k, id)
  \/ Crash
  \/ Edit

Spec == Init /\ [][Next]_vars

-----------------------------------------------------------------------------
(* Properties.                                                             *)

Ids == [Kind -> Ident \cup {Unset}]

TypeOK ==
  /\ dotenv \in [Target -> Ids]
  /\ seen \in [Target -> Ids]
  /\ made \in [Target -> [Kind -> SUBSET Ident]]
  /\ current \subseteq Ident
  /\ attached \in [Ident -> [Skill -> Ident \cup {Unset}]]
  /\ run \in [target : Target, given : Ids, ids : Ids, at : Kind \cup {"off", "ended"}]
  /\ {lost, halfway} \subseteq BOOLEAN

\* setup_agent.py:26 "instead of creating duplicates", through crashes at any
\* call and runs resumed from what was pasted: an operator who has pasted every
\* id that was printed before starting again has one resource of each kind, as
\* long as no answer of a creation was lost.
NothingTwice ==
  ~lost => \A t \in Target, k \in Kind : \A a, b \in made[t][k] : a = b

\* A run that comes to its end ("Done", "Setup complete") leaves the target with
\* what is in the repository: every resource current, the agent carrying the
\* skills of this target.  A cold start keeps what it finds, so that needs
\* that nothing was edited while a set was half made; and that every id was
\* pasted, or an agent without its skills in .env is found and left as it was.
EndedIsDeployed ==
  run.at = "ended" /\ ~lost /\ ~halfway =>
    /\ \A k \in Kind : run.ids[k] \in current
    /\ attached[run.ids["agent"]] = Skills(run.target, run.ids)

\* setup_agent.py:14-20 "cannot touch the live one": whatever a run creates,
\* pushes to or attaches, another target's resources stay as they are, lost ids
\* and all; and no agent carries a skill of the other target, whose next version
\* would be live on it at once.
KeepsToItsTarget ==
  [][\A t \in Target \ {run.target} : \A k \in Kind :
       /\ made'[t][k] = made[t][k]
       /\ \A id \in made[t][k] :
            /\ id \in current' => id \in current
            /\ attached'[id] = attached[id]]_vars

CarriesItsOwn ==
  \A t \in Target, s \in Skill :
    \A a \in made[t]["agent"] : attached[a][s] \in made[t][s] \cup {Unset}
=============================================================================
