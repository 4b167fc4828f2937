----------------------------- MODULE SetupProofs -----------------------------
(***************************************************************************)
(* For any number of runs, crashes, lost answers and edits, on both        *)
(* targets: what a careful operator is promised of setup_agent.py.         *)
(***************************************************************************)
EXTENDS Setup, TLAPS

-----------------------------------------------------------------------------
(* The inductive invariant.                                                *)

\* What the run has dealt with when it stands at a place.
Handled ==
  [off |-> {}, env |-> {}, alloc |-> {"env"}, reporting |-> {"env", "alloc"},
   transfer |-> {"env", "alloc", "reporting"},
   agent |-> {"env", "alloc", "reporting", "transfer"}, ended |-> Kind]

\* Ids in .env, on the screens and in the run are this target's own.
Owned ==
  \A t \in Target, k \in Kind :
    /\ dotenv[t][k] # Unset => dotenv[t][k] \in made[t][k]
    /\ seen[t][k] # Unset => seen[t][k] \in made[t][k] /\ dotenv[t][k] = Unset

Apart ==
  \A t, u \in Target, k, l \in Kind :
    \A id \in made[t][k] : id \in made[u][l] => t = u /\ k = l

\* A run works on what it loaded, and has an id for what it has dealt with.
RunLoaded ==
  UnderWay =>
    /\ run.given = dotenv[run.target]
    /\ \A k \in Kind :
         IF k \in Handled[run.at] THEN /\ run.ids[k] # Unset
                                       /\ run.ids[k] = Known[run.target][k]
                                  ELSE run.ids[k] = run.given[k]

\* With every id pasted, what there is is what is known of; a run finds all of
\* it, and no agent without its environment and its allocation skill.
NoneForgotten ==
  ~lost =>
    /\ \A t \in Target, k \in Kind : \A id \in made[t][k] : id = Known[t][k]
    /\ \A t \in Target : Known[t]["agent"] # Unset =>
         Known[t]["env"] # Unset /\ Known[t]["alloc"] # Unset
    /\ UnderWay =>
         /\ \A k \in Kind \ Handled[run.at] : seen[run.target][k] = Unset
         /\ run.given["agent"] # Unset => run.given["env"] # Unset /\ run.given["alloc"] # Unset

\* An unfinished set is as new as the repository, and so is what a run has dealt
\* with.
UpToDate ==
  ~lost /\ ~halfway =>
    /\ \A t \in Target : Known[t]["agent"] = Unset =>
         \A k \in Kind : Known[t][k] # Unset => Known[t][k] \in current
    /\ \A k \in Handled[run.at] : run.ids[k] \in current
    /\ run.at = "ended" => attached[run.ids["agent"]] = Skills(run.target, run.ids)

IInv ==
  /\ TypeOK
  /\ Owned
  /\ Apart
  /\ RunLoaded
  /\ NoneForgotten
  /\ UpToDate
  /\ CarriesItsOwn

LEMMA Places ==
  /\ \A k \in Kind : k \notin Handled[k]
  /\ \A k \in Kind : Handled[Then[k]] = Handled[k] \cup {k}
  /\ \A k \in Kind : Then[k] \in Kind \cup {"ended"}
  /\ Handled["off"] = {} /\ Handled["env"] = {} /\ Handled["ended"] = Kind
  /\ \A k \in Kind : Then[k] = "ended" <=> k = "agent"
  /\ Handled["agent"] = Skill \cup {"env"}
  /\ \A k \in Kind : "agent" \notin Handled[k]
  /\ \A at \in Kind \cup {"off", "ended"} : Handled[at] \subseteq Kind
  /\ "off" \notin Kind /\ "ended" \notin Kind
  BY DEF Handled, Then, Kind, Skill

LEMMA InitHolds == Init => IInv
<1> SUFFICES ASSUME Init PROVE IInv
  OBVIOUS
<1>1. TypeOK
  <2>1. Nothing \in Ids
    BY DEF Nothing, Ids
  <2>2. dotenv \in [Target -> Ids] /\ seen \in [Target -> Ids]
    BY <2>1 DEF Init, Beginnings, Ids
  <2>3. made \in [Target -> [Kind -> SUBSET Ident]]
    BY <2>2 DEF Init, Ids
  <2>4. run \in [target : Target, given : Ids, ids : Ids, at : Kind \cup {"off", "ended"}]
    BY <2>1 DEF Init
  <2> QED
    BY <2>2, <2>3, <2>4 DEF Init, TypeOK
<1>2. Owned
  BY DEF Init, Owned, Beginnings, Nothing, Unset
<1>3. Apart
  BY DEF Init, Apart, Beginnings, Nothing, Unset
<1>4. RunLoaded
  BY Places DEF Init, RunLoaded, UnderWay
<1>5. NoneForgotten
  BY Places DEF Init, NoneForgotten, UnderWay, Known, Beginnings, Nothing, Unset, Kind
<1>6. UpToDate
  <2>1. \A t \in Target : Known[t]["agent"] = Unset => \A k \in Kind : Known[t][k] = Unset
    BY DEF Init, Known, Beginnings, Nothing, Unset, Kind
  <2>2. run.at = "off"
    BY DEF Init
  <2> QED
    BY <2>1, <2>2, Places DEF UpToDate
<1>7. CarriesItsOwn
  BY DEF Init, CarriesItsOwn, Skill, Kind, Beginnings, Target, Unset
<1> QED
  BY <1>1, <1>2, <1>3, <1>4, <1>5, <1>6, <1>7 DEF IInv

-----------------------------------------------------------------------------
(* The steps of a run.                                                     *)

LEMMA MadePointwise ==
  ASSUME TypeOK, NEW k \in Kind, NEW id \in Ident, Made(k, id)
  PROVE  /\ made' \in [Target -> [Kind -> SUBSET Ident]]
         /\ made'[run.target][k] = made[run.target][k] \cup {id}
         /\ \A t \in Target, l \in Kind :
              t # run.target \/ l # k => made'[t][l] = made[t][l]
         /\ current' \subseteq Ident
  BY DEF TypeOK, Made

LEMMA SkillsTyped ==
  ASSUME NEW t \in Target, NEW ids \in Ids
  PROVE  Skills(t, ids) \in [Skill -> Ident \cup {Unset}]
  BY DEF Skills, Ids, Skill, Kind

LEMMA CarryPointwise ==
  ASSUME TypeOK, NEW k \in Kind, NEW id \in Ident, Carry(k, id)
  PROVE  /\ attached' \in [Ident -> [Skill -> Ident \cup {Unset}]]
         /\ \A a \in Ident : a # id \/ k # "agent" => attached'[a] = attached[a]
         /\ k = "agent" => attached'[id] = Skills(run.target, run.ids)
  BY SkillsTyped DEF TypeOK, Carry

LEMMA GoOnPointwise ==
  ASSUME TypeOK, NEW k \in Kind, NEW id \in Ident, GoOn(k, id)
  PROVE  /\ run' \in [target : Target, given : Ids, ids : Ids, at : Kind \cup {"off", "ended"}]
         /\ run'.target = run.target /\ run'.given = run.given /\ run'.at = Then[k]
         /\ run'.ids[k] = id
         /\ \A l \in Kind \ {k} : run'.ids[l] = run.ids[l]
<1>1. Then[k] \in Kind \cup {"ended"}
  BY Places
<1>2. run.ids \in [Kind -> Ident \cup {Unset}]
  BY DEF TypeOK, Ids
<1>3. [run.ids EXCEPT ![k] = id] \in Ids
  BY <1>2 DEF Ids
<1> QED
  BY <1>1, <1>2, <1>3 DEF TypeOK, GoOn

LEMMA CutShortPointwise ==
  ASSUME TypeOK, CutShort
  PROVE  /\ run' \in [target : Target, given : Ids, ids : Ids, at : Kind \cup {"off", "ended"}]
         /\ run'.at = "off" /\ ~UnderWay'
  BY DEF TypeOK, CutShort, UnderWay, Kind

\* A run cut short needs no more than that what it knew of is still there.
LEMMA CrashPreserves == IInv /\ Crash => IInv'
<1> SUFFICES ASSUME IInv, Crash PROVE IInv'
  OBVIOUS
<1> USE DEF Crash
<1>1. TypeOK'
  BY CutShortPointwise DEF IInv, TypeOK
<1>2. Owned' /\ Apart' /\ CarriesItsOwn'
  BY DEF IInv, Owned, Apart, CarriesItsOwn
<1>3. RunLoaded' /\ NoneForgotten' /\ UpToDate'
  BY CutShortPointwise, Places DEF IInv, RunLoaded, NoneForgotten, UpToDate, Known
<1> QED
  BY <1>1, <1>2, <1>3 DEF IInv

LEMMA BeginPreserves == ASSUME NEW t \in Target PROVE IInv /\ Begin(t) => IInv'
<1> SUFFICES ASSUME IInv, Begin(t) PROVE IInv'
  OBVIOUS
<1>1. /\ UNCHANGED <<dotenv, seen, made, current, attached, halfway>>
      /\ run'.target = t /\ run'.given = dotenv[t] /\ run'.ids = dotenv[t] /\ run'.at = "env"
      /\ run' \in [target : Target, given : Ids, ids : Ids, at : Kind \cup {"off", "ended"}]
  BY DEF Begin, IInv, TypeOK, Kind
<1>2. lost' \in BOOLEAN /\ (~lost' => ~lost /\ \A k \in Kind : seen[t][k] = Unset)
  BY DEF Begin, IInv, TypeOK
<1>3. TypeOK'
  BY <1>1, <1>2 DEF IInv, TypeOK
<1>4. Owned' /\ Apart' /\ CarriesItsOwn'
  BY <1>1 DEF IInv, Owned, Apart, CarriesItsOwn
<1>5. RunLoaded'
  BY <1>1, Places DEF RunLoaded
<1>6. NoneForgotten'
  BY <1>1, <1>2, Places DEF IInv, NoneForgotten, Known, Kind
<1>7. UpToDate'
  BY <1>1, <1>2, Places DEF IInv, UpToDate, Known
<1> QED
  BY <1>3, <1>4, <1>5, <1>6, <1>7 DEF IInv

LEMMA KeepPreserves == ASSUME NEW k \in Kind PROVE IInv /\ Keep(k) => IInv'
<1> SUFFICES ASSUME IInv, Keep(k) PROVE IInv'
  OBVIOUS
<1>1. /\ run.at = k /\ UnderWay /\ GoOn(k, run.given[k])
      /\ UNCHANGED <<dotenv, seen, made, current, attached, lost, halfway>>
  BY DEF Keep, UnderWay
<1>2. run.given[k] \in Ident /\ run.given[k] # Unset
  BY DEF Keep, Keeps, Creates, IInv, TypeOK, Ids, Ident, Unset
<1>3. GoOn(k, run.given[k]) /\ TypeOK
  BY <1>1 DEF IInv
<1>4. /\ run' \in [target : Target, given : Ids, ids : Ids, at : Kind \cup {"off", "ended"}]
      /\ run'.target = run.target /\ run'.given = run.given /\ run'.at = Then[k]
      /\ run'.ids[k] = run.given[k]
      /\ \A l \in Kind \ {k} : run'.ids[l] = run.ids[l]
  BY <1>2, <1>3, GoOnPointwise
<1>5. run.target \in Target /\ run.given = dotenv[run.target] /\ run.given[k] = Known[run.target][k]
  BY <1>1, <1>2 DEF IInv, TypeOK, RunLoaded, Owned, Known
<1>6. Owned' /\ Apart' /\ CarriesItsOwn' /\ TypeOK'
  BY <1>1, <1>4 DEF IInv, Owned, Apart, CarriesItsOwn, TypeOK
<1>7. RunLoaded'
  BY <1>1, <1>2, <1>4, <1>5, Places DEF IInv, RunLoaded, UnderWay, Known
<1>8. NoneForgotten'
  BY <1>1, <1>4, Places DEF IInv, NoneForgotten, UnderWay, Known
<1>9. UpToDate'
  <2> SUFFICES ASSUME ~lost, ~halfway
               PROVE  /\ run.given[k] \in current
                      /\ k # "agent"
    BY <1>1, <1>4, Places DEF IInv, UpToDate, Known, UnderWay
  <2>1. run.given["agent"] = Unset
    BY <1>1 DEF IInv, NoneForgotten, Keep, Keeps, ColdStart
  <2>2. Known[run.target]["agent"] = Unset
    BY <1>1, <1>5, <2>1, Places DEF IInv, NoneForgotten, Known, Kind
  <2> QED
    BY <1>2, <1>5, <2>1, <2>2 DEF IInv, UpToDate
<1> QED
  BY <1>6, <1>7, <1>8, <1>9 DEF IInv

LEMMA UpdatePreserves == ASSUME NEW k \in Kind PROVE IInv /\ Update(k) => IInv'
<1> SUFFICES ASSUME IInv, Update(k) PROVE IInv'
  OBVIOUS
<1> DEFINE id == run.given[k]
<1>1. /\ run.at = k /\ UnderWay /\ TypeOK
      /\ current' = current \cup {id} /\ Carry(k, id)
      /\ UNCHANGED <<dotenv, seen, made, lost, halfway>>
  BY DEF Update, UnderWay, IInv
<1>2. id \in Ident /\ id # Unset
  BY DEF Update, Updates, Creates, IInv, TypeOK, Ids, Ident, Unset
<1>3. /\ run.target \in Target /\ run.given = dotenv[run.target] /\ id = Known[run.target][k]
      /\ id \in made[run.target][k]
  BY <1>1, <1>2 DEF IInv, TypeOK, RunLoaded, Owned, Known
<1>4. /\ attached' \in [Ident -> [Skill -> Ident \cup {Unset}]]
      /\ \A a \in Ident : a # id \/ k # "agent" => attached'[a] = attached[a]
      /\ k = "agent" => attached'[id] = Skills(run.target, run.ids)
  BY <1>1, <1>2, CarryPointwise
<1>5. k = "agent" => \A s \in Skill : run.ids[s] \in made[run.target][s]
  BY <1>1, <1>3, Places DEF IInv, RunLoaded, Owned, Known, Skill, Kind
<1>6. CarriesItsOwn'
  <2> SUFFICES ASSUME NEW t \in Target, NEW s \in Skill, NEW a \in made[t]["agent"]
               PROVE  attached'[a][s] \in made[t][s] \cup {Unset}
    BY <1>1 DEF CarriesItsOwn
  <2>1. a \in Ident /\ attached[a][s] \in made[t][s] \cup {Unset}
    BY <1>1 DEF IInv, TypeOK, CarriesItsOwn, Kind
  <2>2. CASE a = id /\ k = "agent"
    <3>1. t = run.target
      BY <1>3, <2>2 DEF IInv, Apart
    <3>2. attached'[a][s] \in {run.ids[s], Unset}
      BY <1>4, <2>2 DEF Skills
    <3> QED
      BY <1>5, <2>2, <3>1, <3>2
  <2>3. CASE ~(a = id /\ k = "agent")
    BY <1>4, <2>1, <2>3
  <2> QED
    BY <2>2, <2>3
<1>7. Owned' /\ Apart'
  BY <1>1 DEF IInv, Owned, Apart
<1>8. CASE CutShort
  <2>1. /\ run' \in [target : Target, given : Ids, ids : Ids, at : Kind \cup {"off", "ended"}]
        /\ run'.at = "off" /\ ~UnderWay'
    BY <1>1, <1>8, CutShortPointwise
  <2>2. TypeOK'
    BY <1>1, <1>2, <1>4, <2>1 DEF TypeOK
  <2>3. RunLoaded' /\ NoneForgotten' /\ UpToDate'
    BY <1>1, <2>1, Places DEF IInv, RunLoaded, NoneForgotten, UpToDate, Known
  <2> QED
    BY <1>6, <1>7, <2>2, <2>3 DEF IInv
<1>9. CASE GoOn(k, id)
  <2>1. /\ run' \in [target : Target, given : Ids, ids : Ids, at : Kind \cup {"off", "ended"}]
        /\ run'.target = run.target /\ run'.given = run.given /\ run'.at = Then[k]
        /\ run'.ids[k] = id
        /\ \A l \in Kind \ {k} : run'.ids[l] = run.ids[l]
    BY <1>1, <1>2, <1>9, GoOnPointwise
  <2>2. TypeOK'
    BY <1>1, <1>2, <1>4, <2>1 DEF TypeOK
  <2>3. RunLoaded'
    BY <1>1, <1>2, <1>3, <2>1, Places DEF IInv, RunLoaded, UnderWay, Known
  <2>4. NoneForgotten'
    BY <1>1, <2>1, Places DEF IInv, NoneForgotten, UnderWay, Known
  <2>5. k = "agent" => Skills(run'.target, run'.ids) = Skills(run.target, run.ids)
    BY <2>1 DEF Skills, Skill, Kind
  <2>6. UpToDate'
    BY <1>1, <1>4, <2>1, <2>5, Places DEF IInv, UpToDate, Known, UnderWay
  <2> QED
    BY <1>6, <1>7, <2>2, <2>3, <2>4, <2>6 DEF IInv
<1> QED
  BY <1>8, <1>9 DEF Update

\* What a creation does to the platform, heard of or not.
LEMMA CreationKeeps ==
  ASSUME NEW k \in Kind, NEW id \in Ident, IInv, run.at = k, Creates(k), Made(k, id)
  PROVE  /\ Apart' /\ CarriesItsOwn'
         /\ attached' \in [Ident -> [Skill -> Ident \cup {Unset}]]
         /\ k = "agent" => attached'[id] = Skills(run.target, run.ids)
         /\ run.target \in Target
<1>1. TypeOK /\ run.target \in Target /\ UnderWay /\ Carry(k, id)
  BY DEF IInv, TypeOK, UnderWay, Made
<1>2. /\ made'[run.target][k] = made[run.target][k] \cup {id}
      /\ \A t \in Target, l \in Kind :
           t # run.target \/ l # k => made'[t][l] = made[t][l]
      /\ \A t \in Target, l \in Kind : id \notin made[t][l]
  BY <1>1, MadePointwise DEF Made
<1>3. /\ attached' \in [Ident -> [Skill -> Ident \cup {Unset}]]
      /\ \A a \in Ident : a # id \/ k # "agent" => attached'[a] = attached[a]
      /\ k = "agent" => attached'[id] = Skills(run.target, run.ids)
  BY <1>1, CarryPointwise
<1>4. Apart'
  <2> SUFFICES ASSUME NEW t \in Target, NEW u \in Target, NEW l \in Kind, NEW m \in Kind,
                      NEW x \in made'[t][l], x \in made'[u][m]
               PROVE  t = u /\ l = m
    BY DEF Apart
  <2>1. CASE x = id
    BY <1>2, <2>1
  <2>2. CASE x # id
    BY <1>2, <2>2 DEF IInv, Apart
  <2> QED
    BY <2>1, <2>2
<1>5. k = "agent" => \A s \in Skill : run.ids[s] \in made[run.target][s]
  BY <1>1, Places DEF IInv, RunLoaded, Owned, Known, Skill, Kind
<1>6. CarriesItsOwn'
  <2> SUFFICES ASSUME NEW t \in Target, NEW s \in Skill, NEW a \in made'[t]["agent"]
               PROVE  attached'[a][s] \in made'[t][s] \cup {Unset}
    BY DEF CarriesItsOwn
  <2>1. s \in Kind /\ s # "agent" /\ "agent" \in Kind
    BY DEF Skill, Kind
  <2>2. made[t][s] \subseteq made'[t][s]
    BY <1>2, <2>1
  <2>3. CASE a = id
    <3>1. t = run.target /\ k = "agent"
      BY <1>2, <2>1, <2>3
    <3>2. attached'[a][s] \in {run.ids[s], Unset}
      BY <1>3, <2>3, <3>1 DEF Skills
    <3> QED
      BY <1>5, <2>2, <3>1, <3>2
  <2>4. CASE a # id
    <3>1. a \in made[t]["agent"] /\ a \in Ident
      BY <1>1, <1>2, <2>1, <2>4 DEF TypeOK
    <3>2. attached'[a][s] = attached[a][s]
      BY <1>3, <2>4, <3>1
    <3> QED
      BY <2>2, <3>1, <3>2 DEF IInv, CarriesItsOwn
  <2> QED
    BY <2>3, <2>4
<1> QED
  BY <1>1, <1>3, <1>4, <1>6

LEMMA CreatePreserves ==
  ASSUME NEW k \in Kind, NEW id \in Ident PROVE IInv /\ Create(k, id) => IInv'
<1> SUFFICES ASSUME IInv, Create(k, id) PROVE IInv'
  OBVIOUS
<1> DEFINE me == run.target
<1>1. /\ run.at = k /\ UnderWay /\ TypeOK /\ Creates(k) /\ Made(k, id) /\ GoOn(k, id)
      /\ seen' = [seen EXCEPT ![me][k] = id]
      /\ current' = current \cup {id}
      /\ UNCHANGED <<dotenv, lost, halfway>>
  BY DEF Create, UnderWay, IInv, Made
<1>2. /\ Apart' /\ CarriesItsOwn'
      /\ attached' \in [Ident -> [Skill -> Ident \cup {Unset}]]
      /\ k = "agent" => attached'[id] = Skills(me, run.ids)
      /\ me \in Target
  BY <1>1, CreationKeeps
<1>3. /\ made' \in [Target -> [Kind -> SUBSET Ident]]
      /\ made'[me][k] = made[me][k] \cup {id}
      /\ \A t \in Target, l \in Kind : t # me \/ l # k => made'[t][l] = made[t][l]
      /\ current' \subseteq Ident
  BY <1>1, MadePointwise
<1>4. /\ run' \in [target : Target, given : Ids, ids : Ids, at : Kind \cup {"off", "ended"}]
      /\ run'.target = me /\ run'.given = run.given /\ run'.at = Then[k]
      /\ run'.ids[k] = id
      /\ \A l \in Kind \ {k} : run'.ids[l] = run.ids[l]
  BY <1>1, GoOnPointwise
<1>5. /\ seen' \in [Target -> Ids]
      /\ seen'[me][k] = id
      /\ \A t \in Target, l \in Kind : t # me \/ l # k => seen'[t][l] = seen[t][l]
  BY <1>1, <1>2 DEF TypeOK, Ids
<1>6. id # Unset /\ run.given = dotenv[me] /\ dotenv[me][k] = Unset
  BY <1>1 DEF IInv, RunLoaded, Creates, Ident, Unset
<1>7. /\ Known'[me][k] = id
      /\ \A t \in Target, l \in Kind : t # me \/ l # k => Known'[t][l] = Known[t][l]
  BY <1>1, <1>5, <1>6 DEF Known
<1>8. TypeOK'
  BY <1>1, <1>2, <1>3, <1>4, <1>5 DEF TypeOK
<1>9. Owned'
  <2> SUFFICES ASSUME NEW t \in Target, NEW l \in Kind
               PROVE  /\ dotenv[t][l] # Unset => dotenv[t][l] \in made'[t][l]
                      /\ seen'[t][l] # Unset => seen'[t][l] \in made'[t][l] /\ dotenv[t][l] = Unset
    BY <1>1 DEF Owned
  <2>1. CASE t = me /\ l = k
    BY <1>3, <1>5, <1>6, <2>1
  <2>2. CASE t # me \/ l # k
    BY <1>3, <1>5, <2>2 DEF IInv, Owned
  <2> QED
    BY <2>1, <2>2
<1>10. RunLoaded'
  BY <1>1, <1>2, <1>4, <1>6, <1>7, Places DEF IInv, RunLoaded, UnderWay
<1>11. NoneForgotten'
  <2> SUFFICES ASSUME ~lost PROVE NoneForgotten'
    BY <1>1 DEF NoneForgotten
  <2>1. Known[me][k] = Unset /\ made[me][k] = {}
    BY <1>1, <1>2, <1>6, Places DEF IInv, NoneForgotten, Known, TypeOK, Ident, Unset
  <2>2. \A t \in Target, l \in Kind : \A x \in made'[t][l] : x = Known'[t][l]
    <3> SUFFICES ASSUME NEW t \in Target, NEW l \in Kind, NEW x \in made'[t][l]
                 PROVE  x = Known'[t][l]
      OBVIOUS
    <3>1. CASE t = me /\ l = k
      BY <1>3, <1>7, <2>1, <3>1
    <3>2. CASE t # me \/ l # k
      BY <1>3, <1>7, <3>2 DEF IInv, NoneForgotten
    <3> QED
      BY <3>1, <3>2
  <2>3. \A t \in Target : Known'[t]["agent"] # Unset =>
          Known'[t]["env"] # Unset /\ Known'[t]["alloc"] # Unset
    <3>1. k = "agent" => Known[me]["env"] # Unset /\ Known[me]["alloc"] # Unset
      BY <1>1, Places DEF IInv, RunLoaded, Skill, Kind
    <3> SUFFICES ASSUME NEW t \in Target, Known'[t]["agent"] # Unset
                 PROVE  Known'[t]["env"] # Unset /\ Known'[t]["alloc"] # Unset
      OBVIOUS
    <3>2. \A l \in Kind : Known[t][l] # Unset => Known'[t][l] # Unset
      BY <1>6, <1>7
    <3>3. CASE t = me /\ k = "agent"
      BY <3>1, <3>2, <3>3 DEF Kind
    <3>4. CASE t # me \/ k # "agent"
      <4>1. Known[t]["agent"] # Unset
        BY <1>7, <3>4 DEF Kind
      <4> QED
        BY <3>2, <4>1 DEF IInv, NoneForgotten, Kind
    <3> QED
      BY <3>3, <3>4
  <2>4. \A l \in Kind \ Handled[run'.at] : seen'[me][l] = Unset
    BY <1>1, <1>2, <1>4, <1>5, Places DEF IInv, NoneForgotten
  <2> QED
    BY <1>1, <1>4, <2>2, <2>3, <2>4 DEF IInv, NoneForgotten
<1>12. UpToDate'
  <2> SUFFICES ASSUME ~lost, ~halfway PROVE UpToDate'
    BY <1>1 DEF UpToDate
  <2>1. \A t \in Target : Known'[t]["agent"] = Unset =>
          \A l \in Kind : Known'[t][l] # Unset => Known'[t][l] \in current'
    <3> SUFFICES ASSUME NEW t \in Target, Known'[t]["agent"] = Unset, NEW l \in Kind,
                        Known'[t][l] # Unset
                 PROVE  Known'[t][l] \in current'
      OBVIOUS
    <3>1. Known[t]["agent"] = Unset
      BY <1>6, <1>7 DEF Kind
    <3>2. CASE t = me /\ l = k
      BY <1>1, <1>7, <3>2
    <3>3. CASE t # me \/ l # k
      BY <1>1, <1>7, <3>1, <3>3 DEF IInv, UpToDate
    <3> QED
      BY <3>2, <3>3
  <2>2. \A l \in Handled[run'.at] : run'.ids[l] \in current'
    BY <1>1, <1>4, Places DEF IInv, UpToDate
  <2>3. k = "agent" => Skills(run'.target, run'.ids) = Skills(me, run.ids)
    BY <1>4 DEF Skills, Skill, Kind
  <2> QED
    BY <1>1, <1>2, <1>4, <2>1, <2>2, <2>3, Places DEF UpToDate
<1> QED
  BY <1>2, <1>8, <1>9, <1>10, <1>11, <1>12 DEF IInv

LEMMA CreateUnheardPreserves ==
  ASSUME NEW k \in Kind, NEW id \in Ident PROVE IInv /\ CreateUnheard(k, id) => IInv'
<1> SUFFICES ASSUME IInv, CreateUnheard(k, id) PROVE IInv'
  OBVIOUS
<1>1. /\ run.at = k /\ TypeOK /\ Creates(k) /\ Made(k, id) /\ CutShort /\ lost' = TRUE
      /\ UNCHANGED <<dotenv, seen, halfway>>
  BY DEF CreateUnheard, IInv
<1>2. /\ Apart' /\ CarriesItsOwn'
      /\ attached' \in [Ident -> [Skill -> Ident \cup {Unset}]]
  BY <1>1, CreationKeeps
<1>3. /\ made' \in [Target -> [Kind -> SUBSET Ident]]
      /\ \A t \in Target, l \in Kind : made[t][l] \subseteq made'[t][l]
      /\ current' \subseteq Ident
  BY <1>1, MadePointwise
<1>4. /\ run' \in [target : Target, given : Ids, ids : Ids, at : Kind \cup {"off", "ended"}]
      /\ run'.at = "off" /\ ~UnderWay'
  BY <1>1, CutShortPointwise
<1>5. TypeOK'
  BY <1>1, <1>2, <1>3, <1>4 DEF TypeOK
<1>6. Owned'
  BY <1>1, <1>3 DEF IInv, Owned
<1>7. RunLoaded' /\ NoneForgotten' /\ UpToDate'
  BY <1>1, <1>4 DEF RunLoaded, NoneForgotten, UpToDate
<1> QED
  BY <1>2, <1>5, <1>6, <1>7 DEF IInv

-----------------------------------------------------------------------------
(* The operator's steps, and the whole.                                    *)

\* Pasting moves an id from the screen to .env: what is known stays the same.
LEMMA PastePreserves ==
  ASSUME NEW t \in Target, NEW lines \in SUBSET Kind PROVE IInv /\ Paste(t, lines) => IInv'
<1> SUFFICES ASSUME IInv, Paste(t, lines) PROVE IInv'
  OBVIOUS
<1>1. /\ ~UnderWay /\ ~UnderWay' /\ TypeOK
      /\ \A k \in lines : seen[t][k] # Unset
      /\ UNCHANGED <<made, current, attached, run, lost, halfway>>
  BY DEF Paste, UnderWay, IInv
<1>2. /\ \A k \in lines : dotenv'[t][k] = seen[t][k] /\ seen'[t][k] = Unset
      /\ \A k \in Kind \ lines : dotenv'[t][k] = dotenv[t][k] /\ seen'[t][k] = seen[t][k]
      /\ \A u \in Target \ {t} : dotenv'[u] = dotenv[u] /\ seen'[u] = seen[u]
  BY <1>1 DEF Paste, TypeOK
<1>3. dotenv' \in [Target -> Ids] /\ seen' \in [Target -> Ids]
  <2>1. /\ [k \in Kind |-> IF k \in lines THEN seen[t][k] ELSE dotenv[t][k]] \in Ids
        /\ [k \in Kind |-> IF k \in lines THEN Unset ELSE seen[t][k]] \in Ids
    BY <1>1 DEF TypeOK, Ids
  <2> QED
    BY <1>1, <2>1 DEF Paste, TypeOK
<1>4. Known' = Known
  <2>1. ASSUME NEW u \in Target, NEW k \in Kind
        PROVE  (IF seen'[u][k] # Unset THEN seen'[u][k] ELSE dotenv'[u][k])
                 = (IF seen[u][k] # Unset THEN seen[u][k] ELSE dotenv[u][k])
    <3>1. CASE u = t /\ k \in lines
      BY <1>1, <1>2, <3>1
    <3>2. CASE u # t \/ k \notin lines
      BY <1>2, <3>2
    <3> QED
      BY <3>1, <3>2
  <2> QED
    BY <2>1 DEF Known
<1>5. TypeOK'
  BY <1>1, <1>3 DEF TypeOK
<1>6. Owned'
  <2> SUFFICES ASSUME NEW u \in Target, NEW k \in Kind
               PROVE  /\ dotenv'[u][k] # Unset => dotenv'[u][k] \in made[u][k]
                      /\ seen'[u][k] # Unset => seen'[u][k] \in made[u][k] /\ dotenv'[u][k] = Unset
    BY <1>1 DEF Owned
  <2>1. CASE u = t /\ k \in lines
    BY <1>1, <1>2, <2>1 DEF IInv, Owned
  <2>2. CASE u # t \/ k \notin lines
    BY <1>2, <2>2 DEF IInv, Owned
  <2> QED
    BY <2>1, <2>2
<1>7. Apart' /\ CarriesItsOwn'
  BY <1>1 DEF IInv, Apart, CarriesItsOwn
<1>8. RunLoaded' /\ NoneForgotten' /\ UpToDate'
  BY <1>1, <1>4 DEF IInv, RunLoaded, NoneForgotten, UpToDate
<1> QED
  BY <1>5, <1>6, <1>7, <1>8 DEF IInv

LEMMA EditPreserves == IInv /\ Edit => IInv'
<1> SUFFICES ASSUME IInv, Edit PROVE IInv'
  OBVIOUS
<1>1. /\ current' = {} /\ TypeOK
      /\ halfway' \in BOOLEAN
      /\ ~halfway' => ~UnderWay /\ run'.at = "off" /\ \A t \in Target : ~HalfMade(t)
      /\ UNCHANGED <<dotenv, seen, made, attached, lost>>
  BY DEF Edit, IInv, TypeOK
<1>2. /\ run' \in [target : Target, given : Ids, ids : Ids, at : Kind \cup {"off", "ended"}]
      /\ UnderWay' <=> UnderWay
      /\ UnderWay => run' = run
  BY <1>1, Places DEF Edit, TypeOK, UnderWay
<1>3. TypeOK'
  BY <1>1, <1>2 DEF TypeOK
<1>4. Owned' /\ Apart' /\ CarriesItsOwn' /\ Known' = Known
  BY <1>1 DEF IInv, Owned, Apart, CarriesItsOwn, Known
<1>5. RunLoaded'
  BY <1>1, <1>2, <1>4 DEF IInv, RunLoaded
<1>6. NoneForgotten'
  BY <1>1, <1>2, <1>4 DEF IInv, NoneForgotten
<1>7. UpToDate'
  BY <1>1, <1>4, Places DEF UpToDate, HalfMade
<1> QED
  BY <1>3, <1>4, <1>5, <1>6, <1>7 DEF IInv

LEMMA NextPreserves == IInv /\ [Next]_vars => IInv'
<1> SUFFICES ASSUME IInv, [Next]_vars PROVE IInv'
  OBVIOUS
<1>1. CASE UNCHANGED vars
  BY <1>1 DEF vars, IInv, TypeOK, Owned, Apart, RunLoaded, NoneForgotten, UpToDate,
              CarriesItsOwn, UnderWay, Known
<1>2. CASE Next
  BY <1>2, BeginPreserves, PastePreserves, UpdatePreserves, KeepPreserves, CreatePreserves,
     CreateUnheardPreserves, CrashPreserves, EditPreserves DEF Next
<1> QED
  BY <1>1, <1>2

\* What is known of earlier runs, and what the run under way has done with it, in
\* every reachable state (setup_agent.py, main).
THEOREM InvariantHolds == Spec => []IInv
  BY InitHolds, NextPreserves, PTL DEF Spec

-----------------------------------------------------------------------------
(* What follows.                                                           *)

\* Type correctness.
THEOREM TypeCorrect == Spec => []TypeOK
<1>1. IInv => TypeOK
  BY DEF IInv
<1> QED
  BY <1>1, InvariantHolds, PTL

\* setup_agent.py:26: with every printed id pasted, no run after a crash creates
\* a second resource of any kind.
THEOREM NoDuplicates == Spec => []NothingTwice
<1>1. IInv => NothingTwice
  BY DEF IInv, NoneForgotten, NothingTwice
<1> QED
  BY <1>1, InvariantHolds, PTL

\* A run that ends has deployed the repository, through crashes and resumed runs.
THEOREM EndedRunsDeploy == Spec => []EndedIsDeployed
<1>1. IInv => EndedIsDeployed
  BY Places DEF IInv, UpToDate, EndedIsDeployed
<1> QED
  BY <1>1, InvariantHolds, PTL

\* No agent carries a skill of the other target.
THEOREM AgentsCarryTheirOwn == Spec => []CarriesItsOwn
<1>1. IInv => CarriesItsOwn
  BY DEF IInv
<1> QED
  BY <1>1, InvariantHolds, PTL

\* setup_agent.py:14-20: a run changes nothing of the other target.
THEOREM TargetsAreApart == Spec => KeepsToItsTarget
<1> DEFINE
     Kept == \A t \in Target \ {run.target} : \A k \in Kind :
               /\ made'[t][k] = made[t][k]
               /\ \A id \in made[t][k] :
                    /\ id \in current' => id \in current
                    /\ attached'[id] = attached[id]
<1>1. ASSUME IInv, NEW k \in Kind, NEW id \in Ident, run.at = k, Creates(k), Made(k, id)
      PROVE  Kept
  <2>1. TypeOK /\ Carry(k, id) /\ current' = current \cup {id}
        /\ \A t \in Target, l \in Kind : id \notin made[t][l]
    BY <1>1 DEF IInv, Made
  <2>2. \A t \in Target, l \in Kind : t # run.target \/ l # k => made'[t][l] = made[t][l]
    BY <1>1, <2>1, MadePointwise
  <2>3. \A a \in Ident : a # id => attached'[a] = attached[a]
    BY <2>1, CarryPointwise
  <2> QED
    BY <2>1, <2>2, <2>3 DEF TypeOK
<1>2. ASSUME IInv, NEW k \in Kind, Update(k)
      PROVE  Kept
  <2>1. /\ Carry(k, run.given[k]) /\ current' = current \cup {run.given[k]}
        /\ made' = made /\ run.at = k /\ run.given[k] # Unset
    BY <1>2 DEF Update, Updates, Creates
  <2>2. /\ TypeOK /\ run.target \in Target /\ run.given[k] \in Ident
        /\ run.given = dotenv[run.target]
    BY <1>2, <2>1 DEF IInv, TypeOK, Ids, Ident, Unset, RunLoaded, UnderWay
  <2>3. run.given[k] \in made[run.target][k]
    BY <1>2, <2>1, <2>2, run.given[k] = dotenv[run.target][k] DEF IInv, Owned
  <2>4. \A a \in Ident : a # run.given[k] => attached'[a] = attached[a]
    BY <2>1, <2>2, CarryPointwise
  <2> QED
    BY <1>2, <2>1, <2>2, <2>3, <2>4 DEF IInv, TypeOK, Apart
<1>3. ASSUME IInv, [Next]_vars
      PROVE  Kept
  <2>1. CASE \E k \in Kind, id \in Ident : Create(k, id) \/ CreateUnheard(k, id)
    BY <1>1, <1>3, <2>1 DEF Create, CreateUnheard
  <2>2. CASE \E k \in Kind : Update(k)
    BY <1>2, <1>3, <2>2
  <2>3. CASE \/ \E t \in Target : Begin(t) \/ \E lines \in SUBSET Kind : Paste(t, lines)
             \/ (\E k \in Kind : Keep(k)) \/ Crash \/ UNCHANGED vars
    BY <2>3 DEF Begin, Paste, Keep, Crash, vars
  <2>4. CASE Edit
    BY <2>4 DEF Edit
  <2> QED
    BY <1>3, <2>1, <2>2, <2>3, <2>4 DEF Next
<1>4. IInv /\ [Next]_vars => [Kept]_vars
  BY <1>3
<1> QED
  BY <1>4, InvariantHolds, PTL DEF Spec, KeepsToItsTarget
=============================================================================
