-------------------------- MODULE CredentialProofs --------------------------
(***************************************************************************)
(* For any period, any time to live and any bound on the calls that leave  *)
(* room for four calls between two rotations' bearers: the bearer of an    *)
(* attached session whose calls all succeed is good, and no rotation ever  *)
(* stores a dead token.                                                    *)
(***************************************************************************)
EXTENDS Credential, TLAPS

-----------------------------------------------------------------------------
(* The inductive invariant.                                                *)

\* No two rotations at once: the handler takes a session up with the rotator
\* gone, and the rotator is there exactly while a session is attached.
Apart ==
  /\ pc["handler"] \in {"off", "login", "answer", "store", "create"}
  /\ pc["rotator"] \in {"off", "asleep", "pause", "login", "answer", "store"}
  /\ attached <=> pc["rotator"] # "off"
  /\ attached => pc["handler"] = "off"

\* How old the newest login is, from where an actor stands since that login.
AgesInCalls ==
  \A a \in Actor :
    /\ pc[a] = "answer" => age <= out[a]
    /\ pc[a] = "store" => age <= MaxCall + out[a]

NoFailure == ~spoilt /\ refused = 0

\* Without a failure, how old the stored bearer is at every other place.
AgesBetweenCalls ==
  NoFailure =>
    /\ pc["handler"] = "create" => stored = "newest" /\ age <= 2 * MaxCall + out["handler"]
    /\ pc["rotator"] = "asleep" => stored = "newest" /\ age + wait <= 3 * MaxCall + RotateEvery
    /\ pc["rotator"] = "login" =>
         stored = "newest" /\ age <= 3 * MaxCall + RotateEvery + out["rotator"]
    /\ pc["rotator"] # "pause"

IInv == TypeOK /\ Apart /\ NoDeadTokenStored /\ KeptIsStored /\ AgesInCalls /\ AgesBetweenCalls

-----------------------------------------------------------------------------
LEMMA OutdatedIsToken ==
  ASSUME NEW token \in Token
  PROVE  Outdated(token) \in Token /\ Outdated(token) # "newest"
  BY DEF Token, Outdated

LEMMA InitIInv == Init => IInv
  <1> SUFFICES ASSUME Init PROVE IInv
    OBVIOUS
  <1>1. \A a \in Actor : pc[a] = "off"
    BY DEF Init
  <1>2. TypeOK
    <2>1. attached \in BOOLEAN /\ spoilt \in BOOLEAN
      BY DEF Init
    <2>2. pc \in [Actor -> Places]
      BY DEF Init, Places
    <2>3. out \in [Actor -> 0..MaxCall]
      BY CredentialAssumption DEF Init
    <2>4. wait \in Nat
      BY DEF Init
    <2>5. held \in [Actor -> Token]
      BY DEF Init, Token
    <2>6. stored \in Token /\ kept \in Token
      BY DEF Init, Token
    <2>7. age \in 0..InnerTTL
      BY DEF Init
    <2>8. refused \in 0..2
      BY DEF Init
    <2> QED BY <2>1, <2>2, <2>3, <2>4, <2>5, <2>6, <2>7, <2>8 DEF TypeOK
  <1> QED
    BY <1>1, <1>2 DEF Init, IInv, Apart, NoDeadTokenStored, KeptIsStored, AgesInCalls,
      AgesBetweenCalls, NoFailure, Actor

\* A login at the gateway leaves one live token, the one its caller holds.
LEMMA OneLiveToken ==
  ASSUME TypeOK, NEW a \in Actor, LoginTakesEffect(a)
  PROVE  /\ age' = 0
         /\ stored' \in Token /\ stored' # "newest"
         /\ kept' \in Token /\ kept' # "newest"
         /\ held' \in [Actor -> Token]
         /\ held'[a] = "newest"
  <1>1. \A t \in Token : Outdated(t) \in Token /\ Outdated(t) # "newest"
    BY OutdatedIsToken
  <1> QED BY <1>1 DEF TypeOK, LoginTakesEffect, Token

\* Goto moves one actor and restarts the clock of its call.
LEMMA GotoMoves ==
  ASSUME TypeOK, NEW a \in Actor, NEW place \in Places, Goto(a, place)
  PROVE  /\ pc' \in [Actor -> Places] /\ out' \in [Actor -> 0..MaxCall]
         /\ pc'[a] = place /\ out'[a] = 0
         /\ \A b \in Actor : b # a => pc'[b] = pc[b] /\ out'[b] = out[b]
  BY CredentialAssumption DEF TypeOK, Goto

LEMMA NextIInv == IInv /\ [Next]_vars => IInv'
  <1> SUFFICES ASSUME IInv, [Next]_vars PROVE IInv'
    OBVIOUS
  <1> USE CredentialAssumption
  <1>a. Actor = {"handler", "rotator"}
    BY DEF Actor
  <1>1. CASE Detach
    <2>1. /\ pc' \in [Actor -> Places] /\ out' \in [Actor -> 0..MaxCall]
          /\ pc'["rotator"] = "off" /\ pc'["handler"] = pc["handler"]
          /\ out'["handler"] = out["handler"]
      BY <1>1, <1>a, GotoMoves DEF Detach, IInv, Places
    <2>2. /\ stored' \in Token /\ kept' \in Token
          /\ held' \in [Actor -> Token] /\ age' \in 0..InnerTTL
          /\ kept' = "newest" => stored' = "newest"
      <3>1. CASE UNCHANGED <<stored, kept, age, held>>
        BY <3>1 DEF IInv, TypeOK, KeptIsStored
      <3>2. CASE pc["rotator"] = "login" /\ LoginTakesEffect("rotator")
        BY <3>2, <1>a, OneLiveToken DEF IInv
      <3>3. CASE pc["rotator"] = "store" /\ stored' = held["rotator"] /\ UNCHANGED <<kept, age, held>>
        BY <3>3, <1>a DEF IInv, TypeOK, NoDeadTokenStored
      <3> QED BY <1>1, <3>1, <3>2, <3>3 DEF Detach
    <2>3. TypeOK'
      BY <1>1, <2>1, <2>2 DEF Detach, IInv, TypeOK
    <2> QED
      BY <1>1, <2>1, <2>2, <2>3, <1>a DEF Detach, IInv, Apart, NoDeadTokenStored,
        KeptIsStored, AgesInCalls, AgesBetweenCalls, NoFailure
  <1>2. CASE TakeUp
    <2>1. /\ pc' \in [Actor -> Places] /\ out' \in [Actor -> 0..MaxCall]
          /\ pc'["handler"] = "login" /\ pc'["rotator"] = pc["rotator"]
          /\ out'["rotator"] = out["rotator"]
      BY <1>2, <1>a, GotoMoves DEF TakeUp, IInv, Places
    <2>2. attached' \in BOOLEAN /\ spoilt' \in BOOLEAN
      BY <1>2 DEF TakeUp, IInv, TypeOK
    <2>3. refused' \in 0..2
      BY <1>2 DEF TakeUp
    <2>4. UNCHANGED <<attached, wait, held, stored, kept, age>>
      BY <1>2 DEF TakeUp
    <2>5. TypeOK'
      BY <2>1, <2>2, <2>3, <2>4 DEF IInv, TypeOK
    <2> QED
      BY <1>2, <2>1, <2>5, <1>a DEF TakeUp, IInv, Apart, NoDeadTokenStored,
        KeptIsStored, AgesInCalls, AgesBetweenCalls, NoFailure
  <1>3. CASE Attach
    BY <1>3, <1>a DEF Attach, IInv, TypeOK, Apart, NoDeadTokenStored,
      KeptIsStored, AgesInCalls, AgesBetweenCalls, NoFailure, Places
  <1>4. CASE CreateFails
    BY <1>4, <1>a DEF CreateFails, Goto, IInv, TypeOK, Apart, NoDeadTokenStored,
      KeptIsStored, AgesInCalls, AgesBetweenCalls, NoFailure, Places
  <1>5. ASSUME NEW a \in Actor, CallEnds(a) PROVE IInv'
    <2>1. CASE GatewayLogsIn(a)
      <3>1. /\ age' = 0
            /\ stored' \in Token /\ stored' # "newest"
            /\ kept' \in Token /\ kept' # "newest"
            /\ held' \in [Actor -> Token]
            /\ held'[a] = "newest"
        BY <2>1, OneLiveToken DEF GatewayLogsIn, IInv
      <3>2. CASE a = "handler"
        BY <2>1, <3>1, <3>2, <1>a DEF GatewayLogsIn, IInv, TypeOK, Apart, NoDeadTokenStored,
          KeptIsStored, AgesInCalls, AgesBetweenCalls, NoFailure, Places
      <3>3. CASE a = "rotator"
        BY <2>1, <3>1, <3>3, <1>a DEF GatewayLogsIn, IInv, TypeOK, Apart, NoDeadTokenStored,
          KeptIsStored, AgesInCalls, AgesBetweenCalls, NoFailure, Places
      <3> QED BY <3>2, <3>3, <1>a
    <2>2. CASE LoginSucceeds(a)
      BY <2>2, <1>a DEF LoginSucceeds, Goto, IInv, TypeOK, Apart, NoDeadTokenStored,
        KeptIsStored, AgesInCalls, AgesBetweenCalls, NoFailure, Places
    <2>3. CASE LoginRefused(a)
      <3>1. \E place \in {"create", "pause"} :
              /\ Goto(a, place)
              /\ place = "create" <=> a = "handler"
        BY <2>3 DEF LoginRefused, Proceed
      <3>2. PICK place \in {"create", "pause"} :
              /\ Goto(a, place)
              /\ place = "create" <=> a = "handler"
        BY <3>1
      <3>3. /\ pc' \in [Actor -> Places] /\ out' \in [Actor -> 0..MaxCall]
            /\ pc'[a] = place
            /\ \A b \in Actor : b # a => pc'[b] = pc[b] /\ out'[b] = out[b]
        BY <3>2, GotoMoves DEF IInv, Places
      <3>4. wait' \in Nat
        BY <2>3 DEF LoginRefused, Proceed, IInv, TypeOK
      <3>5. refused' \in 0..2 /\ spoilt' \in BOOLEAN /\ ~NoFailure'
        <4>1. CASE a = "rotator"
          <5>1. refused' \in 1..2
            BY <2>3, <4>1 DEF LoginRefused, IInv, TypeOK
          <5>2. spoilt' \in BOOLEAN
            BY <2>3, <4>1 DEF LoginRefused, IInv, TypeOK
          <5> QED BY <5>1, <5>2 DEF NoFailure
        <4>2. CASE a # "rotator"
          <5>1. refused' \in 0..2
            BY <2>3, <4>2 DEF LoginRefused, IInv, TypeOK
          <5>2. spoilt' = TRUE
            BY <2>3, <4>2 DEF LoginRefused
          <5> QED BY <5>1, <5>2 DEF NoFailure
        <4> QED BY <4>1, <4>2
      <3>6. TypeOK'
        BY <2>3, <3>3, <3>4, <3>5 DEF LoginRefused, IInv, TypeOK
      <3> QED
        BY <2>3, <3>2, <3>3, <3>5, <3>6, <1>a DEF LoginRefused, IInv, Apart,
          NoDeadTokenStored, KeptIsStored, AgesInCalls, AgesBetweenCalls
    <2>4. CASE LoginUnheard(a)
      BY <2>4, <1>a DEF LoginUnheard, Proceed, Goto, IInv, TypeOK, Apart, NoDeadTokenStored,
        KeptIsStored, AgesInCalls, AgesBetweenCalls, NoFailure, Places
    <2>5. CASE StoreSucceeds(a)
      BY <2>5, <1>a DEF StoreSucceeds, Proceed, Goto, IInv, TypeOK, Apart, NoDeadTokenStored,
        KeptIsStored, AgesInCalls, AgesBetweenCalls, NoFailure, Places
    <2>6. CASE StoreFails(a)
      BY <2>6, <1>a DEF StoreFails, Proceed, Goto, IInv, TypeOK, Apart, NoDeadTokenStored,
        KeptIsStored, AgesInCalls, AgesBetweenCalls, NoFailure, Places
    <2> QED BY <1>5, <2>1, <2>2, <2>3, <2>4, <2>5, <2>6 DEF CallEnds
  <1>6. CASE Wake
    BY <1>6, <1>a DEF Wake, Goto, IInv, TypeOK, Apart, NoDeadTokenStored,
      KeptIsStored, AgesInCalls, AgesBetweenCalls, NoFailure, Places
  <1>7. CASE PauseEnds
    BY <1>7, <1>a DEF PauseEnds, Goto, IInv, TypeOK, Apart, NoDeadTokenStored,
      KeptIsStored, AgesInCalls, AgesBetweenCalls, NoFailure, Places
  <1>8. CASE Tick
    BY <1>8, <1>a DEF Tick, Calling, IInv, TypeOK, Apart, NoDeadTokenStored,
      KeptIsStored, AgesInCalls, AgesBetweenCalls, NoFailure, Places
  <1>9. CASE UNCHANGED vars
    BY <1>9 DEF vars, IInv, TypeOK, Apart, NoDeadTokenStored,
      KeptIsStored, AgesInCalls, AgesBetweenCalls, NoFailure
  <1> QED BY <1>1, <1>2, <1>3, <1>4, <1>5, <1>6, <1>7, <1>8, <1>9 DEF Next

\* An attached session without failures is asleep, logging in or renewing, and
\* each of the first two has a bearer younger than InnerTTL.
LEMMA IInvIsGood == IInv => BearerGood
  BY CredentialAssumption
  DEF IInv, TypeOK, Apart, AgesBetweenCalls, NoFailure, BearerGood, Renewing, Fresh, Actor

-----------------------------------------------------------------------------
\* Every reachable state of appmcp_auth's rotation satisfies IInv.
THEOREM InvariantHolds == Spec => []IInv
  BY InitIInv, NextIInv, PTL DEF Spec

\* The variables stay in their ranges, no call outlasts MaxCall.
THEOREM TypeCorrect == Spec => []TypeOK
  <1>1. IInv => TypeOK
    BY DEF IInv
  <1> QED BY <1>1, InvariantHolds, PTL

\* With every call answered, the attached session's bearer never expires.
THEOREM BearerStaysGood == Spec => []BearerGood
  BY IInvIsGood, InvariantHolds, PTL

\* No rotation overwrites the bearer with a token a later login has killed.
THEOREM RotationsNeverOverlap == Spec => []NoDeadTokenStored
  <1>1. IInv => NoDeadTokenStored
    BY DEF IInv
  <1> QED BY <1>1, InvariantHolds, PTL

\* Photo uploads never use a live login the stored bearer does not carry.
THEOREM UploadsUseTheBearer == Spec => []KeptIsStored
  <1>1. IInv => KeptIsStored
    BY DEF IInv
  <1> QED BY <1>1, InvariantHolds, PTL
-----------------------------------------------------------------------------
(* The credential's side of Handover: with Sessions' (SessionsProofs), the  *)
(* two models of web.py's routes fit together.                              *)

\* What a call's end does to its actor: it goes on, and does not leave.
LEMMA CallEndsAndGoesOn ==
  ASSUME NEW a \in Actor, CallEnds(a)
  PROVE  pc[a] # "off" /\ \E place \in Places \ {"off"} : pc' = [pc EXCEPT ![a] = place]
BY DEF CallEnds, GatewayLogsIn, LoginSucceeds, LoginRefused, LoginUnheard, StoreSucceeds,
  StoreFails, Proceed, Goto, Places

LEMMA HandlerKeepsToHandover ==
  ASSUME IInv, [Next]_vars
  PROVE  [Bearer!Next]_(Bearer!vars)
<1> USE DEF Bearer!Next, Bearer!Begin, Bearer!Attach, Bearer!GiveUp, Bearer!LetGo, Bearer!vars
<1>1. pc \in [Actor -> Places] /\ Actor = {"handler", "rotator"}
  BY DEF IInv, TypeOK, Actor
<1>2. CASE Detach
  BY <1>1, <1>2 DEF Detach, Goto, IInv, Apart
<1>3. CASE TakeUp
  <2>1. pc["handler"] = "off" /\ pc' = [pc EXCEPT !["handler"] = "login"]
    BY <1>3 DEF TakeUp, Goto
  <2>2. pc["rotator"] = "off"
    BY <1>3 DEF TakeUp, IInv, Apart
  <2> QED BY <1>1, <2>1, <2>2
<1>4. CASE Attach
  BY <1>1, <1>4 DEF Attach
<1>5. CASE CreateFails
  BY <1>1, <1>5 DEF CreateFails, Goto
<1>6. ASSUME NEW a \in Actor, CallEnds(a)
      PROVE  UNCHANGED Bearer!vars
  BY <1>1, <1>6, CallEndsAndGoesOn
<1>7. CASE Wake \/ PauseEnds \/ Tick \/ UNCHANGED vars
  BY <1>1, <1>7 DEF Wake, PauseEnds, Tick, Goto, vars
<1> QED BY <1>2, <1>3, <1>4, <1>5, <1>6, <1>7 DEF Next

\* A handler logs in for a session only once the rotator of the one before it
\* has ended, however it was cut off, and a rotator starts only behind such a
\* login, one at a time (web.py:333-379, 535, 564; appmcp_auth.py:250-270).  A
\* detach that forgets the rotator, or a rotator that outlives its session,
\* breaks it.
THEOREM RenewsOnlyBetween == Spec => RenewsBetweenSessions
  <1>1. Init => Bearer!Init
    BY DEF Init, Actor, Bearer!Init
  <1> QED
    BY <1>1, HandlerKeepsToHandover, InvariantHolds, PTL DEF Spec, RenewsBetweenSessions, Bearer!Spec
=============================================================================
