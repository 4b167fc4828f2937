----------------------------- MODULE Credential -----------------------------
(***************************************************************************)
(* The bearer of the app MCP (appmcp_auth.py, and web.py where sessions    *)
(* start and detach): a gateway login wrapped and stored in the vault the  *)
(* agent's proxy reads, renewed when a session is taken up and every       *)
(* RotateEvery minutes by a rotator the session owns.                      *)
(*                                                                         *)
(* A login is forced: it ends the user's earlier one, so of all the tokens *)
(* ever issued only the newest is honoured, until it is InnerTTL old.      *)
(* Tokens are told apart only by that.  Time passes in minutes; the outer  *)
(* seven days of the wrapping never end within them.                       *)
(***************************************************************************)
EXTENDS Integers

CONSTANTS
  InnerTTL,      \* minutes the gateway honours a login
  RotateEvery,   \* ROTATE_EVERY_SECONDS, in minutes
  RetryAfter,    \* RETRY_AFTER_SECONDS, in minutes
  MaxCall        \* bound: minutes a call takes to return or raise

\* MaxCall is an assumption about the network, not a limit the code sets: only the
\* login has a timeout of the code's own (30 s, appmcp_auth.py:245); the update of
\* the vault and the creation of the session run on the client library's defaults
\* and retries.
ASSUME CredentialAssumption ==
  /\ InnerTTL \in Nat
  /\ RotateEvery \in Nat
  /\ RetryAfter \in Nat
  /\ MaxCall \in Nat
  /\ RotateEvery + 4 * MaxCall < InnerTTL

\* Who rotates: the handler taking a session up, and the session's rotator.
Actor == {"handler", "rotator"}

Token == {"none", "dead", "newest"}

Places == {"off", "asleep", "pause", "login", "answer", "store", "create"}

VARIABLES
  attached,   \* a session is attached and owns the rotator (_rotating)
  pc,         \* where each actor is
  out,        \* minutes its present call has been out
  wait,       \* minutes left of the rotator's sleep
  held,       \* the token each has just logged in with
  stored,     \* the token inside the bearer in the vault
  kept,       \* _user_token, which photo uploads use
  age,        \* minutes since the newest login
  refused,    \* history: logins refused to the rotator of this session, up to 2
  spoilt      \* history: another call for this session failed

vars == <<attached, pc, out, wait, held, stored, kept, age, refused, spoilt>>

\* The process starts, for the first time or again: what an earlier one left in
\* the vault may be of any age.
Init ==
  /\ attached = FALSE
  /\ pc = [a \in Actor |-> "off"]
  /\ out = [a \in Actor |-> 0]
  /\ wait = 0
  /\ held = [a \in Actor |-> "none"]
  /\ stored \in Token
  /\ kept = "none"
  /\ age \in 0..InnerTTL
  /\ refused = 0
  /\ spoilt = FALSE

-----------------------------------------------------------------------------
Fresh == stored = "newest" /\ age < InnerTTL

\* What is left of a token once there is a newer login.
Outdated(token) == IF token = "newest" THEN "dead" ELSE token

Goto(a, place) ==
  /\ pc' = [pc EXCEPT ![a] = place]
  /\ out' = [out EXCEPT ![a] = 0]

\* The gateway's side of a login: every earlier token is dead.
LoginTakesEffect(a) ==
  /\ age' = 0
  /\ stored' = Outdated(stored)
  /\ kept' = Outdated(kept)
  /\ held' = [b \in Actor |-> IF b = a THEN "newest" ELSE Outdated(held[b])]

-----------------------------------------------------------------------------
(* Sessions.                                                               *)

\* Mutant: a detach that forgets the rotator.
DetachAnswererOnly ==
  /\ attached
  /\ attached' = FALSE
  /\ UNCHANGED <<pc, out, wait, held, stored, kept, age, refused, spoilt>>

\* _detach cancels the rotator and waits for it to end.  A call it had out may
\* take effect all the same (at once: a gateway that acts on it only after the
\* next login is left out).
Detach ==
  /\ attached
  /\ attached' = FALSE
  /\ Goto("rotator", "off")
  /\ \/ UNCHANGED <<stored, kept, age, held>>
     \/ pc["rotator"] = "login" /\ LoginTakesEffect("rotator")
     \/ pc["rotator"] = "store" /\ stored' = held["rotator"] /\ UNCHANGED <<kept, age, held>>
  /\ wait' = 0
  /\ UNCHANGED <<refused, spoilt>>

\* Mutant: a session from the sidebar goes on with the bearer there is.
TakeUpUnrefreshed ==
  /\ ~attached
  /\ pc["handler"] = "off"
  /\ \/ Goto("handler", "login")
     \/ stored # "none" /\ Goto("handler", "create")
  /\ refused' = 0
  /\ spoilt' = FALSE
  /\ UNCHANGED <<attached, wait, held, stored, kept, age>>

\* new_session and activate, under _lock, with nothing attached any more.
TakeUp ==
  /\ ~attached
  /\ pc["handler"] = "off"
  /\ Goto("handler", "login")
  /\ refused' = 0
  /\ spoilt' = FALSE
  /\ UNCHANGED <<attached, wait, held, stored, kept, age>>

\* The session exists (at once, when it is one from the sidebar) and its
\* rotator starts with a sleep.
Attach ==
  /\ pc["handler"] = "create"
  /\ attached' = TRUE
  /\ pc' = [pc EXCEPT !["handler"] = "off", !["rotator"] = "asleep"]
  /\ out' = [a \in Actor |-> 0]
  /\ wait' = RotateEvery
  /\ UNCHANGED <<held, stored, kept, age, refused, spoilt>>

CreateFails ==
  /\ pc["handler"] = "create"
  /\ Goto("handler", "off")
  /\ UNCHANGED <<attached, wait, held, stored, kept, age, refused, spoilt>>

-----------------------------------------------------------------------------
(* rotate: log in, mint, overwrite the stored bearer, remember the token.  *)

\* Mutant: the rotator ends on its first failure.
ProceedOrEnd(a, failed) ==
  IF a = "handler" THEN Goto(a, "create") /\ UNCHANGED wait
  ELSE IF failed THEN Goto(a, "off") /\ wait' = 0
  ELSE Goto(a, "asleep") /\ wait' = RotateEvery

\* After a rotation the handler goes on whether or not it failed; the rotator
\* sleeps its full period, after a failure only once it has paused.
Proceed(a, failed) ==
  IF a = "handler" THEN Goto(a, "create") /\ UNCHANGED wait
  ELSE IF failed THEN Goto(a, "pause") /\ wait' = RetryAfter
  ELSE Goto(a, "asleep") /\ wait' = RotateEvery

\* The gateway logs us in; its answer is on its way.
GatewayLogsIn(a) ==
  /\ pc[a] = "login"
  /\ LoginTakesEffect(a)
  /\ pc' = [pc EXCEPT ![a] = "answer"]
  /\ UNCHANGED <<attached, out, wait, refused, spoilt>>

\* Mutant: the token is remembered before its bearer is stored.
LoginRemembered(a) ==
  /\ pc[a] = "answer"
  /\ kept' = held[a]
  /\ Goto(a, "store")
  /\ UNCHANGED <<attached, wait, held, stored, age, refused, spoilt>>

LoginSucceeds(a) ==
  /\ pc[a] = "answer"
  /\ Goto(a, "store")
  /\ UNCHANGED <<attached, wait, held, stored, kept, age, refused, spoilt>>

LoginRefused(a) ==
  /\ pc[a] = "login"
  /\ Proceed(a, TRUE)
  /\ IF a = "rotator"
       THEN refused' = (IF refused < 2 THEN refused + 1 ELSE 2) /\ UNCHANGED spoilt
       ELSE spoilt' = TRUE /\ UNCHANGED refused
  /\ UNCHANGED <<attached, held, stored, kept, age>>

\* The answer is lost, or comes without its cookie: logged in, and no token.
LoginUnheard(a) ==
  /\ pc[a] = "answer"
  /\ Proceed(a, TRUE)
  /\ spoilt' = TRUE
  /\ UNCHANGED <<attached, held, stored, kept, age, refused>>

StoreSucceeds(a) ==
  /\ pc[a] = "store"
  /\ stored' = held[a]
  /\ kept' = held[a]
  /\ Proceed(a, FALSE)
  /\ UNCHANGED <<attached, held, age, refused, spoilt>>

\* The vault refuses, or takes the bearer and its answer is lost.
StoreFails(a) ==
  /\ pc[a] = "store"
  /\ UNCHANGED stored \/ stored' = held[a]
  /\ Proceed(a, TRUE)
  /\ spoilt' = TRUE
  /\ UNCHANGED <<attached, held, kept, age, refused>>

-----------------------------------------------------------------------------
(* The rotator's sleeps, and time.                                         *)

Wake ==
  /\ pc["rotator"] = "asleep"
  /\ wait = 0
  /\ Goto("rotator", "login")
  /\ UNCHANGED <<attached, wait, held, stored, kept, age, refused, spoilt>>

PauseEnds ==
  /\ pc["rotator"] = "pause"
  /\ wait = 0
  /\ Goto("rotator", "asleep")
  /\ wait' = RotateEvery
  /\ UNCHANGED <<attached, held, stored, kept, age, refused, spoilt>>

Calling(a) == pc[a] \in {"login", "answer", "store", "create"}

\* Mutant: the sleep runs on below zero.
TickOverdue ==
  /\ \A a \in Actor : Calling(a) => out[a] < MaxCall
  /\ age' = IF age < InnerTTL THEN age + 1 ELSE age
  /\ wait' = wait - 1
  /\ out' = [a \in Actor |-> IF Calling(a) THEN out[a] + 1 ELSE out[a]]
  /\ UNCHANGED <<attached, pc, held, stored, kept, refused, spoilt>>

\* A minute passes.  Sleeps end on time, calls (as assumed) within MaxCall.
Tick ==
  /\ pc["rotator"] \in {"asleep", "pause"} => wait > 0
  /\ \A a \in Actor : Calling(a) => out[a] < MaxCall
  /\ age' = IF age < InnerTTL THEN age + 1 ELSE age
  /\ wait' = IF wait > 0 THEN wait - 1 ELSE wait
  /\ out' = [a \in Actor |-> IF Calling(a) THEN out[a] + 1 ELSE out[a]]
  /\ UNCHANGED <<attached, pc, held, stored, kept, refused, spoilt>>

-----------------------------------------------------------------------------
CallEnds(a) ==
  \/ GatewayLogsIn(a) \/ LoginSucceeds(a) \/ LoginRefused(a) \/ LoginUnheard(a)
  \/ StoreSucceeds(a) \/ StoreFails(a)

Next ==
  \/ Detach \/ TakeUp \/ Attach \/ CreateFails
  \/ \E a \in Actor : CallEnds(a)
  \/ Wake \/ PauseEnds
  \/ Tick

Spec == Init /\ [][Next]_vars

\* Time passes, calls return or raise, and asyncio wakes a sleeper.
FairSpec ==
  /\ Spec
  /\ WF_vars(Tick)
  /\ WF_vars(Wake)
  /\ WF_vars(PauseEnds)
  /\ \A a \in Actor : WF_vars(CallEnds(a))

-----------------------------------------------------------------------------
(* Properties.                                                             *)

TypeOK ==
  /\ attached \in BOOLEAN
  /\ pc \in [Actor -> Places]
  /\ out \in [Actor -> 0..MaxCall]
  /\ wait \in Nat
  /\ held \in [Actor -> Token]
  /\ stored \in Token
  /\ kept \in Token
  /\ age \in 0..InnerTTL
  /\ refused \in 0..2
  /\ spoilt \in BOOLEAN

\* The rotator has logged in, and its token is not yet in the vault.
Renewing == pc["rotator"] \in {"answer", "store"}

\* ROTATE_EVERY_SECONDS "comfortably inside the inner 30" (appmcp_auth.py:79):
\* as long as no call fails, the attached session's bearer is good at every
\* moment but those between a login and its store, however the session before
\* it was cut off.
BearerGood ==
  attached /\ ~spoilt /\ refused = 0 /\ ~Renewing => Fresh

\* The photo token works only if the bearer does ("the user token inside the
\* bearer most recently stored", appmcp_auth.py:159): whatever fails or is
\* cancelled, uploads and MCP calls are never on two different live logins.
KeptIsStored == kept = "newest" => stored = "newest"

\* Two rotations never overlap: a bearer is not overwritten with a token that
\* a later login has killed.
NoDeadTokenStored ==
  \A a \in Actor : pc[a] \in {"answer", "store"} => held[a] = "newest"

\* The rotator is what attaches a session here: a handler logs in for the next
\* one only with the last one's rotator ended, whatever call it had out, and a
\* rotator starts only when a handler has done so (web.py:374-379, 535, 564).
\* That nothing is attached when a handler begins (TakeUp) is what Sessions
\* keeps; that the rotator is then gone is what detaching and rotating keep.
Bearer == INSTANCE Handover WITH attached <- (pc["rotator"] # "off"),
                                 renewing <- IF pc["handler"] = "off" THEN 0 ELSE 1

RenewsBetweenSessions == Bearer!Spec

\* No failure ends the rotator (appmcp_auth.py:256-257): for as long as a
\* session stays attached, there is another rotation to come.
RotatorGoesOn == []<>(~attached \/ pc["rotator"] = "login")

\* appmcp_auth.py:266 "retrying in 60s", and 256 "one transient login failure":
\* a single refused login does not let the attached session's bearer expire.
OneRefusalHarmless ==
  attached /\ ~spoilt /\ refused <= 1 /\ ~Renewing => Fresh
=============================================================================
