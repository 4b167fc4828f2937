------------------------------ MODULE Sessions ------------------------------
(***************************************************************************)
(* The session switchboard of web.py: one process, any number of browser   *)
(* requests in flight.  Handlers interleave at every await; new_session,   *)
(* activate and stop do their work under _lock, message and interrupt do   *)
(* not.  Each action below is the code of one handler between two awaits.  *)
(*                                                                         *)
(* The platform keeps the sessions themselves: whether one is live or      *)
(* archived, and whether its agent is idle, running, parked on a custom    *)
(* tool call our runner will answer, or wedged on one that arrived with no *)
(* runner attached (web.py:561, "parks the session indefinitely").         *)
(***************************************************************************)
EXTENDS Integers, Sequences, FiniteSets

CONSTANTS
  Session,         \* session ids the platform may hand out
  NoSession,       \* None
  Request,         \* slots for browser requests in flight
  MaxFiles,        \* attachments per message, MAX_ATTACHMENTS
  RunnerMayDie,    \* whether the tool runner may stop on an exception
  CallsMayFail     \* whether interrupt and archive calls may be refused

ASSUME SessionsAssumption ==
  /\ NoSession \notin Session
  /\ MaxFiles \in Nat
  /\ RunnerMayDie \in BOOLEAN
  /\ CallsMayFail \in BOOLEAN

VARIABLES
  active,     \* _active
  handle,     \* the session _answering was started for
  runners,    \* sessions a tool-answering task is alive for
  queue,      \* requests at _lock, first come first served; the head holds it
  op,         \* what each request asks for
  pc,         \* where its handler is
  target,     \* the session a request activates, or calls the platform for
  leaving,    \* the session a request detaches
  left,       \* attachments a message has still to upload
  loaded,     \* whether a message has uploaded any
  life,       \* platform: "absent", "live" or "archived"
  work,       \* platform: "idle", "running", "parked" or "wedged"
  stray       \* history: a message was answered, a file of it uploaded, no turn sent

server   == <<active, handle, runners, queue>>
handlers == <<op, pc, target, leaving, left, loaded>>
platform == <<life, work>>
vars     == <<active, handle, runners, queue, op, pc, target, leaving, left, loaded,
              life, work, stray>>

SessionOrNone == Session \cup {NoSession}

Operation == {"new", "activate", "stop", "message", "interrupt"}

Places == {"idle", "wait", "interrupt", "cancel", "cancelled", "create", "refresh",
           "archive", "upload", "send", "halt"}

Init ==
  /\ active = NoSession
  /\ handle = NoSession
  /\ runners = {}
  /\ queue = <<>>
  /\ op = [r \in Request |-> "message"]
  /\ pc = [r \in Request |-> "idle"]
  /\ target = [r \in Request |-> NoSession]
  /\ leaving = [r \in Request |-> NoSession]
  /\ left = [r \in Request |-> 0]
  /\ loaded = [r \in Request |-> FALSE]
  /\ life = [s \in Session |-> "absent"]
  /\ work = [s \in Session |-> "idle"]
  /\ stray = FALSE

-----------------------------------------------------------------------------
Goto(r, place) == pc' = [pc EXCEPT ![r] = place]

\* A request for what arrives and queues for _lock.
Ask(r, what) ==
  /\ pc[r] = "idle"
  /\ op' = [op EXCEPT ![r] = what]
  /\ Goto(r, "wait")
  /\ queue' = Append(queue, r)

\* r's handler of operation what holds _lock and stands at place.
Holds(r, what, place) ==
  /\ queue # <<>>
  /\ Head(queue) = r
  /\ op[r] = what
  /\ pc[r] = place

Answered(r) ==
  /\ pc' = [pc EXCEPT ![r] = "idle"]
  /\ target' = [target EXCEPT ![r] = NoSession]
  /\ leaving' = [leaving EXCEPT ![r] = NoSession]
  /\ UNCHANGED op

\* Mutant: a return that keeps the lock.
KeepLock(r) == Answered(r) /\ UNCHANGED <<queue, left, loaded>>

\* The handler returns, or raises: the `async with` gives the lock back.
Release(r) ==
  /\ Answered(r)
  /\ queue' = Tail(queue)
  /\ UNCHANGED <<left, loaded>>

-----------------------------------------------------------------------------
(* _detach: interrupt the session left, then cancel our task and wait for  *)
(* it to end.                                                              *)

\* The session left is interrupted; a refusal is logged and ignored.
DetachInterrupt(r) ==
  /\ \E what \in Operation : Holds(r, what, "interrupt")
  /\ \/ work' = [work EXCEPT ![leaving[r]] = "idle"]
     \/ CallsMayFail /\ UNCHANGED work
  /\ Goto(r, "cancel")
  /\ UNCHANGED <<server, op, target, leaving, left, loaded, life, stray>>

\* task.cancel(): a call the runner had in hand stays unanswered.
DetachCancel(r) ==
  /\ \E what \in Operation : Holds(r, what, "cancel")
  /\ runners' = runners \ {handle}
  /\ work' = [s \in Session |-> IF s = handle /\ work[s] = "parked" THEN "wedged" ELSE work[s]]
  /\ Goto(r, "cancelled")
  /\ UNCHANGED <<active, handle, queue, op, target, leaving, left, loaded, life, stray>>

-----------------------------------------------------------------------------
(* new_session                                                             *)

NewAsk(r) ==
  /\ Ask(r, "new")
  /\ UNCHANGED <<active, handle, runners, target, leaving, left, loaded, platform, stray>>

\* Mutants of NewBegin: the session left keeps its runner; it stays _active
\* while its runner goes.
NewBeginNoDetach(r) ==
  /\ Holds(r, "new", "wait")
  /\ active' = NoSession
  /\ Goto(r, "create")
  /\ UNCHANGED <<handle, runners, queue, op, target, leaving, left, loaded, platform, stray>>
NewBeginStillActive(r) ==
  /\ Holds(r, "new", "wait")
  /\ leaving' = [leaving EXCEPT ![r] = active]
  /\ Goto(r, IF active = NoSession THEN "create" ELSE "interrupt")
  /\ UNCHANGED <<server, op, target, left, loaded, platform, stray>>

NewBegin(r) ==
  /\ Holds(r, "new", "wait")
  /\ leaving' = [leaving EXCEPT ![r] = active]
  /\ active' = NoSession
  /\ Goto(r, IF active = NoSession THEN "create" ELSE "interrupt")
  /\ UNCHANGED <<handle, runners, queue, op, target, left, loaded, platform, stray>>

NewDetached(r) ==
  /\ Holds(r, "new", "cancelled")
  /\ handle' = NoSession
  /\ Goto(r, "create")
  /\ UNCHANGED <<active, runners, queue, op, target, leaving, left, loaded, platform, stray>>

\* The pull is read, uploaded and mounted, the session created; then, with no
\* await between, it becomes the active one and its runner starts.
NewCreate(r) ==
  /\ Holds(r, "new", "create")
  /\ \E s \in Session :
       /\ life[s] = "absent"
       /\ life' = [life EXCEPT ![s] = "live"]
       /\ active' = s
       /\ handle' = s
       /\ runners' = runners \cup {s}
  /\ Release(r)
  /\ UNCHANGED <<work, stray>>

\* The pull, the upload or the create raises.  A create whose answer is lost
\* leaves a session in the sidebar that this server never attached.
NewFail(r) ==
  /\ Holds(r, "new", "create")
  /\ \/ UNCHANGED life
     \/ \E s \in Session : life[s] = "absent" /\ life' = [life EXCEPT ![s] = "live"]
  /\ Release(r)
  /\ UNCHANGED <<active, handle, runners, work, stray>>

-----------------------------------------------------------------------------
(* activate: the browser asks for a session its list does not show as      *)
(* archived.                                                               *)

ActivateAsk(r, s) ==
  /\ life[s] = "live"
  /\ Ask(r, "activate")
  /\ target' = [target EXCEPT ![r] = s]
  /\ UNCHANGED <<active, handle, runners, leaving, left, loaded, platform, stray>>

ActivateAlready(r) ==
  /\ Holds(r, "activate", "wait")
  /\ active = target[r]
  /\ Release(r)
  /\ UNCHANGED <<active, handle, runners, platform, stray>>

\* Mutant: the switch forgets the session it leaves.
SwitchNoDetach(r) ==
  /\ Holds(r, "activate", "wait")
  /\ active \notin {target[r], NoSession}
  /\ active' = target[r]
  /\ Goto(r, "refresh")
  /\ UNCHANGED <<handle, runners, queue, op, target, leaving, left, loaded, platform, stray>>

\* _active still names the session left while it is being detached.
ActivateSwitch(r) ==
  /\ Holds(r, "activate", "wait")
  /\ active \notin {target[r], NoSession}
  /\ leaving' = [leaving EXCEPT ![r] = active]
  /\ Goto(r, "interrupt")
  /\ UNCHANGED <<server, op, target, left, loaded, platform, stray>>

ActivateTake(r) ==
  /\ \/ Holds(r, "activate", "cancelled") /\ handle' = NoSession
     \/ Holds(r, "activate", "wait") /\ active = NoSession /\ UNCHANGED handle
  /\ active' = target[r]
  /\ Goto(r, "refresh")
  /\ UNCHANGED <<runners, queue, op, target, leaving, left, loaded, platform, stray>>

\* The credential refresh has ended, well or badly; only now does the runner
\* start.
ActivateAttach(r) ==
  /\ Holds(r, "activate", "refresh")
  /\ handle' = target[r]
  /\ runners' = runners \cup {target[r]}
  /\ Release(r)
  /\ UNCHANGED <<active, platform, stray>>

-----------------------------------------------------------------------------
(* stop: _active is checked before the lock and read again under it.       *)

StopAsk(r) ==
  /\ active # NoSession
  /\ Ask(r, "stop")
  /\ UNCHANGED <<active, handle, runners, target, leaving, left, loaded, platform, stray>>

StopBegin(r) ==
  /\ Holds(r, "stop", "wait")
  /\ active # NoSession
  /\ leaving' = [leaving EXCEPT ![r] = active]
  /\ active' = NoSession
  /\ Goto(r, "interrupt")
  /\ UNCHANGED <<handle, runners, queue, op, target, left, loaded, platform, stray>>

\* Nothing is left to stop: _interrupt(None) raises, and not an APIError.
StopNothing(r) ==
  /\ Holds(r, "stop", "wait")
  /\ active = NoSession
  /\ Release(r)
  /\ UNCHANGED <<active, handle, runners, platform, stray>>

StopDetached(r) ==
  /\ Holds(r, "stop", "cancelled")
  /\ handle' = NoSession
  /\ Goto(r, "archive")
  /\ UNCHANGED <<active, runners, queue, op, target, leaving, left, loaded, platform, stray>>

\* A refused archive is logged; the session stays in the sidebar.
StopArchive(r) ==
  /\ Holds(r, "stop", "archive")
  /\ \/ /\ life' = [life EXCEPT ![leaving[r]] = "archived"]
        /\ work' = [work EXCEPT ![leaving[r]] = "idle"]
     \/ CallsMayFail /\ UNCHANGED platform
  /\ Release(r)
  /\ UNCHANGED <<active, handle, runners, stray>>

-----------------------------------------------------------------------------
(* message and interrupt: no lock.                                         *)

MessageOver(r, sent) ==
  /\ Answered(r)
  /\ left' = [left EXCEPT ![r] = 0]
  /\ loaded' = [loaded EXCEPT ![r] = FALSE]
  /\ stray' = (stray \/ (loaded[r] /\ ~sent))
  /\ UNCHANGED <<server, life>>

\* With files still to upload the handler stops at an await; with none it goes
\* on to the send and addresses it to what _active is at that moment.
Address(r, files) ==
  /\ left' = [left EXCEPT ![r] = files]
  /\ IF files = 0
       THEN Goto(r, "send") /\ target' = [target EXCEPT ![r] = active]
       ELSE Goto(r, "upload") /\ UNCHANGED target

MessageAsk(r) ==
  /\ pc[r] = "idle"
  /\ active # NoSession
  /\ op' = [op EXCEPT ![r] = "message"]
  /\ \E files \in 0..MaxFiles : Address(r, files)
  /\ UNCHANGED <<server, leaving, loaded, platform, stray>>

\* Mutant: the last attachment does not end the loop.
MessageUploadPastEnd(r) ==
  /\ pc[r] = "upload"
  /\ left' = [left EXCEPT ![r] = left[r] - 1]
  /\ loaded' = [loaded EXCEPT ![r] = TRUE]
  /\ UNCHANGED <<server, op, pc, target, leaving, platform, stray>>

MessageUpload(r) ==
  /\ pc[r] = "upload"
  /\ Address(r, left[r] - 1)
  /\ loaded' = [loaded EXCEPT ![r] = TRUE]
  /\ UNCHANGED <<server, op, leaving, platform, stray>>

\* The next attachment is refused or cannot be stored: 400, 502 or 500.
MessageRefused(r) ==
  /\ pc[r] = "upload"
  /\ MessageOver(r, FALSE)
  /\ UNCHANGED work

\* The turn reaches the session addressed, unless there is none or the platform
\* will not take it.
MessageSend(r) ==
  /\ pc[r] = "send"
  /\ \/ /\ target[r] # NoSession
        /\ life[target[r]] = "live"
        /\ work' = [work EXCEPT ![target[r]] = IF @ = "idle" THEN "running" ELSE @]
        /\ MessageOver(r, TRUE)
     \/ /\ target[r] \in Session /\ ~CallsMayFail => life[target[r]] = "archived"
        /\ MessageOver(r, FALSE)
        /\ UNCHANGED work

InterruptAsk(r) ==
  /\ pc[r] = "idle"
  /\ active # NoSession
  /\ op' = [op EXCEPT ![r] = "interrupt"]
  /\ target' = [target EXCEPT ![r] = active]
  /\ Goto(r, "halt")
  /\ UNCHANGED <<server, leaving, left, loaded, platform, stray>>

\* The call reaches the session that was active when it was made, detached or
\* not by now, or is refused.
InterruptEnds(r) ==
  /\ pc[r] = "halt"
  /\ \/ work' = [work EXCEPT ![target[r]] = "idle"]
     \/ CallsMayFail /\ UNCHANGED work
  /\ Answered(r)
  /\ UNCHANGED <<server, left, loaded, life, stray>>

-----------------------------------------------------------------------------
(* The platform, our runner, and a restart of this process.                *)

AgentRests(s) ==
  /\ work[s] = "running"
  /\ work' = [work EXCEPT ![s] = "idle"]
  /\ UNCHANGED <<server, handlers, life, stray>>

AgentCallsTool(s) ==
  /\ work[s] = "running"
  /\ work' = [work EXCEPT ![s] = IF s \in runners THEN "parked" ELSE "wedged"]
  /\ UNCHANGED <<server, handlers, life, stray>>

RunnerAnswers(s) ==
  /\ s \in runners
  /\ work[s] = "parked"
  /\ work' = [work EXCEPT ![s] = "running"]
  /\ UNCHANGED <<server, handlers, life, stray>>

\* An exception in the runner is logged, and the task ends.
RunnerDies(s) ==
  /\ RunnerMayDie
  /\ s \in runners
  /\ runners' = runners \ {s}
  /\ work' = [work EXCEPT ![s] = IF @ = "parked" THEN "wedged" ELSE @]
  /\ UNCHANGED <<active, handle, queue, handlers, life, stray>>

\* Every global and every handler is gone; the sessions are not ours to lose.
Restart ==
  /\ active' = NoSession
  /\ handle' = NoSession
  /\ runners' = {}
  /\ queue' = <<>>
  /\ op' = [r \in Request |-> "message"]
  /\ pc' = [r \in Request |-> "idle"]
  /\ target' = [r \in Request |-> NoSession]
  /\ leaving' = [r \in Request |-> NoSession]
  /\ left' = [r \in Request |-> 0]
  /\ loaded' = [r \in Request |-> FALSE]
  /\ work' = [s \in Session |-> IF work[s] = "parked" THEN "wedged" ELSE work[s]]
  /\ UNCHANGED <<life, stray>>

-----------------------------------------------------------------------------
Ongoing(r) ==
  \/ DetachInterrupt(r) \/ DetachCancel(r)
  \/ NewBegin(r) \/ NewDetached(r) \/ NewCreate(r) \/ NewFail(r)
  \/ ActivateAlready(r) \/ ActivateSwitch(r) \/ ActivateTake(r) \/ ActivateAttach(r)
  \/ StopBegin(r) \/ StopNothing(r) \/ StopDetached(r) \/ StopArchive(r)
  \/ MessageUpload(r) \/ MessageRefused(r) \/ MessageSend(r)
  \/ InterruptEnds(r)

Arriving(r) ==
  \/ NewAsk(r) \/ StopAsk(r) \/ MessageAsk(r) \/ InterruptAsk(r)
  \/ \E s \in Session : ActivateAsk(r, s)

Platform(s) ==
  AgentRests(s) \/ AgentCallsTool(s) \/ RunnerAnswers(s) \/ RunnerDies(s)

Next ==
  \/ \E r \in Request : Ongoing(r) \/ Arriving(r)
  \/ \E s \in Session : Platform(s)
  \/ Restart

Spec == Init /\ [][Next]_vars

\* Every awaited call returns or raises in the end, and asyncio resumes the
\* handler.  Planner, agent and restarts owe us nothing.
FairSpec == Spec /\ \A r \in Request : WF_vars(Ongoing(r))

-----------------------------------------------------------------------------
(* Properties.                                                             *)

TypeOK ==
  /\ active \in SessionOrNone
  /\ handle \in SessionOrNone
  /\ runners \in SUBSET Session
  /\ queue \in Seq(Request)
  /\ op \in [Request -> Operation]
  /\ pc \in [Request -> Places]
  /\ target \in [Request -> SessionOrNone]
  /\ leaving \in [Request -> SessionOrNone]
  /\ left \in [Request -> 0..MaxFiles]
  /\ loaded \in [Request -> BOOLEAN]
  /\ life \in [Session -> {"absent", "live", "archived"}]
  /\ work \in [Session -> {"idle", "running", "parked", "wedged"}]
  /\ stray \in BOOLEAN

\* A session's calls are answered only while it is the active one, or by the
\* task the lock's holder is about to cancel (web.py:367-368): no switch, stop,
\* failed creation or restart leaves a runner behind.
OnlyActiveAnswered ==
  \A s \in runners : s = active \/ (queue # <<>> /\ leaving[Head(queue)] = s)

\* With nobody changing sessions, the active session is the one our runner was
\* started for: a creation that fails half way leaves no session active that
\* nothing answers.
ActiveIsAttached ==
  queue = <<>> /\ active # NoSession => handle = active

\* One session at a time, let go of before the next is taken up.
Attached == IF runners = {} THEN NoSession ELSE CHOOSE s \in runners : TRUE

Board == INSTANCE Switchboard WITH attached <- Attached

OneAtATime == Board!Spec /\ [](Cardinality(runners) <= 1)

\* A bearer is logged in only between two sessions, by one handler at a time:
\* what Credential takes for granted of these routes.
Renewing == {r \in Request : pc[r] \in {"create", "refresh"}}

Bearer == INSTANCE Handover
            WITH attached <- (handle # NoSession), renewing <- Cardinality(Renewing)

RenewedBetweenSessions == Bearer!Spec

\* No request waits for ever at the lock: no handler keeps it, on any path.
EveryRequestEnds ==
  \A r \in Request : pc[r] # "idle" ~> pc[r] = "idle"

\* web.py:561 "Start answering before the planner can send anything": an agent
\* is set to work only in a session whose calls are being answered.
AnsweredBeforeAsked ==
  [][\A s \in Session : work[s] = "idle" /\ work'[s] = "running" => s \in runners]_vars

\* web.py:732 "there is no half-sent state where a file exists but no turn
\* quotes it".
NoHalfSentState == ~stray
=============================================================================
