-------------------------------- MODULE Page --------------------------------
(***************************************************************************)
(* The planner's page (static/index.html) against the server and the       *)
(* event relay.  Every function of the page runs between two awaits; each  *)
(* answer comes back on its own, in any order.  The server is one variable *)
(* here, _active: module Sessions has its handlers await by await, in this *)
(* module the locked ones change it in one step (creating in two).         *)
(*                                                                         *)
(* Other tabs and restarts change _active behind the page's back.          *)
(***************************************************************************)
EXTENDS Relay, FiniteSets, SequencesExt

CONSTANTS
  Output,        \* files an agent may write
  File,          \* files a planner may drag in
  MaxFiles,      \* files per message, MAX_ATTACHMENTS
  Call,          \* slots for the page's own requests in flight
  MaxAttempts,   \* retries of the output poll, 4
  MaxMoves       \* bound on what planner, agents and faults do together

ASSUME PageAssumption ==
  /\ Output \cap Nat = {}
  /\ {MaxFiles, MaxAttempts, MaxMoves} \subseteq Nat

VARIABLES
  server,      \* the server's _active
  life,        \* platform: "absent", "live" or "archived"
  indexed,     \* platform: the outputs listed for each session
  active,      \* the page's active: "the one messages reach"
  viewing,     \* the session whose transcript is on screen
  running,     \* whether the page takes the agent to be at work
  enabled,     \* whether the input box is
  transcript,  \* what is drawn: entries [of, what], what an event or an output
  since,       \* how much of it was there when the connection was made
  shown,       \* shownFiles
  polls,       \* output polls in flight, in the order they were started
  tray,        \* pending
  calls,       \* the page's requests in flight
  moved,       \* history: _active changed since the page last learnt it
  settled,     \* history: the controls were refreshed since the view changed
  spare        \* what is left of MaxMoves

screen   == <<active, viewing, running, enabled, settled>>
drawing  == <<transcript, since, shown, polls>>
quiet    == <<relay, indexed, screen, drawing>>
vars     == <<quiet, server, life, tray, calls, moved, spare>>

SessionOrNone == Session \cup {NoSession}

(* A request of the page.  fresh: the server's _active is still what it    *)
(* was when the request was served or, for a message, when the page last   *)
(* learnt it before the message was written.  source: where a message's    *)
(* files come from: the tray itself, a copy of it (kept) once the page has *)
(* put another array in its place, or nowhere (a choice button).           *)
Free ==
  [op |-> "none", place |-> "free", of |-> NoSession, fresh |-> FALSE,
   source |-> "none", kept |-> <<>>, body |-> <<>>, touched |-> FALSE]

Request(op, s) == [Free EXCEPT !.op = op, !.place = "sent", !.of = s]

Loading(c) == [d \in Call |-> IF d = c THEN Request("load", NoSession) ELSE Free]

At(c, op, place) == calls[c].op = op /\ calls[c].place = place

Spend == spare > 0 /\ spare' = spare - 1

Init ==
  /\ life \in [Session -> {"absent", "live", "archived"}]
  /\ RelayInit({s \in Session : life[s] # "absent"})
  /\ server \in {s \in Session : life[s] = "live"} \cup {NoSession}
  /\ indexed = [s \in Session |-> {}]
  /\ active = NoSession
  /\ viewing = NoSession
  /\ running = FALSE
  /\ enabled = FALSE
  /\ settled = TRUE
  /\ transcript = <<>>
  /\ since = 0
  /\ shown = {}
  /\ polls = <<>>
  /\ tray = <<>>
  /\ \E c \in Call : calls = Loading(c)
  /\ moved = FALSE
  /\ spare = MaxMoves

-----------------------------------------------------------------------------
(* Pieces of the page's functions.                                         *)

\* `pending = []`: a message being built goes on with the array it began with.
ClearedTray(cs) ==
  [c \in Call |-> IF cs[c].source = "tray"
                    THEN [cs[c] EXCEPT !.source = "kept", !.kept = tray] ELSE cs[c]]

\* Mutant: any active session opens the input box.
OpensAnyhow(a, v) == a # NoSession

OpensInput(a, v) == a # NoSession /\ v = a

Messageable == OpensInput(active, viewing)

\* refreshControls.
RefreshControls(cs) ==
  /\ enabled' = OpensInput(active', viewing')
  /\ settled' = TRUE
  /\ IF enabled' THEN UNCHANGED tray /\ calls' = cs
                 ELSE tray' = <<>> /\ calls' = ClearedTray(cs)

\* follow: the old stream closed, a clean screen, a new stream.
Follow(s) ==
  /\ running' = FALSE
  /\ shown' = {}
  /\ transcript' = <<>>
  /\ since' = 0
  /\ conn' = Asked(s)
  /\ UNCHANGED <<log, published, polls>>

-----------------------------------------------------------------------------
(* The planner.                                                            *)

\* The page is loaded again: what the old one had asked for is answered to
\* nobody.
Reload(c) ==
  /\ Spend
  /\ calls' = Loading(c)
  /\ active' = NoSession
  /\ viewing' = NoSession
  /\ running' = FALSE
  /\ enabled' = FALSE
  /\ settled' = TRUE
  /\ transcript' = <<>>
  /\ since' = 0
  /\ shown' = {}
  /\ polls' = <<>>
  /\ tray' = <<>>
  /\ conn' = Closed
  /\ moved' = FALSE
  /\ UNCHANGED <<log, published, server, life, indexed>>

Click(c, request) ==
  /\ Spend
  /\ calls[c] = Free
  /\ calls' = [calls EXCEPT ![c] = request]
  /\ UNCHANGED <<quiet, server, life, tray, moved>>

\* The New button is disabled while a creation is in flight.
NewSession(c) ==
  /\ \A d \in Call : calls[d].op # "new"
  /\ Click(c, Request("new", NoSession))

\* A session in the sidebar not shown there as archived: the list may be old.
SelectSession(c, s) ==
  /\ life[s] # "absent"
  /\ Click(c, Request("activate", s))

\* An archived one is only looked at; then the list is read again.
SelectArchived(c, s) ==
  /\ life[s] = "archived"
  /\ Spend
  /\ calls[c] = Free
  /\ calls' = [calls EXCEPT ![c] = [Request("list", s) EXCEPT !.place = "listing"]]
  /\ viewing' = s
  /\ settled' = FALSE
  /\ Follow(s)
  /\ UNCHANGED <<server, life, indexed, active, enabled, tray, moved>>

EndSession(c) ==
  /\ enabled
  /\ active # NoSession
  /\ Click(c, Request("stop", NoSession))

\* The Enter key; the Send button while it is not Stop.  What the page takes
\* for granted is that the session on screen is the one messages reach.
SendMessage(c) ==
  /\ enabled
  /\ Click(c, [Request("message", viewing) EXCEPT
                 !.place = "collect", !.source = "tray", !.fresh = settled /\ ~moved])

\* A choice button of the newest message sends its text, whatever is on screen.
SendChoice(c) ==
  /\ \E n \in DOMAIN transcript : transcript[n].what \notin Output
  /\ Click(c, [Request("message", viewing) EXCEPT !.fresh = settled /\ ~moved /\ Messageable])

Touched(cs) ==
  [c \in Call |-> IF cs[c].op = "message" THEN [cs[c] EXCEPT !.touched = TRUE] ELSE cs[c]]

ChangeTray(files) ==
  /\ Spend
  /\ tray' = files
  /\ calls' = Touched(calls)
  /\ UNCHANGED <<quiet, server, life, moved>>

AttachFile(f) ==
  /\ Messageable
  /\ Len(tray) < MaxFiles
  /\ f \notin Range(tray)
  /\ ChangeTray(Append(tray, f))

RemoveFile(i) == ChangeTray(RemoveAt(tray, i))

-----------------------------------------------------------------------------
(* sendMessage goes through its files one await at a time, on the array    *)
(* they came from, and then posts.                                         *)

Source(c) ==
  CASE calls[c].source = "tray" -> tray
    [] calls[c].source = "kept" -> calls[c].kept
    [] OTHER -> <<>>

Collect(c) ==
  /\ At(c, "message", "collect")
  /\ LET next == Len(calls[c].body) + 1
     IN calls' = IF next <= Len(Source(c))
                   THEN [calls EXCEPT ![c].body = Append(@, Source(c)[next])]
                   ELSE [calls EXCEPT ![c].place = "sent"]
  /\ UNCHANGED <<quiet, server, life, tray, moved, spare>>

-----------------------------------------------------------------------------
(* The server.                                                             *)

\* What everybody knew of _active is old from now on.
Outdated(cs) == [c \in Call |-> [cs[c] EXCEPT !.fresh = FALSE]]

\* Call c sets _active to s, and its answer is on its way, or lost.
Serve(c, s, answer) ==
  /\ server' = s
  /\ IF s = server
       THEN calls' = [calls EXCEPT ![c] = answer] /\ UNCHANGED moved
       ELSE calls' = [Outdated(calls) EXCEPT ![c] = answer] /\ moved' = TRUE

Answer(c, s) == [calls[c] EXCEPT !.place = "ok", !.of = s, !.fresh = TRUE]

Refusal(c) == [calls[c] EXCEPT !.place = "refused", !.fresh = FALSE]

Unlocked == \A d \in Call : ~At(d, "new", "creating")

\* The request or its answer is lost on the way, or a photo cannot be shrunk.
Lose(c) ==
  /\ calls[c].place \in {"sent", "collect", "checked", "ok"}
  /\ Spend
  /\ calls' = [calls EXCEPT ![c] = Refusal(c)]
  /\ UNCHANGED <<quiet, tray, server, life, moved>>

ServeLoad(c) ==
  /\ At(c, "load", "sent")
  /\ Serve(c, server, Answer(c, server))
  /\ UNCHANGED <<quiet, tray, life, spare>>

ServeActivate(c) ==
  /\ At(c, "activate", "sent")
  /\ Unlocked
  /\ Serve(c, calls[c].of, Answer(c, calls[c].of))
  /\ UNCHANGED <<quiet, tray, life, spare>>

\* new_session lets go of the session it had before it has another.
ServeNewBegin(c) ==
  /\ At(c, "new", "sent")
  /\ Unlocked
  /\ Serve(c, NoSession, [calls[c] EXCEPT !.place = "creating"])
  /\ UNCHANGED <<quiet, tray, life, spare>>

ServeNewCreate(c) ==
  /\ At(c, "new", "creating")
  /\ \E s \in Session :
       /\ life[s] = "absent"
       /\ life' = [life EXCEPT ![s] = "live"]
       /\ Serve(c, s, Answer(c, s))
  /\ UNCHANGED <<quiet, tray, spare>>

ServeNewFail(c) ==
  /\ At(c, "new", "creating")
  /\ calls' = [calls EXCEPT ![c] = Refusal(c)]
  /\ UNCHANGED <<quiet, tray, server, life, moved, spare>>

\* With nothing active, 409.  A refused archive is no refusal of the stop.
ServeStop(c) ==
  /\ At(c, "stop", "sent")
  /\ IF server = NoSession
       THEN calls' = [calls EXCEPT ![c] = Refusal(c)] /\ UNCHANGED <<server, life, moved>>
       ELSE /\ Unlocked
            /\ Serve(c, NoSession, Answer(c, server))
            /\ \/ life' = [life EXCEPT ![server] = "archived"]
               \/ UNCHANGED life
  /\ UNCHANGED <<quiet, tray, spare>>

\* The send goes to what _active is now; the platform may refuse it.
Send(c) ==
  \/ server # NoSession /\ life[server] = "live" /\ calls' = [calls EXCEPT ![c].place = "ok"]
  \/ calls' = [calls EXCEPT ![c] = Refusal(c)]

\* message looks at _active and, with files, uploads and looks again.
CheckMessage(c) ==
  /\ At(c, "message", "sent")
  /\ CASE server = NoSession -> calls' = [calls EXCEPT ![c] = Refusal(c)]
       [] server # NoSession /\ calls[c].body # <<>> ->
            calls' = [calls EXCEPT ![c].place = "checked"]
       [] OTHER -> Send(c)
  /\ UNCHANGED <<quiet, tray, server, life, moved, spare>>

DeliverMessage(c) ==
  /\ At(c, "message", "checked")
  /\ Send(c)
  /\ UNCHANGED <<quiet, tray, server, life, moved, spare>>

\* Another tab switches or stops, or the server is restarted.
Elsewhere ==
  /\ Spend
  /\ Unlocked
  /\ server' \in ({s \in Session : life[s] = "live"} \cup {NoSession}) \ {server}
  /\ calls' = Outdated(calls)
  /\ moved' = TRUE
  /\ UNCHANGED <<quiet, tray, life>>

-----------------------------------------------------------------------------
(* The answers.                                                            *)

\* What the page does next in the functions that end with a new list.
ThenList(c) == calls' = [calls EXCEPT ![c].place = "listing"]

Over(c) == [calls EXCEPT ![c] = Free]

\* A session is taken for the active one and shown.
TakeUp(c) ==
  /\ active' = calls[c].of
  /\ viewing' = calls[c].of
  /\ settled' = FALSE
  /\ moved' = ~calls[c].fresh
  /\ Follow(calls[c].of)
  /\ UNCHANGED enabled

OpenAnswered(c) ==
  /\ calls[c].op \in {"activate", "new", "load"}
  /\ calls[c].place = "ok"
  /\ calls[c].of # NoSession
  /\ TakeUp(c)
  /\ ThenList(c)
  /\ UNCHANGED <<server, life, indexed, tray, spare>>

LoadedNone(c) ==
  /\ At(c, "load", "ok")
  /\ calls[c].of = NoSession
  /\ ThenList(c)
  /\ UNCHANGED <<quiet, server, life, tray, moved, spare>>

\* An error is drawn and the page stays as it is.
OpenRefused(c) ==
  /\ calls[c].op \in {"activate", "new", "load"}
  /\ calls[c].place = "refused"
  /\ calls' = Over(c)
  /\ UNCHANGED <<quiet, server, life, tray, moved, spare>>

\* Well or badly, the page has no active session any more.
StopAnswered(c) ==
  /\ calls[c].op = "stop"
  /\ calls[c].place \in {"ok", "refused"}
  /\ active' = NoSession
  /\ running' = FALSE
  /\ settled' = FALSE
  /\ ThenList(c)
  /\ UNCHANGED <<relay, server, life, indexed, viewing, enabled, drawing, tray, moved, spare>>

\* listSessions ends, and the controls are refreshed; a list that fails leaves
\* them as they were.
Listed(c) ==
  /\ calls[c].place = "listing"
  /\ UNCHANGED <<relay, server, life, indexed, active, viewing, running, drawing, moved>>
  /\ \/ RefreshControls(Over(c)) /\ UNCHANGED spare
     \/ /\ Spend
        /\ calls' = Over(c)
        /\ UNCHANGED <<enabled, settled, tray>>

\* Mutant: the tray is emptied whatever the answer.
EmptyTrayAnyway(c) == calls[c].source # "none"

\* Only an accepted message takes its files out of the tray.
EmptiesTray(c) == calls[c].source # "none" /\ calls[c].place = "ok"

MessageAnswered(c) ==
  /\ calls[c].op = "message"
  /\ calls[c].place \in {"ok", "refused"}
  /\ enabled' = Messageable
  /\ settled' = TRUE
  /\ IF EmptiesTray(c) \/ ~Messageable
       THEN tray' = <<>> /\ calls' = ClearedTray(Over(c))
       ELSE UNCHANGED tray /\ calls' = Over(c)
  /\ UNCHANGED <<relay, server, life, indexed, active, viewing, running, drawing, moved, spare>>

-----------------------------------------------------------------------------
(* The events as they arrive, and the outputs.                             *)

Entry(what) == [of |-> conn.of, what |-> what]

\* Mutant: a turn parked on a tool call counts as over.
WorkingOnlyRunning(k) == k = "running"

Working(k) == k \in {"running", "waits"}

\* render: a status sets the flag, looks for outputs once the turn is over, and
\* refreshes the controls; everything else is drawn.
Draw ==
  LET i == conn.at + 1
      k == Upstream[i]
  IN /\ Advance
     /\ UNCHANGED <<server, life, indexed, active, viewing, since, shown, moved, spare>>
     /\ CASE ~HandedOn(i) ->
                UNCHANGED <<running, enabled, settled, transcript, polls, tray, calls>>
          [] HandedOn(i) /\ k \in Status ->
                /\ running' = Working(k)
                /\ polls' = IF k = "rests" THEN Append(polls, [of |-> viewing, tries |-> 0])
                                          ELSE polls
                /\ RefreshControls(calls)
                /\ UNCHANGED transcript
          [] OTHER ->
                /\ transcript' = Append(transcript, Entry(i))
                /\ UNCHANGED <<running, enabled, settled, polls, tray, calls>>

Without(j) == RemoveAt(polls, j)

\* Mutants: the ids drawn are not looked up; one retry too many.
EveryOutput(j) == SetToSeq(indexed[polls[j].of])
MayRetryOnce(j) == polls[j].tries <= MaxAttempts /\ viewing = polls[j].of

NewOutputs(j) == SetToSeq(indexed[polls[j].of] \ shown)

MayRetry(j) == polls[j].tries < MaxAttempts /\ viewing = polls[j].of

\* The listing of the files has come: what is new is claimed and drawn at once,
\* whatever is on screen by now; with nothing new the poll sleeps or gives up.
ShowOutputs(j) ==
  /\ polls[j].of # NoSession
  /\ LET fresh == NewOutputs(j)
     IN IF fresh # <<>>
          THEN /\ shown' = shown \cup Range(fresh)
               /\ transcript' = transcript \o
                    [n \in DOMAIN fresh |-> [of |-> polls[j].of, what |-> fresh[n]]]
               /\ polls' = Without(j)
          ELSE /\ UNCHANGED <<shown, transcript>>
               /\ polls' = IF MayRetry(j)
                            THEN [polls EXCEPT ![j] = [of |-> NoSession, tries |-> @.tries + 1]]
                            ELSE Without(j)
  /\ UNCHANGED <<relay, server, life, indexed, screen, since, tray, calls, moved, spare>>

\* The timer fires: the next attempt is about the session on screen then.
AskAgain(j) ==
  /\ polls[j].of = NoSession
  /\ polls' = IF viewing = NoSession THEN Without(j) ELSE [polls EXCEPT ![j].of = viewing]
  /\ UNCHANGED <<relay, server, life, indexed, screen, transcript, since, shown, tray, calls,
                 moved, spare>>

PollFails(j) ==
  /\ polls[j].of # NoSession
  /\ Spend
  /\ polls' = Without(j)
  /\ UNCHANGED <<relay, server, life, indexed, screen, transcript, since, shown, tray, calls,
                 moved>>

StreamLost ==
  /\ Spend
  /\ Reconnect
  /\ since' = Len(transcript)
  /\ UNCHANGED <<server, life, indexed, screen, transcript, shown, polls, tray, calls, moved>>

-----------------------------------------------------------------------------
(* The platform, and the whole.                                            *)

NotPage == UNCHANGED <<server, life, screen, drawing, tray, calls, moved>>

AgentActs(s) ==
  /\ life[s] = "live"
  /\ Spend
  /\ \/ (\E k \in Kind : Emit(s, k)) /\ UNCHANGED indexed
     \/ /\ \E f \in Output :
             /\ \A t \in Session : f \notin indexed[t]
             /\ indexed' = [indexed EXCEPT ![s] = @ \cup {f}]
        /\ UNCHANGED relay
  /\ NotPage

StreamPublishes(s) == Publish(s) /\ NotPage /\ UNCHANGED <<indexed, spare>>

RelayLists == ListHistory /\ NotPage /\ UNCHANGED <<indexed, spare>>

RelayOpens == OpenStream /\ NotPage /\ UNCHANGED <<indexed, spare>>

Planner(c) ==
  \/ Reload(c) \/ NewSession(c) \/ EndSession(c) \/ SendMessage(c) \/ SendChoice(c)
  \/ \E s \in Session : SelectSession(c, s) \/ SelectArchived(c, s)

Server(c) ==
  \/ ServeLoad(c) \/ ServeActivate(c) \/ ServeStop(c)
  \/ ServeNewBegin(c) \/ ServeNewCreate(c) \/ ServeNewFail(c)
  \/ CheckMessage(c) \/ DeliverMessage(c) \/ Lose(c)

Answers(c) ==
  \/ OpenAnswered(c) \/ LoadedNone(c) \/ OpenRefused(c) \/ StopAnswered(c)
  \/ Listed(c) \/ MessageAnswered(c) \/ Collect(c)

Next ==
  \/ \E c \in Call : Planner(c) \/ Server(c) \/ Answers(c)
  \/ \E f \in File : AttachFile(f)
  \/ \E i \in DOMAIN tray : RemoveFile(i)
  \/ Elsewhere
  \/ Draw \/ RelayLists \/ RelayOpens \/ StreamLost
  \/ \E j \in DOMAIN polls : ShowOutputs(j) \/ AskAgain(j) \/ PollFails(j)
  \/ \E s \in Session : AgentActs(s) \/ StreamPublishes(s)

Spec == Init /\ [][Next]_vars

-----------------------------------------------------------------------------
(* Properties.                                                             *)

Places == {"free", "sent", "creating", "collect", "checked", "ok", "refused", "listing"}

TypeOK ==
  /\ RelayTypeOK
  /\ server \in SessionOrNone
  /\ life \in [Session -> {"absent", "live", "archived"}]
  /\ indexed \in [Session -> SUBSET Output]
  /\ active \in SessionOrNone
  /\ viewing \in SessionOrNone
  /\ {running, enabled, settled, moved} \subseteq BOOLEAN
  /\ transcript \in Seq([of : Session, what : Nat \cup Output])
  /\ since \in 0..Len(transcript)
  /\ shown \subseteq Output
  /\ polls \in Seq([of : SessionOrNone, tries : 0..MaxAttempts])
  /\ tray \in Seq(File)
  /\ calls \in [Call -> [op : {"none", "load", "list", "new", "activate", "stop", "message"},
                         place : Places, of : SessionOrNone, fresh : BOOLEAN,
                         source : {"none", "tray", "kept"}, kept : Seq(File),
                         body : Seq(File), touched : BOOLEAN]]
  /\ spare \in Nat

\* index.html:197 "can only send to the active session", with other tabs,
\* restarts, lost answers and answers out of order: while _active is as the page
\* last learnt it and its controls have been refreshed, an open input box means
\* that the server's active session is the one on screen; and a message written
\* then reaches the session it was written under for as long as _active is not
\* moved, however many uploads are between (web.py:735, 748).
MessagesOnCourse ==
  /\ enabled /\ settled /\ ~moved => viewing # NoSession /\ server = viewing
  /\ \A c \in Call :
       calls[c].op = "message" /\ calls[c].fresh /\ calls[c].place # "free"
         => server = calls[c].of

\* A planner's files leave the tray only with a message that was accepted with
\* them (index.html:650-666): on a refusal they all stay, and nothing is cleared
\* that the accepted message did not carry, unless the planner attached or
\* removed a file, or left the session, while it was being sent.
FilesLeaveWithTheirMessage ==
  [][\A c \in Call :
       calls[c].op = "message" /\ ~calls[c].touched /\ calls'[c].place = "free" /\ Messageable'
         => \/ tray' = tray
            \/ calls[c].place = "ok" /\ Range(tray) \subseteq Range(calls[c].body)]_vars

\* index.html:446 "Claim the ids synchronously": polls started by every idle
\* event of a replay run at the same time, and yet no output is drawn twice, nor
\* after a reconnect.
OutputsDrawnOnce ==
  \A m, n \in DOMAIN transcript :
    transcript[m].what \in Output /\ transcript[m].what = transcript[n].what => m = n

\* web.py:630 "Replay what the session has already produced, then follow it
\* live": what a connection has drawn is exactly what there was to draw among the
\* events it has passed, in order and each once, and all of it of the session on
\* screen.  Once it is caught up, what it has missed is in Gap and nowhere else.
Drawn == {n \in since + 1 .. Len(transcript) : transcript[n].what \notin Output}

SaidIn(events) == {i \in events : Upstream[i] = "said"}

ReplayThenFollow ==
  /\ conn.of = viewing
  /\ \A n \in Drawn : transcript[n].of = viewing
  /\ \A m, n \in Drawn : m < n => transcript[m].what < transcript[n].what
  /\ {transcript[n].what : n \in Drawn} = SaidIn(Passed)
  /\ CaughtUp => SaidIn(DOMAIN Upstream) = SaidIn(Passed) \cup SaidIn(Gap \cap DOMAIN Upstream)

\* Send is Stop only while the agent works: a page that is caught up takes it to
\* be at work exactly when the session's last status says so, through replays of
\* old turns, overlaps and reconnects, unless a status fell in the gap.
LastStatus(s) ==
  LET marks == {i \in DOMAIN log[s] : log[s][i] \in Status}
  IN IF marks = {} THEN "rests" ELSE log[s][CHOOSE i \in marks : \A j \in marks : j <= i]

ButtonAgrees ==
  /\ conn.of = viewing /\ Messageable
  /\ CaughtUp
  /\ \A i \in Gap : Upstream[i] \notin Status
  => running = (LastStatus(viewing) \in {"running", "waits"})
=============================================================================
