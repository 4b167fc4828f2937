-------------------------------- MODULE Relay --------------------------------
(***************************************************************************)
(* One browser connection to the events of one session (web.py, events):   *)
(* the relay lists what the session has produced, hands it on, and only    *)
(* then opens the live stream, skipping there what the list already had.   *)
(* The list is cut at HistoryLimit; the stream "carries no history".       *)
(*                                                                         *)
(* The platform appends a session's events to its log.  The stream hands   *)
(* an event out when it is published, which may be later than the list     *)
(* shows it.                                                               *)
(***************************************************************************)
EXTENDS Integers, Sequences

CONSTANTS
  Session,        \* session ids
  NoSession,      \* None, null
  HistoryLimit,   \* the limit of the history list, 200
  Past            \* what sessions may have produced before the page is loaded

(* What an event means to a page: something to draw, sandbox chatter that  *)
(* _render drops, the agent at work, parked on a tool call, or at rest.    *)
Kind == {"said", "chatter", "running", "waits", "rests"}

Status == {"running", "waits", "rests"}

ASSUME RelayAssumption ==
  /\ NoSession \notin Session
  /\ HistoryLimit \in Nat
  /\ Past \subseteq Seq(Kind)

VARIABLES
  log,        \* platform: the events of each session, in order
  published,  \* platform: how many of them its stream has handed out
  conn        \* the page's connection and how far the relay has got on it

relay == <<log, published, conn>>

Closed == [of |-> NoSession, phase |-> "closed", listed |-> 0, opened |-> 0, at |-> 0]

Asked(s) == [Closed EXCEPT !.of = s, !.phase = "asked"]

\* Sessions the list shows may have run before, quietly by now.
RelayInit(existing) ==
  /\ \E past \in Past : log = [s \in Session |-> IF s \in existing THEN past ELSE <<>>]
  /\ published = [s \in Session |-> Len(log[s])]
  /\ conn = Closed

Upstream == log[conn.of]

Lesser(a, b) == IF a < b THEN a ELSE b

-----------------------------------------------------------------------------
(* The platform.                                                           *)

Emit(s, k) ==
  /\ log' = [log EXCEPT ![s] = Append(@, k)]
  /\ UNCHANGED <<published, conn>>

Publish(s) ==
  /\ published[s] < Len(log[s])
  /\ published' = [published EXCEPT ![s] = @ + 1]
  /\ UNCHANGED <<log, conn>>

-----------------------------------------------------------------------------
(* The relay.                                                              *)

\* events.list: the oldest events first, at most HistoryLimit of them.
ListHistory ==
  /\ conn.phase = "asked"
  /\ conn' = [conn EXCEPT !.phase = "history", !.listed = Lesser(Len(Upstream), HistoryLimit)]
  /\ UNCHANGED <<log, published>>

\* The history has been handed on; the stream starts at what is published now.
OpenStream ==
  /\ conn.phase = "history"
  /\ conn.at = conn.listed
  /\ conn' = [conn EXCEPT !.phase = "live", !.opened = published[conn.of],
                          !.at = published[conn.of]]
  /\ UNCHANGED <<log, published>>

\* The next event of the list, or of the stream.
Ready ==
  \/ conn.phase = "history" /\ conn.at < conn.listed
  \/ conn.phase = "live" /\ conn.at < published[conn.of]

\* Mutant: no ids are kept of what the list had.
NeverSeen(i) == FALSE

\* The ids of the list are remembered, and skipped in the stream.
Seen(i) == conn.phase = "live" /\ i <= conn.listed

HandedOn(i) == ~Seen(i) /\ Upstream[i] # "chatter"

Advance ==
  /\ Ready
  /\ conn' = [conn EXCEPT !.at = @ + 1]
  /\ UNCHANGED <<log, published>>

\* The connection breaks; the browser's EventSource asks again by itself, and
\* a new relay starts from the beginning.
Reconnect ==
  /\ conn.phase \in {"asked", "history", "live"}
  /\ conn' = Asked(conn.of)
  /\ UNCHANGED <<log, published>>

-----------------------------------------------------------------------------
(* What a connection has to show for itself.                               *)

\* Events between the list and the opening of the stream, or past the limit of
\* the list: this connection never has them.
Gap == conn.listed + 1 .. conn.opened

\* The events the connection has passed so far, in neither case those in Gap.
Passed ==
  IF conn.phase = "live"
    THEN 1..conn.listed \cup conn.opened + 1 .. conn.at
    ELSE 1..conn.at

CaughtUp == conn.phase = "live" /\ conn.at = Len(Upstream)

RelayTypeOK ==
  /\ log \in [Session -> Seq(Kind)]
  /\ published \in [Session -> Nat]
  /\ \A s \in Session : published[s] <= Len(log[s])
  /\ conn \in [of : Session \cup {NoSession},
               phase : {"closed", "asked", "history", "live"},
               listed : 0..HistoryLimit, opened : Nat, at : Nat]
  /\ conn.phase = "closed" <=> conn.of = NoSession
=============================================================================
