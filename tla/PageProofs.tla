----------------------------- MODULE PageProofs -----------------------------
(***************************************************************************)
(* For any number of sessions, requests in flight, files and faults: the   *)
(* page's messages keep to their session, its files to their message, an   *)
(* output is drawn once, the button follows the agent, and the transcript  *)
(* is what the session said.                                              *)
(***************************************************************************)
EXTENDS Page, FiniteSetTheorems, TLAPS

-----------------------------------------------------------------------------
(* The inductive invariant.                                                *)

Requests == [op : {"none", "load", "list", "new", "activate", "stop", "message"},
             place : Places, of : SessionOrNone, fresh : BOOLEAN,
             source : {"none", "tray", "kept"}, kept : Seq(File),
             body : Seq(File), touched : BOOLEAN]

\* A slot is free when nothing is asked.
Idle(cs) == \A c \in Call : cs[c].op = "none" <=> cs[c].place = "free"

\* What is asked or answered on good knowledge agrees with the server.
Informed(cs) ==
  \A c \in Call : cs[c].fresh =>
    /\ cs[c].op \in {"load", "activate", "new"} /\ cs[c].place = "ok" => server = cs[c].of
    /\ cs[c].op = "message" /\ cs[c].place # "free" => server = cs[c].of

Slots == Idle(calls)

\* The listings are finite.
Listings == \A s \in Session : IsFiniteSet(indexed[s])

\* Which knowledge of _active is good: the page's own while nothing has moved
\* behind it, an answer's and a message's while they are fresh.
OnCourse ==
  /\ active # NoSession /\ ~moved => server = active
  /\ enabled /\ settled => Messageable
  /\ Informed(calls)

\* A message nobody interfered with has taken up a beginning of the tray, and
\* all of it once it is posted; one whose tray is gone finds the new one empty.
Carried ==
  \A c \in Call : calls[c].op = "message" /\ ~calls[c].touched =>
    /\ calls[c].source = "tray" =>
         /\ Len(calls[c].body) <= Len(tray)
         /\ \A i \in 1..Len(calls[c].body) : calls[c].body[i] = tray[i]
         /\ calls[c].place \in {"sent", "checked", "ok"} => Len(calls[c].body) = Len(tray)
    /\ calls[c].source = "kept" => tray = <<>>

\* Whatever output is on screen is claimed.
Claimed ==
  /\ \A n \in DOMAIN transcript : transcript[n].what \in Output => transcript[n].what \in shown
  /\ OutputsDrawnOnce

IInv == TypeOK /\ Slots /\ Listings /\ OnCourse /\ Carried /\ Claimed

-----------------------------------------------------------------------------
(* Sequences.                                                              *)

\* Taking a place out of a sequence leaves a sequence over the same set.
LEMMA RemovedIsSeq ==
  ASSUME NEW S, NEW q \in Seq(S), NEW j \in DOMAIN q
  PROVE  RemoveAt(q, j) \in Seq(S)
<1>1. SubSeq(q, 1, j - 1) \in Seq(S) /\ SubSeq(q, j + 1, Len(q)) \in Seq(S)
  OBVIOUS
<1> QED
  BY <1>1 DEF RemoveAt

\* A finite set is listed without repetition.
LEMMA ListedOnce ==
  ASSUME NEW S, IsFiniteSet(S)
  PROVE  /\ SetToSeq(S) \in Seq(S)
         /\ \A i, j \in DOMAIN SetToSeq(S) : SetToSeq(S)[i] = SetToSeq(S)[j] => i = j
<1>1. Cardinality(S) \in Nat /\ ExistsBijection(1..Cardinality(S), S)
  BY FS_CardinalityType
<1>2. \E f \in [1..Cardinality(S) -> S] : IsInjective(f)
  BY <1>1 DEF ExistsBijection, Bijection, Injection
<1>3. SetToSeq(S) \in [1..Cardinality(S) -> S] /\ IsInjective(SetToSeq(S))
  BY <1>2 DEF SetToSeq
<1> QED
  BY <1>1, <1>3 DEF IsInjective

-----------------------------------------------------------------------------
(* Type correctness.                                                       *)

LEMMA FreeIsRequest ==
  /\ Free \in Requests
  /\ \A o \in {"none", "load", "list", "new", "activate", "stop", "message"}, s \in SessionOrNone :
       Request(o, s) \in Requests
<1>1. Free \in Requests
  <2>1. <<>> \in Seq(File)
    OBVIOUS
  <2> QED BY <2>1 DEF Free, Requests, Places, SessionOrNone
<1> QED
  BY <1>1 DEF Request, Requests, Places

LEMMA InitHolds == Init => IInv
<1> SUFFICES ASSUME Init PROVE IInv
  OBVIOUS
<1> USE PageAssumption, RelayAssumption
<1>1. RelayTypeOK
  BY DEF Init, RelayInit, RelayTypeOK, Closed
<1>2. calls \in [Call -> Requests]
  <2>1. Request("load", NoSession) \in Requests /\ Free \in Requests
    BY FreeIsRequest DEF SessionOrNone
  <2>2. PICK c \in Call : calls = Loading(c)
    BY DEF Init
  <2> QED BY <2>1, <2>2 DEF Loading
<1>3. TypeOK
  <2>1. transcript \in Seq([of : Session, what : Nat \cup Output]) /\ since \in 0..Len(transcript)
    BY DEF Init
  <2>2. polls \in Seq([of : SessionOrNone, tries : 0..MaxAttempts]) /\ tray \in Seq(File)
    BY DEF Init
  <2> QED BY <1>1, <1>2, <2>1, <2>2 DEF Init, TypeOK, Requests, SessionOrNone
<1>4. Slots /\ Listings
  BY FS_EmptySet DEF Init, Slots, Idle, Listings, Loading, Request, Free
<1>5. OnCourse
  BY DEF Init, OnCourse, Informed, Loading, Request, Free
<1>6. Carried
  BY DEF Init, Carried, Loading, Request, Free
<1>7. Claimed
  BY DEF Init, Claimed, OutputsDrawnOnce
<1> QED
  BY <1>3, <1>4, <1>5, <1>6, <1>7 DEF IInv

-----------------------------------------------------------------------------
(* What the steps do to the slots.                                         *)

LEMMA ServerIsQuiet ==
  ASSUME NEW c \in Call, Server(c)
  PROVE  UNCHANGED <<quiet, tray>>
  BY DEF Server, ServeLoad, ServeActivate, ServeStop, ServeNewBegin, ServeNewCreate, ServeNewFail,
         CheckMessage, DeliverMessage, Lose

\* A new request of the planner's.
Asking(c) ==
  \/ NewSession(c) \/ EndSession(c) \/ SendMessage(c) \/ SendChoice(c)
  \/ \E s \in Session : SelectSession(c, s)

LEMMA AskingIs ==
  ASSUME IInv, NEW c \in Call, Asking(c)
  PROVE  /\ UNCHANGED <<quiet, server, life, tray, moved>>
         /\ spare' \in Nat
         /\ calls[c] = Free
         /\ \E r \in Requests :
              /\ calls' = [calls EXCEPT ![c] = r]
              /\ r.place \in {"sent", "collect"}
              /\ \/ r.op \in {"new", "activate", "stop"}
                 \/ /\ r.op = "message"
                    /\ r.of = viewing
                    /\ r.fresh => settled /\ ~moved /\ (enabled \/ Messageable)
                    /\ r.body = <<>>
                    /\ r.source = "none" \/ (r.source = "tray" /\ r.place = "collect")
<1>1. \A r : Click(c, r) => /\ UNCHANGED <<quiet, server, life, tray, moved>>
                            /\ spare' \in Nat
                            /\ calls[c] = Free
                            /\ calls' = [calls EXCEPT ![c] = r]
  BY DEF Click, Spend, IInv, TypeOK
<1>2. CASE NewSession(c)
  <2>1. Request("new", NoSession) \in Requests /\ Request("new", NoSession).place = "sent"
        /\ Request("new", NoSession).op = "new"
    BY FreeIsRequest DEF SessionOrNone, Request, Free
  <2> QED BY <1>1, <1>2, <2>1 DEF NewSession
<1>3. CASE EndSession(c)
  <2>1. Request("stop", NoSession) \in Requests /\ Request("stop", NoSession).place = "sent"
        /\ Request("stop", NoSession).op = "stop"
    BY FreeIsRequest DEF SessionOrNone, Request, Free
  <2> QED BY <1>1, <1>3, <2>1 DEF EndSession
<1>4. CASE \E s \in Session : SelectSession(c, s)
  <2>1. PICK s \in Session : SelectSession(c, s)
    BY <1>4
  <2>2. Request("activate", s) \in Requests /\ Request("activate", s).place = "sent"
        /\ Request("activate", s).op = "activate"
    BY FreeIsRequest DEF SessionOrNone, Request, Free
  <2> QED BY <1>1, <2>1, <2>2 DEF SelectSession
<1>5. CASE SendMessage(c)
  <2> DEFINE r == [Request("message", viewing) EXCEPT
                     !.place = "collect", !.source = "tray", !.fresh = settled /\ ~moved]
  <2>1. Request("message", viewing) \in Requests /\ Request("message", viewing).op = "message"
        /\ Request("message", viewing).of = viewing /\ Request("message", viewing).body = <<>>
    BY FreeIsRequest DEF IInv, TypeOK, Request, Free
  <2>2. /\ r \in Requests /\ r.place = "collect" /\ r.op = "message" /\ r.of = viewing
        /\ r.fresh = (settled /\ ~moved) /\ r.body = <<>> /\ r.source = "tray"
    BY <2>1 DEF Requests, Places, IInv, TypeOK
  <2>3. enabled /\ Click(c, r)
    BY <1>5 DEF SendMessage
  <2> QED BY <1>1, <2>2, <2>3
<1>6. CASE SendChoice(c)
  <2> DEFINE r == [Request("message", viewing) EXCEPT !.fresh = settled /\ ~moved /\ Messageable]
  <2>1. Request("message", viewing) \in Requests /\ Request("message", viewing).op = "message"
        /\ Request("message", viewing).of = viewing /\ Request("message", viewing).body = <<>>
        /\ Request("message", viewing).place = "sent" /\ Request("message", viewing).source = "none"
    BY FreeIsRequest DEF IInv, TypeOK, Request, Free
  <2>2. /\ r \in Requests /\ r.place = "sent" /\ r.op = "message" /\ r.of = viewing
        /\ (r.fresh => settled /\ ~moved /\ Messageable) /\ r.body = <<>> /\ r.source = "none"
    BY <2>1 DEF Requests, Places, IInv, TypeOK, Messageable, OpensInput
  <2>3. Click(c, r)
    BY <1>6 DEF SendChoice
  <2> HIDE DEF r
  <2>4. /\ UNCHANGED <<quiet, server, life, tray, moved>>
        /\ spare' \in Nat
        /\ calls[c] = Free
        /\ calls' = [calls EXCEPT ![c] = r]
    BY <1>1, <2>3
  <2>5. r.fresh => settled /\ ~moved /\ (enabled \/ Messageable)
    BY <2>2
  <2> QED BY <2>2, <2>4, <2>5
<1> QED
  BY <1>2, <1>3, <1>4, <1>5, <1>6 DEF Asking

\* A request that sets _active.
LEMMA Serving ==
  ASSUME IInv, NEW c \in Call, NEW s \in SessionOrNone, NEW answer \in Requests,
         Serve(c, s, answer)
  PROVE  /\ server' = s /\ server' \in SessionOrNone
         /\ moved' \in BOOLEAN /\ (moved \/ server' # server => moved')
         /\ calls' \in [Call -> Requests]
         /\ calls'[c] = answer
         /\ \A d \in Call \ {c} :
              /\ calls'[d] = calls[d] \/ calls'[d] = [calls[d] EXCEPT !.fresh = FALSE]
              /\ calls'[d].fresh => server' = server
<1>1. calls \in [Call -> Requests] /\ moved \in BOOLEAN
  BY DEF IInv, TypeOK, Requests
<1>2. Outdated(calls) \in [Call -> Requests]
  BY <1>1 DEF Outdated, Requests
<1>3. CASE s = server
  BY <1>1, <1>3 DEF Serve
<1>4. CASE s # server
  <2>1. calls' = [Outdated(calls) EXCEPT ![c] = answer] /\ moved' = TRUE /\ server' = s
    BY <1>4 DEF Serve
  <2>2. \A d \in Call : Outdated(calls)[d] = [calls[d] EXCEPT !.fresh = FALSE]
                        /\ ~Outdated(calls)[d].fresh
    BY <1>1 DEF Outdated, Requests
  <2> QED BY <1>1, <1>2, <2>1, <2>2
<1> QED
  BY <1>3, <1>4

-----------------------------------------------------------------------------
(* Type correctness of the relay's part.                                   *)

\* Taking up a connection, giving it up, and everything the relay does keep the
\* relay's types.
LEMMA RelayKeepsTypes ==
  ASSUME RelayTypeOK,
         \/ UNCHANGED relay
         \/ conn' = Closed /\ UNCHANGED <<log, published>>
         \/ \E s \in Session : conn' = Asked(s) /\ UNCHANGED <<log, published>>
         \/ ListHistory \/ OpenStream \/ Advance \/ Reconnect
         \/ \E s \in Session : Publish(s) \/ \E k \in Kind : Emit(s, k)
  PROVE  RelayTypeOK'
<1> USE RelayAssumption DEF RelayTypeOK
<1> DEFINE Conns == [of : Session \cup {NoSession}, phase : {"closed", "asked", "history", "live"},
                     listed : 0..HistoryLimit, opened : Nat, at : Nat]
<1>0. /\ Closed \in Conns /\ Closed.of = NoSession /\ Closed.phase = "closed"
      /\ \A s \in Session :
           Asked(s) \in Conns /\ Asked(s).of = s /\ Asked(s).phase = "asked"
  <2>1. Closed \in Conns /\ Closed.of = NoSession /\ Closed.phase = "closed"
    BY DEF Closed
  <2> QED BY <2>1 DEF Asked
<1>1. CASE UNCHANGED relay
  BY <1>1 DEF relay
<1>2. CASE conn' = Closed /\ UNCHANGED <<log, published>>
  BY <1>0, <1>2
<1>3. CASE \E s \in Session : conn' = Asked(s) /\ UNCHANGED <<log, published>>
  <2>1. PICK s \in Session : conn' = Asked(s) /\ UNCHANGED <<log, published>>
    BY <1>3
  <2>2. conn' \in Conns /\ conn'.phase = "asked" /\ conn'.of = s
    BY <1>0, <2>1
  <2> QED BY <2>1, <2>2
<1>4. CASE ListHistory
  <2>1. Len(log[conn.of]) \in Nat
    BY <1>4 DEF ListHistory
  <2>2. Lesser(Len(Upstream), HistoryLimit) \in 0..HistoryLimit
    BY <2>1 DEF Lesser, Upstream
  <2> QED BY <1>4, <2>2 DEF ListHistory
<1>5. CASE OpenStream
  <2>1. conn.of \in Session
    BY <1>5 DEF OpenStream
  <2> QED BY <1>5, <2>1 DEF OpenStream
<1>6. CASE Advance
  BY <1>6 DEF Advance
<1>7. CASE Reconnect
  <2>1. conn' = Asked(conn.of) /\ conn.of \in Session
    BY <1>7 DEF Reconnect
  <2>2. conn' \in Conns /\ conn'.phase = "asked" /\ conn'.of = conn.of
    BY <1>0, <2>1
  <2> QED BY <1>7, <2>1, <2>2 DEF Reconnect
<1>8. CASE \E s \in Session : Publish(s) \/ \E k \in Kind : Emit(s, k)
  <2>1. PICK s \in Session : Publish(s) \/ \E k \in Kind : Emit(s, k)
    BY <1>8
  <2>2. CASE Publish(s)
    <3>1. published[s] + 1 <= Len(log[s])
      BY <2>2 DEF Publish
    <3> QED BY <2>2, <3>1 DEF Publish
  <2>3. CASE \E k \in Kind : Emit(s, k)
    <3>1. PICK k \in Kind : Emit(s, k)
      BY <2>3
    <3>2. Append(log[s], k) \in Seq(Kind) /\ Len(Append(log[s], k)) = Len(log[s]) + 1
      OBVIOUS
    <3>3. log' \in [Session -> Seq(Kind)] /\ UNCHANGED <<published, conn>>
      BY <3>1, <3>2 DEF Emit
    <3>4. \A t \in Session : published'[t] <= Len(log'[t])
      BY <3>1, <3>2, <3>3 DEF Emit
    <3> QED BY <3>3, <3>4
  <2> QED BY <2>1, <2>2, <2>3
<1> QED
  BY <1>1, <1>2, <1>3, <1>4, <1>5, <1>6, <1>7, <1>8

LEMMA RelayTypesKept ==
  ASSUME RelayTypeOK, calls \in [Call -> Requests], Next
  PROVE  RelayTypeOK'
<1>1. ASSUME NEW c \in Call, Planner(c) PROVE RelayTypeOK'
  <2>1. CASE Reload(c)
    BY <2>1, RelayKeepsTypes DEF Reload
  <2>2. CASE NewSession(c) \/ EndSession(c) \/ SendMessage(c) \/ SendChoice(c)
             \/ \E s \in Session : SelectSession(c, s)
    BY <2>2, RelayKeepsTypes DEF NewSession, EndSession, SendMessage, SendChoice, SelectSession,
         Click, quiet
  <2>3. CASE \E s \in Session : SelectArchived(c, s)
    BY <2>3, RelayKeepsTypes DEF SelectArchived, Follow
  <2> QED BY <1>1, <2>1, <2>2, <2>3 DEF Planner
<1>2. ASSUME NEW c \in Call, Server(c) PROVE RelayTypeOK'
  BY <1>2, ServerIsQuiet, RelayKeepsTypes DEF quiet
<1>3. ASSUME NEW c \in Call, Answers(c) PROVE RelayTypeOK'
  <2>1. CASE OpenAnswered(c)
    <3>1. calls[c].of \in Session
      BY <2>1 DEF OpenAnswered, SessionOrNone, Requests
    <3> QED BY <2>1, <3>1, RelayKeepsTypes DEF OpenAnswered, TakeUp, Follow
  <2>2. CASE LoadedNone(c) \/ OpenRefused(c) \/ Collect(c)
    BY <2>2, RelayKeepsTypes DEF LoadedNone, OpenRefused, Collect, quiet
  <2>3. CASE StopAnswered(c) \/ Listed(c) \/ MessageAnswered(c)
    BY <2>3, RelayKeepsTypes DEF StopAnswered, Listed, MessageAnswered
  <2> QED BY <1>3, <2>1, <2>2, <2>3 DEF Answers
<1>4. CASE Draw
  BY <1>4, RelayKeepsTypes DEF Draw
<1>5. CASE RelayLists \/ RelayOpens \/ StreamLost
  BY <1>5, RelayKeepsTypes DEF RelayLists, RelayOpens, StreamLost
<1>6. CASE \E s \in Session : AgentActs(s) \/ StreamPublishes(s)
  BY <1>6, RelayKeepsTypes DEF AgentActs, StreamPublishes
<1>7. CASE \E f \in File : AttachFile(f)
  BY <1>7, RelayKeepsTypes DEF AttachFile, ChangeTray, quiet
<1>8. CASE \E i \in DOMAIN tray : RemoveFile(i)
  BY <1>8, RelayKeepsTypes DEF RemoveFile, ChangeTray, quiet
<1>9. CASE Elsewhere
  BY <1>9, RelayKeepsTypes DEF Elsewhere, quiet
<1>10. CASE \E j \in DOMAIN polls : ShowOutputs(j) \/ AskAgain(j) \/ PollFails(j)
  BY <1>10, RelayKeepsTypes DEF ShowOutputs, AskAgain, PollFails
<1> QED
  BY <1>1, <1>2, <1>3, <1>4, <1>5, <1>6, <1>7, <1>8, <1>9, <1>10 DEF Next

-----------------------------------------------------------------------------
(* Clearing the tray and refreshing the controls.                          *)

\* A cleared tray changes nothing of a request but where its files come from.
LEMMA ClearedIs ==
  ASSUME NEW cs \in [Call -> Requests], tray \in Seq(File)
  PROVE  /\ ClearedTray(cs) \in [Call -> Requests]
         /\ \A c \in Call :
              LET r == ClearedTray(cs)[c]
              IN  /\ r.op = cs[c].op /\ r.place = cs[c].place /\ r.of = cs[c].of
                  /\ r.fresh = cs[c].fresh /\ r.touched = cs[c].touched /\ r.body = cs[c].body
                  /\ r.source # "tray"
<1> SUFFICES ASSUME NEW c \in Call
             PROVE  LET r == ClearedTray(cs)[c]
                    IN  /\ r \in Requests
                        /\ r.op = cs[c].op /\ r.place = cs[c].place /\ r.of = cs[c].of
                        /\ r.fresh = cs[c].fresh /\ r.touched = cs[c].touched /\ r.body = cs[c].body
                        /\ r.source # "tray"
  BY DEF ClearedTray
<1>1. cs[c] \in Requests
  OBVIOUS
<1>2. CASE cs[c].source = "tray"
  <2>1. ClearedTray(cs)[c] = [cs[c] EXCEPT !.source = "kept", !.kept = tray]
    BY <1>2 DEF ClearedTray
  <2> QED BY <1>1, <2>1 DEF Requests
<1>3. CASE cs[c].source # "tray"
  BY <1>1, <1>3 DEF ClearedTray
<1> QED
  BY <1>2, <1>3

LEMMA Refreshed ==
  ASSUME NEW cs \in [Call -> Requests], tray \in Seq(File), RefreshControls(cs)
  PROVE  /\ enabled' \in BOOLEAN /\ settled' = TRUE
         /\ enabled' => OpensInput(active', viewing')
         /\ tray' \in Seq(File) /\ calls' \in [Call -> Requests]
         /\ \/ tray' = tray /\ calls' = cs
            \/ tray' = <<>> /\ calls' = ClearedTray(cs)
<1>1. ClearedTray(cs) \in [Call -> Requests]
  BY ClearedIs
<1>2. enabled' = OpensInput(active', viewing') /\ enabled' \in BOOLEAN /\ settled' = TRUE
  BY DEF RefreshControls, OpensInput
<1>3. CASE enabled'
  BY <1>2, <1>3 DEF RefreshControls
<1>4. CASE ~enabled'
  BY <1>1, <1>2, <1>4 DEF RefreshControls
<1> QED
  BY <1>2, <1>3, <1>4

-----------------------------------------------------------------------------
(* Type correctness of the page's part.                                    *)

PageTypes ==
  /\ server \in SessionOrNone
  /\ life \in [Session -> {"absent", "live", "archived"}]
  /\ indexed \in [Session -> SUBSET Output]
  /\ active \in SessionOrNone
  /\ viewing \in SessionOrNone
  /\ {running, enabled, settled, moved} \subseteq BOOLEAN
  /\ transcript \in Seq([of : Session, what : Nat \cup Output])
  /\ since \in 0..Len(transcript)
  /\ shown \subseteq Output
  /\ polls \in Seq([of : SessionOrNone, tries : 0..MaxAttempts])
  /\ tray \in Seq(File)
  /\ calls \in [Call -> Requests]
  /\ spare \in Nat

Entries == [of : Session, what : Nat \cup Output]
Polls   == [of : SessionOrNone, tries : 0..MaxAttempts]

LEMMA SequencesTyped ==
  ASSUME PageTypes
  PROVE  /\ transcript \in Seq(Entries) /\ since \in 0..Len(transcript)
         /\ polls \in Seq(Polls)
  BY DEF PageTypes, Entries, Polls

LEMMA PollIs ==
  ASSUME PageTypes, NEW j \in DOMAIN polls
  PROVE  polls[j] \in Polls /\ polls[j].of \in SessionOrNone /\ polls[j].tries \in 0..MaxAttempts
<1>1. polls[j] \in Polls
  BY SequencesTyped
<1> QED
  BY <1>1 DEF Polls

LEMMA TypesSplit == TypeOK <=> RelayTypeOK /\ PageTypes
  BY DEF TypeOK, PageTypes, Requests

LEMMA PlannerTypes ==
  ASSUME IInv, NEW c \in Call, Planner(c)
  PROVE  PageTypes'
<1>1. PageTypes
  BY TypesSplit DEF IInv
<1>2. CASE Reload(c)
  <2>1. calls' \in [Call -> Requests]
    <3>1. Request("load", NoSession) \in Requests /\ Free \in Requests
      BY FreeIsRequest DEF SessionOrNone
    <3> QED BY <1>2, <3>1 DEF Reload, Loading
  <2>2. /\ transcript' = <<>> /\ polls' = <<>> /\ tray' = <<>> /\ since' = 0 /\ spare' \in Nat
        /\ server' = server /\ life' = life /\ indexed' = indexed
        /\ active' = NoSession /\ viewing' = NoSession /\ shown' = {}
        /\ running' = FALSE /\ enabled' = FALSE /\ settled' = TRUE /\ moved' = FALSE
    BY <1>1, <1>2 DEF Reload, Spend, PageTypes
  <2>3. /\ transcript' \in Seq([of : Session, what : Nat \cup Output])
        /\ since' \in 0..Len(transcript')
        /\ polls' \in Seq([of : SessionOrNone, tries : 0..MaxAttempts]) /\ tray' \in Seq(File)
    BY <2>2
  <2> QED BY <1>1, <2>1, <2>2, <2>3 DEF PageTypes, SessionOrNone
<1>3. CASE Asking(c)
  <2>1. UNCHANGED <<quiet, server, life, tray, moved>> /\ spare' \in Nat
    BY <1>3, AskingIs
  <2>2. calls' \in [Call -> Requests]
    BY <1>1, <1>3, AskingIs DEF PageTypes
  <2> QED BY <1>1, <2>1, <2>2 DEF PageTypes, quiet, screen, drawing
<1>4. CASE \E s \in Session : SelectArchived(c, s)
  <2>1. PICK s \in Session : SelectArchived(c, s)
    BY <1>4
  <2>2. Request("list", s) \in Requests
    BY FreeIsRequest DEF SessionOrNone
  <2>3. calls' \in [Call -> Requests]
    BY <1>1, <2>1, <2>2 DEF SelectArchived, PageTypes, Requests, Places
  <2>4. /\ transcript' = <<>> /\ polls' = polls /\ since' = 0 /\ spare' \in Nat
        /\ viewing' = s /\ settled' = FALSE /\ running' = FALSE /\ shown' = {}
        /\ UNCHANGED <<server, life, indexed, active, enabled, tray, moved>>
    BY <1>1, <2>1 DEF SelectArchived, Follow, Spend, PageTypes
  <2>5. /\ transcript' \in Seq([of : Session, what : Nat \cup Output])
        /\ since' \in 0..Len(transcript')
    BY <2>4
  <2> QED BY <1>1, <2>3, <2>4, <2>5 DEF PageTypes, SessionOrNone
<1> QED
  BY <1>2, <1>3, <1>4 DEF Planner, Asking

LEMMA ServerTypes ==
  ASSUME IInv, NEW c \in Call, Server(c)
  PROVE  /\ PageTypes'
         /\ calls'[c] \in Requests /\ calls'[c].op = calls[c].op
<1>1. PageTypes /\ calls[c] \in Requests
  BY TypesSplit DEF IInv, PageTypes
<1>2. UNCHANGED <<quiet, tray>>
  BY ServerIsQuiet
<1>3. SUFFICES /\ server' \in SessionOrNone /\ life' \in [Session -> {"absent", "live", "archived"}]
               /\ moved' \in BOOLEAN /\ spare' \in Nat
               /\ calls' \in [Call -> Requests] /\ calls'[c].op = calls[c].op
  BY <1>1, <1>2 DEF PageTypes, quiet, screen, drawing
<1>4. /\ Refusal(c) \in Requests /\ Refusal(c).op = calls[c].op
      /\ \A s \in SessionOrNone : Answer(c, s) \in Requests /\ Answer(c, s).op = calls[c].op
      /\ \A p \in Places : [calls[c] EXCEPT !.place = p] \in Requests
                           /\ [calls[c] EXCEPT !.place = p].op = calls[c].op
  BY <1>1 DEF Refusal, Answer, Requests, Places
<1>5. server \in SessionOrNone /\ calls[c].of \in SessionOrNone /\ NoSession \in SessionOrNone
      /\ \A s \in Session : s \in SessionOrNone
  BY <1>1 DEF PageTypes, SessionOrNone, Requests
<1>6. CASE ServeLoad(c)
  BY <1>1, <1>4, <1>5, <1>6, Serving DEF ServeLoad, PageTypes
<1>7. CASE ServeActivate(c)
  BY <1>1, <1>4, <1>5, <1>7, Serving DEF ServeActivate, PageTypes
<1>8. CASE ServeNewBegin(c)
  <2>1. [calls[c] EXCEPT !.place = "creating"] \in Requests
        /\ [calls[c] EXCEPT !.place = "creating"].op = calls[c].op
    BY <1>4 DEF Places
  <2>2. Serve(c, NoSession, [calls[c] EXCEPT !.place = "creating"])
        /\ UNCHANGED <<quiet, tray, life, spare>>
    BY <1>8 DEF ServeNewBegin
  <2> QED BY <1>1, <1>5, <2>1, <2>2, Serving DEF PageTypes
<1>9. CASE ServeNewCreate(c)
  <2>1. PICK s \in Session : life' = [life EXCEPT ![s] = "live"] /\ Serve(c, s, Answer(c, s))
    BY <1>9 DEF ServeNewCreate
  <2>2. spare' = spare
    BY <1>9 DEF ServeNewCreate
  <2> QED BY <1>1, <1>4, <1>5, <2>1, <2>2, Serving DEF PageTypes
<1>10. CASE ServeNewFail(c)
  BY <1>1, <1>4, <1>10 DEF ServeNewFail, PageTypes
<1>11. CASE ServeStop(c)
  <2>1. CASE server = NoSession
    BY <1>1, <1>4, <1>11, <2>1 DEF ServeStop, PageTypes
  <2>2. CASE server # NoSession
    <3>1. Serve(c, NoSession, Answer(c, server)) /\ spare' = spare
      BY <1>11, <2>2 DEF ServeStop
    <3>2. life' \in [Session -> {"absent", "live", "archived"}]
      BY <1>1, <1>11, <2>2 DEF ServeStop, PageTypes
    <3> QED BY <1>1, <1>4, <1>5, <3>1, <3>2, Serving DEF PageTypes
  <2> QED BY <2>1, <2>2
<1>12. CASE CheckMessage(c) \/ DeliverMessage(c)
  <2>1. \/ calls' = [calls EXCEPT ![c] = Refusal(c)]
        \/ calls' = [calls EXCEPT ![c].place = "checked"]
        \/ calls' = [calls EXCEPT ![c].place = "ok"]
    BY <1>12 DEF CheckMessage, DeliverMessage, Send
  <2>2. UNCHANGED <<server, life, moved, spare>>
    BY <1>12 DEF CheckMessage, DeliverMessage
  <2> QED BY <1>1, <1>4, <2>1, <2>2 DEF PageTypes, Places
<1>13. CASE Lose(c)
  BY <1>1, <1>4, <1>13 DEF Lose, Spend, PageTypes
<1> QED
  BY <1>6, <1>7, <1>8, <1>9, <1>10, <1>11, <1>12, <1>13 DEF Server

\* An answer is dealt with.
LEMMA OverIs ==
  ASSUME calls \in [Call -> Requests], NEW c \in Call
  PROVE  /\ Over(c) \in [Call -> Requests]
         /\ [calls EXCEPT ![c].place = "listing"] \in [Call -> Requests]
<1>1. Free \in Requests
  BY FreeIsRequest
<1> QED
  BY <1>1 DEF Over, Requests, Places

LEMMA AnswersTypes ==
  ASSUME IInv, NEW c \in Call, Answers(c)
  PROVE  PageTypes'
<1>1. PageTypes /\ calls \in [Call -> Requests] /\ calls[c] \in Requests /\ tray \in Seq(File)
  BY TypesSplit DEF IInv, PageTypes
<1>2. Over(c) \in [Call -> Requests] /\ [calls EXCEPT ![c].place = "listing"] \in [Call -> Requests]
  BY <1>1, OverIs
<1>3. CASE OpenAnswered(c)
  <2>1. /\ calls' = [calls EXCEPT ![c].place = "listing"]
        /\ transcript' = <<>> /\ polls' = polls /\ since' = 0 /\ shown' = {}
        /\ viewing' = calls[c].of /\ active' = calls[c].of /\ settled' = FALSE /\ running' = FALSE
        /\ moved' = ~calls[c].fresh
        /\ UNCHANGED <<server, life, indexed, enabled, tray, spare>>
    BY <1>3 DEF OpenAnswered, TakeUp, Follow, ThenList
  <2>2. /\ transcript' \in Seq([of : Session, what : Nat \cup Output])
        /\ since' \in 0..Len(transcript')
    BY <2>1
  <2>3. calls[c].of \in SessionOrNone /\ moved' \in BOOLEAN
    BY <1>1, <2>1 DEF Requests
  <2> QED BY <1>1, <1>2, <2>1, <2>2, <2>3 DEF PageTypes
<1>4. CASE LoadedNone(c)
  BY <1>1, <1>2, <1>4 DEF LoadedNone, ThenList, PageTypes, quiet, screen, drawing
<1>5. CASE OpenRefused(c)
  BY <1>1, <1>2, <1>5 DEF OpenRefused, PageTypes, quiet, screen, drawing
<1>6. CASE StopAnswered(c)
  BY <1>1, <1>2, <1>6 DEF StopAnswered, ThenList, PageTypes, drawing, SessionOrNone
<1>7. CASE Listed(c)
  <2>1. UNCHANGED <<server, life, indexed, active, viewing, running, drawing, moved>>
    BY <1>7 DEF Listed
  <2>2. /\ enabled' \in BOOLEAN /\ settled' \in BOOLEAN /\ tray' \in Seq(File)
        /\ calls' \in [Call -> Requests] /\ spare' \in Nat
    <3>1. CASE RefreshControls(Over(c)) /\ UNCHANGED spare
      BY <1>1, <1>2, <3>1, Refreshed DEF PageTypes
    <3>2. CASE Spend /\ calls' = Over(c) /\ UNCHANGED <<enabled, settled, tray>>
      BY <1>1, <1>2, <3>2 DEF PageTypes, Spend
    <3> QED BY <1>7, <3>1, <3>2 DEF Listed
  <2> QED BY <1>1, <2>1, <2>2 DEF PageTypes, drawing
<1>8. CASE MessageAnswered(c)
  <2>1. UNCHANGED <<server, life, indexed, active, viewing, running, drawing, moved, spare>>
    BY <1>8 DEF MessageAnswered
  <2>2. enabled' \in BOOLEAN /\ settled' \in BOOLEAN
    BY <1>8 DEF MessageAnswered, Messageable, OpensInput
  <2>3. tray' \in Seq(File) /\ calls' \in [Call -> Requests]
    <3>1. CASE tray' = <<>> /\ calls' = ClearedTray(Over(c))
      BY <1>1, <1>2, <3>1, ClearedIs
    <3>2. CASE UNCHANGED tray /\ calls' = Over(c)
      BY <1>1, <1>2, <3>2
    <3> QED BY <1>8, <3>1, <3>2 DEF MessageAnswered
  <2> QED BY <1>1, <2>1, <2>2, <2>3 DEF PageTypes, drawing
<1>9. CASE Collect(c)
  <2> DEFINE next == Len(calls[c].body) + 1
  <2>1. calls' \in [Call -> Requests]
    <3>1. Source(c) \in Seq(File)
      BY <1>1 DEF Source, Requests
    <3> DEFINE more == Append(calls[c].body, Source(c)[next])
               longer == [calls[c] EXCEPT !.body = more]
               posted == [calls[c] EXCEPT !.place = "sent"]
    <3>2. calls' = IF next <= Len(Source(c)) THEN [calls EXCEPT ![c] = longer]
                                              ELSE [calls EXCEPT ![c] = posted]
      BY <1>9 DEF Collect
    <3>3. posted \in Requests
      BY <1>1 DEF Requests, Places
    <3>4. next <= Len(Source(c)) => longer \in Requests
      <4> SUFFICES ASSUME next <= Len(Source(c)) PROVE longer \in Requests
        OBVIOUS
      <4>1. calls[c].body \in Seq(File) /\ next \in 1..Len(Source(c))
        BY <1>1, <3>1 DEF Requests
      <4>2. more \in Seq(File)
        BY <3>1, <4>1
      <4> HIDE DEF more
      <4> QED BY <1>1, <4>2 DEF Requests
    <3> HIDE DEF longer, posted, next
    <3> QED BY <1>1, <3>2, <3>3, <3>4
  <2> QED BY <1>1, <1>9, <2>1 DEF Collect, PageTypes, quiet, screen, drawing
<1> QED
  BY <1>3, <1>4, <1>5, <1>6, <1>7, <1>8, <1>9 DEF Answers

LEMMA TrayTypes ==
  ASSUME IInv, NEW files \in Seq(File), ChangeTray(files)
  PROVE  PageTypes'
<1>1. PageTypes /\ calls \in [Call -> Requests]
  BY TypesSplit DEF IInv, PageTypes
<1>2. Touched(calls) \in [Call -> Requests]
  BY <1>1 DEF Touched, Requests
<1> QED
  BY <1>1, <1>2 DEF ChangeTray, Spend, PageTypes, quiet, screen, drawing

LEMMA DrawTypes ==
  ASSUME IInv, Draw
  PROVE  PageTypes'
<1> DEFINE i == conn.at + 1
<1>1. PageTypes /\ RelayTypeOK /\ calls \in [Call -> Requests] /\ tray \in Seq(File)
  BY TypesSplit DEF IInv, PageTypes
<1>2. UNCHANGED <<server, life, indexed, active, viewing, since, shown, moved, spare>>
  BY DEF Draw
<1>3. SUFFICES /\ running' \in BOOLEAN /\ enabled' \in BOOLEAN /\ settled' \in BOOLEAN
               /\ transcript' \in Seq(Entries) /\ Len(transcript') >= Len(transcript)
               /\ polls' \in Seq(Polls)
               /\ tray' \in Seq(File) /\ calls' \in [Call -> Requests]
  <2>1. since \in 0..Len(transcript) /\ transcript \in Seq(Entries)
    BY <1>1, SequencesTyped
  <2>2. since' \in 0..Len(transcript')
    BY <1>2, <1>3, <2>1
  <2> QED BY <1>1, <1>2, <1>3, <2>2 DEF PageTypes, Entries, Polls
<1>4. CASE UNCHANGED <<running, enabled, settled, transcript, polls, tray, calls>>
  BY <1>1, <1>4, SequencesTyped DEF PageTypes
<1>5. CASE /\ running' = Working(Upstream[i])
           /\ polls' = IF Upstream[i] = "rests" THEN Append(polls, [of |-> viewing, tries |-> 0])
                                                 ELSE polls
           /\ RefreshControls(calls)
           /\ UNCHANGED transcript
  <2>1. [of |-> viewing, tries |-> 0] \in Polls
    BY <1>1, PageAssumption DEF PageTypes, Polls
  <2>2. polls' \in Seq(Polls)
    BY <1>1, <1>5, <2>1, SequencesTyped
  <2>3. running' \in BOOLEAN
    BY <1>5 DEF Working
  <2>4. transcript' \in Seq(Entries) /\ Len(transcript') >= Len(transcript)
    BY <1>1, <1>5, SequencesTyped
  <2> QED BY <1>1, <1>5, <2>2, <2>3, <2>4, Refreshed
<1>6. CASE /\ transcript' = Append(transcript, Entry(i))
           /\ UNCHANGED <<running, enabled, settled, polls, tray, calls>>
  <2>1. conn.of \in Session /\ i \in Nat
    BY <1>1 DEF Draw, Advance, Ready, RelayTypeOK
  <2>2. Entry(i) \in Entries
    BY <2>1 DEF Entry, Entries
  <2>3. transcript' \in Seq(Entries) /\ Len(transcript') >= Len(transcript)
    BY <1>1, <1>6, <2>2, SequencesTyped
  <2> QED BY <1>1, <1>6, <2>3, SequencesTyped DEF PageTypes
<1> QED
  BY <1>4, <1>5, <1>6 DEF Draw

\* What a poll finds: outputs not claimed yet, each once.
LEMMA NewOutputsAre ==
  ASSUME IInv, NEW j \in DOMAIN polls, polls[j].of # NoSession
  PROVE  /\ polls[j].of \in Session
         /\ NewOutputs(j) \in Seq(Output)
         /\ \A n \in DOMAIN NewOutputs(j) : NewOutputs(j)[n] \notin shown
         /\ \A m, n \in DOMAIN NewOutputs(j) : NewOutputs(j)[m] = NewOutputs(j)[n] => m = n
<1> DEFINE S == indexed[polls[j].of] \ shown
<1>1. polls[j].of \in Session
  BY PollIs, TypesSplit DEF IInv, SessionOrNone
<1>2. IsFiniteSet(S) /\ S \subseteq Output
  <2>1. IsFiniteSet(indexed[polls[j].of]) /\ indexed[polls[j].of] \subseteq Output
    BY <1>1 DEF IInv, TypeOK, Listings
  <2> QED BY <2>1, FS_Subset
<1> HIDE DEF S
<1>3. /\ SetToSeq(S) \in Seq(S)
      /\ \A m, n \in DOMAIN SetToSeq(S) : SetToSeq(S)[m] = SetToSeq(S)[n] => m = n
  BY <1>2, ListedOnce
<1>4. SetToSeq(S) \in Seq(Output) /\ \A n \in DOMAIN SetToSeq(S) : SetToSeq(S)[n] \in S
  BY <1>2, <1>3
<1>5. NewOutputs(j) = SetToSeq(S)
  BY DEF NewOutputs, S
<1> QED
  BY <1>1, <1>3, <1>4, <1>5 DEF S

LEMMA PollTypes ==
  ASSUME IInv, NEW j \in DOMAIN polls, ShowOutputs(j) \/ AskAgain(j) \/ PollFails(j)
  PROVE  PageTypes'
<1>1. PageTypes /\ polls \in Seq(Polls) /\ polls[j] \in Polls /\ transcript \in Seq(Entries)
      /\ since \in 0..Len(transcript)
  BY TypesSplit, SequencesTyped, PollIs DEF IInv
<1>2. Without(j) \in Seq(Polls)
  BY <1>1, RemovedIsSeq DEF Without
<1>3. CASE AskAgain(j) \/ PollFails(j)
  <2>1. polls' \in Seq(Polls)
    <3>1. [polls[j] EXCEPT !.of = viewing] \in Polls
      BY <1>1 DEF PageTypes, Polls
    <3>2. [polls EXCEPT ![j] = [polls[j] EXCEPT !.of = viewing]] \in Seq(Polls)
      BY <1>1, <3>1
    <3> QED BY <1>2, <1>3, <3>2 DEF AskAgain, PollFails
  <2>2. UNCHANGED <<server, life, indexed, screen, transcript, since, shown, tray, calls, moved>>
        /\ spare' \in Nat
    BY <1>1, <1>3 DEF AskAgain, PollFails, Spend, PageTypes
  <2> QED BY <1>1, <2>1, <2>2 DEF PageTypes, screen, Polls
<1>4. CASE ShowOutputs(j)
  <2> DEFINE fresh == NewOutputs(j)
             drawn == [n \in DOMAIN fresh |-> [of |-> polls[j].of, what |-> fresh[n]]]
  <2>1. polls[j].of \in Session /\ fresh \in Seq(Output)
    BY <1>4, NewOutputsAre DEF ShowOutputs
  <2>2. UNCHANGED <<server, life, indexed, screen, since, tray, calls, moved, spare>>
    BY <1>4 DEF ShowOutputs
  <2>3. CASE fresh # <<>>
    <3>1. drawn \in Seq(Entries)
      <4>1. \A n \in DOMAIN fresh : [of |-> polls[j].of, what |-> fresh[n]] \in Entries
        BY <2>1 DEF Entries
      <4> HIDE DEF fresh
      <4> QED BY <2>1, <4>1
    <3>2. /\ transcript' = transcript \o drawn /\ polls' = Without(j)
          /\ shown' = shown \cup Range(fresh)
      BY <1>4, <2>3 DEF ShowOutputs
    <3>3. shown' \subseteq Output
      BY <1>1, <2>1, <3>2 DEF Range, PageTypes
    <3> HIDE DEF drawn
    <3>4. transcript' \in Seq(Entries) /\ since \in 0..Len(transcript')
      BY <1>1, <3>1, <3>2
    <3> QED BY <1>1, <1>2, <2>2, <3>2, <3>3, <3>4 DEF PageTypes, screen, Polls, Entries
  <2>4. CASE fresh = <<>>
    <3>1. MayRetry(j) =>
            [polls EXCEPT ![j] = [of |-> NoSession, tries |-> polls[j].tries + 1]] \in Seq(Polls)
      <4>1. polls[j].tries \in 0..MaxAttempts
        BY <1>1, PollIs
      <4>2. MayRetry(j) => [of |-> NoSession, tries |-> polls[j].tries + 1] \in Polls
        BY <4>1, PageAssumption DEF MayRetry, SessionOrNone, Polls
      <4> QED BY <1>1, <4>2
    <3>2. polls' = (IF MayRetry(j)
                     THEN [polls EXCEPT ![j] = [of |-> NoSession, tries |-> polls[j].tries + 1]]
                     ELSE Without(j))
          /\ UNCHANGED <<shown, transcript>>
      BY <1>4, <2>4 DEF ShowOutputs
    <3> QED BY <1>1, <1>2, <2>2, <3>1, <3>2 DEF PageTypes, screen, Polls
  <2> QED BY <2>3, <2>4
<1> QED
  BY <1>3, <1>4

LEMMA TypesKept ==
  ASSUME IInv, Next
  PROVE  TypeOK'
<1>1. RelayTypeOK'
  BY RelayTypesKept, TypesSplit DEF IInv, PageTypes
<1>2. PageTypes /\ tray \in Seq(File) /\ calls \in [Call -> Requests]
  BY TypesSplit DEF IInv, PageTypes
<1> SUFFICES PageTypes'
  BY <1>1 DEF TypeOK, PageTypes, Requests
<1>3. ASSUME NEW c \in Call, Planner(c) \/ Server(c) \/ Answers(c) PROVE PageTypes'
  BY <1>3, PlannerTypes, ServerTypes, AnswersTypes
<1>4. CASE \E f \in File : AttachFile(f)
  <2>1. PICK f \in File : ChangeTray(Append(tray, f))
    BY <1>4 DEF AttachFile
  <2>2. Append(tray, f) \in Seq(File)
    BY <1>2
  <2> QED BY <2>1, <2>2, TrayTypes
<1>5. CASE \E i \in DOMAIN tray : RemoveFile(i)
  <2>1. PICK i \in DOMAIN tray : ChangeTray(RemoveAt(tray, i))
    BY <1>5 DEF RemoveFile
  <2>2. RemoveAt(tray, i) \in Seq(File)
    BY <1>2, RemovedIsSeq
  <2> QED BY <2>1, <2>2, TrayTypes
<1>6. CASE Elsewhere
  <2>1. Outdated(calls) \in [Call -> Requests]
    BY <1>2 DEF Outdated, Requests
  <2>2. /\ server' \in SessionOrNone /\ calls' = Outdated(calls) /\ moved' = TRUE /\ spare' \in Nat
        /\ UNCHANGED <<quiet, tray, life>>
    BY <1>2, <1>6 DEF Elsewhere, Spend, SessionOrNone, PageTypes
  <2> QED BY <1>2, <2>1, <2>2 DEF PageTypes, quiet, screen, drawing
<1>7. CASE Draw
  BY <1>7, DrawTypes
<1>8. CASE RelayLists \/ RelayOpens
  BY <1>2, <1>8 DEF RelayLists, RelayOpens, NotPage, PageTypes, screen, drawing
<1>9. CASE StreamLost
  <2>1. /\ UNCHANGED <<server, life, indexed, screen, transcript, shown, polls, tray, calls, moved>>
        /\ since' = Len(transcript) /\ spare' \in Nat
    BY <1>2, <1>9 DEF StreamLost, Spend, PageTypes, Reconnect, relay
  <2>2. since' \in 0..Len(transcript')
    BY <1>2, <2>1, SequencesTyped
  <2> QED BY <1>2, <2>1, <2>2 DEF PageTypes, screen
<1>10. CASE \E j \in DOMAIN polls : ShowOutputs(j) \/ AskAgain(j) \/ PollFails(j)
  BY <1>10, PollTypes
<1>11. ASSUME NEW s \in Session, AgentActs(s) \/ StreamPublishes(s) PROVE PageTypes'
  <2>1. indexed' \in [Session -> SUBSET Output] /\ spare' \in Nat
    <3>1. spare' \in Nat
      BY <1>2, <1>11 DEF AgentActs, StreamPublishes, Spend, PageTypes
    <3>2. indexed \in [Session -> SUBSET Output]
      BY <1>2 DEF PageTypes
    <3>3. indexed' = indexed \/ \E f \in Output : indexed' = [indexed EXCEPT ![s] = @ \cup {f}]
      BY <1>11 DEF AgentActs, StreamPublishes
    <3>4. indexed' \in [Session -> SUBSET Output]
      BY <3>2, <3>3
    <3> QED BY <3>1, <3>4
  <2>2. NotPage
    BY <1>11 DEF AgentActs, StreamPublishes
  <2> QED BY <1>2, <2>1, <2>2 DEF NotPage, PageTypes, screen, drawing
<1> QED
  BY <1>3, <1>4, <1>5, <1>6, <1>7, <1>8, <1>9, <1>10, <1>11 DEF Next

-----------------------------------------------------------------------------
(* What the server does to the requests.                                   *)

\* The same request, as far as its files go.
SameFiles(r, q) ==
  /\ r.op = q.op /\ r.touched = q.touched /\ r.source = q.source /\ r.body = q.body

LEMMA ServerCalls ==
  ASSUME IInv, NEW c \in Call, Server(c)
  PROVE  /\ moved \/ server' # server => moved'
         /\ calls[c].place # "free" /\ calls'[c].place # "free"
         /\ SameFiles(calls'[c], calls[c])
         /\ calls[c].op = "message" =>
              /\ server' = server /\ calls'[c].of = calls[c].of
              /\ calls'[c].fresh => calls[c].fresh
              /\ \/ calls'[c].place \in {"checked", "ok"} /\ calls[c].place \in {"sent", "checked"}
                 \/ calls'[c].place = "refused"
         /\ calls[c].op \in {"load", "activate", "new"} /\ calls'[c].place = "ok" =>
              server' = calls'[c].of
         /\ \A d \in Call \ {c} :
              /\ SameFiles(calls'[d], calls[d])
              /\ calls'[d].place = calls[d].place /\ calls'[d].of = calls[d].of
              /\ calls'[d].fresh => calls[d].fresh /\ server' = server
<1>1. calls \in [Call -> Requests] /\ moved \in BOOLEAN /\ server \in SessionOrNone
      /\ NoSession \in SessionOrNone /\ calls[c].of \in SessionOrNone
  BY TypesSplit DEF IInv, PageTypes, SessionOrNone, Requests
<1> DEFINE others == \A d \in Call \ {c} :
              /\ SameFiles(calls'[d], calls[d])
              /\ calls'[d].place = calls[d].place /\ calls'[d].of = calls[d].of
              /\ calls'[d].fresh => calls[d].fresh /\ server' = server
\* What Serve leaves to be said of the request served.
<1>2. ASSUME NEW s \in SessionOrNone, NEW r \in Requests, Serve(c, s, r)
      PROVE  others /\ calls'[c] = r /\ server' = s /\ (moved \/ server' # server => moved')
  <2>1. /\ \A d \in Call \ {c} :
             /\ calls'[d] = calls[d] \/ calls'[d] = [calls[d] EXCEPT !.fresh = FALSE]
             /\ calls'[d].fresh => server' = server
        /\ calls'[c] = r /\ server' = s /\ (moved \/ server' # server => moved')
    BY <1>2, Serving
  <2>2. ASSUME NEW d \in Call \ {c}
        PROVE  /\ SameFiles(calls'[d], calls[d])
               /\ calls'[d].place = calls[d].place /\ calls'[d].of = calls[d].of
               /\ calls'[d].fresh => calls[d].fresh /\ server' = server
    <3>1. calls[d] \in Requests
      BY <1>1
    <3>2. CASE calls'[d] = calls[d]
      BY <2>1, <3>2 DEF SameFiles
    <3>3. CASE calls'[d] = [calls[d] EXCEPT !.fresh = FALSE]
      BY <3>1, <3>3 DEF SameFiles, Requests
    <3> QED BY <2>1, <3>2, <3>3
  <2> QED BY <2>1, <2>2
<1>3. ASSUME NEW r \in Requests, calls' = [calls EXCEPT ![c] = r], UNCHANGED <<server, moved>>
      PROVE  others /\ calls'[c] = r /\ (moved \/ server' # server => moved')
  BY <1>1, <1>3 DEF SameFiles
<1>4. /\ Refusal(c) \in Requests /\ Refusal(c).place = "refused" /\ Refusal(c).fresh = FALSE
      /\ Refusal(c).of = calls[c].of /\ SameFiles(Refusal(c), calls[c])
      /\ \A s \in SessionOrNone :
           /\ Answer(c, s) \in Requests /\ Answer(c, s).place = "ok" /\ Answer(c, s).of = s
           /\ SameFiles(Answer(c, s), calls[c])
      /\ \A p \in Places :
           /\ [calls[c] EXCEPT !.place = p] \in Requests
           /\ [calls[c] EXCEPT !.place = p].place = p
           /\ [calls[c] EXCEPT !.place = p].of = calls[c].of
           /\ [calls[c] EXCEPT !.place = p].fresh = calls[c].fresh
           /\ SameFiles([calls[c] EXCEPT !.place = p], calls[c])
  <2>1. calls[c] \in Requests
    BY <1>1
  <2>2. /\ Refusal(c) \in Requests /\ Refusal(c).place = "refused" /\ Refusal(c).fresh = FALSE
        /\ Refusal(c).of = calls[c].of /\ SameFiles(Refusal(c), calls[c])
    BY <2>1 DEF Refusal, Requests, Places, SameFiles
  <2>3. ASSUME NEW s \in SessionOrNone
        PROVE  /\ Answer(c, s) \in Requests /\ Answer(c, s).place = "ok" /\ Answer(c, s).of = s
               /\ SameFiles(Answer(c, s), calls[c])
    BY <2>1 DEF Answer, Requests, Places, SameFiles
  <2>4. ASSUME NEW p \in Places
        PROVE  /\ [calls[c] EXCEPT !.place = p] \in Requests
               /\ [calls[c] EXCEPT !.place = p].place = p
               /\ [calls[c] EXCEPT !.place = p].of = calls[c].of
               /\ [calls[c] EXCEPT !.place = p].fresh = calls[c].fresh
               /\ SameFiles([calls[c] EXCEPT !.place = p], calls[c])
    BY <2>1 DEF Requests, SameFiles
  <2> QED BY <2>2, <2>3, <2>4
<1> HIDE DEF others
<1>5. CASE ServeLoad(c)
  <2>1. Serve(c, server, Answer(c, server)) /\ calls[c].op = "load" /\ calls[c].place = "sent"
    BY <1>5 DEF ServeLoad, At
  <2> QED BY <1>1, <1>2, <1>4, <2>1 DEF others
<1>6. CASE ServeActivate(c)
  <2>1. Serve(c, calls[c].of, Answer(c, calls[c].of)) /\ calls[c].op = "activate"
        /\ calls[c].place = "sent"
    BY <1>6 DEF ServeActivate, At
  <2> QED BY <1>1, <1>2, <1>4, <2>1 DEF others
<1>7. CASE ServeNewBegin(c)
  <2>1. Serve(c, NoSession, [calls[c] EXCEPT !.place = "creating"]) /\ calls[c].op = "new"
        /\ calls[c].place = "sent" /\ "creating" \in Places
    BY <1>7 DEF ServeNewBegin, At, Places
  <2> QED BY <1>1, <1>2, <1>4, <2>1 DEF others
<1>8. CASE ServeNewCreate(c)
  <2>1. PICK s \in Session : Serve(c, s, Answer(c, s))
    BY <1>8 DEF ServeNewCreate
  <2>2. calls[c].op = "new" /\ calls[c].place = "creating" /\ s \in SessionOrNone
    BY <1>8 DEF ServeNewCreate, At, SessionOrNone
  <2> QED BY <1>1, <1>2, <1>4, <2>1, <2>2 DEF others
<1>9. CASE ServeStop(c)
  <2>1. calls[c].op = "stop" /\ calls[c].place = "sent"
    BY <1>9 DEF ServeStop, At
  <2>2. CASE server = NoSession
    <3>1. calls' = [calls EXCEPT ![c] = Refusal(c)] /\ UNCHANGED <<server, moved>>
      BY <1>9, <2>2 DEF ServeStop
    <3> QED BY <1>1, <1>3, <1>4, <2>1, <3>1 DEF others
  <2>3. CASE server # NoSession
    <3>1. Serve(c, NoSession, Answer(c, server))
      BY <1>9, <2>3 DEF ServeStop
    <3> QED BY <1>1, <1>2, <1>4, <2>1, <3>1 DEF others
  <2> QED BY <2>2, <2>3
<1>10. CASE ServeNewFail(c) \/ Lose(c)
  <2>1. calls' = [calls EXCEPT ![c] = Refusal(c)] /\ UNCHANGED <<server, moved>>
        /\ calls[c].place # "free"
    BY <1>10 DEF ServeNewFail, Lose, At
  <2> QED BY <1>1, <1>3, <1>4, <2>1 DEF others
<1>11. CASE CheckMessage(c) \/ DeliverMessage(c)
  <2>1. /\ calls[c].op = "message" /\ calls[c].place \in {"sent", "checked"}
        /\ UNCHANGED <<server, moved>>
    BY <1>11 DEF CheckMessage, DeliverMessage, At
  <2>2. \/ calls' = [calls EXCEPT ![c] = Refusal(c)]
        \/ calls' = [calls EXCEPT ![c] = [calls[c] EXCEPT !.place = "checked"]]
        \/ calls' = [calls EXCEPT ![c] = [calls[c] EXCEPT !.place = "ok"]]
    BY <1>11 DEF CheckMessage, DeliverMessage, Send
  <2>3. "checked" \in Places /\ "ok" \in Places
    BY DEF Places
  <2>4. CASE calls' = [calls EXCEPT ![c] = Refusal(c)]
    BY <1>1, <1>3, <1>4, <2>1, <2>4 DEF others
  <2>5. ASSUME NEW p \in {"checked", "ok"},
               calls' = [calls EXCEPT ![c] = [calls[c] EXCEPT !.place = p]]
        PROVE  /\ others /\ moved = moved' /\ server' = server /\ calls'[c].place = p
               /\ calls'[c].of = calls[c].of /\ calls'[c].fresh = calls[c].fresh
               /\ SameFiles(calls'[c], calls[c])
    <3> DEFINE r == [calls[c] EXCEPT !.place = p]
    <3>1. r \in Requests /\ r.place = p /\ r.of = calls[c].of /\ r.fresh = calls[c].fresh
          /\ SameFiles(r, calls[c])
      BY <1>4, <2>3, <2>5
    <3>2. calls' = [calls EXCEPT ![c] = r]
      BY <2>5
    <3> HIDE DEF r
    <3>3. others /\ calls'[c] = r
      BY <1>3, <2>1, <3>1, <3>2
    <3> QED BY <2>1, <3>1, <3>3
  <2> QED BY <2>1, <2>2, <2>4, <2>5 DEF others
<1> QED
  BY <1>5, <1>6, <1>7, <1>8, <1>9, <1>10, <1>11 DEF Server

-----------------------------------------------------------------------------
(* What the page and the server know of each other, and the files.         *)

Knowing == Slots /\ OnCourse /\ Carried

\* Steps that leave the requests and the controls alone keep all of it.
LEMMA UntouchedKnows ==
  ASSUME IInv, UNCHANGED <<server, screen, tray, calls, moved>>
  PROVE  Knowing'
  BY DEF IInv, Knowing, Slots, Idle, OnCourse, Informed, Carried, Messageable, OpensInput, screen

\* Emptying the tray leaves no message with an unfinished copy of it.
LEMMA ClearingKnows ==
  ASSUME NEW cs \in [Call -> Requests], tray \in Seq(File), Idle(cs), Informed(cs),
         server' = server, tray' = <<>>, calls' = ClearedTray(cs)
  PROVE  Slots' /\ Informed(calls)' /\ Carried'
<1>1. \A c \in Call :
        /\ calls'[c].op = cs[c].op /\ calls'[c].place = cs[c].place /\ calls'[c].of = cs[c].of
        /\ calls'[c].fresh = cs[c].fresh
        /\ calls'[c].source # "tray"
  BY ClearedIs
<1>2. Slots'
  BY <1>1 DEF Slots, Idle
<1>3. Informed(calls)'
  BY <1>1 DEF Informed
<1>4. Carried'
  BY <1>1 DEF Carried
<1> QED
  BY <1>2, <1>3, <1>4

\* A slot set free tells nothing.
LEMMA OverKnows ==
  ASSUME IInv, NEW c \in Call
  PROVE  /\ Over(c) \in [Call -> Requests] /\ Idle(Over(c)) /\ Informed(Over(c))
         /\ server' = server /\ tray' = tray /\ calls' = Over(c) =>
              Slots' /\ Informed(calls)' /\ Carried'
<1>1. calls \in [Call -> Requests]
  BY TypesSplit DEF IInv, PageTypes
<1>2. /\ Over(c) \in [Call -> Requests] /\ Over(c)[c] = Free
      /\ \A d \in Call \ {c} : Over(c)[d] = calls[d]
  BY <1>1, OverIs DEF Over
<1>3. Free.op = "none" /\ Free.place = "free" /\ Free.fresh = FALSE
  BY DEF Free
<1>4. Idle(Over(c))
  BY <1>2, <1>3 DEF IInv, Slots, Idle
<1>5. Informed(Over(c))
  BY <1>2, <1>3 DEF IInv, OnCourse, Informed
<1>6. ASSUME server' = server, tray' = tray, calls' = Over(c)
      PROVE  Slots' /\ Informed(calls)' /\ Carried'
  <2>1. Slots' /\ Informed(calls)'
    BY <1>4, <1>5, <1>6 DEF Slots, Idle, Informed
  <2>2. Carried'
    BY <1>2, <1>3, <1>6 DEF IInv, Carried
  <2> QED BY <2>1, <2>2
<1> QED
  BY <1>2, <1>4, <1>5, <1>6

LEMMA PlannerKnows ==
  ASSUME IInv, NEW c \in Call, Planner(c)
  PROVE  Knowing'
<1>1. calls \in [Call -> Requests]
  BY TypesSplit DEF IInv, PageTypes
<1>2. CASE Reload(c)
  <2>1. calls' = Loading(c) /\ active' = NoSession /\ enabled' = FALSE /\ tray' = <<>>
    BY <1>2 DEF Reload
  <2>2. \A d \in Call :
          /\ calls'[d].op = "none" <=> calls'[d].place = "free"
          /\ calls'[d].fresh = FALSE /\ calls'[d].op # "message"
    BY <2>1 DEF Loading, Request, Free
  <2> QED BY <2>1, <2>2 DEF Knowing, Slots, Idle, OnCourse, Informed, Carried
<1>3. CASE Asking(c)
  <2>1. UNCHANGED <<quiet, server, life, tray, moved>>
    BY <1>3, AskingIs
  <2>2. PICK r \in Requests :
          /\ calls' = [calls EXCEPT ![c] = r]
          /\ r.place \in {"sent", "collect"}
          /\ \/ r.op \in {"new", "activate", "stop"}
             \/ /\ r.op = "message"
                /\ r.of = viewing
                /\ r.fresh => settled /\ ~moved /\ (enabled \/ Messageable)
                /\ r.body = <<>>
                /\ r.source = "none" \/ (r.source = "tray" /\ r.place = "collect")
    BY <1>3, AskingIs
  <2>3. calls'[c] = r /\ \A d \in Call \ {c} : calls'[d] = calls[d]
    BY <1>1, <2>2
  <2>4. Slots'
    BY <2>2, <2>3 DEF IInv, Slots, Idle
  <2>5. OnCourse'
    <3>1. r.op = "message" /\ r.fresh => server = r.of
      BY <2>2 DEF IInv, OnCourse, Messageable, OpensInput
    <3>2. Informed(calls)'
      BY <2>1, <2>2, <2>3, <3>1 DEF IInv, OnCourse, Informed
    <3> QED BY <2>1, <3>2 DEF IInv, OnCourse, quiet, screen, Messageable, OpensInput
  <2>6. Carried'
    <3>1. ASSUME calls'[c].op = "message", calls'[c].source = "tray"
          PROVE  /\ Len(calls'[c].body) = 0 /\ Len(tray') \in Nat
                 /\ calls'[c].place = "collect"
      BY <2>1, <2>2, <2>3, <3>1 DEF IInv, TypeOK
    <3>2. calls'[c].op = "message" => calls'[c].source # "kept"
      BY <2>2, <2>3
    <3> QED BY <2>1, <2>3, <3>1, <3>2 DEF IInv, Carried
  <2> QED BY <2>4, <2>5, <2>6 DEF Knowing
<1>4. CASE \E s \in Session : SelectArchived(c, s)
  <2>1. PICK s \in Session : SelectArchived(c, s)
    BY <1>4
  <2>2. /\ calls' = [calls EXCEPT ![c] = [Request("list", s) EXCEPT !.place = "listing"]]
        /\ settled' = FALSE /\ UNCHANGED <<server, active, enabled, tray, moved>>
    BY <2>1 DEF SelectArchived
  <2>3. /\ calls'[c].op = "list" /\ calls'[c].place = "listing" /\ calls'[c].fresh = FALSE
        /\ \A d \in Call \ {c} : calls'[d] = calls[d]
    BY <1>1, <2>2 DEF Request, Free
  <2>4. Slots'
    BY <2>3 DEF IInv, Slots, Idle
  <2>5. OnCourse'
    BY <2>2, <2>3 DEF IInv, OnCourse, Informed
  <2>6. Carried'
    BY <2>2, <2>3 DEF IInv, Carried
  <2> QED BY <2>4, <2>5, <2>6 DEF Knowing
<1> QED
  BY <1>2, <1>3, <1>4 DEF Planner, Asking

LEMMA ServerKnows ==
  ASSUME IInv, NEW c \in Call, Server(c)
  PROVE  Knowing'
<1>1. UNCHANGED <<quiet, tray>>
  BY ServerIsQuiet
<1>2. \A d \in Call : SameFiles(calls'[d], calls[d])
                      /\ (calls'[d].place = "free" <=> calls[d].place = "free")
  BY ServerCalls
<1>3. Slots'
  BY <1>2 DEF IInv, Slots, Idle, SameFiles
<1>4. OnCourse'
  <2>1. moved \/ server' # server => moved'
    BY ServerCalls
  <2>2. Informed(calls)'
    <3> SUFFICES ASSUME NEW d \in Call, calls'[d].fresh
                 PROVE  /\ calls'[d].op \in {"load", "activate", "new"} /\ calls'[d].place = "ok"
                              => server' = calls'[d].of
                        /\ calls'[d].op = "message" /\ calls'[d].place # "free"
                              => server' = calls'[d].of
      BY DEF Informed
    <3>1. CASE d = c
      BY <1>2, <3>1, ServerCalls DEF IInv, OnCourse, Informed, SameFiles
    <3>2. CASE d # c
      <4>1. /\ SameFiles(calls'[d], calls[d])
            /\ calls'[d].place = calls[d].place /\ calls'[d].of = calls[d].of
            /\ calls[d].fresh /\ server' = server
        BY <3>2, ServerCalls
      <4> QED BY <4>1 DEF IInv, OnCourse, Informed, SameFiles
    <3> QED BY <3>1, <3>2
  <2> QED BY <1>1, <2>1, <2>2 DEF IInv, OnCourse, quiet, screen, Messageable, OpensInput
<1>5. Carried'
  <2>1. ASSUME NEW d \in Call, calls[d].op = "message",
               calls'[d].place \in {"sent", "checked", "ok"}
        PROVE  calls[d].place \in {"sent", "checked", "ok"}
    BY <2>1, ServerCalls
  <2> QED BY <1>1, <1>2, <2>1 DEF IInv, Carried, SameFiles
<1> QED
  BY <1>3, <1>4, <1>5 DEF Knowing

LEMMA AnswersKnow ==
  ASSUME IInv, NEW c \in Call, Answers(c)
  PROVE  Knowing'
<1>1. calls \in [Call -> Requests] /\ calls[c] \in Requests /\ tray \in Seq(File)
  BY TypesSplit DEF IInv, PageTypes
\* With the next list asked for, this slot tells nothing either.
<1>2. ASSUME ThenList(c), calls[c].op \in {"load", "activate", "new", "stop"},
             calls[c].place # "free", UNCHANGED <<server, tray>>
      PROVE  Slots' /\ Informed(calls)' /\ Carried'
  <2>1. /\ calls'[c].op = calls[c].op /\ calls'[c].place = "listing"
        /\ \A d \in Call \ {c} : calls'[d] = calls[d]
    BY <1>1, <1>2 DEF ThenList, Requests
  <2>2. Slots'
    BY <1>2, <2>1 DEF IInv, Slots, Idle
  <2>3. Informed(calls)'
    BY <1>2, <2>1 DEF IInv, OnCourse, Informed
  <2>4. Carried'
    BY <1>2, <2>1 DEF IInv, Carried
  <2> QED BY <2>2, <2>3, <2>4
<1>3. CASE OpenAnswered(c)
  <2>1. /\ ThenList(c) /\ calls[c].op \in {"load", "activate", "new"} /\ calls[c].place = "ok"
        /\ active' = calls[c].of /\ settled' = FALSE /\ moved' = ~calls[c].fresh
        /\ UNCHANGED <<server, tray>>
    BY <1>3 DEF OpenAnswered, TakeUp
  <2>2. calls[c].fresh => server = calls[c].of
    BY <2>1 DEF IInv, OnCourse, Informed
  <2> QED BY <1>1, <1>2, <2>1, <2>2 DEF Knowing, OnCourse, Requests
<1>4. CASE LoadedNone(c)
  <2>1. /\ ThenList(c) /\ calls[c].op = "load" /\ calls[c].place = "ok"
        /\ UNCHANGED <<server, tray, moved, screen>>
    BY <1>4 DEF LoadedNone, At, quiet
  <2> QED BY <1>2, <2>1 DEF IInv, Knowing, OnCourse, screen, Messageable, OpensInput
<1>5. CASE OpenRefused(c)
  <2>1. calls' = Over(c) /\ UNCHANGED <<server, tray, moved, screen>>
    BY <1>5 DEF OpenRefused, quiet
  <2> QED BY <2>1, OverKnows DEF IInv, Knowing, OnCourse, screen, Messageable, OpensInput
<1>6. CASE StopAnswered(c)
  <2>1. /\ ThenList(c) /\ calls[c].op = "stop" /\ calls[c].place \in {"ok", "refused"}
        /\ active' = NoSession /\ settled' = FALSE /\ UNCHANGED <<server, tray>>
    BY <1>6 DEF StopAnswered
  <2> QED BY <1>2, <2>1 DEF Knowing, OnCourse
<1>7. CASE Listed(c)
  <2>1. UNCHANGED <<server, active, viewing, moved>>
    BY <1>7 DEF Listed
  <2>2. CASE RefreshControls(Over(c))
    <3>1. Over(c) \in [Call -> Requests]
      BY OverKnows
    <3>2. /\ enabled' => OpensInput(active', viewing')
          /\ \/ tray' = tray /\ calls' = Over(c)
             \/ tray' = <<>> /\ calls' = ClearedTray(Over(c))
      BY <1>1, <2>2, <3>1, Refreshed
    <3>3. Slots' /\ Informed(calls)' /\ Carried'
      BY <1>1, <2>1, <3>2, OverKnows, ClearingKnows
    <3> QED BY <2>1, <3>2, <3>3 DEF IInv, Knowing, OnCourse, Messageable
  <2>3. CASE calls' = Over(c) /\ UNCHANGED <<enabled, settled, tray>>
    BY <2>1, <2>3, OverKnows DEF IInv, Knowing, OnCourse, Messageable, OpensInput
  <2> QED BY <1>7, <2>2, <2>3 DEF Listed
<1>8. CASE MessageAnswered(c)
  <2>1. UNCHANGED <<server, active, viewing, moved>> /\ enabled' = Messageable
    BY <1>8 DEF MessageAnswered
  <2>2. \/ tray' = tray /\ calls' = Over(c)
        \/ tray' = <<>> /\ calls' = ClearedTray(Over(c))
    BY <1>8 DEF MessageAnswered
  <2>3. Slots' /\ Informed(calls)' /\ Carried'
    BY <1>1, <2>1, <2>2, OverKnows, ClearingKnows
  <2> QED BY <2>1, <2>3 DEF IInv, Knowing, OnCourse, Messageable, OpensInput
<1>9. CASE Collect(c)
  <2> DEFINE next == Len(calls[c].body) + 1
             more == Append(calls[c].body, Source(c)[next])
  <2>1. /\ calls[c].op = "message" /\ calls[c].place = "collect"
        /\ UNCHANGED <<server, tray, moved, screen>>
    BY <1>9 DEF Collect, At, quiet
  <2>2. /\ \A d \in Call \ {c} : calls'[d] = calls[d]
        /\ calls'[c].op = "message" /\ calls'[c].of = calls[c].of
        /\ calls'[c].fresh = calls[c].fresh
        /\ calls'[c].source = calls[c].source /\ calls'[c].touched = calls[c].touched
        /\ \/ next <= Len(Source(c)) /\ calls'[c].place = "collect" /\ calls'[c].body = more
           \/ /\ ~(next <= Len(Source(c))) /\ calls'[c].place = "sent"
              /\ calls'[c].body = calls[c].body
    <3>1. calls' = IF next <= Len(Source(c))
                    THEN [calls EXCEPT ![c] = [calls[c] EXCEPT !.body = more]]
                    ELSE [calls EXCEPT ![c] = [calls[c] EXCEPT !.place = "sent"]]
      BY <1>9 DEF Collect
    <3> HIDE DEF next, more
    <3>2. CASE next <= Len(Source(c))
      BY <1>1, <2>1, <3>1, <3>2 DEF Requests
    <3>3. CASE ~(next <= Len(Source(c)))
      BY <1>1, <2>1, <3>1, <3>3 DEF Requests
    <3> QED BY <3>2, <3>3
  <2> HIDE DEF next, more
  <2>3. Slots'
    BY <2>1, <2>2 DEF IInv, Slots, Idle
  <2>4. OnCourse'
    <3>1. Informed(calls)'
      BY <2>1, <2>2 DEF IInv, OnCourse, Informed
    <3> QED BY <2>1, <3>1 DEF IInv, OnCourse, screen, Messageable, OpensInput
  <2>5. Carried'
    <3>1. ASSUME ~calls[c].touched, calls[c].source = "tray"
          PROVE  /\ Len(calls'[c].body) <= Len(tray)
                 /\ \A i \in 1..Len(calls'[c].body) : calls'[c].body[i] = tray[i]
                 /\ calls'[c].place \in {"sent", "checked", "ok"} => Len(calls'[c].body) = Len(tray)
      <4>1. /\ Source(c) = tray /\ calls[c].body \in Seq(File)
            /\ Len(calls[c].body) <= Len(tray)
            /\ \A i \in 1..Len(calls[c].body) : calls[c].body[i] = tray[i]
        BY <1>1, <2>1, <3>1 DEF Source, IInv, Carried, Requests
      <4>2. CASE next <= Len(Source(c))
        <5>1. calls'[c].body = Append(calls[c].body, tray[next]) /\ calls'[c].place = "collect"
          BY <2>2, <4>1, <4>2 DEF more
        <5>2. tray[next] \in File
          BY <1>1, <4>1, <4>2 DEF next
        <5> QED BY <4>1, <4>2, <5>1, <5>2 DEF next
      <4>3. CASE ~(next <= Len(Source(c)))
        <5>1. calls'[c].body = calls[c].body
          BY <2>2, <4>3
        <5> QED BY <1>1, <4>1, <4>3, <5>1 DEF next
      <4> QED BY <4>2, <4>3
    <3>2. \A d \in Call \ {c} : calls'[d] = calls[d]
      BY <2>2
    <3>3. /\ calls'[c].source = calls[c].source /\ calls'[c].touched = calls[c].touched
          /\ calls[c].op = "message" /\ tray' = tray
      BY <2>1, <2>2
    <3> QED BY <3>1, <3>2, <3>3 DEF IInv, Carried
  <2> QED BY <2>3, <2>4, <2>5 DEF Knowing
<1> QED
  BY <1>3, <1>4, <1>5, <1>6, <1>7, <1>8, <1>9 DEF Answers

LEMMA TrayKnows ==
  ASSUME IInv, NEW files, ChangeTray(files)
  PROVE  Knowing'
<1>1. \A c \in Call :
        /\ calls'[c].op = calls[c].op /\ calls'[c].place = calls[c].place
        /\ calls'[c].of = calls[c].of /\ calls'[c].fresh = calls[c].fresh
        /\ calls'[c].op = "message" => calls'[c].touched
  <2>1. calls \in [Call -> Requests]
    BY TypesSplit DEF IInv, PageTypes
  <2> QED BY <2>1 DEF ChangeTray, Touched, Requests
<1>2. UNCHANGED <<server, moved, screen>>
  BY DEF ChangeTray, quiet
<1>3. Slots'
  BY <1>1 DEF IInv, Slots, Idle
<1>4. OnCourse'
  <2>1. Informed(calls)'
    BY <1>1, <1>2 DEF IInv, OnCourse, Informed
  <2> QED BY <1>2, <2>1 DEF IInv, OnCourse, screen, Messageable, OpensInput
<1>5. Carried'
  BY <1>1 DEF Carried
<1> QED
  BY <1>3, <1>4, <1>5 DEF Knowing

LEMMA ElsewhereKnows ==
  ASSUME IInv, Elsewhere
  PROVE  Knowing'
<1>1. \A c \in Call :
        /\ calls'[c].op = calls[c].op /\ calls'[c].place = calls[c].place
        /\ calls'[c].fresh = FALSE /\ calls'[c].touched = calls[c].touched
        /\ calls'[c].source = calls[c].source /\ calls'[c].body = calls[c].body
  <2>1. calls \in [Call -> Requests]
    BY TypesSplit DEF IInv, PageTypes
  <2> QED BY <2>1 DEF Elsewhere, Outdated, Requests
<1>2. UNCHANGED <<tray, screen>> /\ moved' = TRUE
  BY DEF Elsewhere, quiet
<1>3. Slots'
  BY <1>1 DEF IInv, Slots, Idle
<1>4. OnCourse'
  BY <1>1, <1>2 DEF IInv, OnCourse, Informed, screen, Messageable, OpensInput
<1>5. Carried'
  BY <1>1, <1>2 DEF IInv, Carried
<1> QED
  BY <1>3, <1>4, <1>5 DEF Knowing

LEMMA DrawKnows ==
  ASSUME IInv, Draw
  PROVE  Knowing'
<1>1. calls \in [Call -> Requests] /\ tray \in Seq(File)
  BY TypesSplit DEF IInv, PageTypes
<1>2. UNCHANGED <<server, active, viewing, moved>>
  BY DEF Draw
<1>3. CASE UNCHANGED <<enabled, settled, tray, calls>>
  BY <1>2, <1>3 DEF IInv, Knowing, Slots, Idle, OnCourse, Informed, Carried, Messageable, OpensInput
<1>4. CASE RefreshControls(calls)
  <2>1. /\ enabled' => OpensInput(active', viewing')
        /\ \/ tray' = tray /\ calls' = calls
           \/ tray' = <<>> /\ calls' = ClearedTray(calls)
    BY <1>1, <1>4, Refreshed
  <2>2. Slots' /\ Informed(calls)' /\ Carried'
    <3>1. CASE tray' = tray /\ calls' = calls
      BY <1>2, <3>1 DEF IInv, Slots, Idle, OnCourse, Informed, Carried
    <3>2. CASE tray' = <<>> /\ calls' = ClearedTray(calls)
      BY <1>1, <1>2, <3>2, ClearingKnows DEF IInv, Slots, OnCourse
    <3> QED BY <2>1, <3>1, <3>2
  <2> QED BY <1>2, <2>1, <2>2 DEF IInv, Knowing, OnCourse, Messageable
<1> QED
  BY <1>3, <1>4 DEF Draw

LEMMA KnowingKept ==
  ASSUME IInv, Next
  PROVE  Knowing'
<1>1. CASE \E c \in Call : Planner(c) \/ Server(c) \/ Answers(c)
  BY <1>1, PlannerKnows, ServerKnows, AnswersKnow
<1>2. CASE \E f \in File : AttachFile(f)
  BY <1>2, TrayKnows DEF AttachFile
<1>3. CASE \E i \in DOMAIN tray : RemoveFile(i)
  BY <1>3, TrayKnows DEF RemoveFile
<1>4. CASE Elsewhere
  BY <1>4, ElsewhereKnows
<1>5. CASE Draw
  BY <1>5, DrawKnows
<1>6. CASE RelayLists \/ RelayOpens \/ StreamLost
  BY <1>6, UntouchedKnows DEF RelayLists, RelayOpens, StreamLost, NotPage
<1>7. CASE \E j \in DOMAIN polls : ShowOutputs(j) \/ AskAgain(j) \/ PollFails(j)
  BY <1>7, UntouchedKnows DEF ShowOutputs, AskAgain, PollFails
<1>8. CASE \E s \in Session : AgentActs(s) \/ StreamPublishes(s)
  BY <1>8, UntouchedKnows DEF AgentActs, StreamPublishes, NotPage
<1> QED
  BY <1>1, <1>2, <1>3, <1>4, <1>5, <1>6, <1>7, <1>8 DEF Next

-----------------------------------------------------------------------------
(* The outputs.                                                            *)

LEMMA ListingsKept ==
  ASSUME IInv, Next
  PROVE  Listings'
<1>1. CASE UNCHANGED indexed
  BY <1>1 DEF IInv, Listings
<1>2. CASE \E s \in Session : AgentActs(s)
  <2>1. PICK s \in Session : AgentActs(s)
    BY <1>2
  <2>2. CASE \E f \in Output : indexed' = [indexed EXCEPT ![s] = @ \cup {f}]
    <3>1. PICK f \in Output : indexed' = [indexed EXCEPT ![s] = indexed[s] \cup {f}]
      BY <2>2
    <3>2. indexed \in [Session -> SUBSET Output]
      BY DEF IInv, TypeOK
    <3>3. IsFiniteSet(indexed[s] \cup {f})
      BY FS_AddElement DEF IInv, Listings
    <3> QED BY <3>1, <3>2, <3>3 DEF IInv, Listings
  <2>3. CASE UNCHANGED indexed
    BY <1>1, <2>3
  <2> QED BY <2>1, <2>2, <2>3 DEF AgentActs
<1>3. ASSUME NEW c \in Call, Planner(c) PROVE UNCHANGED indexed
  <2>1. CASE Asking(c)
    BY <2>1, AskingIs DEF quiet
  <2> QED BY <1>3, <2>1 DEF Planner, Asking, Reload, SelectArchived
<1>4. ASSUME NEW c \in Call, Server(c) PROVE UNCHANGED indexed
  BY <1>4, ServerIsQuiet DEF quiet
<1>5. ASSUME NEW c \in Call, Answers(c) PROVE UNCHANGED indexed
  BY <1>5 DEF Answers, OpenAnswered, LoadedNone, OpenRefused, StopAnswered, Listed, MessageAnswered,
     Collect, quiet
<1>6. CASE \/ \E f \in File : AttachFile(f)
           \/ \E i \in DOMAIN tray : RemoveFile(i)
           \/ Elsewhere \/ Draw \/ RelayLists \/ RelayOpens \/ StreamLost
           \/ \E s \in Session : StreamPublishes(s)
  BY <1>1, <1>6 DEF AttachFile, RemoveFile, ChangeTray, Elsewhere, Draw, RelayLists, RelayOpens,
     StreamLost, StreamPublishes, quiet
<1>7. CASE \E j \in DOMAIN polls : ShowOutputs(j) \/ AskAgain(j) \/ PollFails(j)
  BY <1>1, <1>7 DEF ShowOutputs, AskAgain, PollFails
<1> QED
  BY <1>1, <1>2, <1>3, <1>4, <1>5, <1>6, <1>7 DEF Next

\* A clean screen, or the same one.
LEMMA SameOrCleanClaims ==
  ASSUME IInv, \/ UNCHANGED <<transcript, shown>>
               \/ transcript' = <<>>
  PROVE  Claimed'
  BY DEF IInv, Claimed, OutputsDrawnOnce

LEMMA DrawClaims ==
  ASSUME IInv, Draw
  PROVE  Claimed'
<1> DEFINE i == conn.at + 1
<1>1. transcript \in Seq(Entries) /\ RelayTypeOK
  BY TypesSplit, SequencesTyped DEF IInv
<1>2. shown' = shown
  BY DEF Draw
<1>3. CASE UNCHANGED transcript
  BY <1>2, <1>3, SameOrCleanClaims
<1>4. CASE transcript' = Append(transcript, Entry(i))
  <2>1. Entry(i).what \notin Output
    <3>1. i \in Nat
      BY <1>1 DEF RelayTypeOK
    <3> HIDE DEF i
    <3> QED BY <3>1, PageAssumption DEF Entry
  <2>2. \A n \in DOMAIN transcript' :
          (n \in DOMAIN transcript /\ transcript'[n] = transcript[n]) \/ transcript'[n] = Entry(i)
    <3> DEFINE e == Entry(i)
    <3> HIDE DEF e
    <3> QED BY <1>1, <1>4 DEF e
  <2> QED BY <1>2, <2>1, <2>2 DEF IInv, Claimed, OutputsDrawnOnce
<1> QED
  BY <1>3, <1>4 DEF Draw

LEMMA ShowClaims ==
  ASSUME IInv, NEW j \in DOMAIN polls, ShowOutputs(j)
  PROVE  Claimed'
<1> DEFINE fresh == NewOutputs(j)
           drawn == [n \in DOMAIN fresh |-> [of |-> polls[j].of, what |-> fresh[n]]]
<1>1. /\ fresh \in Seq(Output)
      /\ \A n \in DOMAIN fresh : fresh[n] \notin shown
      /\ \A m, n \in DOMAIN fresh : fresh[m] = fresh[n] => m = n
  BY NewOutputsAre DEF ShowOutputs
<1>2. CASE fresh = <<>>
  BY <1>2, SameOrCleanClaims DEF ShowOutputs
<1>3. CASE fresh # <<>>
  <2>1. transcript' = transcript \o drawn /\ shown' = shown \cup Range(fresh)
    BY <1>3 DEF ShowOutputs
  <2>2. transcript \in Seq(Entries)
    BY TypesSplit, SequencesTyped DEF IInv
  <2>3. DOMAIN drawn = 1..Len(fresh) /\ DOMAIN fresh = 1..Len(fresh) /\ Len(fresh) \in Nat
        /\ \A n \in 1..Len(fresh) : drawn[n].what = fresh[n]
    BY <1>1
  <2>4. drawn \in Seq([of : {polls[j].of}, what : Output]) /\ Len(drawn) = Len(fresh)
    <3> DEFINE D == [of : {polls[j].of}, what : Output]
    <3>1. \A n \in DOMAIN fresh : [of |-> polls[j].of, what |-> fresh[n]] \in D
      BY <1>1
    <3>2. drawn \in Seq(D)
      <4> HIDE DEF fresh, D
      <4> QED BY <1>1, <3>1
    <3>3. Len(drawn) = Len(fresh)
      <4>1. DOMAIN drawn = 1..Len(drawn) /\ Len(drawn) \in Nat
        BY <3>2
      <4> HIDE DEF drawn
      <4> QED BY <2>3, <4>1
    <3> QED BY <3>2, <3>3
  <2> HIDE DEF drawn, fresh
  <2>5. /\ DOMAIN transcript' = 1..(Len(transcript) + Len(fresh))
        /\ DOMAIN transcript = 1..Len(transcript) /\ Len(transcript) \in Nat
        /\ \A n \in 1..Len(transcript) : transcript'[n] = transcript[n]
        /\ \A n \in (Len(transcript) + 1)..(Len(transcript) + Len(fresh)) :
             transcript'[n].what = fresh[n - Len(transcript)]
    <3>1. /\ DOMAIN transcript = 1..Len(transcript) /\ Len(transcript) \in Nat
          /\ DOMAIN transcript' = 1..(Len(transcript) + Len(fresh))
      <4>1. DOMAIN transcript = 1..Len(transcript) /\ Len(transcript) \in Nat
        BY <2>2
      <4>2. DOMAIN (transcript \o drawn) = 1..(Len(transcript) + Len(drawn))
        BY <2>2, <2>4
      <4> QED BY <2>1, <2>4, <4>1, <4>2
    <3>2. \A n \in 1..Len(transcript) : transcript'[n] = transcript[n]
      BY <2>1, <2>2, <2>3, <2>4
    <3>3. ASSUME NEW n \in (Len(transcript) + 1)..(Len(transcript) + Len(fresh))
          PROVE  transcript'[n].what = fresh[n - Len(transcript)]
      <4>1. n - Len(transcript) \in 1..Len(fresh)
        BY <2>3, <3>1, <3>3
      <4>2. transcript'[n] = drawn[n - Len(transcript)]
        BY <2>1, <2>2, <2>3, <2>4, <3>1, <3>3
      <4> QED BY <2>3, <4>1, <4>2
    <3> QED BY <3>1, <3>2, <3>3
  <2>6. \A n \in DOMAIN transcript : transcript[n].what \in Output => transcript[n].what \in shown
    BY DEF IInv, Claimed
  <2>7. ASSUME NEW n \in DOMAIN transcript', transcript'[n].what \in Output
        PROVE  transcript'[n].what \in shown'
    <3>1. CASE n \in 1..Len(transcript)
      BY <2>1, <2>5, <2>6, <2>7, <3>1
    <3>2. CASE n \in (Len(transcript) + 1)..(Len(transcript) + Len(fresh))
      <4>1. n - Len(transcript) \in DOMAIN fresh
        BY <2>3, <2>5, <3>2
      <4> QED BY <2>1, <2>5, <3>2, <4>1 DEF Range
    <3> QED BY <2>3, <2>5, <3>1, <3>2
  <2>8. ASSUME NEW m \in DOMAIN transcript', NEW n \in DOMAIN transcript',
               transcript'[m].what \in Output, transcript'[m].what = transcript'[n].what
        PROVE  m = n
    <3>1. CASE m \in DOMAIN transcript /\ n \in DOMAIN transcript
      BY <2>5, <2>8, <3>1 DEF IInv, Claimed, OutputsDrawnOnce
    <3>2. \A k \in DOMAIN transcript' \ DOMAIN transcript :
            /\ k - Len(transcript) \in DOMAIN fresh
            /\ transcript'[k].what = fresh[k - Len(transcript)]
            /\ transcript'[k].what \notin shown
      BY <1>1, <2>3, <2>5
    <3>3. \A k \in DOMAIN transcript :
            transcript'[k].what \in Output => transcript'[k].what \in shown
      BY <2>5, <2>6
    <3>4. CASE m \notin DOMAIN transcript /\ n \notin DOMAIN transcript
      <4>1. m - Len(transcript) = n - Len(transcript)
        BY <1>1, <2>8, <3>2, <3>4
      <4> QED BY <2>3, <2>5, <4>1
    <3> QED BY <2>8, <3>1, <3>2, <3>3, <3>4
  <2> QED BY <2>7, <2>8 DEF Claimed, OutputsDrawnOnce
<1> QED
  BY <1>2, <1>3

LEMMA ClaimedKept ==
  ASSUME IInv, Next
  PROVE  Claimed'
<1>1. ASSUME NEW c \in Call, Planner(c) PROVE Claimed'
  <2>1. CASE Asking(c)
    BY <2>1, AskingIs, SameOrCleanClaims DEF quiet, drawing
  <2>2. CASE Reload(c) \/ \E s \in Session : SelectArchived(c, s)
    BY <2>2, SameOrCleanClaims DEF Reload, SelectArchived, Follow
  <2> QED BY <1>1, <2>1, <2>2 DEF Planner, Asking
<1>2. ASSUME NEW c \in Call, Server(c) PROVE Claimed'
  BY <1>2, ServerIsQuiet, SameOrCleanClaims DEF quiet, drawing
<1>3. ASSUME NEW c \in Call, Answers(c) PROVE Claimed'
  BY <1>3, SameOrCleanClaims DEF Answers, OpenAnswered, TakeUp, Follow, LoadedNone, OpenRefused,
     StopAnswered, Listed, MessageAnswered, Collect, quiet, drawing
<1>4. CASE \/ \E f \in File : AttachFile(f)
           \/ \E i \in DOMAIN tray : RemoveFile(i)
           \/ Elsewhere \/ RelayLists \/ RelayOpens \/ StreamLost
           \/ \E s \in Session : AgentActs(s) \/ StreamPublishes(s)
  BY <1>4, SameOrCleanClaims DEF AttachFile, RemoveFile, ChangeTray, Elsewhere, RelayLists,
     RelayOpens, StreamLost, StreamPublishes, AgentActs, NotPage, quiet, drawing
<1>5. CASE \E j \in DOMAIN polls : ShowOutputs(j) \/ AskAgain(j) \/ PollFails(j)
  BY <1>5, ShowClaims, SameOrCleanClaims DEF AskAgain, PollFails
<1>6. CASE Draw
  BY <1>6, DrawClaims
<1> QED
  BY <1>1, <1>2, <1>3, <1>4, <1>5, <1>6 DEF Next

-----------------------------------------------------------------------------
(* The theorems.                                                           *)

\* The invariant is inductive: types, slots, knowledge, files and outputs.
THEOREM InvariantHolds == Spec => []IInv
<1>1. Init => IInv
  BY InitHolds
<1>2. IInv /\ [Next]_vars => IInv'
  <2> SUFFICES ASSUME IInv, [Next]_vars PROVE IInv'
    OBVIOUS
  <2>1. CASE Next
    BY <2>1, TypesKept, KnowingKept, ListingsKept, ClaimedKept DEF IInv, Knowing
  <2>2. CASE UNCHANGED vars
    <3>1. UNCHANGED relay /\ UNCHANGED indexed /\ UNCHANGED screen /\ UNCHANGED drawing
          /\ UNCHANGED <<server, life, tray, calls, moved, spare>>
      BY <2>2 DEF vars, quiet
    <3>2. RelayTypeOK'
      BY <3>1, RelayKeepsTypes, TypesSplit DEF IInv
    <3>3. PageTypes'
      BY <3>1, TypesSplit DEF IInv, PageTypes, screen, drawing
    <3>4. TypeOK'
      BY <3>2, <3>3 DEF TypeOK, PageTypes, Requests
    <3>5. Knowing' /\ Listings' /\ Claimed'
      BY <3>1, UntouchedKnows, SameOrCleanClaims DEF IInv, Listings, drawing
    <3> QED BY <3>4, <3>5 DEF IInv, Knowing
  <2> QED BY <2>1, <2>2
<1> QED
  BY <1>1, <1>2, PTL DEF Spec

\* Every reachable state of page, relay and server has the shape the model
\* gives it.
THEOREM TypeCorrect == Spec => []TypeOK
  BY InvariantHolds, PTL DEF IInv

\* The input box is open only on the session messages reach, and a message
\* written then reaches it, for any number of tabs, switches and uploads.
THEOREM MessagesReachTheirSession == Spec => []MessagesOnCourse
<1>1. IInv => MessagesOnCourse
  BY DEF IInv, OnCourse, Informed, Messageable, OpensInput, MessagesOnCourse
<1> QED
  BY <1>1, InvariantHolds, PTL

\* Every output is drawn once, whatever number of polls run at the same time.
THEOREM NoOutputTwice == Spec => []OutputsDrawnOnce
<1>1. IInv => OutputsDrawnOnce
  BY DEF IInv, Claimed
<1> QED
  BY <1>1, InvariantHolds, PTL

-----------------------------------------------------------------------------
(* Files leave the tray with their message.                                *)

\* A message's slot is set free by its answer, or by a page loaded again.
LEMMA FreedByItsAnswer ==
  ASSUME IInv, Next, NEW c \in Call, calls[c].op = "message", calls'[c].place = "free",
         Messageable'
  PROVE  tray' = tray \/ MessageAnswered(c)
<1>1. calls \in [Call -> Requests] /\ calls[c].place # "free" /\ tray \in Seq(File)
  BY TypesSplit DEF IInv, PageTypes, Slots, Idle
<1>2. ASSUME NEW b \in Call, Planner(b) PROVE FALSE
  <2>1. CASE Reload(b)
    BY <2>1 DEF Reload, Messageable, OpensInput
  <2>2. CASE Asking(b)
    <3>1. calls[b] = Free /\ \E r \in Requests : calls' = [calls EXCEPT ![b] = r]
      BY <2>2, AskingIs
    <3>2. b # c
      BY <3>1 DEF Free
    <3> QED BY <1>1, <3>1, <3>2
  <2>3. CASE \E s \in Session : SelectArchived(b, s)
    <3>1. PICK s \in Session : SelectArchived(b, s)
      BY <2>3
    <3>2. calls[b] = Free
          /\ calls' = [calls EXCEPT ![b] = [Request("list", s) EXCEPT !.place = "listing"]]
      BY <3>1 DEF SelectArchived
    <3>3. b # c
      BY <3>2 DEF Free
    <3> QED BY <1>1, <3>2, <3>3
  <2> QED BY <1>2, <2>1, <2>2, <2>3 DEF Planner, Asking
<1>3. ASSUME NEW b \in Call, Server(b) PROVE FALSE
  <2>1. CASE b = c
    BY <1>3, <2>1, ServerCalls
  <2>2. CASE b # c
    BY <1>1, <1>3, <2>2, ServerCalls
  <2> QED BY <2>1, <2>2
<1>4. ASSUME NEW b \in Call, Answers(b) PROVE tray' = tray \/ MessageAnswered(c)
  <2>1. CASE OpenAnswered(b) \/ LoadedNone(b) \/ OpenRefused(b) \/ StopAnswered(b) \/ Collect(b)
    BY <2>1 DEF OpenAnswered, LoadedNone, OpenRefused, StopAnswered, Collect
  <2>2. CASE Listed(b)
    <3>1. CASE RefreshControls(Over(b))
      BY <3>1 DEF RefreshControls, Messageable
    <3> QED BY <2>2, <3>1 DEF Listed
  <2>3. CASE MessageAnswered(b)
    <3> SUFFICES ASSUME b # c PROVE FALSE
      BY <2>3
    <3>1. Over(b) \in [Call -> Requests] /\ Over(b)[c] = calls[c]
      BY <1>1, OverIs DEF Over
    <3>2. calls' = Over(b) \/ calls' = ClearedTray(Over(b))
      BY <2>3 DEF MessageAnswered
    <3>3. ClearedTray(Over(b))[c].place = Over(b)[c].place
      BY <1>1, <3>1, ClearedIs
    <3> QED BY <1>1, <3>1, <3>2, <3>3
  <2> QED BY <1>4, <2>1, <2>2, <2>3 DEF Answers
<1>5. ASSUME NEW files, ChangeTray(files) PROVE FALSE
  BY <1>1, <1>5 DEF ChangeTray, Touched, Requests
<1>6. CASE Elsewhere
  BY <1>6 DEF Elsewhere
<1>7. CASE Draw
  <2>1. CASE RefreshControls(calls)
    BY <2>1 DEF RefreshControls, Messageable
  <2> QED BY <1>7, <2>1 DEF Draw
<1>8. CASE RelayLists \/ RelayOpens \/ StreamLost
           \/ \E s \in Session : AgentActs(s) \/ StreamPublishes(s)
  BY <1>8 DEF RelayLists, RelayOpens, StreamLost, AgentActs, StreamPublishes, NotPage
<1>9. CASE \E j \in DOMAIN polls : ShowOutputs(j) \/ AskAgain(j) \/ PollFails(j)
  BY <1>9 DEF ShowOutputs, AskAgain, PollFails
<1> QED
  BY <1>2, <1>3, <1>4, <1>5, <1>6, <1>7, <1>8, <1>9 DEF Next, AttachFile, RemoveFile

\* What leaves the tray has left with an accepted message that carried all of
\* it, for any number of files, of messages in flight and of answers lost.
THEOREM FilesLeaveTogether == Spec => FilesLeaveWithTheirMessage
<1> DEFINE Leaves(c) ==
      calls[c].op = "message" /\ ~calls[c].touched /\ calls'[c].place = "free" /\ Messageable'
        => \/ tray' = tray
           \/ calls[c].place = "ok" /\ Range(tray) \subseteq Range(calls[c].body)
<1>1. IInv /\ [Next]_vars => [\A c \in Call : Leaves(c)]_vars
  <2> SUFFICES ASSUME IInv, Next, NEW c \in Call, calls[c].op = "message", ~calls[c].touched,
                      calls'[c].place = "free", Messageable', MessageAnswered(c), tray' # tray
               PROVE  calls[c].place = "ok" /\ Range(tray) \subseteq Range(calls[c].body)
    BY FreedByItsAnswer
  <2>1. calls[c] \in Requests /\ tray \in Seq(File)
    BY TypesSplit DEF IInv, PageTypes
  <2>2. calls[c].source # "none" /\ calls[c].place = "ok"
    BY DEF MessageAnswered, EmptiesTray, Messageable
  <2>3. CASE calls[c].source = "tray"
    <3>1. /\ Len(calls[c].body) = Len(tray)
          /\ \A i \in 1..Len(calls[c].body) : calls[c].body[i] = tray[i]
      BY <2>2, <2>3 DEF IInv, Carried
    <3>2. calls[c].body \in Seq(File)
      BY <2>1 DEF Requests
    <3> QED BY <2>1, <2>2, <3>1, <3>2 DEF Range
  <2>4. CASE calls[c].source = "kept"
    <3>1. tray = <<>>
      BY <2>4 DEF IInv, Carried
    <3> QED BY <2>2, <3>1 DEF Range
  <2> QED BY <2>1, <2>2, <2>3, <2>4 DEF Requests
<1> QED
  BY <1>1, InvariantHolds, PTL DEF Spec, FilesLeaveWithTheirMessage

-----------------------------------------------------------------------------
(* The button.  What a connection has passed of the session on screen, and *)
(* what the page takes from it.                                            *)

\* The statuses passed so far.
Marks == {i \in Passed : Upstream[i] \in Status}

\* The page goes by the last of them; before the first, by an earlier
\* connection to the same session, if by anything.
ByTheLast ==
  \/ \E i \in Marks : (\A j \in Marks : j <= i) /\ running = Working(Upstream[i])
  \/ Marks = {} /\ (running => \E i \in DOMAIN Upstream : Upstream[i] \in Status)

\* How far a connection has got.
OnTheWay ==
  /\ conn.phase = "asked" => conn.at = 0
  /\ conn.phase = "history" => conn.at <= conn.listed /\ conn.listed <= Len(Upstream)
  /\ conn.phase = "live" =>
       /\ conn.listed <= Len(Upstream)
       /\ conn.opened <= conn.at /\ conn.at <= published[conn.of]

Following == conn.of = viewing /\ OnTheWay /\ (Messageable => ByTheLast)

\* A connection has passed nothing the session has not produced.
LEMMA PassedIsThere ==
  ASSUME RelayTypeOK, OnTheWay, conn.of \in Session
  PROVE  /\ Passed \subseteq 1..Len(Upstream)
         /\ Upstream \in Seq(Kind) /\ conn \in [of : Session \cup {NoSession},
               phase : {"closed", "asked", "history", "live"},
               listed : 0..HistoryLimit, opened : Nat, at : Nat]
         /\ published[conn.of] \in Nat /\ published[conn.of] <= Len(Upstream)
         /\ conn.phase # "closed"
<1>1. /\ Upstream \in Seq(Kind) /\ conn \in [of : Session \cup {NoSession},
               phase : {"closed", "asked", "history", "live"},
               listed : 0..HistoryLimit, opened : Nat, at : Nat]
      /\ published[conn.of] \in Nat /\ published[conn.of] <= Len(Upstream)
      /\ conn.phase # "closed"
  BY RelayAssumption DEF RelayTypeOK, Upstream
<1>2. conn.listed \in Nat /\ conn.opened \in Nat /\ conn.at \in Nat /\ Len(Upstream) \in Nat
  BY <1>1, RelayAssumption
<1>3. Passed \subseteq 1..Len(Upstream)
  BY <1>1, <1>2 DEF Passed, OnTheWay
<1> QED
  BY <1>1, <1>3

LEMMA NewConnectionFollows ==
  ASSUME NEW s \in Session, conn' = Asked(s), viewing' = s,
         running' => \E i \in DOMAIN Upstream' : Upstream'[i] \in Status
  PROVE  Following'
<1>1. conn'.of = s /\ conn'.phase = "asked" /\ conn'.at = 0
  BY DEF Asked, Closed
<1>2. Passed' = {}
  BY <1>1 DEF Passed
<1> QED
  BY <1>1, <1>2 DEF Following, OnTheWay, ByTheLast, Marks

\* Steps of the relay and the platform, the page looking on.
LEMMA RelayFollows ==
  ASSUME RelayTypeOK, Following, UNCHANGED <<active, viewing, running>>,
         \/ UNCHANGED relay
         \/ ListHistory \/ OpenStream \/ Reconnect
         \/ \E s \in Session : Publish(s) \/ \E k \in Kind : Emit(s, k)
  PROVE  Following'
<1> USE RelayAssumption
<1>1. CASE UNCHANGED relay
  BY <1>1 DEF relay, Following, OnTheWay, ByTheLast, Marks, Passed, Upstream, Messageable, OpensInput
<1>2. CASE ListHistory
  <2>1. conn.of \in Session
    BY <1>2 DEF ListHistory, RelayTypeOK
  <2>3. /\ conn'.of = conn.of /\ conn'.phase = "history" /\ conn'.at = conn.at
        /\ conn'.listed = Lesser(Len(Upstream), HistoryLimit)
        /\ conn.phase = "asked" /\ conn.at = 0 /\ Upstream' = Upstream
    BY <1>2, <2>1, PassedIsThere DEF ListHistory, Following, OnTheWay, Upstream
  <2>4. Len(Upstream) \in Nat
    BY <2>1, PassedIsThere DEF Following
  <2>5. OnTheWay'
    BY <2>3, <2>4 DEF OnTheWay, Lesser
  <2>6. Passed' = Passed
    BY <2>3 DEF Passed
  <2> QED BY <2>3, <2>5, <2>6 DEF Following, ByTheLast, Marks, Messageable, OpensInput
<1>3. CASE OpenStream
  <2>1. conn.of \in Session
    BY <1>3 DEF OpenStream, RelayTypeOK
  <2>2. /\ conn'.of = conn.of /\ conn'.phase = "live" /\ conn'.at = published[conn.of]
        /\ conn'.opened = published[conn.of] /\ conn'.listed = conn.listed
        /\ conn.phase = "history" /\ conn.at = conn.listed
        /\ UNCHANGED <<log, published>>
    BY <1>3, <2>1, PassedIsThere DEF OpenStream, Following
  <2>3. published[conn.of] \in Nat /\ conn.listed \in Nat
    BY <2>1, PassedIsThere DEF Following
  <2>4. Upstream' = Upstream
    BY <2>2 DEF Upstream
  <2>5. OnTheWay'
    BY <2>2, <2>3, <2>4 DEF Following, OnTheWay
  <2>6. Passed' = Passed
    BY <2>2, <2>3 DEF Passed
  <2> QED BY <2>2, <2>4, <2>5, <2>6 DEF Following, ByTheLast, Marks, Messageable, OpensInput
<1>4. CASE Reconnect
  <2>1. conn.of \in Session /\ conn' = Asked(conn.of) /\ UNCHANGED <<log, published>>
    BY <1>4 DEF Reconnect, RelayTypeOK
  <2>2. conn'.of = conn.of /\ conn'.phase = "asked" /\ conn'.at = 0
    BY <2>1 DEF Asked, Closed
  <2>3. Passed' = {} /\ Upstream' = Upstream
    BY <2>1, <2>2 DEF Passed, Upstream
  <2>4. ByTheLast => ByTheLast'
    <3>1. Passed \subseteq 1..Len(Upstream) /\ Upstream \in Seq(Kind)
      BY <2>1, PassedIsThere DEF Following
    <3> QED BY <2>3, <3>1 DEF ByTheLast, Marks
  <2> QED BY <2>2, <2>4 DEF Following, OnTheWay, Messageable, OpensInput
<1>5. ASSUME NEW s \in Session, Publish(s) PROVE Following'
  <2>1. /\ published' = [published EXCEPT ![s] = published[s] + 1]
        /\ UNCHANGED <<log, conn>>
        /\ published \in [Session -> Nat]
    BY <1>5 DEF Publish, RelayTypeOK
  <2>2. conn.phase = "live" => conn.of \in Session
    BY DEF RelayTypeOK
  <2>3. conn.phase = "live" => conn.at \in Nat /\ conn.at <= published'[conn.of]
    BY <2>1, <2>2 DEF Following, OnTheWay, RelayTypeOK
  <2> QED BY <2>1, <2>3 DEF Following, OnTheWay, ByTheLast, Marks, Passed, Upstream, Messageable,
         OpensInput
<1>6. ASSUME NEW s \in Session, NEW k \in Kind, Emit(s, k) PROVE Following'
  <2>1. log' = [log EXCEPT ![s] = Append(log[s], k)] /\ UNCHANGED <<published, conn>>
    BY <1>6 DEF Emit
  <2>2. conn.of \notin Session => conn.phase = "closed" /\ viewing = NoSession
    BY DEF RelayTypeOK, Following
  <2>3. CASE conn.of \notin Session
    BY <2>1, <2>2, <2>3 DEF Following, OnTheWay, Messageable, OpensInput
  <2>4. CASE conn.of \in Session
    <3>1. /\ Passed \subseteq 1..Len(Upstream) /\ Upstream \in Seq(Kind)
          /\ conn.listed \in Nat
      BY <2>4, PassedIsThere DEF Following
    <3>2. /\ Len(Upstream') >= Len(Upstream) /\ Upstream' \in Seq(Kind)
          /\ \A i \in 1..Len(Upstream) : Upstream'[i] = Upstream[i]
      BY <2>1, <2>4, <3>1 DEF Upstream, RelayTypeOK
    <3>3. Passed' = Passed
      BY <2>1 DEF Passed
    <3>4. Marks' = Marks
      BY <3>1, <3>2, <3>3 DEF Marks
    <3>5. Marks \subseteq 1..Len(Upstream)
      BY <3>1 DEF Marks
    <3>6. ByTheLast => ByTheLast'
      BY <3>1, <3>2, <3>4, <3>5 DEF ByTheLast
    <3>7. OnTheWay'
      BY <2>1, <3>1, <3>2 DEF Following, OnTheWay
    <3> QED BY <2>1, <3>6, <3>7 DEF Following, Messageable, OpensInput
  <2> QED BY <2>3, <2>4
<1> QED
  BY <1>1, <1>2, <1>3, <1>4, <1>5, <1>6

LEMMA DrawFollows ==
  ASSUME RelayTypeOK, Following, Draw
  PROVE  Following'
<1> DEFINE i == conn.at + 1
           k == Upstream[i]
<1>1. /\ Ready /\ conn' = [conn EXCEPT !.at = conn.at + 1] /\ UNCHANGED <<log, published>>
      /\ UNCHANGED <<active, viewing>>
  BY DEF Draw, Advance
<1>2. conn.of \in Session
  BY <1>1 DEF Ready, RelayTypeOK
<1>3. /\ conn \in [of : Session \cup {NoSession},
               phase : {"closed", "asked", "history", "live"},
               listed : 0..HistoryLimit, opened : Nat, at : Nat]
      /\ Upstream \in Seq(Kind) /\ published[conn.of] \in Nat /\ published[conn.of] <= Len(Upstream)
  BY <1>2, PassedIsThere DEF Following
<1>4. /\ conn.at \in Nat /\ conn.opened \in Nat /\ conn.listed \in Nat /\ Len(Upstream) \in Nat
  BY <1>3, RelayAssumption
<1>5. /\ conn'.of = conn.of /\ conn'.phase = conn.phase /\ conn'.at = i
      /\ conn'.listed = conn.listed /\ conn'.opened = conn.opened
      /\ Upstream' = Upstream
  BY <1>1, <1>3 DEF Upstream
<1>6. OnTheWay' /\ i \in 1..Len(Upstream)
  <2>1. OnTheWay
    BY DEF Following
  <2>2. CASE conn.phase = "history" /\ conn.at < conn.listed
    BY <1>4, <1>5, <2>1, <2>2 DEF OnTheWay
  <2>3. CASE conn.phase = "live" /\ conn.at < published[conn.of]
    <3>1. published'[conn'.of] = published[conn.of]
      BY <1>1, <1>5
    <3> QED BY <1>3, <1>4, <1>5, <2>1, <2>3, <3>1 DEF OnTheWay
  <2> QED BY <1>1, <2>2, <2>3 DEF Ready
<1>7. Passed' = Passed \cup {i}
  <2>1. CASE conn.phase = "history"
    BY <1>4, <1>5, <2>1 DEF Passed
  <2>2. CASE conn.phase = "live"
    <3>1. conn.opened <= conn.at
      BY <2>2 DEF Following, OnTheWay
    <3> QED BY <1>4, <1>5, <2>2, <3>1 DEF Passed
  <2> QED BY <1>1, <2>1, <2>2 DEF Ready
\* What is handed on is later than all before, in the list or after it.
<1>8. HandedOn(i) => \A j \in Passed : j <= i
  <2>1. CASE conn.phase = "history"
    BY <1>4, <2>1 DEF Passed
  <2>2. CASE conn.phase = "live"
    BY <1>4, <2>2 DEF Passed, HandedOn, Seen
  <2> QED BY <1>1, <2>1, <2>2 DEF Ready
<1>9. Seen(i) => i \in Passed
  BY <1>4 DEF Seen, Passed
<1>10. CASE k \in Status /\ HandedOn(i)
  <2>1. running' = Working(k)
    BY <1>10 DEF Draw
  <2>2. i \in Marks' /\ \A j \in Marks' : j <= i
    BY <1>4, <1>5, <1>7, <1>8, <1>10 DEF Marks
  <2>3. ByTheLast'
    BY <1>5, <2>1, <2>2 DEF ByTheLast
  <2> QED BY <1>1, <1>5, <1>6, <2>3 DEF Following
<1>11. CASE ~(k \in Status /\ HandedOn(i))
  <2>1. running' = running
    BY <1>11 DEF Draw
  <2>2. Marks' = Marks
    <3>1. k \in Status => i \in Passed
      BY <1>9, <1>11 DEF HandedOn, Status
    <3> QED BY <1>5, <1>7, <3>1 DEF Marks
  <2> QED BY <1>1, <1>5, <1>6, <2>1, <2>2 DEF Following, ByTheLast, Messageable, OpensInput
<1> QED
  BY <1>10, <1>11

LEMMA FollowingKept ==
  ASSUME IInv, Following, Next
  PROVE  Following'
<1>1. RelayTypeOK /\ calls \in [Call -> Requests]
  BY TypesSplit DEF IInv, PageTypes
<1>2. ASSUME UNCHANGED <<relay, active, viewing, running>> PROVE Following'
  BY <1>1, <1>2, RelayFollows
<1>3. ASSUME NEW c \in Call, Planner(c) PROVE Following'
  <2>1. CASE Asking(c)
    BY <1>2, <2>1, AskingIs DEF quiet, screen
  <2>2. CASE Reload(c)
    BY <2>2 DEF Reload, Closed, Following, OnTheWay, Messageable, OpensInput
  <2>3. ASSUME NEW s \in Session, SelectArchived(c, s) PROVE Following'
    BY <2>3, NewConnectionFollows DEF SelectArchived, Follow
  <2> QED BY <1>3, <2>1, <2>2, <2>3 DEF Planner, Asking
<1>4. ASSUME NEW c \in Call, Server(c) PROVE Following'
  BY <1>2, <1>4, ServerIsQuiet DEF quiet, screen
<1>5. ASSUME NEW c \in Call, Answers(c) PROVE Following'
  <2>1. CASE OpenAnswered(c)
    <3>1. calls[c].of \in Session
      BY <1>1, <2>1 DEF OpenAnswered, Requests, SessionOrNone
    <3> QED BY <2>1, <3>1, NewConnectionFollows DEF OpenAnswered, TakeUp, Follow
  <2>2. CASE StopAnswered(c)
    BY <2>2 DEF StopAnswered, Following, OnTheWay, Messageable, OpensInput, relay, Upstream
  <2>3. CASE LoadedNone(c) \/ OpenRefused(c) \/ Listed(c) \/ MessageAnswered(c) \/ Collect(c)
    BY <1>2, <2>3 DEF LoadedNone, OpenRefused, Listed, MessageAnswered, Collect, quiet, screen
  <2> QED BY <1>5, <2>1, <2>2, <2>3 DEF Answers
<1>6. CASE Draw
  BY <1>1, <1>6, DrawFollows
<1>7. CASE RelayLists \/ RelayOpens \/ StreamLost
           \/ \E s \in Session : AgentActs(s) \/ StreamPublishes(s)
  BY <1>1, <1>7, RelayFollows DEF RelayLists, RelayOpens, StreamLost, AgentActs, StreamPublishes,
     NotPage, screen
<1>8. CASE \/ \E f \in File : AttachFile(f)
           \/ \E n \in DOMAIN tray : RemoveFile(n)
           \/ Elsewhere
  BY <1>2, <1>8 DEF AttachFile, RemoveFile, ChangeTray, Elsewhere, quiet, screen
<1>9. CASE \E j \in DOMAIN polls : ShowOutputs(j) \/ AskAgain(j) \/ PollFails(j)
  BY <1>2, <1>9 DEF ShowOutputs, AskAgain, PollFails, screen
<1> QED
  BY <1>3, <1>4, <1>5, <1>6, <1>7, <1>8, <1>9 DEF Next

\* The last of a set of indices is the one chosen.
LEMMA TheLast ==
  ASSUME NEW S \in SUBSET Nat, NEW i \in S, \A j \in S : j <= i
  PROVE  (CHOOSE n \in S : \A j \in S : j <= n) = i
<1> DEFINE m == CHOOSE n \in S : \A j \in S : j <= n
<1>1. m \in S /\ \A j \in S : j <= m
  OBVIOUS
<1> HIDE DEF m
<1>2. m = i
  BY <1>1
<1> QED
  BY <1>2 DEF m

\* A page that is caught up shows Stop exactly while the session's last status
\* says that the agent works, through any number of replays and reconnects.
THEOREM ButtonFollowsTheAgent == Spec => []ButtonAgrees
<1>1. Init => Following
  BY DEF Init, RelayInit, Closed, Following, OnTheWay, Messageable, OpensInput
<1>2. IInv /\ Following /\ [Next]_vars => Following'
  <2> SUFFICES ASSUME IInv, Following, [Next]_vars PROVE Following'
    OBVIOUS
  <2>1. CASE UNCHANGED vars
    <3>1. UNCHANGED <<relay, active, viewing, running>> /\ RelayTypeOK
      BY <2>1 DEF vars, quiet, screen, IInv, TypeOK
    <3> QED BY <3>1, RelayFollows
  <2> QED BY <2>1, FollowingKept
<1>3. IInv /\ Following => ButtonAgrees
  <2> SUFFICES ASSUME IInv, Following, Messageable, CaughtUp,
                      \A i \in Gap : Upstream[i] \notin Status
               PROVE  running = (LastStatus(viewing) \in {"running", "waits"})
    BY DEF ButtonAgrees
  <2> DEFINE marks == {i \in DOMAIN Upstream : Upstream[i] \in Status}
  <2>1. conn.of \in Session /\ viewing = conn.of /\ Upstream = log[viewing] /\ RelayTypeOK
    BY DEF Following, Messageable, OpensInput, IInv, TypeOK, SessionOrNone, Upstream
  <2>2. /\ Passed \subseteq 1..Len(Upstream) /\ Upstream \in Seq(Kind)
        /\ conn \in [of : Session \cup {NoSession},
               phase : {"closed", "asked", "history", "live"},
               listed : 0..HistoryLimit, opened : Nat, at : Nat]
    BY <2>1, PassedIsThere DEF Following
  <2>3. marks = Marks
    <3>1. conn.listed \in Nat /\ conn.opened \in Nat /\ DOMAIN Upstream = 1..Len(Upstream)
      BY <2>2, RelayAssumption
    <3>2. DOMAIN Upstream \subseteq Passed \cup Gap
      BY <2>2, <3>1 DEF CaughtUp, Passed, Gap
    <3> QED BY <2>2, <3>1, <3>2 DEF Marks
  <2>4. LastStatus(viewing) =
          IF marks = {} THEN "rests" ELSE Upstream[CHOOSE i \in marks : \A j \in marks : j <= i]
    BY <2>1 DEF LastStatus
  <2> HIDE DEF marks
  <2>5. CASE \E i \in Marks : (\A j \in Marks : j <= i) /\ running = Working(Upstream[i])
    <3>1. PICK i \in marks : (\A j \in marks : j <= i) /\ running = Working(Upstream[i])
      BY <2>3, <2>5
    <3>2. marks \in SUBSET Nat
      BY <2>2 DEF marks
    <3>3. (CHOOSE n \in marks : \A j \in marks : j <= n) = i
      BY <3>1, <3>2, TheLast
    <3> QED BY <2>4, <3>1, <3>3 DEF Working
  <2>6. CASE Marks = {} /\ (running => \E i \in DOMAIN Upstream : Upstream[i] \in Status)
    <3>1. ~running /\ running \in BOOLEAN
      BY <2>3, <2>6 DEF marks, IInv, TypeOK
    <3> QED BY <2>3, <2>4, <2>6, <3>1
  <2> QED BY <2>5, <2>6 DEF Following, ByTheLast
<1> QED
  BY <1>1, <1>2, <1>3, InvariantHolds, PTL DEF Spec

-----------------------------------------------------------------------------
(* The transcript.  Entries are added at its end, a new connection starts  *)
(* a new one or marks where it joined, and only Draw adds an event.        *)

\* What there was to draw is drawn; no connection, nothing passed.
Replayed ==
  /\ conn.of \notin Session => conn.at = 0
  /\ \A n \in Drawn : transcript[n].of = conn.of
  /\ \A m, n \in Drawn : m < n => transcript[m].what < transcript[n].what
  /\ {transcript[n].what : n \in Drawn} = SaidIn(Passed)

\* A connection not yet open has passed nothing.
LEMMA NotYetOpen ==
  ASSUME NEW s
  PROVE  Asked(s).phase = "asked" /\ Asked(s).at = 0 /\ Closed.phase = "closed" /\ Closed.at = 0
BY DEF Asked, Closed

\* A connection that has drawn nothing has passed nothing.
LEMMA NothingYet ==
  ASSUME conn'.phase \in {"closed", "asked"}, conn'.at = 0, Drawn' = {}
  PROVE  Replayed'
<1>1. Passed' = {}
  BY DEF Passed
<1> QED
  BY <1>1 DEF Replayed, SaidIn

\* What has been passed stays so while the relay and the platform go on.
LEMMA PassedStays ==
  ASSUME RelayTypeOK, OnTheWay, conn.of \notin Session => conn.at = 0,
         \/ UNCHANGED relay
         \/ ListHistory \/ OpenStream
         \/ \E s \in Session : Publish(s) \/ \E k \in Kind : Emit(s, k)
  PROVE  /\ SaidIn(Passed)' = SaidIn(Passed) /\ conn'.of = conn.of
         /\ conn'.of \notin Session => conn'.at = 0
<1> USE RelayAssumption
<1>1. CASE UNCHANGED relay
  BY <1>1 DEF relay, SaidIn, Passed, Upstream
<1>2. CASE ListHistory
  <2>1. conn.of \in Session
    BY <1>2 DEF ListHistory, RelayTypeOK
  <2>2. /\ conn'.of = conn.of /\ conn'.phase = "history" /\ conn'.at = conn.at
        /\ conn.phase = "asked" /\ Upstream' = Upstream
    BY <1>2, <2>1, PassedIsThere DEF ListHistory, Upstream
  <2> QED BY <2>1, <2>2 DEF SaidIn, Passed
<1>3. CASE OpenStream
  <2>1. conn.of \in Session
    BY <1>3 DEF OpenStream, RelayTypeOK
  <2>2. /\ conn'.of = conn.of /\ conn'.phase = "live" /\ conn'.at = published[conn.of]
        /\ conn'.opened = published[conn.of] /\ conn'.listed = conn.listed
        /\ conn.phase = "history" /\ conn.at = conn.listed /\ UNCHANGED log
    BY <1>3, <2>1, PassedIsThere DEF OpenStream
  <2>3. published[conn.of] \in Nat /\ conn.listed \in Nat
    BY <2>1, PassedIsThere
  <2>4. Passed' = Passed
    BY <2>2, <2>3 DEF Passed
  <2> QED BY <2>1, <2>2, <2>4 DEF SaidIn, Upstream
<1>4. ASSUME NEW s \in Session, Publish(s)
      PROVE  UNCHANGED <<log, conn>>
  BY <1>4 DEF Publish
<1>5. ASSUME NEW s \in Session, NEW k \in Kind, Emit(s, k)
      PROVE  SaidIn(Passed)' = SaidIn(Passed) /\ conn' = conn
  <2>1. log' = [log EXCEPT ![s] = Append(log[s], k)] /\ conn' = conn
    BY <1>5 DEF Emit
  <2>2. Passed' = Passed
    BY <2>1 DEF Passed
  <2>3. CASE conn.of \notin Session
    <3>1. Passed = {}
      BY <2>3 DEF RelayTypeOK, Passed
    <3> QED BY <2>1, <2>2, <3>1 DEF SaidIn
  <2>4. CASE conn.of \in Session
    <3>1. Passed \subseteq 1..Len(Upstream) /\ Upstream \in Seq(Kind)
      BY <2>4, PassedIsThere
    <3>2. \A i \in 1..Len(Upstream) : Upstream'[i] = Upstream[i]
      BY <2>1, <2>4, <3>1 DEF Upstream, RelayTypeOK
    <3> QED BY <2>1, <2>2, <3>1, <3>2 DEF SaidIn
  <2> QED BY <2>3, <2>4
<1> QED
  BY <1>1, <1>2, <1>3, <1>4, <1>5 DEF SaidIn, Passed, Upstream

\* With the transcript as it was, so is what is drawn.
LEMMA RelayReplays ==
  ASSUME RelayTypeOK, Following, Replayed, UNCHANGED <<transcript, since>>,
         \/ UNCHANGED relay
         \/ ListHistory \/ OpenStream
         \/ \E s \in Session : Publish(s) \/ \E k \in Kind : Emit(s, k)
  PROVE  Replayed'
<1>1. /\ SaidIn(Passed)' = SaidIn(Passed) /\ conn'.of = conn.of
      /\ conn'.of \notin Session => conn'.at = 0
  BY PassedStays DEF Following, Replayed
<1>2. Drawn' = Drawn
  BY DEF Drawn
<1> QED
  BY <1>1, <1>2 DEF Replayed

\* Files drawn for a session make rows of that session.
LEMMA RowsOf ==
  ASSUME NEW fresh \in Seq(Output), NEW s \in Session
  PROVE  [n \in DOMAIN fresh |-> [of |-> s, what |-> fresh[n]]] \in Seq([of : Session, what : Output])
<1>1. DOMAIN fresh = 1..Len(fresh) /\ Len(fresh) \in Nat
  OBVIOUS
<1>2. \A n \in 1..Len(fresh) : fresh[n] \in Output
  OBVIOUS
<1>3. [n \in 1..Len(fresh) |-> [of |-> s, what |-> fresh[n]]]
        \in [1..Len(fresh) -> [of : Session, what : Output]]
  BY <1>2
<1> QED
  BY <1>1, <1>3

\* Rows added behind a sequence change none of its own.
LEMMA RowsBehind ==
  ASSUME NEW A, NEW B, NEW t \in Seq(A), NEW new \in Seq(B)
  PROVE  /\ Len(t) \in Nat /\ Len(new) \in Nat
         /\ Len(t \o new) = Len(t) + Len(new)
         /\ \A n \in 1..Len(t) : (t \o new)[n] = t[n]
         /\ \A n \in Len(t) + 1..Len(t \o new) : (t \o new)[n] \in B
<1>1. /\ Len(t) \in Nat /\ Len(new) \in Nat
      /\ Len(t \o new) = Len(t) + Len(new)
      /\ \A n \in 1..Len(t) + Len(new) :
           (t \o new)[n] = IF n <= Len(t) THEN t[n] ELSE new[n - Len(t)]
  OBVIOUS
<1>2. \A n \in 1..Len(new) : new[n] \in B
  OBVIOUS
<1>3. ASSUME NEW n \in Len(t) + 1..Len(t \o new) PROVE (t \o new)[n] \in B
  <2>1. n \in 1..Len(t) + Len(new) /\ ~(n <= Len(t)) /\ n - Len(t) \in 1..Len(new)
    BY <1>1
  <2> QED BY <1>1, <1>2, <2>1
<1>4. ASSUME NEW n \in 1..Len(t) PROVE (t \o new)[n] = t[n]
  <2>1. n \in 1..Len(t) + Len(new) /\ n <= Len(t)
    BY <1>1
  <2> QED BY <1>1, <2>1
<1> QED
  BY <1>1, <1>3, <1>4

\* Outputs are drawn among the events and change none of them.
LEMMA OutputsAside ==
  ASSUME IInv, Replayed, NEW j \in DOMAIN polls, ShowOutputs(j)
  PROVE  Replayed'
<1>1. /\ transcript \in Seq([of : Session, what : Nat \cup Output])
      /\ since \in 0..Len(transcript)
      /\ relay' = relay /\ since' = since
  BY DEF IInv, TypeOK, ShowOutputs
<1>2. transcript' = transcript \/ \E new \in Seq([of : Session, what : Output]) :
        transcript' = transcript \o new
  <2> DEFINE fresh == NewOutputs(j)
             new == [n \in DOMAIN fresh |-> [of |-> polls[j].of, what |-> fresh[n]]]
  <2>1. fresh \in Seq(Output) /\ polls[j].of \in Session
    BY NewOutputsAre, PollIs DEF IInv, TypeOK, ShowOutputs, SessionOrNone
  <2> HIDE DEF fresh
  <2>2. new \in Seq([of : Session, what : Output])
    BY <2>1, RowsOf
  <2>3. transcript' = transcript \/ transcript' = transcript \o new
    BY DEF ShowOutputs, fresh
  <2> QED BY <2>2, <2>3
<1>3. Drawn' = Drawn /\ \A n \in Drawn : transcript'[n] = transcript[n]
  <2>1. ASSUME NEW new \in Seq([of : Session, what : Output]), transcript' = transcript \o new
        PROVE  Drawn' = Drawn /\ \A n \in Drawn : transcript'[n] = transcript[n]
    <3>1. /\ Len(transcript') = Len(transcript) + Len(new)
          /\ Len(transcript) \in Nat /\ Len(new) \in Nat /\ since \in Nat
          /\ \A n \in 1..Len(transcript) : transcript'[n] = transcript[n]
          /\ \A n \in Len(transcript) + 1..Len(transcript') :
               transcript'[n] \in [of : Session, what : Output]
      <4>1. transcript \in Seq([of : Session, what : Nat \cup Output]) /\ since \in Nat
        BY <1>1
      <4>2. /\ Len(transcript) \in Nat /\ Len(new) \in Nat
            /\ Len(transcript \o new) = Len(transcript) + Len(new)
            /\ \A n \in 1..Len(transcript) : (transcript \o new)[n] = transcript[n]
            /\ \A n \in Len(transcript) + 1..Len(transcript \o new) :
                 (transcript \o new)[n] \in [of : Session, what : Output]
        <5> HIDE DEF IInv
        <5> QED BY <4>1, RowsBehind
      <4> QED BY <2>1, <4>1, <4>2
    <3>2. \A n \in Len(transcript) + 1..Len(transcript') : transcript'[n].what \in Output
      <4>1. \A r \in [of : Session, what : Output] : r.what \in Output
        OBVIOUS
      <4> QED BY <3>1, <4>1
    <3>3. \A n : n \in Drawn' <=> n \in Drawn
      BY <1>1, <3>1, <3>2 DEF Drawn
    <3> QED BY <3>1, <3>2, <3>3 DEF Drawn
  <2> QED BY <1>1, <1>2, <2>1 DEF Drawn
<1>4. SaidIn(Passed)' = SaidIn(Passed) /\ conn' = conn
  BY <1>1 DEF relay, SaidIn, Passed, Upstream
<1> QED
  BY <1>3, <1>4 DEF Replayed

\* An event handed on is drawn after all before it; one that is not was drawn
\* from the list, or is nothing to draw.
LEMMA DrawReplays ==
  ASSUME IInv, Following, Replayed, Draw
  PROVE  Replayed'
<1> DEFINE i == conn.at + 1
           k == Upstream[i]
<1>1. /\ Ready /\ conn' = [conn EXCEPT !.at = conn.at + 1] /\ UNCHANGED <<log, published>>
      /\ since' = since /\ RelayTypeOK
  BY DEF Draw, Advance, IInv, TypeOK
<1>2. conn.of \in Session
  BY <1>1 DEF Ready, RelayTypeOK
<1>3. /\ conn \in [of : Session \cup {NoSession},
               phase : {"closed", "asked", "history", "live"},
               listed : 0..HistoryLimit, opened : Nat, at : Nat]
      /\ Upstream \in Seq(Kind) /\ published[conn.of] \in Nat /\ published[conn.of] <= Len(Upstream)
      /\ Passed \subseteq 1..Len(Upstream)
  BY <1>1, <1>2, PassedIsThere DEF Following
<1>4. /\ conn.at \in Nat /\ conn.opened \in Nat /\ conn.listed \in Nat /\ Len(Upstream) \in Nat
  BY <1>3, RelayAssumption
<1>5. /\ conn'.of = conn.of /\ conn'.phase = conn.phase /\ conn'.at = i
      /\ conn'.listed = conn.listed /\ conn'.opened = conn.opened
      /\ Upstream' = Upstream
  BY <1>1, <1>3 DEF Upstream
<1>6. i \in 1..Len(Upstream)
  <2>1. OnTheWay
    BY DEF Following
  <2>2. CASE conn.phase = "history" /\ conn.at < conn.listed
    BY <1>4, <2>1, <2>2 DEF OnTheWay
  <2>3. CASE conn.phase = "live" /\ conn.at < published[conn.of]
    BY <1>3, <1>4, <2>3
  <2> QED BY <1>1, <2>2, <2>3 DEF Ready
<1>7. Passed' = Passed \cup {i}
  <2>1. CASE conn.phase = "history"
    BY <1>4, <1>5, <2>1 DEF Passed
  <2>2. CASE conn.phase = "live"
    <3>1. conn.opened <= conn.at
      BY <2>2 DEF Following, OnTheWay
    <3> QED BY <1>4, <1>5, <2>2, <3>1 DEF Passed
  <2> QED BY <1>1, <2>1, <2>2 DEF Ready
<1>8. HandedOn(i) => \A j \in Passed : j < i
  <2>1. CASE conn.phase = "history"
    BY <1>4, <2>1 DEF Passed
  <2>2. CASE conn.phase = "live"
    BY <1>4, <2>2 DEF Passed, HandedOn, Seen
  <2> QED BY <1>1, <2>1, <2>2 DEF Ready
<1>9. Seen(i) => i \in Passed
  BY <1>4 DEF Seen, Passed
<1>10. SaidIn(Passed)' = SaidIn(Passed) \cup (IF k = "said" THEN {i} ELSE {})
  BY <1>5, <1>7 DEF SaidIn
<1>11. k \in Kind
  BY <1>3, <1>6
<1> HIDE DEF i, k
<1>12. CASE HandedOn(i) /\ k = "said"
  <2>1. transcript' = Append(transcript, Entry(i))
    BY <1>12 DEF Draw, Status, i, k
  <2>2. transcript \in Seq([of : Session, what : Nat \cup Output]) /\ since \in 0..Len(transcript)
    BY DEF IInv, TypeOK
  <2>3. Entry(i).of = conn.of /\ Entry(i).what = i /\ i \in Nat /\ i \notin Output
    BY <1>4, <1>6, PageAssumption DEF Entry
  <2> DEFINE last == Len(transcript) + 1
  <2>4. /\ Len(transcript') = last /\ transcript'[last] = Entry(i) /\ last \in Nat
        /\ \A n \in 1..Len(transcript) : transcript'[n] = transcript[n]
    BY <2>1, <2>2
  <2>5. Drawn' = Drawn \cup {last} /\ \A n \in Drawn : n < last /\ transcript'[n] = transcript[n]
    <3>1. \A n : n \in Drawn' <=> n \in Drawn \/ n = last
      BY <1>1, <2>2, <2>3, <2>4 DEF Drawn
    <3> QED BY <2>2, <2>4, <3>1 DEF Drawn
  <2>6. \A n \in Drawn : transcript[n].what < i
    BY <1>8, <1>12 DEF Replayed, SaidIn
  <2>7. /\ \A n \in Drawn' : transcript'[n].of = conn'.of
        /\ {transcript'[n].what : n \in Drawn'} = {transcript[n].what : n \in Drawn} \cup {i}
    BY <1>5, <2>3, <2>4, <2>5 DEF Replayed
  <2>8. \A m, n \in Drawn' : m < n => transcript'[m].what < transcript'[n].what
    <3> SUFFICES ASSUME NEW m \in Drawn', NEW n \in Drawn', m < n
                 PROVE  transcript'[m].what < transcript'[n].what
      OBVIOUS
    <3>1. m # last
      BY <2>4, <2>5 DEF Drawn
    <3> QED BY <2>3, <2>4, <2>5, <2>6, <3>1 DEF Replayed
  <2> QED BY <1>2, <1>5, <1>10, <1>12, <2>7, <2>8 DEF Replayed
<1>13. CASE ~(HandedOn(i) /\ k = "said")
  <2>1. transcript' = transcript
    BY <1>11, <1>13 DEF Draw, HandedOn, Kind, Status, i, k
  <2>2. Drawn' = Drawn
    BY <1>1, <2>1 DEF Drawn
  <2>3. k = "said" => i \in SaidIn(Passed)
    BY <1>9, <1>13 DEF HandedOn, SaidIn, k
  <2>4. SaidIn(Passed)' = SaidIn(Passed)
    BY <1>10, <2>3
  <2> QED BY <1>2, <1>5, <2>1, <2>2, <2>4 DEF Replayed
<1> QED
  BY <1>12, <1>13

LEMMA ReplayedKept ==
  ASSUME IInv, Following, Replayed, Next
  PROVE  Replayed'
<1>1. RelayTypeOK /\ calls \in [Call -> Requests]
  BY TypesSplit DEF IInv, PageTypes
<1>2. ASSUME UNCHANGED <<relay, transcript, since>> PROVE Replayed'
  BY <1>1, <1>2, RelayReplays
<1>3. ASSUME transcript' = <<>>, since' = 0, NEW s \in SessionOrNone,
             conn' = Asked(s) \/ conn' = Closed
      PROVE  Replayed'
  <2>1. conn'.phase \in {"closed", "asked"} /\ conn'.at = 0
    BY <1>3, NotYetOpen
  <2>2. \A n \in 1..0 : FALSE
    OBVIOUS
  <2>3. Drawn' = {}
    <3>1. Len(transcript') = 0
      BY <1>3
    <3> QED BY <1>3, <2>2, <3>1 DEF Drawn
  <2> QED BY <2>1, <2>3, NothingYet
<1>4. ASSUME NEW c \in Call, Planner(c) PROVE Replayed'
  <2>1. CASE Asking(c)
    BY <1>2, <2>1, AskingIs DEF quiet, drawing
  <2>2. CASE Reload(c)
    BY <1>3, <2>2 DEF Reload, SessionOrNone
  <2>3. ASSUME NEW s \in Session, SelectArchived(c, s) PROVE Replayed'
    BY <1>3, <2>3 DEF SelectArchived, Follow, SessionOrNone
  <2> QED BY <1>4, <2>1, <2>2, <2>3 DEF Planner, Asking
<1>5. ASSUME NEW c \in Call, Server(c) PROVE Replayed'
  BY <1>2, <1>5, ServerIsQuiet DEF quiet, drawing
<1>6. ASSUME NEW c \in Call, Answers(c) PROVE Replayed'
  <2>1. CASE OpenAnswered(c)
    BY <1>1, <1>3, <2>1 DEF OpenAnswered, TakeUp, Follow, Requests
  <2>2. CASE LoadedNone(c) \/ OpenRefused(c) \/ StopAnswered(c) \/ Listed(c) \/ MessageAnswered(c)
             \/ Collect(c)
    BY <1>2, <2>2 DEF LoadedNone, OpenRefused, StopAnswered, Listed, MessageAnswered, Collect,
       quiet, drawing
  <2> QED BY <1>6, <2>1, <2>2 DEF Answers
<1>7. CASE Draw
  BY <1>7, DrawReplays
<1>8. CASE RelayLists \/ RelayOpens \/ \E s \in Session : AgentActs(s) \/ StreamPublishes(s)
  BY <1>1, <1>8, RelayReplays DEF RelayLists, RelayOpens, AgentActs, StreamPublishes, NotPage,
     drawing
<1>9. CASE StreamLost
  <2>1. conn' = Asked(conn.of) /\ since' = Len(transcript) /\ transcript' = transcript
    BY <1>9 DEF StreamLost, Reconnect
  <2>2. Len(transcript) \in Nat
    BY DEF IInv, TypeOK
  <2> QED BY <2>1, <2>2, NothingYet DEF Asked, Closed, Drawn
<1>10. CASE \/ \E f \in File : AttachFile(f)
            \/ \E n \in DOMAIN tray : RemoveFile(n)
            \/ Elsewhere
  BY <1>2, <1>10 DEF AttachFile, RemoveFile, ChangeTray, Elsewhere, quiet, drawing
<1>11. ASSUME NEW j \in DOMAIN polls, ShowOutputs(j) \/ AskAgain(j) \/ PollFails(j)
       PROVE  Replayed'
  BY <1>2, <1>11, OutputsAside DEF AskAgain, PollFails
<1> QED
  BY <1>4, <1>5, <1>6, <1>7, <1>8, <1>9, <1>10, <1>11 DEF Next

\* A transcript is what its session had said when it was taken up and what
\* followed, in order and each once, short of the gap at most: through any
\* number of reconnects, switches, polls and requests in flight.
THEOREM TranscriptIsReplay == Spec => []ReplayThenFollow
<1>1. Init => Following /\ Replayed
  <2> SUFFICES ASSUME Init PROVE Following /\ Replayed
    OBVIOUS
  <2>1. conn = Closed /\ viewing = NoSession /\ transcript = <<>> /\ since = 0
    BY DEF Init, RelayInit
  <2>2. Drawn = {} /\ Passed = {}
    BY <2>1 DEF Drawn, Passed, Closed
  <2> QED
    BY <2>1, <2>2 DEF Closed, Following, OnTheWay, Messageable, OpensInput, Replayed, SaidIn
<1>2. IInv /\ Following /\ Replayed /\ [Next]_vars => Following' /\ Replayed'
  <2> SUFFICES ASSUME IInv, Following, Replayed, [Next]_vars PROVE Following' /\ Replayed'
    OBVIOUS
  <2>1. CASE UNCHANGED vars
    <3>1. /\ UNCHANGED <<relay, active, viewing, running, transcript, since>>
          /\ RelayTypeOK
      BY <2>1 DEF vars, quiet, screen, drawing, IInv, TypeOK
    <3> QED BY <3>1, RelayFollows, RelayReplays
  <2> QED BY <2>1, FollowingKept, ReplayedKept
<1>3. IInv /\ Following /\ Replayed => ReplayThenFollow
  <2> SUFFICES ASSUME IInv, Following, Replayed, CaughtUp
               PROVE  SaidIn(DOMAIN Upstream) = SaidIn(Passed) \cup SaidIn(Gap \cap DOMAIN Upstream)
    BY DEF Following, Replayed, ReplayThenFollow
  <2>1. conn.of \in Session /\ RelayTypeOK
    BY DEF IInv, TypeOK, CaughtUp, RelayTypeOK
  <2>2. /\ Passed \subseteq 1..Len(Upstream) /\ Upstream \in Seq(Kind)
        /\ conn \in [of : Session \cup {NoSession},
               phase : {"closed", "asked", "history", "live"},
               listed : 0..HistoryLimit, opened : Nat, at : Nat]
    BY <2>1, PassedIsThere DEF Following
  <2>3. conn.listed \in Nat /\ conn.opened \in Nat /\ DOMAIN Upstream = 1..Len(Upstream)
    BY <2>2, RelayAssumption
  <2>4. DOMAIN Upstream \subseteq Passed \cup Gap
    BY <2>2, <2>3 DEF CaughtUp, Passed, Gap
  <2> QED BY <2>2, <2>3, <2>4 DEF SaidIn
<1> QED
  BY <1>1, <1>2, <1>3, InvariantHolds, PTL DEF Spec
=============================================================================
