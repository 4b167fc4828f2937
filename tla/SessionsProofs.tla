--------------------------- MODULE SessionsProofs ---------------------------
(***************************************************************************)
(* For any number of sessions, requests and attachments, with every        *)
(* failure of Sessions: only the active session is answered, none is left  *)
(* active and unanswered by a handler, and the server keeps to the one-at- *)
(* a-time design of Switchboard.                                           *)
(***************************************************************************)
EXTENDS Sessions, FiniteSetTheorems, TLAPS

-----------------------------------------------------------------------------
(* The inductive invariant.                                                *)

LockPlaces == {"wait", "interrupt", "cancel", "cancelled", "create", "refresh", "archive"}

Detaching == {"interrupt", "cancel", "cancelled"}

\* What stands in the queue: each request once, only the head past its wait,
\* and each knows what it is for.
QueueInOrder ==
  /\ \A i \in DOMAIN queue :
       /\ pc[queue[i]] \in LockPlaces
       /\ i > 1 => pc[queue[i]] = "wait"
       /\ op[queue[i]] \in {"new", "activate", "stop"}
       /\ op[queue[i]] = "activate" => target[queue[i]] \in Session
  /\ \A i, j \in DOMAIN queue : queue[i] = queue[j] => i = j

\* How far the lock's holder h has got, and what it has done to the globals.
HolderAt(h) ==
  /\ pc[h] = "wait" => active = handle
  /\ pc[h] \in Detaching =>
       /\ leaving[h] = handle /\ handle \in Session
       /\ active = IF op[h] = "activate" THEN handle ELSE NoSession
  /\ pc[h] = "cancelled" => runners = {}
  /\ pc[h] = "create" => active = NoSession /\ handle = NoSession
  /\ pc[h] = "refresh" => active = target[h] /\ active \in Session /\ handle = NoSession
  /\ pc[h] = "archive" => active = NoSession /\ handle = NoSession

\* The runner alive, if any, is the one _answering holds; and between two
\* holders of the lock that is the active session's.
Globals ==
  /\ runners \subseteq {handle} \cap Session
  /\ IF queue = <<>> THEN active = handle ELSE HolderAt(Head(queue))

\* A message at its uploads has one to go.
UploadsLeft == \A r \in Request : pc[r] = "upload" => left[r] > 0

IInv == TypeOK /\ QueueInOrder /\ Globals /\ UploadsLeft

-----------------------------------------------------------------------------
(* What the kinds of step do to the queue.                                 *)

\* A step of r leaves the other handlers where they are.
OthersStay(r) ==
  \A q \in Request \ {r} :
    pc'[q] = pc[q] /\ op'[q] = op[q] /\ target'[q] = target[q] /\ leaving'[q] = leaving[q]

LEMMA HeadOfQueue ==
  ASSUME TypeOK, queue # <<>>
  PROVE  /\ 1 \in DOMAIN queue
         /\ Head(queue) = queue[1]
         /\ Head(queue) \in Request
         /\ Tail(queue) \in Seq(Request)
         /\ DOMAIN Tail(queue) = 1..(Len(queue) - 1)
         /\ \A i \in DOMAIN Tail(queue) : i + 1 \in DOMAIN queue /\ Tail(queue)[i] = queue[i + 1]
         /\ Tail(queue) # <<>> => 2 \in DOMAIN queue /\ Head(Tail(queue)) = queue[2]
  BY DEF TypeOK

LEMMA AskQueues ==
  ASSUME IInv, NEW r \in Request, NEW what \in {"new", "activate", "stop"},
         Ask(r, what), OthersStay(r), what = "activate" => target'[r] \in Session,
         UNCHANGED <<active, handle, runners>>
  PROVE  QueueInOrder' /\ Globals'
<1> USE DEF LockPlaces
<1>1. queue \in Seq(Request) /\ pc \in [Request -> Places] /\ op \in [Request -> Operation]
  BY DEF IInv, TypeOK
<1>2. pc[r] = "idle" /\ pc'[r] = "wait" /\ op'[r] = what /\ queue' = Append(queue, r)
  BY <1>1 DEF Ask, Goto
<1>3. \A i \in DOMAIN queue : queue[i] \in Request \ {r} /\ queue'[i] = queue[i]
  BY <1>1, <1>2 DEF IInv, QueueInOrder
<1>4. DOMAIN queue' = 1..(Len(queue) + 1) /\ queue'[Len(queue) + 1] = r
  BY <1>1, <1>2
<1>5. QueueInOrder'
  BY <1>1, <1>2, <1>3, <1>4 DEF IInv, QueueInOrder, OthersStay
<1>6. CASE queue = <<>>
  <2>1. Head(queue') = r /\ queue' # <<>> /\ active = handle
    BY <1>1, <1>2, <1>6 DEF IInv, Globals
  <2> QED BY <2>1, <1>2, <1>5 DEF IInv, Globals, HolderAt, Detaching
<1>7. CASE queue # <<>>
  <2>1. Head(queue') = Head(queue) /\ queue' # <<>> /\ Head(queue) \in Request \ {r}
    BY <1>1, <1>2, <1>3, <1>7, HeadOfQueue DEF IInv
  <2> QED BY <2>1, <1>5, <1>7 DEF IInv, Globals, HolderAt, Detaching, OthersStay
<1> QED BY <1>6, <1>7

LEMMA HolderMovesOn ==
  ASSUME IInv, NEW r \in Request, queue # <<>>, r = Head(queue), NEW place \in LockPlaces,
         Goto(r, place), UNCHANGED <<queue, op, target>>
  PROVE  QueueInOrder'
<1>1. queue \in Seq(Request) /\ pc \in [Request -> Places]
  BY DEF IInv, TypeOK
<1>2. r = queue[1] /\ pc'[r] = place /\ \A q \in Request \ {r} : pc'[q] = pc[q]
  BY <1>1, HeadOfQueue DEF IInv, Goto
<1>3. \A i \in DOMAIN queue : queue[i] \in Request /\ (i > 1 => queue[i] # r)
  BY <1>1, <1>2, HeadOfQueue DEF IInv, QueueInOrder
<1> QED
  BY <1>1, <1>2, <1>3 DEF IInv, QueueInOrder

LEMMA ReleaseQueues ==
  ASSUME IInv, NEW r \in Request, queue # <<>>, r = Head(queue), Release(r)
  PROVE  QueueInOrder' /\ (queue' # <<>> => pc'[Head(queue')] = "wait" /\ Head(queue') \in Request)
<1>1. queue \in Seq(Request) /\ pc \in [Request -> Places] /\ target \in [Request -> SessionOrNone]
  BY DEF IInv, TypeOK
<1>2. /\ queue' = Tail(queue) /\ op' = op
      /\ \A q \in Request \ {r} : pc'[q] = pc[q] /\ target'[q] = target[q]
  BY <1>1 DEF Release, Answered
<1>3. \A i \in DOMAIN queue : i > 1 => queue[i] \in Request \ {r} /\ pc'[queue[i]] = "wait"
  BY <1>1, <1>2, HeadOfQueue DEF IInv, QueueInOrder
<1>4. QueueInOrder'
  <2>1. ASSUME NEW i \in DOMAIN queue'
        PROVE  i + 1 \in DOMAIN queue /\ queue'[i] = queue[i + 1] /\ i + 1 > 1 /\ i \in Nat
    BY <2>1, <1>1, <1>2, HeadOfQueue DEF IInv
  <2>2. ASSUME NEW i \in DOMAIN queue'
        PROVE  /\ pc'[queue'[i]] = "wait" /\ op'[queue'[i]] \in {"new", "activate", "stop"}
               /\ op'[queue'[i]] = "activate" => target'[queue'[i]] \in Session
    BY <2>1, <1>2, <1>3 DEF IInv, QueueInOrder
  <2>3. ASSUME NEW i \in DOMAIN queue', NEW j \in DOMAIN queue', queue'[i] = queue'[j] PROVE i = j
    BY <2>1, <2>3 DEF IInv, QueueInOrder
  <2> QED BY <2>2, <2>3 DEF QueueInOrder, LockPlaces
<1>5. queue' # <<>> => pc'[Head(queue')] = "wait" /\ Head(queue') \in Request
  BY <1>2, <1>3, HeadOfQueue DEF IInv
<1> QED BY <1>4, <1>5

\* Whoever does not hold a place at the lock disturbs nobody who does.
LEMMA OutsideTheLock ==
  ASSUME IInv, NEW r \in Request, pc[r] \notin LockPlaces, OthersStay(r),
         UNCHANGED <<active, handle, runners, queue>>
  PROVE  QueueInOrder' /\ Globals'
<1>1. queue \in Seq(Request)
  BY DEF IInv, TypeOK
<1>2. \A i \in DOMAIN queue : queue[i] \in Request \ {r}
  BY <1>1 DEF IInv, QueueInOrder
<1>3. QueueInOrder'
  BY <1>2 DEF IInv, QueueInOrder, OthersStay
<1>4. queue # <<>> => Head(queue) \in Request \ {r}
  BY <1>2, HeadOfQueue DEF IInv
<1> QED
  BY <1>3, <1>4 DEF IInv, Globals, HolderAt, Detaching, OthersStay

-----------------------------------------------------------------------------
(* Every step keeps the invariant.                                         *)

LEMMA InitIInv == Init => IInv
<1> SUFFICES ASSUME Init PROVE IInv
  OBVIOUS
<1>1. TypeOK
  <2>1. left \in [Request -> 0..MaxFiles]
    BY SessionsAssumption DEF Init
  <2>2. queue \in Seq(Request) /\ runners \in SUBSET Session
    BY DEF Init
  <2>3. op \in [Request -> Operation] /\ pc \in [Request -> Places]
    BY DEF Init, Operation, Places
  <2> QED BY <2>1, <2>2, <2>3 DEF Init, TypeOK, SessionOrNone
<1>2. DOMAIN queue = {}
  BY DEF Init
<1> QED
  BY <1>1, <1>2 DEF Init, IInv, QueueInOrder, Globals, UploadsLeft

\* The holder goes on to another place of its handler.
LEMMA HolderSteps ==
  ASSUME IInv, NEW r \in Request,
         \/ DetachInterrupt(r) \/ DetachCancel(r) \/ NewBegin(r) \/ NewDetached(r)
         \/ ActivateSwitch(r) \/ ActivateTake(r) \/ StopBegin(r) \/ StopDetached(r)
  PROVE  IInv'
<1> USE SessionsAssumption DEF LockPlaces, Detaching
<1>1. TypeOK
  BY DEF IInv
<1>2. ASSUME queue # <<>>, r = Head(queue), NEW place \in LockPlaces, Goto(r, place),
             UNCHANGED <<queue, op, target, left>>,
             TypeOK', runners' \subseteq {handle'} \cap Session, HolderAt(r)'
      PROVE  IInv'
  <2>1. QueueInOrder'
    BY <1>2, HolderMovesOn
  <2>2. Globals'
    BY <1>2 DEF Globals
  <2>3. UploadsLeft'
    BY <1>1, <1>2 DEF IInv, UploadsLeft, Goto, TypeOK
  <2> QED BY <1>2, <2>1, <2>2, <2>3 DEF IInv
<1>3. CASE DetachInterrupt(r)
  <2>1. TypeOK'
    BY <1>1, <1>3 DEF DetachInterrupt, Holds, Goto, server, handlers, platform, TypeOK, SessionOrNone, Operation, Places
  <2>2. runners' \subseteq {handle'} \cap Session /\ HolderAt(r)'
    BY <1>1, <1>3 DEF DetachInterrupt, Holds, Goto, server, handlers, platform, TypeOK, SessionOrNone, Operation, Places, IInv, Globals, HolderAt, QueueInOrder
  <2> QED BY <1>2, <1>3, <2>1, <2>2 DEF DetachInterrupt, Holds, server, handlers
<1>4. CASE DetachCancel(r)
  <2>1. TypeOK'
    BY <1>1, <1>4 DEF DetachCancel, Holds, Goto, server, handlers, platform, TypeOK, SessionOrNone, Operation, Places
  <2>2. runners' \subseteq {handle'} \cap Session /\ HolderAt(r)'
    BY <1>1, <1>4 DEF DetachCancel, Holds, Goto, server, handlers, platform, TypeOK, SessionOrNone, Operation, Places, IInv, Globals, HolderAt, QueueInOrder
  <2> QED BY <1>2, <1>4, <2>1, <2>2 DEF DetachCancel, Holds, server, handlers
<1>5. CASE NewBegin(r)
  <2>1. TypeOK'
    BY <1>1, <1>5 DEF NewBegin, Holds, Goto, server, handlers, platform, TypeOK, SessionOrNone, Operation, Places
  <2>2. runners' \subseteq {handle'} \cap Session /\ HolderAt(r)'
    BY <1>1, <1>5 DEF NewBegin, Holds, Goto, server, handlers, platform, TypeOK, SessionOrNone, Operation, Places, IInv, Globals, HolderAt, QueueInOrder
  <2> QED BY <1>2, <1>5, <2>1, <2>2 DEF NewBegin, Holds
<1>6. CASE NewDetached(r)
  <2>1. TypeOK'
    BY <1>1, <1>6 DEF NewDetached, Holds, Goto, server, handlers, platform, TypeOK, SessionOrNone, Operation, Places
  <2>2. runners' \subseteq {handle'} \cap Session /\ HolderAt(r)'
    BY <1>1, <1>6 DEF NewDetached, Holds, Goto, server, handlers, platform, TypeOK, SessionOrNone, Operation, Places, IInv, Globals, HolderAt, QueueInOrder
  <2> QED BY <1>2, <1>6, <2>1, <2>2 DEF NewDetached, Holds, server, handlers
<1>7. CASE ActivateSwitch(r)
  <2>1. TypeOK'
    BY <1>1, <1>7 DEF ActivateSwitch, Holds, Goto, server, handlers, platform, TypeOK, SessionOrNone, Operation, Places
  <2>2. runners' \subseteq {handle'} \cap Session /\ HolderAt(r)'
    BY <1>1, <1>7 DEF ActivateSwitch, Holds, Goto, server, handlers, platform, TypeOK, SessionOrNone, Operation, Places, IInv, Globals, HolderAt, QueueInOrder
  <2> QED BY <1>2, <1>7, <2>1, <2>2 DEF ActivateSwitch, Holds, server, handlers
<1>8. CASE ActivateTake(r)
  <2>1. TypeOK'
    BY <1>1, <1>8 DEF ActivateTake, Holds, Goto, server, handlers, platform, TypeOK, SessionOrNone, Operation, Places
  <2>2. runners' \subseteq {handle'} \cap Session /\ HolderAt(r)'
    BY <1>1, <1>8 DEF ActivateTake, Holds, Goto, server, handlers, platform, TypeOK, SessionOrNone, Operation, Places, IInv, Globals, HolderAt, QueueInOrder
  <2> QED BY <1>2, <1>8, <2>1, <2>2 DEF ActivateTake, Holds, server, handlers
<1>9. CASE StopBegin(r)
  <2>1. TypeOK'
    BY <1>1, <1>9 DEF StopBegin, Holds, Goto, server, handlers, platform, TypeOK, SessionOrNone, Operation, Places
  <2>2. runners' \subseteq {handle'} \cap Session /\ HolderAt(r)'
    BY <1>1, <1>9 DEF StopBegin, Holds, Goto, server, handlers, platform, TypeOK, SessionOrNone, Operation, Places, IInv, Globals, HolderAt, QueueInOrder
  <2> QED BY <1>2, <1>9, <2>1, <2>2 DEF StopBegin, Holds, server, handlers
<1>10. CASE StopDetached(r)
  <2>1. TypeOK'
    BY <1>1, <1>10 DEF StopDetached, Holds, Goto, server, handlers, platform, TypeOK, SessionOrNone, Operation, Places
  <2>2. runners' \subseteq {handle'} \cap Session /\ HolderAt(r)'
    BY <1>1, <1>10 DEF StopDetached, Holds, Goto, server, handlers, platform, TypeOK, SessionOrNone, Operation, Places, IInv, Globals, HolderAt, QueueInOrder
  <2> QED BY <1>2, <1>10, <2>1, <2>2 DEF StopDetached, Holds, server, handlers
<1> QED BY <1>3, <1>4, <1>5, <1>6, <1>7, <1>8, <1>9, <1>10

\* The holder returns and gives the lock to the next in the queue.
LEMMA ReleasingSteps ==
  ASSUME IInv, NEW r \in Request,
         \/ NewCreate(r) \/ NewFail(r) \/ ActivateAlready(r) \/ ActivateAttach(r)
         \/ StopNothing(r) \/ StopArchive(r)
  PROVE  IInv'
<1>1. TypeOK
  BY DEF IInv
<1>2. ASSUME queue # <<>>, r = Head(queue), Release(r), TypeOK',
             runners' \subseteq {handle'} \cap Session, active' = handle'
      PROVE  IInv'
  <2>1. QueueInOrder' /\ (queue' # <<>> => pc'[Head(queue')] = "wait")
    BY <1>2, ReleaseQueues
  <2>2. Globals'
    BY <1>2, <2>1 DEF Globals, HolderAt, Detaching
  <2>3. UploadsLeft'
    BY <1>1, <1>2 DEF IInv, UploadsLeft, Release, Answered, TypeOK
  <2> QED BY <1>2, <2>1, <2>2, <2>3 DEF IInv
<1>3. ASSUME queue # <<>>, Release(r)
      PROVE  /\ queue' \in Seq(Request) /\ op' \in [Request -> Operation]
             /\ pc' \in [Request -> Places]
             /\ target' \in [Request -> SessionOrNone] /\ leaving' \in [Request -> SessionOrNone]
             /\ left' \in [Request -> 0..MaxFiles] /\ loaded' \in [Request -> BOOLEAN]
  BY <1>1, <1>3, HeadOfQueue DEF TypeOK, Release, Answered, SessionOrNone, Places
<1>4. CASE NewCreate(r)
  <2>1. queue # <<>> /\ r = Head(queue) /\ Release(r)
    BY <1>4 DEF NewCreate, Holds
  <2>2. TypeOK'
    BY <1>1, <1>3, <1>4, <2>1 DEF NewCreate, platform, TypeOK, SessionOrNone
  <2>3. runners' \subseteq {handle'} \cap Session /\ active' = handle'
    BY <1>1, <1>4 DEF NewCreate, Holds, TypeOK, IInv, Globals, HolderAt, QueueInOrder, Detaching
  <2> QED BY <1>2, <2>1, <2>2, <2>3
<1>5. CASE NewFail(r)
  <2>1. queue # <<>> /\ r = Head(queue) /\ Release(r)
    BY <1>5 DEF NewFail, Holds
  <2>2. TypeOK'
    BY <1>1, <1>3, <1>5, <2>1 DEF NewFail, platform, TypeOK, SessionOrNone
  <2>3. runners' \subseteq {handle'} \cap Session /\ active' = handle'
    BY <1>1, <1>5 DEF NewFail, Holds, TypeOK, IInv, Globals, HolderAt, QueueInOrder, Detaching
  <2> QED BY <1>2, <2>1, <2>2, <2>3
<1>6. CASE ActivateAlready(r)
  <2>1. queue # <<>> /\ r = Head(queue) /\ Release(r)
    BY <1>6 DEF ActivateAlready, Holds
  <2>2. TypeOK'
    BY <1>1, <1>3, <1>6, <2>1 DEF ActivateAlready, platform, TypeOK, SessionOrNone
  <2>3. runners' \subseteq {handle'} \cap Session /\ active' = handle'
    BY <1>1, <1>6 DEF ActivateAlready, Holds, TypeOK, IInv, Globals, HolderAt, QueueInOrder, Detaching
  <2> QED BY <1>2, <2>1, <2>2, <2>3
<1>7. CASE ActivateAttach(r)
  <2>1. queue # <<>> /\ r = Head(queue) /\ Release(r)
    BY <1>7 DEF ActivateAttach, Holds
  <2>2. active = target[r] /\ active \in Session /\ handle = NoSession /\ runners = {}
    BY <1>7, SessionsAssumption DEF ActivateAttach, Holds, IInv, Globals, HolderAt
  <2>3. /\ handle' = active /\ active' = active /\ runners' = {active}
        /\ life' = life /\ work' = work /\ stray' = stray
    BY <1>7, <2>2 DEF ActivateAttach, platform
  <2>4. TypeOK'
    BY <1>1, <1>3, <2>1, <2>2, <2>3 DEF TypeOK, SessionOrNone
  <2> QED BY <1>2, <2>1, <2>2, <2>3, <2>4
<1>8. CASE StopNothing(r)
  <2>1. queue # <<>> /\ r = Head(queue) /\ Release(r)
    BY <1>8 DEF StopNothing, Holds
  <2>2. TypeOK'
    BY <1>1, <1>3, <1>8, <2>1 DEF StopNothing, platform, TypeOK, SessionOrNone
  <2>3. runners' \subseteq {handle'} \cap Session /\ active' = handle'
    BY <1>1, <1>8 DEF StopNothing, Holds, TypeOK, IInv, Globals, HolderAt, QueueInOrder, Detaching
  <2> QED BY <1>2, <2>1, <2>2, <2>3
<1>9. CASE StopArchive(r)
  <2>1. queue # <<>> /\ r = Head(queue) /\ Release(r)
    BY <1>9 DEF StopArchive, Holds
  <2>2. TypeOK'
    BY <1>1, <1>3, <1>9, <2>1 DEF StopArchive, platform, TypeOK, SessionOrNone
  <2>3. runners' \subseteq {handle'} \cap Session /\ active' = handle'
    BY <1>1, <1>9 DEF StopArchive, Holds, TypeOK, IInv, Globals, HolderAt, QueueInOrder, Detaching
  <2> QED BY <1>2, <2>1, <2>2, <2>3
<1> QED BY <1>4, <1>5, <1>6, <1>7, <1>8, <1>9

\* A request queues at the lock.
LEMMA AskingSteps ==
  ASSUME IInv, NEW r \in Request,
         NewAsk(r) \/ StopAsk(r) \/ (\E s \in Session : ActivateAsk(r, s))
  PROVE  IInv'
<1>1. TypeOK
  BY DEF IInv
<1>2. PICK what \in {"new", "activate", "stop"} :
        /\ Ask(r, what)
        /\ what = "activate" => \E s \in Session : target' = [target EXCEPT ![r] = s]
        /\ what # "activate" => target' = target
        /\ UNCHANGED <<active, handle, runners, leaving, left, loaded, life, work, stray>>
  BY DEF NewAsk, StopAsk, ActivateAsk, platform
<1>3. /\ queue' \in Seq(Request) /\ op' \in [Request -> Operation] /\ pc' \in [Request -> Places]
      /\ target' \in [Request -> SessionOrNone]
  <2>1. op' = [op EXCEPT ![r] = what] /\ pc' = [pc EXCEPT ![r] = "wait"] /\ queue' = Append(queue, r)
    BY <1>2 DEF Ask, Goto
  <2>2. queue' \in Seq(Request)
    BY <1>1, <2>1 DEF TypeOK
  <2>3. op' \in [Request -> Operation] /\ pc' \in [Request -> Places]
    BY <1>1, <2>1 DEF TypeOK, Operation, Places
  <2>4. CASE what = "activate"
    BY <1>1, <1>2, <2>2, <2>3, <2>4 DEF TypeOK, SessionOrNone
  <2>5. CASE what # "activate"
    BY <1>1, <1>2, <2>2, <2>3, <2>5 DEF TypeOK
  <2> QED BY <2>4, <2>5
<1>4. TypeOK'
  BY <1>1, <1>2, <1>3 DEF TypeOK
<1>5. OthersStay(r) /\ (what = "activate" => target'[r] \in Session)
  BY <1>1, <1>2 DEF TypeOK, OthersStay, Ask, Goto
<1>6. QueueInOrder' /\ Globals'
  BY <1>2, <1>5, AskQueues
<1>7. UploadsLeft'
  BY <1>1, <1>2 DEF IInv, UploadsLeft, Ask, Goto, TypeOK
<1> QED BY <1>4, <1>6, <1>7 DEF IInv

\* message, which takes no lock.
LEMMA MessageSteps ==
  ASSUME IInv, NEW r \in Request,
         MessageAsk(r) \/ MessageUpload(r) \/ MessageRefused(r) \/ MessageSend(r)
  PROVE  IInv'
<1>1. TypeOK
  BY DEF IInv
<1>2. pc[r] \in {"idle", "upload", "send"}
  BY DEF MessageAsk, MessageUpload, MessageRefused, MessageSend
<1>3. UNCHANGED <<active, handle, runners, queue, life>>
  BY DEF MessageAsk, MessageUpload, MessageRefused, MessageSend, MessageOver, server, platform
<1>4. /\ op' \in [Request -> Operation] /\ pc' \in [Request -> Places]
      /\ target' \in [Request -> SessionOrNone] /\ leaving' \in [Request -> SessionOrNone]
      /\ left' \in [Request -> 0..MaxFiles] /\ loaded' \in [Request -> BOOLEAN]
      /\ OthersStay(r)
      /\ \A q \in Request \ {r} : left'[q] = left[q]
      /\ pc'[r] = "upload" => left'[r] > 0
  <2>1. ASSUME NEW files \in 0..MaxFiles, Address(r, files)
        PROVE  /\ pc' \in [Request -> Places] /\ target' \in [Request -> SessionOrNone]
               /\ left' \in [Request -> 0..MaxFiles]
               /\ \A q \in Request \ {r} : pc'[q] = pc[q] /\ target'[q] = target[q] /\ left'[q] = left[q]
               /\ pc'[r] = "upload" => left'[r] > 0
    <3>1. left' = [left EXCEPT ![r] = files] /\ files >= 0
      BY <2>1, SessionsAssumption DEF Address
    <3>2. CASE files = 0
      <4>1. pc' = [pc EXCEPT ![r] = "send"] /\ target' = [target EXCEPT ![r] = active]
        BY <2>1, <3>2 DEF Address, Goto
      <4> QED BY <1>1, <3>1, <4>1 DEF TypeOK, Places
    <3>3. CASE files # 0
      <4>1. pc' = [pc EXCEPT ![r] = "upload"] /\ target' = target
        BY <2>1, <3>3 DEF Address, Goto
      <4>2. left'[r] > 0
        BY <1>1, <2>1, <3>1, <3>3, SessionsAssumption DEF TypeOK
      <4> QED BY <1>1, <3>1, <4>1, <4>2 DEF TypeOK, Places
    <3> QED BY <3>2, <3>3
  <2>2. CASE MessageAsk(r)
    <3>1. PICK files \in 0..MaxFiles : Address(r, files)
      BY <2>2 DEF MessageAsk
    <3>2. op' = [op EXCEPT ![r] = "message"] /\ leaving' = leaving /\ loaded' = loaded
      BY <2>2 DEF MessageAsk
    <3>3. op' \in [Request -> Operation] /\ \A q \in Request \ {r} : op'[q] = op[q]
      BY <1>1, <3>2 DEF TypeOK, Operation
    <3> QED BY <1>1, <2>1, <3>1, <3>2, <3>3 DEF OthersStay, TypeOK
  <2>4. CASE MessageUpload(r)
    <3>1. left[r] - 1 \in 0..MaxFiles
      BY <1>1, <2>4, SessionsAssumption DEF MessageUpload, IInv, UploadsLeft, TypeOK
    <3>2. /\ Address(r, left[r] - 1) /\ op' = op /\ leaving' = leaving
          /\ loaded' = [loaded EXCEPT ![r] = TRUE]
      BY <2>4 DEF MessageUpload
    <3>3. loaded' \in [Request -> BOOLEAN]
      BY <1>1, <3>2 DEF TypeOK
    <3> QED BY <1>1, <2>1, <3>1, <3>2, <3>3 DEF OthersStay, TypeOK
  <2>3. CASE MessageRefused(r) \/ MessageSend(r)
    <3>1. \E sent \in BOOLEAN : MessageOver(r, sent)
      BY <2>3 DEF MessageRefused, MessageSend
    <3> QED
      BY <1>1, <3>1, SessionsAssumption
         DEF MessageOver, Answered, OthersStay, TypeOK, Places, SessionOrNone
  <2> QED BY <2>2, <2>3, <2>4
<1>5. work' \in [Session -> {"idle", "running", "parked", "wedged"}] /\ stray' \in BOOLEAN
  <2>1. stray' \in BOOLEAN
    BY <1>1 DEF TypeOK, MessageAsk, MessageUpload, MessageRefused, MessageSend, MessageOver
  <2>2. work' \in [Session -> {"idle", "running", "parked", "wedged"}]
    BY <1>1 DEF TypeOK, MessageAsk, MessageUpload, MessageRefused, MessageSend, platform
  <2> QED BY <2>1, <2>2
<1>6. TypeOK'
  BY <1>1, <1>3, <1>4, <1>5 DEF TypeOK
<1>7. QueueInOrder' /\ Globals'
  BY <1>2, <1>3, <1>4, OutsideTheLock DEF LockPlaces
<1>8. UploadsLeft'
  BY <1>1, <1>4 DEF IInv, UploadsLeft, OthersStay
<1> QED BY <1>6, <1>7, <1>8 DEF IInv

\* interrupt, which takes no lock either and changes the agent's work at most.
LEMMA InterruptSteps ==
  ASSUME IInv, NEW r \in Request, InterruptAsk(r) \/ InterruptEnds(r)
  PROVE  IInv'
<1>1. TypeOK /\ active \in SessionOrNone
  BY DEF IInv, TypeOK
<1>2. /\ pc[r] \in {"idle", "halt"} /\ left' = left
      /\ UNCHANGED <<active, handle, runners, queue, life, loaded, stray>>
  BY DEF InterruptAsk, InterruptEnds, server, platform
<1>3. /\ op' \in [Request -> Operation] /\ pc' \in [Request -> Places]
      /\ target' \in [Request -> SessionOrNone] /\ leaving' \in [Request -> SessionOrNone]
      /\ OthersStay(r) /\ pc'[r] \in {"idle", "halt"}
  BY <1>1 DEF TypeOK, InterruptAsk, InterruptEnds, Answered, Goto, OthersStay, Places, Operation,
    SessionOrNone
<1>4. work' \in [Session -> {"idle", "running", "parked", "wedged"}]
  BY <1>1 DEF TypeOK, InterruptAsk, InterruptEnds, platform
<1>5. TypeOK'
  BY <1>1, <1>2, <1>3, <1>4 DEF TypeOK
<1>6. QueueInOrder' /\ Globals'
  BY <1>2, <1>3, OutsideTheLock DEF LockPlaces
<1>7. UploadsLeft'
  BY <1>2, <1>3 DEF IInv, UploadsLeft, OthersStay
<1> QED BY <1>5, <1>6, <1>7 DEF IInv

\* The platform and the runner change at most work and, when the runner dies,
\* runners.
LEMMA PlatformSteps ==
  ASSUME IInv, \E s \in Session : Platform(s)
  PROVE  IInv'
<1>1. TypeOK
  BY DEF IInv
<1>2. /\ UNCHANGED <<active, handle, queue, handlers, life, stray>>
      /\ runners' \subseteq runners
      /\ work' \in [Session -> {"idle", "running", "parked", "wedged"}]
  BY <1>1 DEF Platform, AgentRests, AgentCallsTool, RunnerAnswers, RunnerDies, server, TypeOK
<1>3. TypeOK'
  BY <1>1, <1>2 DEF TypeOK, handlers
<1> QED
  BY <1>2, <1>3 DEF IInv, QueueInOrder, Globals, HolderAt, UploadsLeft, handlers

LEMMA RestartStep ==
  ASSUME IInv, Restart
  PROVE  IInv'
<1>1. left' \in [Request -> 0..MaxFiles]
  BY SessionsAssumption DEF Restart
<1>2. op' \in [Request -> Operation] /\ pc' \in [Request -> Places]
  BY DEF Restart, Operation, Places
<1>3. work' \in [Session -> {"idle", "running", "parked", "wedged"}]
  BY DEF Restart, IInv, TypeOK
<1>4. queue' \in Seq(Request) /\ DOMAIN queue' = {} /\ runners' = {}
  BY DEF Restart
<1>5. TypeOK'
  BY <1>1, <1>2, <1>3, <1>4 DEF Restart, IInv, TypeOK, SessionOrNone
<1> QED
  BY <1>4, <1>5 DEF Restart, IInv, QueueInOrder, Globals, UploadsLeft

LEMMA NextIInv == IInv /\ [Next]_vars => IInv'
<1> SUFFICES ASSUME IInv, [Next]_vars PROVE IInv'
  OBVIOUS
<1>1. ASSUME NEW r \in Request, Ongoing(r) PROVE IInv'
  BY <1>1, HolderSteps, ReleasingSteps, MessageSteps, InterruptSteps DEF Ongoing
<1>2. ASSUME NEW r \in Request, Arriving(r) PROVE IInv'
  BY <1>2, AskingSteps, MessageSteps, InterruptSteps DEF Arriving
<1>3. CASE UNCHANGED vars
  BY <1>3 DEF vars, IInv, TypeOK, QueueInOrder, Globals, HolderAt, UploadsLeft
<1> QED
  BY <1>1, <1>2, <1>3, PlatformSteps, RestartStep DEF Next

\* The lock's holder, the queue behind it and the globals it may have half
\* changed, through every interleaving, failure and restart of Sessions.
THEOREM InvariantHolds == Spec => []IInv
  BY InitIInv, NextIInv, PTL DEF Spec
-----------------------------------------------------------------------------
(* What it gives.                                                          *)

\* Every variable of the server, the handlers and the platform keeps its type.
THEOREM TypeCorrect == Spec => []TypeOK
  BY InvariantHolds, PTL DEF IInv

LEMMA AnsweredIsActive == IInv => OnlyActiveAnswered
<1> SUFFICES ASSUME IInv, NEW s \in runners
             PROVE  s = active \/ (queue # <<>> /\ leaving[Head(queue)] = s)
  BY DEF OnlyActiveAnswered
<1>1. s = handle /\ handle # NoSession
  BY SessionsAssumption DEF IInv, Globals
<1>2. CASE queue = <<>>
  BY <1>1, <1>2 DEF IInv, Globals
<1>3. CASE queue # <<>>
  <2>1. pc[Head(queue)] \in LockPlaces
    BY <1>3, HeadOfQueue DEF IInv, QueueInOrder
  <2> QED BY <1>1, <1>3, <2>1 DEF IInv, Globals, HolderAt, Detaching, LockPlaces
<1> QED BY <1>2, <1>3

\* web.py:367 "only the active session's pulls are answered": across every
\* switch, stop, failed creation and restart, for any number of sessions and
\* requests, no runner is left behind on a session nobody is leaving.
THEOREM OnlyTheActiveIsAnswered == Spec => []OnlyActiveAnswered
  BY InvariantHolds, AnsweredIsActive, PTL

\* Whenever the lock is free the active session is the one _answering was
\* started for: no path through new_session, activate or stop leaves the page
\* a session that nothing answers.
THEOREM ActiveStaysAttached == Spec => []ActiveIsAttached
<1>1. IInv => ActiveIsAttached
  BY DEF IInv, Globals, ActiveIsAttached
<1> QED BY <1>1, InvariantHolds, PTL

\* The runner alive, if any, is the one the board shows.
OneRunner ==
  /\ Cardinality(runners) <= 1
  /\ \/ runners = {} /\ Attached = NoSession
     \/ runners = {handle} /\ Attached = handle

LEMMA AtMostOneRunner == IInv => OneRunner
<1> SUFFICES ASSUME IInv PROVE OneRunner
  OBVIOUS
<1>1. runners = {} \/ runners = {handle}
  BY DEF IInv, Globals
<1>2. CASE runners = {}
  BY <1>2, FS_EmptySet DEF Attached, OneRunner
<1>3. CASE runners = {handle}
  <2>1. Cardinality(runners) = 1
    BY <1>3, FS_Singleton
  <2> QED BY <1>3, <2>1 DEF Attached, OneRunner
<1> QED BY <1>1, <1>2, <1>3

\* Between two states of one step the runner alive is the same, has gone, or is
\* a first one: the attachments follow one another, never overlap.
LEMMA RunnersChangeByOne ==
  ASSUME IInv, [Next]_vars
  PROVE  runners' = runners \/ runners' = {} \/ runners = {}
<1>1. CASE \E r \in Request : Ongoing(r)
  <2>1. PICK r \in Request : Ongoing(r)
    BY <1>1
  <2>2. CASE DetachCancel(r)
    BY <2>2 DEF DetachCancel, IInv, Globals
  <2>3. CASE NewCreate(r) \/ ActivateAttach(r)
    <3>1. queue # <<>> /\ handle = NoSession
      BY <2>3 DEF NewCreate, ActivateAttach, Holds, IInv, Globals, HolderAt
    <3> QED BY <3>1, SessionsAssumption DEF IInv, Globals
  <2>4. CASE ~(DetachCancel(r) \/ NewCreate(r) \/ ActivateAttach(r))
    BY <2>1, <2>4
       DEF Ongoing, DetachInterrupt, NewBegin, NewDetached, NewFail, ActivateAlready,
           ActivateSwitch, ActivateTake, StopBegin, StopNothing, StopDetached, StopArchive,
           MessageUpload, MessageRefused, MessageSend, MessageOver, InterruptEnds, server
  <2> QED BY <2>2, <2>3, <2>4
<1>2. CASE \E r \in Request : Arriving(r)
  BY <1>2 DEF Arriving, NewAsk, StopAsk, MessageAsk, InterruptAsk, ActivateAsk, server
<1>3. CASE \E s \in Session : Platform(s)
  BY <1>3 DEF Platform, AgentRests, AgentCallsTool, RunnerAnswers, RunnerDies, server, IInv, Globals
<1>4. CASE Restart
  BY <1>4 DEF Restart
<1>5. CASE UNCHANGED vars
  BY <1>5 DEF vars
<1> QED BY <1>1, <1>2, <1>3, <1>4, <1>5 DEF Next

\* The design of Switchboard, kept by the handlers through their awaits, by the
\* runner's death and by restarts: one session's calls are answered at a time,
\* and it is let go of before the next is taken up.
THEOREM OneSessionAtATime == Spec => OneAtATime
<1>1. Init => Board!Init
  BY DEF Init, Attached, Board!Init
<1>2. ASSUME IInv, IInv', OneRunner, OneRunner', [Next]_vars PROVE [Board!Next]_Attached
  <2>1. runners \subseteq Session /\ runners' \subseteq Session
    BY <1>2 DEF IInv, Globals
  <2>2. /\ \/ runners = {} /\ Attached = NoSession
           \/ runners = {handle} /\ Attached = handle
        /\ \/ runners' = {} /\ Attached' = NoSession
           \/ runners' = {handle'} /\ Attached' = handle'
    BY <1>2 DEF OneRunner
  <2>3. runners' = runners => Attached' = Attached
    BY DEF Attached
  <2>4. CASE runners' = runners
    BY <2>3, <2>4
  <2>5. CASE runners' # runners /\ runners' = {}
    <3>1. Attached \in Session /\ Attached' = NoSession
      BY <2>1, <2>2, <2>5
    <3> QED BY <3>1, SessionsAssumption DEF Board!Next, Board!LetGo
  <2>6. CASE runners' # runners /\ runners = {}
    <3>1. Attached = NoSession /\ Attached' \in Session
      BY <2>1, <2>2, <2>6
    <3> QED BY <3>1 DEF Board!Next, Board!Attach
  <2> QED BY <1>2, <2>4, <2>5, <2>6, RunnersChangeByOne
<1>3. OneRunner => Cardinality(runners) <= 1
  BY DEF OneRunner
<1> QED
  BY <1>1, <1>2, <1>3, AtMostOneRunner, InvariantHolds, PTL DEF Spec, OneAtATime, Board!Spec
-----------------------------------------------------------------------------
(* The bearer between two sessions.                                        *)

\* Whoever is past _lock's door stands in its queue.
AtTheLock == \A r \in Request : pc[r] \in LockPlaces => \E i \in DOMAIN queue : queue[i] = r

LEMMA InitAtTheLock == Init => AtTheLock
  BY DEF Init, AtTheLock, LockPlaces

LEMMA NextAtTheLock ==
  ASSUME IInv, AtTheLock, [Next]_vars
  PROVE  AtTheLock'
<1> USE DEF LockPlaces
<1>1. queue \in Seq(Request) /\ pc \in [Request -> Places]
  BY DEF IInv, TypeOK
<1>2. ASSUME NEW r \in Request, queue # <<>>, r = Head(queue), NEW place \in LockPlaces,
             Goto(r, place), queue' = queue
      PROVE  AtTheLock'
  <2>1. 1 \in DOMAIN queue /\ queue[1] = r /\ \A q \in Request \ {r} : pc'[q] = pc[q]
    BY <1>1, <1>2, HeadOfQueue DEF IInv, Goto
  <2> QED BY <1>2, <2>1 DEF AtTheLock
<1>3. ASSUME NEW r \in Request, queue # <<>>, r = Head(queue), Release(r)
      PROVE  AtTheLock'
  <2>1. queue' = Tail(queue) /\ pc'[r] = "idle" /\ \A q \in Request \ {r} : pc'[q] = pc[q]
    BY <1>1, <1>3 DEF Release, Answered
  <2>2. ASSUME NEW q \in Request, pc'[q] \in LockPlaces
        PROVE  \E i \in DOMAIN queue' : queue'[i] = q
    <3>1. PICK i \in DOMAIN queue : queue[i] = q /\ q # r
      BY <2>1, <2>2 DEF AtTheLock
    <3>2. i # 1 /\ i - 1 \in DOMAIN Tail(queue)
      BY <1>1, <1>3, <3>1, HeadOfQueue DEF IInv
    <3>3. Tail(queue)[i - 1] = queue[i]
      BY <1>1, <1>3, <3>1, <3>2
    <3> QED BY <2>1, <3>1, <3>2, <3>3
  <2> QED BY <2>2 DEF AtTheLock
<1>4. ASSUME NEW r \in Request, NEW what, Ask(r, what)
      PROVE  AtTheLock'
  <2>1. /\ \A q \in Request \ {r} : pc'[q] = pc[q]
        /\ DOMAIN queue' = 1..(Len(queue) + 1) /\ queue'[Len(queue) + 1] = r
        /\ \A i \in DOMAIN queue : i \in DOMAIN queue' /\ queue'[i] = queue[i]
    BY <1>1, <1>4 DEF Ask, Goto
  <2>2. Len(queue) + 1 \in DOMAIN queue'
    BY <1>1, <2>1
  <2> QED BY <2>1, <2>2 DEF AtTheLock
<1>5. ASSUME NEW r \in Request, queue' = queue, pc'[r] \notin LockPlaces,
             \A q \in Request \ {r} : pc'[q] = pc[q]
      PROVE  AtTheLock'
  BY <1>5 DEF AtTheLock
<1>6. ASSUME NEW r \in Request,
             \/ DetachInterrupt(r) \/ DetachCancel(r) \/ NewBegin(r) \/ NewDetached(r)
             \/ ActivateSwitch(r) \/ ActivateTake(r) \/ StopBegin(r) \/ StopDetached(r)
      PROVE  AtTheLock'
  BY <1>2, <1>6 DEF DetachInterrupt, DetachCancel, NewBegin, NewDetached, ActivateSwitch,
    ActivateTake, StopBegin, StopDetached, Holds, server
<1>7. ASSUME NEW r \in Request,
             \/ NewCreate(r) \/ NewFail(r) \/ ActivateAlready(r) \/ ActivateAttach(r)
             \/ StopNothing(r) \/ StopArchive(r)
      PROVE  AtTheLock'
  BY <1>3, <1>7 DEF NewCreate, NewFail, ActivateAlready, ActivateAttach, StopNothing,
    StopArchive, Holds
<1>8. ASSUME NEW r \in Request, NewAsk(r) \/ StopAsk(r) \/ (\E s \in Session : ActivateAsk(r, s))
      PROVE  AtTheLock'
  BY <1>4, <1>8 DEF NewAsk, StopAsk, ActivateAsk
<1>9. ASSUME NEW r \in Request,
             \/ MessageAsk(r) \/ MessageUpload(r) \/ MessageRefused(r) \/ MessageSend(r)
             \/ InterruptAsk(r) \/ InterruptEnds(r)
      PROVE  AtTheLock'
  <2>1. queue' = queue
    BY <1>9 DEF MessageAsk, MessageUpload, MessageRefused, MessageSend, MessageOver, InterruptAsk,
      InterruptEnds, server
  <2>2. \E place \in {"idle", "upload", "send", "halt"} : pc' = [pc EXCEPT ![r] = place]
    BY <1>9 DEF MessageAsk, MessageUpload, MessageRefused, MessageSend, MessageOver, InterruptAsk,
      InterruptEnds, Address, Answered, Goto
  <2> QED BY <1>1, <1>5, <2>1, <2>2
<1>10. CASE (\E s \in Session : Platform(s)) \/ UNCHANGED vars
  <2>1. queue' = queue /\ pc' = pc
    BY <1>10 DEF Platform, AgentRests, AgentCallsTool, RunnerAnswers, RunnerDies,
      server, handlers, vars
  <2> QED BY <2>1 DEF AtTheLock
<1>11. CASE Restart
  BY <1>11 DEF Restart, AtTheLock
<1> QED
  BY <1>6, <1>7, <1>8, <1>9, <1>10, <1>11 DEF Next, Ongoing, Arriving

\* The lock's holder is between letting go and attaching.
Midway == queue # <<>> /\ pc[Head(queue)] \in {"create", "refresh"}

OneRenewal ==
  /\ Cardinality(Renewing) = IF Midway THEN 1 ELSE 0
  /\ Midway => handle = NoSession

LEMMA AtMostOneRenewal == IInv /\ AtTheLock => OneRenewal
<1> SUFFICES ASSUME IInv, AtTheLock PROVE OneRenewal
  OBVIOUS
<1>1. \A r \in Renewing : queue # <<>> /\ r = Head(queue)
  <2>1. TAKE r \in Renewing
  <2>2. r \in Request /\ pc[r] \in {"create", "refresh"}
    BY DEF Renewing
  <2>3. PICK i \in DOMAIN queue : queue[i] = r
    BY <2>2 DEF AtTheLock, LockPlaces
  <2>4. i \in Nat \ {0} /\ queue # <<>>
    BY <2>3 DEF IInv, TypeOK
  <2>5. ~(i > 1)
    BY <2>2, <2>3 DEF IInv, QueueInOrder
  <2>6. i = 1
    BY <2>4, <2>5
  <2> QED BY <2>3, <2>4, <2>6, HeadOfQueue DEF IInv
<1>2. CASE Midway
  <2>1. Renewing = {Head(queue)}
    BY <1>1, <1>2, HeadOfQueue DEF IInv, Midway, Renewing
  <2>2. handle = NoSession
    BY <1>2 DEF IInv, Globals, HolderAt, Midway
  <2> QED BY <1>2, <2>1, <2>2, FS_Singleton DEF OneRenewal
<1>3. CASE ~Midway
  <2>1. Renewing = {}
    BY <1>1, <1>3 DEF Midway, Renewing
  <2> QED BY <1>3, <2>1, FS_EmptySet DEF OneRenewal
<1> QED BY <1>2, <1>3

\* What a step may do to the session attached and to the handler between two:
\* the four ways of Handover, or nothing.
LEMMA HandoverKept ==
  ASSUME IInv, [Next]_vars
  PROVE  \/ (Midway' <=> Midway) /\ handle' = handle
         \/ ~Midway /\ Midway' /\ handle' = NoSession
         \/ Midway /\ ~Midway' /\ (handle' = handle \/ handle' # NoSession)
         \/ ~Midway /\ ~Midway' /\ handle' = NoSession
<1> USE SessionsAssumption
<1>1. queue \in Seq(Request) /\ pc \in [Request -> Places]
  BY DEF IInv, TypeOK
<1>2. ASSUME NEW r \in Request, NEW place, queue # <<>>, r = Head(queue), Goto(r, place),
             queue' = queue
      PROVE  Midway' <=> place \in {"create", "refresh"}
  BY <1>1, <1>2 DEF Goto, Midway
<1>3. ASSUME NEW r \in Request, queue # <<>>, r = Head(queue), Release(r)
      PROVE  ~Midway'
  BY <1>3, ReleaseQueues DEF Midway
<1>4. ASSUME NEW r \in Request, Ongoing(r)
      PROVE  \/ (Midway' <=> Midway) /\ handle' = handle
             \/ ~Midway /\ Midway' /\ handle' = NoSession
             \/ Midway /\ ~Midway' /\ (handle' = handle \/ handle' # NoSession)
             \/ ~Midway /\ ~Midway' /\ handle' = NoSession
  <2>1. CASE DetachInterrupt(r) \/ DetachCancel(r) \/ ActivateSwitch(r) \/ StopBegin(r)
    <3>1. handle' = handle /\ ~Midway /\ ~Midway'
      BY <1>2, <2>1 DEF DetachInterrupt, DetachCancel, ActivateSwitch, StopBegin, Holds, server,
        Midway
    <3> QED BY <3>1
  <2>2. CASE NewBegin(r)
    <3>1. /\ queue # <<>> /\ r = Head(queue) /\ queue' = queue /\ handle' = handle /\ ~Midway
          /\ Goto(r, IF active = NoSession THEN "create" ELSE "interrupt") /\ active = handle
      BY <2>2 DEF NewBegin, Holds, Midway, IInv, Globals, HolderAt
    <3>2. CASE active = NoSession
      BY <1>2, <3>1, <3>2
    <3>3. CASE active # NoSession
      BY <1>2, <3>1, <3>3
    <3> QED BY <3>2, <3>3
  <2>3. CASE NewDetached(r) \/ StopDetached(r)
    BY <1>2, <2>3 DEF NewDetached, StopDetached, Holds, Midway
  <2>4. CASE ActivateTake(r)
    <3>1. /\ queue # <<>> /\ r = Head(queue) /\ queue' = queue /\ ~Midway
          /\ Goto(r, "refresh") /\ handle' = NoSession
      BY <2>4 DEF ActivateTake, Holds, Midway, IInv, Globals, HolderAt
    <3> QED BY <1>2, <3>1
  <2>5. CASE NewCreate(r) \/ NewFail(r) \/ ActivateAttach(r)
    <3>1. queue # <<>> /\ r = Head(queue) /\ Release(r) /\ Midway
      BY <2>5 DEF NewCreate, NewFail, ActivateAttach, Holds, Midway
    <3>2. handle' = handle \/ handle' # NoSession
      BY <2>5 DEF NewCreate, NewFail, ActivateAttach, Holds, IInv, Globals, HolderAt
    <3> QED BY <1>3, <3>1, <3>2
  <2>6. CASE ActivateAlready(r) \/ StopNothing(r) \/ StopArchive(r)
    <3>1. queue # <<>> /\ r = Head(queue) /\ Release(r) /\ ~Midway /\ handle' = handle
      BY <2>6 DEF ActivateAlready, StopNothing, StopArchive, Holds, Midway
    <3> QED BY <1>3, <3>1
  <2>7. CASE MessageUpload(r) \/ MessageRefused(r) \/ MessageSend(r) \/ InterruptEnds(r)
    <3>1. queue' = queue /\ handle' = handle /\ pc[r] \notin LockPlaces
      BY <2>7 DEF MessageUpload, MessageRefused, MessageSend, MessageOver, InterruptEnds, server,
        LockPlaces
    <3>2. \A q \in Request \ {r} : pc'[q] = pc[q]
      BY <1>1, <2>7 DEF MessageUpload, MessageRefused, MessageSend, MessageOver, InterruptEnds,
        Address, Answered, Goto
    <3>3. queue # <<>> => Head(queue) \in Request \ {r}
      BY <3>1, HeadOfQueue DEF IInv, QueueInOrder
    <3> QED BY <3>1, <3>2, <3>3 DEF Midway
  <2> QED
    BY <1>4, <2>1, <2>2, <2>3, <2>4, <2>5, <2>6, <2>7 DEF Ongoing
<1>5. ASSUME NEW r \in Request, Arriving(r)
      PROVE  (Midway' <=> Midway) /\ handle' = handle
  <2>1. handle' = handle /\ pc[r] = "idle" /\ \A q \in Request \ {r} : pc'[q] = pc[q]
    BY <1>1, <1>5 DEF Arriving, NewAsk, StopAsk, MessageAsk, InterruptAsk, ActivateAsk, Ask, Address,
      Goto, server
  <2>2. queue # <<>> => Head(queue) \in Request \ {r}
    BY <2>1, HeadOfQueue DEF IInv, QueueInOrder, LockPlaces
  <2>3. queue' = queue \/ (queue' = Append(queue, r) /\ pc' = [pc EXCEPT ![r] = "wait"])
    BY <1>5 DEF Arriving, NewAsk, StopAsk, MessageAsk, InterruptAsk, ActivateAsk, Ask, Goto, server
  <2>4. CASE queue' = queue
    BY <2>1, <2>2, <2>4 DEF Midway
  <2>5. CASE queue' = Append(queue, r) /\ pc' = [pc EXCEPT ![r] = "wait"]
    <3>1. CASE queue = <<>>
      <4>1. Head(queue') = r /\ pc'[r] = "wait"
        BY <1>1, <2>5, <3>1
      <4> QED BY <2>1, <3>1, <4>1 DEF Midway
    <3>2. CASE queue # <<>>
      <4>1. Head(queue') = Head(queue) /\ queue' # <<>>
        BY <1>1, <2>5, <3>2
      <4> QED BY <2>1, <2>2, <3>2, <4>1 DEF Midway
    <3> QED BY <3>1, <3>2
  <2> QED BY <2>3, <2>4, <2>5
<1>6. CASE (\E s \in Session : Platform(s)) \/ UNCHANGED vars
  BY <1>6 DEF Platform, AgentRests, AgentCallsTool, RunnerAnswers, RunnerDies,
    server, handlers, vars, Midway
<1>7. CASE Restart
  <2>1. handle' = NoSession /\ ~Midway'
    BY <1>7 DEF Restart, Midway
  <2>2. Midway => handle = NoSession
    BY DEF IInv, Globals, HolderAt, Midway
  <2> QED BY <2>1, <2>2
<1> QED BY <1>4, <1>5, <1>6, <1>7 DEF Next

\* For any number of requests at the lock, through every failure, the runner's
\* death and restarts, the bearer is renewed by one handler at a time and with
\* no session attached: the credential's premise about new_session, activate
\* and stop, which share nothing with it but these calls.
THEOREM RenewalsKeepApart == Spec => RenewedBetweenSessions
<1>1. Init /\ OneRenewal => Bearer!Init
  BY DEF Init, OneRenewal, Midway, Bearer!Init
<1>2. ASSUME IInv, OneRenewal, OneRenewal', [Next]_vars
      PROVE  [Bearer!Next]_(Bearer!vars)
  <2> USE DEF Bearer!Next, Bearer!Begin, Bearer!Attach, Bearer!GiveUp, Bearer!LetGo, Bearer!vars
  <2>1. CASE (Midway' <=> Midway) /\ handle' = handle
    BY <1>2, <2>1 DEF OneRenewal
  <2>2. CASE ~Midway /\ Midway' /\ handle' = NoSession
    BY <1>2, <2>2 DEF OneRenewal
  <2>3. CASE Midway /\ ~Midway' /\ (handle' = handle \/ handle' # NoSession)
    BY <1>2, <2>3 DEF OneRenewal
  <2>4. CASE ~Midway /\ ~Midway' /\ handle' = NoSession
    BY <1>2, <2>4 DEF OneRenewal
  <2> QED BY <1>2, <2>1, <2>2, <2>3, <2>4, HandoverKept
<1> QED
  BY <1>1, <1>2, InitIInv, InitAtTheLock, NextAtTheLock, AtMostOneRenewal, InvariantHolds, PTL
  DEF Spec, RenewedBetweenSessions, Bearer!Spec
=============================================================================
