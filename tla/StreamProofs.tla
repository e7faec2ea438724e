---------------------------- MODULE StreamProofs ----------------------------
(***************************************************************************)
(* No Publish ever sends on a closed channel, for any number of angels,    *)
(* clients and connections.  The argument is the one the lock of the       *)
(* Broadcaster is for: a publisher in the middle of its loop holds the     *)
(* read lock, so the subscribers before it are still in subs, and a        *)
(* channel is closed only by a handler that has left subs before.          *)
(*                                                                         *)
(* What is accepted for a subscriber is then followed to the screen: each  *)
(* buffer on the way is first in, first out, so that nothing overtakes     *)
(* (OrderInv) and nothing is left out (Flows) until the client leaves.     *)
(***************************************************************************)
EXTENDS EventStream, SequenceTheorems, TLAPS

\* What a step of the protocol between publishers and handlers depends on.
LockInv ==
  /\ apc \in [Angel -> {"idle", "publish", "sending"}]
  /\ todo \in [Angel -> SUBSET Conn]
  /\ hpc \in [Conn -> HandlerPc]
  /\ subs \subseteq Conn /\ closed \subseteq Conn
  /\ \A a \in Angel : apc[a] # "sending" => todo[a] = {}
  /\ \A a \in Angel : todo[a] \subseteq subs
  /\ \A k \in subs : hpc[k] \in {"loop", "send", "cancel"}
  /\ \A k \in closed : hpc[k] = "done"

LEMMA LockInit == Init => LockInv
  BY DEF Init, LockInv, HandlerPc

\* A step of a publisher keeps LockInv: its todo comes from subs (Publish).
LEMMA PublisherLock ==
  ASSUME LockInv, NEW a \in Angel, Publisher(a)
  PROVE  LockInv'
<1>1. CASE InsertEvent(a)
  BY <1>1 DEF LockInv, InsertEvent, bcastVars
<1>2. CASE PublishStart(a)
  BY <1>2 DEF LockInv, PublishStart, bcastVars
<1>3. CASE PublishEnd(a)
  BY <1>3 DEF LockInv, PublishEnd, bcastVars
<1>4. CASE \E k \in Conn : PublishTo(a, k)
  BY <1>4 DEF LockInv, PublishTo
<1> QED
  BY <1>1, <1>2, <1>3, <1>4 DEF Publisher

\* A step that leaves the lock's variables alone.
LEMMA LockFrame ==
  ASSUME LockInv, UNCHANGED <<apc, todo, subs, closed, hpc>>
  PROVE  LockInv'
  BY DEF LockInv

\* A handler that moves between states with the same part in the protocol.
LEMMA HandlerMoves ==
  ASSUME LockInv, NEW k \in Conn, NEW from, NEW to \in HandlerPc,
         HandlerGoes(k, from, to), UNCHANGED <<apc, todo, subs, closed>>,
         from # "done",
         from \in {"loop", "send", "cancel"} => to \in {"loop", "send", "cancel"}
  PROVE  LockInv'
<1>1. hpc[k] = from /\ hpc' = [hpc EXCEPT ![k] = to]
  BY DEF HandlerGoes
<1>2. k \notin closed
  BY <1>1 DEF LockInv
<1>3. k \in subs => to \in {"loop", "send", "cancel"}
  BY <1>1 DEF LockInv
<1> QED
  BY <1>1, <1>2, <1>3 DEF LockInv

\* Subscribe and cancel wait for the publishers (Broadcaster.mu).
LEMMA SubscribeLock ==
  ASSUME LockInv, NEW k \in Conn, Subscribe(k)
  PROVE  LockInv'
<1>1. /\ hpc[k] = "subscribe" /\ hpc' = [hpc EXCEPT ![k] = "loop"]
      /\ subs' = subs \cup {k}
      /\ UNCHANGED <<apc, todo, closed>>
  BY DEF Subscribe, HandlerGoes, pubVars
<1>2. k \notin closed
  BY <1>1 DEF LockInv
<1> QED
  BY <1>1, <1>2 DEF LockInv, HandlerPc

LEMMA UnsubscribeLock ==
  ASSUME LockInv, NEW k \in Conn, Unsubscribe(k)
  PROVE  LockInv'
<1>1. /\ hpc[k] = "cancel" /\ hpc' = [hpc EXCEPT ![k] = "closeChan"]
      /\ subs' = subs \ {k}
      /\ UNCHANGED <<apc, todo, closed>>
      /\ \A a \in Angel : apc[a] # "sending"
  BY DEF Unsubscribe, HandlerGoes, pubVars, ReadLocked
<1>2. k \notin closed
  BY <1>1 DEF LockInv
<1>3. \A a \in Angel : todo[a] = {}
  BY <1>1 DEF LockInv
<1> QED
  BY <1>1, <1>2, <1>3 DEF LockInv, HandlerPc

\* The channel of a subscriber is closed only after it has left subs.
LEMMA CloseLock ==
  ASSUME LockInv, NEW k \in Conn, CloseChan(k)
  PROVE  LockInv'
<1>1. /\ hpc[k] = "closeChan" /\ hpc' = [hpc EXCEPT ![k] = "done"]
      /\ closed' = closed \cup {k}
      /\ UNCHANGED <<apc, todo, subs>>
  BY DEF CloseChan, HandlerGoes, pubVars
<1>2. k \notin subs
  BY <1>1 DEF LockInv
<1> QED
  BY <1>1, <1>2 DEF LockInv, HandlerPc

\* Every step of a handler keeps LockInv.
LEMMA HandlerLock ==
  ASSUME LockInv, NEW k \in Conn, Handler(k)
  PROVE  LockInv'
<1> USE DEF HandlerPc, pubVars, bcastVars
<1>1. CASE AcceptHello(k)
  <2>1. HandlerGoes(k, "hello", "request") \/ HandlerGoes(k, "hello", "close")
    BY <1>1 DEF AcceptHello
  <2> QED
    BY <1>1, <2>1, HandlerMoves DEF AcceptHello
<1>2. CASE RecvRequest(k)
  BY <1>2, HandlerMoves DEF RecvRequest
<1>3. CASE HandshakeFails(k)
  BY <1>3, HandlerMoves DEF HandshakeFails
<1>4. CASE AckStream(k)
  BY <1>4, HandlerMoves DEF AckStream
<1>5. CASE TakeEvent(k)
  BY <1>5, HandlerMoves DEF TakeEvent
<1>6. CASE StreamCancelled(k)
  BY <1>6, HandlerMoves DEF StreamCancelled
<1>7. CASE SendEvent(k)
  BY <1>7, HandlerMoves DEF SendEvent
<1>8. CASE SendFails(k)
  BY <1>8, HandlerMoves DEF SendFails
<1>9. CASE CloseConn(k)
  BY <1>9, HandlerMoves DEF CloseConn
<1> QED
  BY <1>1, <1>2, <1>3, <1>4, <1>5, <1>6, <1>7, <1>8, <1>9,
     SubscribeLock, UnsubscribeLock, CloseLock DEF Handler

-----------------------------------------------------------------------------
\* The connections that a client has not dialed yet have no handler, so a Dial
\* gives the handler of none of the subscribers a new state.
DialInv ==
  /\ dials \in [Client -> 0 .. MaxDials]
  /\ \A c \in Client : \A n \in 1 .. MaxDials : n > dials[c] => hpc[<<c, n>>] = "none"

IInv == LockInv /\ DialInv

LEMMA DialInit == Init => DialInv
<1>1. 0 \in 0 .. MaxDials
  BY StreamAssumption
<1> QED
  BY <1>1 DEF Init, DialInv, Conn

\* A handler step does not start from "none".
LEMMA HandlerDial ==
  ASSUME DialInv, NEW k \in Conn, Handler(k)
  PROVE  DialInv'
<1>1. /\ UNCHANGED dials
      /\ \E from, to \in HandlerPc : from # "none" /\ HandlerGoes(k, from, to)
  BY DEF Handler, AcceptHello, RecvRequest, HandshakeFails, AckStream, Subscribe, TakeEvent,
         StreamCancelled, SendEvent, SendFails, Unsubscribe, CloseChan, CloseConn, HandlerPc,
         clientVars
<1> QED
  BY <1>1 DEF DialInv, HandlerGoes

\* Dial (pkg/ipc) and Accept.
LEMMA DialStep ==
  ASSUME IInv, NEW c \in Client, Dial(c)
  PROVE  IInv'
<1>1. /\ dials[c] \in 0 .. MaxDials /\ dials[c] < MaxDials
      /\ dials' = [dials EXCEPT ![c] = @ + 1]
      /\ hpc' = [hpc EXCEPT ![Cur(c)'] = "hello"]
      /\ UNCHANGED <<apc, todo, subs, closed>>
  BY DEF Dial, IInv, DialInv, pubVars, bcastVars
<1>2. MaxDials \in Nat
  BY StreamAssumption
<1>3. Cur(c)' = <<c, dials[c] + 1>>
  BY <1>1 DEF Cur, IInv, DialInv
<1> DEFINE k == <<c, dials[c] + 1>>
<1>4. k \in Conn /\ hpc[k] = "none"
  BY <1>1, <1>2 DEF IInv, DialInv, Conn
<1>5. k \notin subs /\ k \notin closed
  BY <1>4 DEF IInv, LockInv
<1>6. LockInv'
  BY <1>1, <1>3, <1>4, <1>5 DEF IInv, LockInv, HandlerPc
<1>7. DialInv'
  <2>1. dials' \in [Client -> 0 .. MaxDials]
    BY <1>1, <1>2 DEF IInv, DialInv
  <2>2. ASSUME NEW d \in Client, NEW n \in 1 .. MaxDials, n > dials'[d]
        PROVE  hpc'[<<d, n>>] = "none"
    <3>1. n > dials[d] /\ <<d, n>> # k
      BY <1>1, <2>2 DEF IInv, DialInv
    <3>2. hpc[<<d, n>>] = "none"
      BY <3>1 DEF IInv, DialInv
    <3> QED
      BY <1>1, <1>3, <3>1, <3>2
  <2> QED
    BY <2>1, <2>2 DEF DialInv
<1> QED
  BY <1>6, <1>7 DEF IInv

\* Everything else that a client does leaves handlers and publishers alone.
LEMMA ClientLock ==
  ASSUME IInv, NEW c \in Client, ClientStep(c) \/ ClientKilled(c)
  PROVE  IInv'
<1>1. CASE Dial(c)
  BY <1>1, DialStep
<1>2. CASE ~Dial(c)
  <2>1. UNCHANGED <<apc, todo, subs, closed, hpc, dials>>
    BY <1>2 DEF ClientStep, SendRequest, RecvAck, DialFails, RecvEvent, StreamEnds, PushEvent,
                StreamClosed, ClientKilled, pubVars, bcastVars
  <2>2. LockInv'
    BY <2>1, LockFrame DEF IInv
  <2> QED
    BY <2>1, <2>2 DEF IInv, DialInv
<1> QED
  BY <1>1, <1>2

LEMMA StreamStep ==
  ASSUME IInv, [Next]_vars
  PROVE  IInv'
<1>1. ASSUME NEW a \in Angel, Publisher(a)
      PROVE  IInv'
  <2>1. UNCHANGED <<hpc, dials>>
    BY <1>1 DEF Publisher, InsertEvent, PublishStart, PublishTo, PublishEnd, clientVars
  <2>2. DialInv'
    BY <2>1 DEF IInv, DialInv
  <2> QED
    BY <1>1, <2>2, PublisherLock DEF IInv
<1>2. ASSUME NEW k \in Conn, Handler(k)
      PROVE  IInv'
  BY <1>2, HandlerLock, HandlerDial DEF IInv
<1>3. ASSUME Cancel \/ UNCHANGED vars
      PROVE  IInv'
  <2>1. UNCHANGED <<apc, todo, subs, closed, hpc, dials>>
    BY <1>3 DEF Cancel, vars, pubVars, bcastVars, clientVars
  <2>2. LockInv'
    BY <2>1, LockFrame DEF IInv
  <2> QED
    BY <2>1, <2>2 DEF IInv, DialInv
<1> QED
  BY <1>1, <1>2, <1>3, ClientLock DEF Next, Labd

\* Whatever clients, handlers and publishers do, and in whatever order, no
\* Publish has a closed channel before it (Broadcaster.Publish, Subscribe, cancel).
THEOREM NeverSendsOnClosed == Spec => []NoSendOnClosed
<1>1. Init => IInv
  BY LockInit, DialInit DEF IInv
<1>2. IInv /\ [Next]_vars => IInv'
  BY StreamStep
<1>3. IInv => NoSendOnClosed
  <2> SUFFICES ASSUME LockInv, NEW a \in Angel, NEW k \in todo[a], k \in closed
               PROVE  FALSE
    BY DEF IInv, NoSendOnClosed
  <2>1. hpc[k] \in {"loop", "send", "cancel"} /\ hpc[k] = "done"
    BY DEF LockInv
  <2> QED
    BY <2>1
<1> QED
  BY <1>1, <1>2, <1>3, PTL DEF Spec
-----------------------------------------------------------------------------
(* What labd holds of the stream.                                            *)

\* Events are told from the frames of the handshake.
LEMMA EventFacts ==
  /\ \A a \in Angel : \A n \in 1 .. MaxEvents[a] : <<a, n>> \in Event
  /\ \A e \in Event : e[1] \in Angel /\ e[2] \in Nat /\ e = <<e[1], e[2]>>
  /\ Hello \notin Event /\ Ok \notin Event /\ NoEvent \notin Event
<1>1. \A a \in Angel : MaxEvents[a] \in Nat
  BY StreamAssumption
<1>2. \A e \in Event : \E a \in Angel : \E n \in 1 .. MaxEvents[a] : e = <<a, n>>
  BY DEF Event
<1> QED
  BY <1>1, <1>2, SMTT(30) DEF Event, Hello, Ok, NoEvent

\* The types of what labd's goroutines and the sockets hold.
LabTypes ==
  /\ sent \in [Angel -> Nat] /\ \A a \in Angel : sent[a] <= MaxEvents[a]
  /\ \A a \in Angel : apc[a] # "idle" => sent[a] >= 1
  /\ hand \in [Conn -> Event \cup {NoEvent}]
  /\ chan \in [Conn -> Seq(Event)] /\ \A k \in Conn : Len(chan[k]) <= BufSize
  /\ up \in [Conn -> Seq(ClientFrame)]
  /\ down \in [Conn -> Seq(LabFrame)] /\ \A k \in Conn : Len(down[k]) <= SockBuf
  /\ open \in [Conn -> SUBSET {"lab", "client"}]
  /\ cpc \in [Client -> ClientPc]
  /\ cancelled \in BOOLEAN

\* A connection nobody has dialed carries nothing, and labd says nothing before
\* the first frame; a handler has an event in hand only while it sends it.
WireInv ==
  /\ \A k \in Conn : hpc[k] = "none" => chan[k] = <<>> /\ up[k] = <<>>
  /\ \A k \in Conn : hpc[k] \in {"none", "hello"} => down[k] = <<>>
  /\ \A k \in Conn : hand[k] = NoEvent <=> hpc[k] # "send"
  /\ \A c \in Client : cpc[c] # "off" => dials[c] > 0

LabInv == IInv /\ LabTypes /\ WireInv

LEMMA CurConn ==
  ASSUME DialInv, NEW c \in Client, dials[c] > 0
  PROVE  Cur(c) \in Conn
BY StreamAssumption DEF DialInv, Cur, Conn

\* Frames come and go on one connection.
LEMMA FrameSent ==
  ASSUME LabTypes, NEW k \in Conn, Len(down[k]) < SockBuf, NEW f \in LabFrame,
         down' = [down EXCEPT ![k] = Append(@, f)]
  PROVE  /\ down' \in [Conn -> Seq(LabFrame)] /\ \A j \in Conn : Len(down'[j]) <= SockBuf
         /\ down'[k] = Append(down[k], f) /\ \A j \in Conn \ {k} : down'[j] = down[j]
<1>1. down[k] \in Seq(LabFrame) /\ SockBuf \in Nat
  BY StreamAssumption DEF LabTypes
<1>2. Append(down[k], f) \in Seq(LabFrame) /\ Len(Append(down[k], f)) = Len(down[k]) + 1
  BY <1>1
<1>3. Len(down[k]) \in Nat
  BY <1>1
<1> QED
  BY <1>1, <1>2, <1>3 DEF LabTypes

LEMMA FrameTaken ==
  ASSUME LabTypes, NEW k \in Conn, down[k] # <<>>, down' = [down EXCEPT ![k] = Tail(@)]
  PROVE  /\ down' \in [Conn -> Seq(LabFrame)] /\ \A j \in Conn : Len(down'[j]) <= SockBuf
         /\ down'[k] = Tail(down[k]) /\ \A j \in Conn \ {k} : down'[j] = down[j]
<1>1. down[k] \in Seq(LabFrame) /\ SockBuf \in Nat
  BY StreamAssumption DEF LabTypes
<1>2. Tail(down[k]) \in Seq(LabFrame) /\ Len(Tail(down[k])) = Len(down[k]) - 1
  BY <1>1
<1>3. Len(down[k]) \in Nat /\ Len(down[k]) <= SockBuf
  BY <1>1 DEF LabTypes
<1> QED
  BY <1>1, <1>2, <1>3 DEF LabTypes

LEMMA FrameUp ==
  ASSUME LabTypes, NEW k \in Conn, NEW s \in Seq(ClientFrame), up' = [up EXCEPT ![k] = s]
  PROVE  up' \in [Conn -> Seq(ClientFrame)] /\ up'[k] = s /\ \A j \in Conn \ {k} : up'[j] = up[j]
BY DEF LabTypes

LEMMA LabInvInit == Init => LabInv
<1> SUFFICES ASSUME Init PROVE LabInv
  OBVIOUS
<1>1. IInv
  BY LockInit, DialInit DEF IInv
<1>2. LabTypes
  <2>1. sent \in [Angel -> Nat] /\ \A a \in Angel : sent[a] <= MaxEvents[a]
    BY StreamAssumption DEF Init
  <2>2. \A k \in Conn : /\ chan[k] = <<>> /\ Len(chan[k]) <= BufSize
                         /\ down[k] = <<>> /\ Len(down[k]) <= SockBuf
    BY StreamAssumption DEF Init
  <2>3. /\ hand \in [Conn -> Event \cup {NoEvent}] /\ chan \in [Conn -> Seq(Event)]
        /\ up \in [Conn -> Seq(ClientFrame)] /\ down \in [Conn -> Seq(LabFrame)]
    BY DEF Init
  <2>4. /\ open \in [Conn -> SUBSET {"lab", "client"}] /\ cpc \in [Client -> ClientPc]
        /\ \A a \in Angel : apc[a] = "idle"
    BY DEF Init, ClientPc
  <2> QED
    BY <2>1, <2>2, <2>3, <2>4 DEF Init, LabTypes
<1>3. WireInv
  BY DEF Init, WireInv, HandlerPc
<1> QED
  BY <1>1, <1>2, <1>3 DEF LabInv

LEMMA PublisherTypes ==
  ASSUME LabInv, NEW a \in Angel, Publisher(a)
  PROVE  LabTypes' /\ WireInv'
<1> USE DEF bcastVars, wireVars, clientVars
<1>1. LabTypes /\ WireInv /\ IInv /\ MaxEvents[a] \in Nat /\ BufSize \in Nat
  BY StreamAssumption DEF LabInv
<1>2. CASE InsertEvent(a)
  BY <1>1, <1>2 DEF InsertEvent, LabTypes, WireInv, IInv, LockInv
<1>3. CASE PublishStart(a) \/ PublishEnd(a)
  BY <1>1, <1>3 DEF PublishStart, PublishEnd, LabTypes, WireInv, IInv, LockInv
<1>4. ASSUME NEW k \in Conn, PublishTo(a, k)
      PROVE  LabTypes' /\ WireInv'
  <2>1. <<a, sent[a]>> \in Event
    BY <1>1, <1>4, EventFacts DEF PublishTo, LabTypes
  <2>2. hpc[k] # "none"
    BY <1>1, <1>4 DEF PublishTo, IInv, LockInv
  <2>3. chan' \in [Conn -> Seq(Event)] /\ \A j \in Conn : Len(chan'[j]) <= BufSize
    BY <1>1, <1>4, <2>1 DEF PublishTo, LabTypes
  <2>4. \A j \in Conn \ {k} : chan'[j] = chan[j]
    BY <1>4 DEF PublishTo
  <2> QED
    BY <1>1, <1>4, <2>2, <2>3, <2>4 DEF PublishTo, LabTypes, WireInv
<1> QED
  BY <1>2, <1>3, <1>4 DEF Publisher

LEMMA HandlerTypes ==
  ASSUME LabInv, NEW k \in Conn, Handler(k)
  PROVE  LabTypes' /\ WireInv'
<1> USE DEF pubVars, bcastVars, wireVars, clientVars, HandlerGoes
<1>1. /\ LabTypes /\ WireInv /\ hpc \in [Conn -> HandlerPc] /\ SockBuf \in Nat \ {0}
      /\ BufSize \in Nat
  BY StreamAssumption DEF LabInv, IInv, LockInv
<1>2. {Hello, Ok} \subseteq LabFrame /\ Event \subseteq LabFrame
  BY DEF LabFrame
<1>3. CASE AcceptHello(k)
  <2>1. down[k] = <<>> /\ up' \in [Conn -> Seq(ClientFrame)]
    BY <1>1, <1>3 DEF AcceptHello, WireInv, LabTypes
  <2>2. down' \in [Conn -> Seq(LabFrame)] /\ \A j \in Conn : Len(down'[j]) <= SockBuf
    <3>1. Len(down[k]) < SockBuf
      BY <1>1, <2>1
    <3> QED
      BY <1>1, <1>2, <1>3, <3>1, FrameSent DEF AcceptHello, LabTypes
  <2> QED
    BY <1>1, <1>3, <2>1, <2>2, ZenonT(60) DEF AcceptHello, LabTypes, WireInv
<1>4. CASE RecvRequest(k)
  <2>1. up' \in [Conn -> Seq(ClientFrame)]
    BY <1>1, <1>4 DEF RecvRequest, LabTypes
  <2> QED
    BY <1>1, <1>4, <2>1 DEF RecvRequest, LabTypes, WireInv
<1>5. CASE HandshakeFails(k) \/ StreamCancelled(k)
  BY <1>1, <1>5 DEF HandshakeFails, StreamCancelled, LabTypes, WireInv
<1>6. CASE AckStream(k)
  <2>1. down' \in [Conn -> Seq(LabFrame)] /\ \A j \in Conn : Len(down'[j]) <= SockBuf
    BY <1>1, <1>2, <1>6, FrameSent DEF AckStream, LabTypes
  <2>2. \A j \in Conn \ {k} : down'[j] = down[j]
    BY <1>6 DEF AckStream
  <2> QED
    BY <1>1, <1>6, <2>1, <2>2 DEF AckStream, LabTypes, WireInv
<1>7. CASE Subscribe(k) \/ Unsubscribe(k) \/ CloseChan(k) \/ CloseConn(k)
  BY <1>1, <1>7, SMTT(40) DEF Subscribe, Unsubscribe, CloseChan, CloseConn, LabTypes, WireInv
<1>8. CASE TakeEvent(k)
  <2>1. Head(chan[k]) \in Event /\ Tail(chan[k]) \in Seq(Event) /\ Len(Tail(chan[k])) <= BufSize
    BY <1>1, <1>8 DEF TakeEvent, LabTypes
  <2> QED
    BY <1>1, <1>8, <2>1, EventFacts DEF TakeEvent, LabTypes, WireInv
<1>9. CASE SendEvent(k)
  <2>1. hand[k] \in Event
    BY <1>1, <1>9 DEF SendEvent, LabTypes, WireInv
  <2>2. down' \in [Conn -> Seq(LabFrame)] /\ \A j \in Conn : Len(down'[j]) <= SockBuf
    BY <1>1, <1>2, <1>9, <2>1, FrameSent DEF SendEvent
  <2>3. \A j \in Conn \ {k} : down'[j] = down[j]
    BY <1>9 DEF SendEvent
  <2> QED
    BY <1>1, <1>9, <2>1, <2>2, <2>3 DEF SendEvent, LabTypes, WireInv
<1>10. CASE SendFails(k)
  BY <1>1, <1>10 DEF SendFails, LabTypes, WireInv
<1> QED
  BY <1>3, <1>4, <1>5, <1>6, <1>7, <1>8, <1>9, <1>10 DEF Handler

LEMMA ClientTypes ==
  ASSUME LabInv, NEW c \in Client, ClientStep(c) \/ ClientKilled(c)
  PROVE  LabTypes' /\ WireInv'
<1> USE DEF pubVars, bcastVars, wireVars, ClientGoes
<1>1. LabTypes /\ WireInv /\ IInv /\ DialInv /\ MaxDials \in Nat
  BY StreamAssumption DEF LabInv, IInv
<1>2. After(c) \in ClientPc /\ {"off", "hello", "ack", "stream", "drain", "gone"} = ClientPc
  BY DEF After, ClientPc
<1>3. CASE Dial(c)
  <2>1. /\ dials[c] \in Nat /\ dials' = [dials EXCEPT ![c] = @ + 1] /\ dials[c] < MaxDials
        /\ dials \in [Client -> 0 .. MaxDials]
        /\ Cur(c)' = <<c, dials[c] + 1>>
    BY <1>1, <1>3 DEF Dial, DialInv, Cur
  <2> DEFINE k == <<c, dials[c] + 1>>
  <2>2. k \in Conn /\ hpc[k] = "none"
    BY <1>1, <2>1 DEF DialInv, Conn
  <2>3. up' \in [Conn -> Seq(ClientFrame)] /\ open' \in [Conn -> SUBSET {"lab", "client"}]
    <3>1. <<IF c \in Alien THEN "alien" ELSE "hello">> \in Seq(ClientFrame)
      BY DEF ClientFrame
    <3> QED
      BY <1>1, <1>3, <2>1, <2>2, <3>1, FrameUp DEF Dial, LabTypes
  <2>4. /\ hpc' = [hpc EXCEPT ![k] = "hello"] /\ \A j \in Conn \ {k} : up'[j] = up[j]
        /\ cpc' = [cpc EXCEPT ![c] = "hello"] /\ UNCHANGED <<chan, down, hand>>
    BY <1>3, <2>1 DEF Dial
  <2>5. LabTypes'
    BY <1>1, <1>2, <1>3, <2>3, <2>4 DEF Dial, LabTypes
  <2> HIDE DEF k
  <2>6. hpc \in [Conn -> HandlerPc]
    BY <1>1 DEF IInv, LockInv
  <2>7. WireInv'
    BY <1>1, <2>1, <2>2, <2>4, <2>6 DEF WireInv, LabTypes
  <2> QED
    BY <2>5, <2>7
<1>4. CASE ~Dial(c)
  <2>1. dials[c] > 0 => Cur(c) \in Conn
    BY <1>1, CurConn
  <2>2. /\ UNCHANGED <<sent, apc, todo, subs, chan, closed, hpc, hand, dials, cancelled>>
        /\ cpc' = cpc \/ (dials[c] > 0 /\ \E to \in ClientPc : cpc' = [cpc EXCEPT ![c] = to])
    BY <1>1, <1>2, <1>4 DEF ClientStep, SendRequest, RecvAck, DialFails, RecvEvent, StreamEnds,
         PushEvent, StreamClosed, ClientKilled, ClientTakes, WireInv
  <2>3. \/ down' = down
        \/ dials[c] > 0 /\ down[Cur(c)] # <<>> /\ down' = [down EXCEPT ![Cur(c)] = Tail(@)]
    BY <1>4 DEF ClientStep, SendRequest, RecvAck, DialFails, RecvEvent, StreamEnds,
         PushEvent, StreamClosed, ClientKilled, ClientTakes
  <2>4. \/ up' = up
        \/ /\ dials[c] > 0 /\ down[Cur(c)] # <<>>
           /\ up' = [up EXCEPT ![Cur(c)] = Append(@, "request")]
    BY <1>4 DEF ClientStep, SendRequest, RecvAck, DialFails, RecvEvent, StreamEnds,
         PushEvent, StreamClosed, ClientKilled, ClientTakes
  <2>5. open' = open \/ open' = [open EXCEPT ![Cur(c)] = @ \ {"client"}]
    BY <1>4 DEF ClientStep, SendRequest, RecvAck, DialFails, RecvEvent, StreamEnds,
         PushEvent, StreamClosed, ClientKilled
  <2>6. down' \in [Conn -> Seq(LabFrame)] /\ \A k \in Conn : Len(down'[k]) <= SockBuf
    BY <1>1, <2>1, <2>3, FrameTaken DEF LabTypes
  <2>7. up' \in [Conn -> Seq(ClientFrame)]
    <3>1. ASSUME dials[c] > 0
          PROVE  Append(up[Cur(c)], "request") \in Seq(ClientFrame)
      BY <1>1, <2>1, <3>1 DEF LabTypes, ClientFrame
    <3> QED
      BY <1>1, <2>1, <2>4, <3>1, FrameUp DEF LabTypes
  <2>8. open' \in [Conn -> SUBSET {"lab", "client"}]
    BY <1>1, <2>5 DEF LabTypes
  <2>9. LabTypes'
    BY <1>1, <2>2, <2>6, <2>7, <2>8 DEF LabTypes
  <2>10. \A k \in Conn : down[k] = <<>> => down'[k] = <<>> /\ up'[k] = up[k]
    BY <1>1, <2>3, <2>4 DEF LabTypes
  <2>11. WireInv'
    BY <1>1, <2>2, <2>10 DEF WireInv, LabTypes
  <2> QED
    BY <2>9, <2>11
<1> QED
  BY <1>3, <1>4

LEMMA LabInvStep ==
  ASSUME LabInv, [Next]_vars
  PROVE  LabInv'
<1>1. IInv'
  BY StreamStep DEF LabInv
<1>2. CASE Cancel
  <2>1. /\ UNCHANGED <<sent, apc, hand, chan, up, down, open, cpc, hpc, dials>>
        /\ cancelled' \in BOOLEAN
    BY <1>2 DEF Cancel, pubVars, bcastVars, wireVars, clientVars
  <2>2. LabTypes' /\ WireInv'
    BY <2>1 DEF LabInv, LabTypes, WireInv
  <2> QED
    BY <1>1, <2>2 DEF LabInv
<1>3. CASE UNCHANGED vars
  <2>1. UNCHANGED <<sent, apc, hand, chan, up, down, open, cpc, hpc, dials, cancelled>>
    BY <1>3 DEF vars, pubVars, bcastVars, wireVars, clientVars
  <2>2. LabTypes' /\ WireInv'
    BY <2>1 DEF LabInv, LabTypes, WireInv
  <2> QED
    BY <1>1, <2>2 DEF LabInv
<1> QED
  BY <1>1, <1>2, <1>3, PublisherTypes, HandlerTypes, ClientTypes DEF Next, Labd, LabInv
-----------------------------------------------------------------------------
(* The handshake: what the client takes for an event is one.                 *)

EventsFrom(s, n) == \A i \in n .. Len(s) : s[i] \in Event

\* A client that has its HELLO acknowledged is sent one Ok and then events only.
ShakeAt(c) ==
  /\ cpc[c] = "hello" =>
       /\ up[Cur(c)] \in {<<>>, <<"hello">>, <<"alien">>}
       /\ hpc[Cur(c)] \in {"hello", "request", "close", "done"}
       /\ down[Cur(c)] \in {<<>>, <<Hello>>}
  /\ cpc[c] = "ack" =>
       /\ hpc[Cur(c)] \notin {"none", "hello"}
       /\ hpc[Cur(c)] \in {"request", "ack"} => down[Cur(c)] = <<>>
       /\ EventsFrom(down[Cur(c)], 2)
  /\ cpc[c] \in {"stream", "drain"} =>
       /\ hpc[Cur(c)] \notin {"none", "hello", "request", "ack"}
       /\ EventsFrom(down[Cur(c)], 1)

ScreenTypes ==
  /\ inbox \in [Client -> Seq(Event)] /\ \A c \in Client : Len(inbox[c]) <= ClientBuf
  /\ ring \in [Client -> Seq(Event)] /\ \A c \in Client : Len(ring[c]) <= RingSize

ShakeInv == (\A c \in Client : ShakeAt(c)) /\ ScreenTypes
StreamInv == LabInv /\ ShakeInv

LEMMA ShakeInit == Init => ShakeInv
<1> SUFFICES ASSUME Init PROVE ShakeInv
  OBVIOUS
<1>1. \A c \in Client : ShakeAt(c)
  BY DEF Init, ShakeAt
<1>2. ScreenTypes
  BY StreamAssumption DEF Init, ScreenTypes
<1> QED
  BY <1>1, <1>2 DEF ShakeInv

\* Nothing happens to the connection of c.
LEMMA ShakeFrame ==
  ASSUME NEW c \in Client, ShakeAt(c), cpc'[c] = cpc[c], dials'[c] = dials[c],
         cpc[c] \in {"hello", "ack", "stream", "drain"} =>
           /\ hpc'[Cur(c)] = hpc[Cur(c)] /\ up'[Cur(c)] = up[Cur(c)]
           /\ down'[Cur(c)] = down[Cur(c)]
  PROVE  ShakeAt(c)'
<1>1. Cur(c)' = Cur(c)
  BY DEF Cur
<1> QED
  BY <1>1 DEF ShakeAt, EventsFrom

\* An event behind what is there, or a first frame taken, leaves events.
LEMMA EventsSent ==
  ASSUME NEW s \in Seq(LabFrame), NEW e \in Event, NEW n \in {1, 2}, EventsFrom(s, n)
  PROVE  EventsFrom(Append(s, e), n)
<1>1. e \in LabFrame
  BY DEF LabFrame
<1>2. /\ Len(Append(s, e)) = Len(s) + 1 /\ Len(s) \in Nat
      /\ \A i \in 1 .. Len(s) : Append(s, e)[i] = s[i]
      /\ Append(s, e)[Len(s) + 1] = e
  BY <1>1
<1> QED
  BY <1>2 DEF EventsFrom

LEMMA EventsTaken ==
  ASSUME NEW s \in Seq(LabFrame), s # <<>>, EventsFrom(s, 2)
  PROVE  EventsFrom(Tail(s), 1)
<1>1. Len(Tail(s)) = Len(s) - 1 /\ Len(s) \in Nat
      /\ \A i \in 1 .. Len(Tail(s)) : Tail(s)[i] = s[i + 1]
  OBVIOUS
<1> QED
  BY <1>1 DEF EventsFrom

LEMMA HandlerShake ==
  ASSUME StreamInv, NEW k \in Conn, Handler(k)
  PROVE  ShakeInv'
<1> USE DEF HandlerGoes
<1>1. /\ LabTypes /\ WireInv /\ hpc \in [Conn -> HandlerPc] /\ DialInv
      /\ UNCHANGED <<cpc, dials, inbox, ring>>
  BY DEF StreamInv, LabInv, IInv, LockInv, Handler, AcceptHello, RecvRequest, HandshakeFails,
     AckStream, Subscribe, TakeEvent, StreamCancelled, SendEvent, SendFails, Unsubscribe, CloseChan,
     CloseConn, clientVars
<1>2. ScreenTypes'
  BY <1>1 DEF StreamInv, ShakeInv, ScreenTypes
<1>3. \A j \in Conn \ {k} : hpc'[j] = hpc[j] /\ up'[j] = up[j] /\ down'[j] = down[j]
  BY <1>1 DEF Handler, AcceptHello, RecvRequest, HandshakeFails, AckStream, Subscribe, TakeEvent,
     StreamCancelled, SendEvent, SendFails, Unsubscribe, CloseChan, CloseConn, wireVars, LabTypes
<1>4. ASSUME NEW c \in Client
      PROVE  ShakeAt(c)'
  <2>1. ShakeAt(c)
    BY DEF StreamInv, ShakeInv
  <2>2. CASE cpc[c] \notin {"hello", "ack", "stream", "drain"} \/ Cur(c) # k
    <3>1. cpc[c] \in {"hello", "ack", "stream", "drain"} => Cur(c) \in Conn
      BY <1>1, CurConn DEF WireInv
    <3> QED
      BY <1>1, <1>3, <2>1, <2>2, <3>1, ShakeFrame
  <2>3. CASE cpc[c] \in {"hello", "ack", "stream", "drain"} /\ Cur(c) = k
    <3>1. Cur(c)' = k /\ cpc' = cpc
      BY <1>1, <2>3 DEF Cur
    <3>2. up[k] \in Seq(ClientFrame) /\ down[k] \in Seq(LabFrame) /\ hpc[k] \in HandlerPc
      BY <1>1 DEF LabTypes
    <3>3. CASE AcceptHello(k)
      <4>1. cpc[c] = "hello" /\ down[k] = <<>> /\ up[k] = <<"hello">>
        BY <1>1, <2>1, <2>3, <3>3 DEF AcceptHello, ShakeAt, WireInv
      <4>2. up'[k] = <<>> /\ down'[k] \in {<<>>, <<Hello>>} /\ hpc'[k] \in {"request", "close"}
        BY <1>1, <3>3, <4>1 DEF AcceptHello, LabTypes
      <4> QED
        BY <3>1, <4>1, <4>2 DEF ShakeAt
    <3>4. CASE RecvRequest(k)
      <4>1. cpc[c] = "ack" /\ hpc[k] = "request" /\ hpc'[k] = "ack" /\ down' = down
        BY <1>1, <2>1, <2>3, <3>4 DEF RecvRequest, ShakeAt
      <4> QED
        BY <2>1, <2>3, <3>1, <4>1 DEF ShakeAt
    <3>5. CASE HandshakeFails(k)
      <4>1. hpc[k] \in {"hello", "request"} /\ hpc'[k] = "close" /\ down' = down /\ up' = up
        BY <1>1, <3>5 DEF HandshakeFails, wireVars
      <4> QED
        BY <2>1, <2>3, <3>1, <4>1 DEF ShakeAt
    <3>6. CASE AckStream(k)
      <4>1. cpc[c] = "ack" /\ down[k] = <<>>
        BY <2>1, <2>3, <3>6 DEF AckStream, ShakeAt
      <4>2. hpc'[k] = "subscribe" /\ down'[k] \in {<<>>, <<Ok>>}
        BY <1>1, <3>6, <4>1 DEF AckStream, LabTypes
      <4>3. EventsFrom(down'[k], 2)
        BY <4>2 DEF EventsFrom
      <4> QED
        BY <3>1, <4>1, <4>2, <4>3 DEF ShakeAt, EventsFrom
    <3>7. CASE SendEvent(k)
      <4>1. hand[k] \in Event /\ hpc[k] = "send" /\ hpc'[k] = "loop"
        BY <1>1, <3>7 DEF SendEvent, LabTypes, WireInv
      <4>2. down'[k] = Append(down[k], hand[k])
        BY <1>1, <3>7 DEF SendEvent, LabTypes
      <4>3. \A n \in {1, 2} : EventsFrom(down[k], n) => EventsFrom(down'[k], n)
        BY <3>2, <4>1, <4>2, EventsSent
      <4> QED
        BY <2>1, <2>3, <3>1, <4>1, <4>2, <4>3 DEF ShakeAt, EventsFrom
    <3>8. CASE \/ Subscribe(k) \/ TakeEvent(k) \/ StreamCancelled(k) \/ SendFails(k)
               \/ Unsubscribe(k) \/ CloseChan(k) \/ CloseConn(k)
      <4>1. /\ hpc[k] \notin {"none", "hello", "request", "ack"}
            /\ hpc'[k] \notin {"none", "hello", "request", "ack"}
            /\ hpc[k] = "close" => hpc'[k] = "done"
            /\ hpc[k] # "done" /\ UNCHANGED <<down, up>>
        BY <1>1, <3>8 DEF Subscribe, TakeEvent, StreamCancelled, SendFails, Unsubscribe, CloseChan,
           CloseConn, wireVars
      <4> QED
        BY <2>1, <2>3, <3>1, <4>1 DEF ShakeAt, EventsFrom
    <3> QED
      BY <3>3, <3>4, <3>5, <3>6, <3>7, <3>8 DEF Handler
  <2> QED
    BY <2>2, <2>3
<1> QED
  BY <1>2, <1>4 DEF ShakeInv

\* The connections of the clients are their own.
LEMMA OtherConn ==
  ASSUME NEW c \in Client, NEW d \in Client, c # d
  PROVE  Cur(c) # Cur(d) /\ Cur(c)' # Cur(d)
BY DEF Cur

\* The list of the screen takes an event and keeps its bound.
LEMMA PushTypes ==
  ASSUME ScreenTypes, NEW c \in Client, PushEvent(c)
  PROVE  ScreenTypes'
<1>1. inbox[c] \in Seq(Event) /\ inbox[c] # <<>> /\ ring[c] \in Seq(Event) /\ RingSize \in Nat
      /\ Len(inbox[c]) <= ClientBuf /\ ClientBuf \in Nat
  BY StreamAssumption DEF ScreenTypes, PushEvent
<1>2. Head(inbox[c]) \in Event /\ Tail(inbox[c]) \in Seq(Event) /\ Len(Tail(inbox[c])) <= ClientBuf
  BY <1>1
<1> DEFINE events == <<Head(inbox[c])>> \o ring[c]
           shown == IF Len(events) > RingSize THEN SubSeq(events, 1, RingSize) ELSE events
<1>3. events \in Seq(Event) /\ Len(events) = Len(ring[c]) + 1
  BY <1>1, <1>2
<1>4. inbox' = [inbox EXCEPT ![c] = Tail(@)] /\ ring' = [ring EXCEPT ![c] = shown]
  BY DEF PushEvent
<1> HIDE DEF events
<1>5. shown \in Seq(Event) /\ Len(shown) <= RingSize
  BY <1>1, <1>3
<1> HIDE DEF shown
<1> QED
  BY <1>2, <1>4, <1>5 DEF ScreenTypes

LEMMA ClientShake ==
  ASSUME StreamInv, NEW c \in Client, ClientStep(c) \/ ClientKilled(c)
  PROVE  ShakeInv'
<1> USE DEF ClientGoes
<1>1. /\ LabTypes /\ WireInv /\ hpc \in [Conn -> HandlerPc] /\ DialInv /\ LabInv
      /\ ShakeAt(c) /\ ScreenTypes /\ cpc \in [Client -> ClientPc]
      /\ dials \in [Client -> 0 .. MaxDials]
  BY DEF StreamInv, LabInv, IInv, LockInv, ShakeInv, LabTypes, DialInv
<1>2. cpc[c] # "off" => Cur(c) \in Conn
  BY <1>1, CurConn DEF WireInv
<1>3. ASSUME NEW d \in Client \ {c}
      PROVE  ShakeAt(d)'
  <2>1. ShakeAt(d) /\ (cpc[d] # "off" => Cur(d) \in Conn)
    BY <1>1, CurConn DEF WireInv, StreamInv, ShakeInv
  <2>2. Cur(c) # Cur(d) /\ Cur(c)' # Cur(d)
    BY OtherConn
  <2>3. cpc'[d] = cpc[d] /\ dials'[d] = dials[d]
    BY <1>1 DEF ClientStep, Dial, SendRequest, RecvAck, DialFails, RecvEvent, StreamEnds,
       PushEvent, StreamClosed, ClientKilled
  <2>4. Cur(d) \in Conn => /\ hpc'[Cur(d)] = hpc[Cur(d)] /\ up'[Cur(d)] = up[Cur(d)]
                           /\ down'[Cur(d)] = down[Cur(d)]
    BY <1>1, <2>2 DEF ClientStep, Dial, SendRequest, RecvAck, DialFails, RecvEvent, StreamEnds,
       PushEvent, StreamClosed, ClientKilled, ClientTakes, wireVars, LabTypes
  <2> QED
    BY <2>1, <2>3, <2>4, ShakeFrame
<1>4. CASE Dial(c)
  <2>1. Cur(c)' = <<c, dials[c] + 1>> /\ dials[c] \in Nat /\ dials[c] < MaxDials
    BY <1>1, <1>4 DEF Dial, Cur
  <2>2. Cur(c)' \in Conn /\ hpc[Cur(c)'] = "none"
    BY <1>1, <2>1, StreamAssumption DEF DialInv, Conn
  <2>3. /\ hpc'[Cur(c)'] = "hello" /\ down' = down /\ up'[Cur(c)'] \in {<<"hello">>, <<"alien">>}
        /\ cpc'[c] = "hello" /\ UNCHANGED <<inbox, ring>>
    BY <1>1, <1>4, <2>2 DEF Dial, LabTypes
  <2>4. down[Cur(c)'] = <<>>
    BY <1>1, <2>2 DEF WireInv
  <2>5. ShakeAt(c)'
    BY <2>3, <2>4 DEF ShakeAt
  <2> QED
    BY <1>1, <1>3, <2>3, <2>5 DEF ShakeInv, ScreenTypes
<1>5. CASE SendRequest(c)
  <2>1. cpc[c] = "hello" /\ cpc'[c] = "ack" /\ down[Cur(c)] # <<>> /\ Cur(c)' = Cur(c)
    BY <1>1, <1>5 DEF SendRequest, ClientTakes, Cur
  <2>2. hpc[Cur(c)] \in {"request", "close", "done"} /\ down[Cur(c)] = <<Hello>>
    BY <1>1, <1>2, <2>1 DEF ShakeAt, WireInv
  <2>3. down'[Cur(c)] = <<>> /\ UNCHANGED <<hpc, inbox, ring>>
    BY <1>1, <1>2, <1>5, <2>1, <2>2 DEF SendRequest, ClientTakes, LabTypes
  <2>4. ShakeAt(c)'
    BY <2>1, <2>2, <2>3 DEF ShakeAt, EventsFrom
  <2> QED
    BY <1>1, <1>3, <2>3, <2>4 DEF ShakeInv, ScreenTypes
<1>6. CASE RecvAck(c)
  <2>1. /\ cpc[c] = "ack" /\ cpc'[c] = "stream" /\ down[Cur(c)] # <<>> /\ Cur(c)' = Cur(c)
        /\ down' = [down EXCEPT ![Cur(c)] = Tail(@)] /\ UNCHANGED <<hpc, inbox, ring>>
    BY <1>1, <1>6 DEF RecvAck, ClientTakes, Cur
  <2>2. down'[Cur(c)] = Tail(down[Cur(c)]) /\ down[Cur(c)] \in Seq(LabFrame)
    BY <1>1, <1>2, <2>1 DEF LabTypes
  <2>3. EventsFrom(down'[Cur(c)], 1)
    BY <1>1, <2>1, <2>2, EventsTaken DEF ShakeAt
  <2>4. ShakeAt(c)'
    BY <1>1, <2>1, <2>3 DEF ShakeAt, EventsFrom
  <2> QED
    BY <1>1, <1>3, <2>1, <2>4 DEF ShakeInv, ScreenTypes
<1>7. CASE RecvEvent(c)
  <2>1. /\ cpc[c] = "stream" /\ Len(inbox[c]) < ClientBuf /\ down[Cur(c)] # <<>> /\ Cur(c)' = Cur(c)
        /\ down' = [down EXCEPT ![Cur(c)] = Tail(@)] /\ UNCHANGED <<hpc, cpc, ring>>
        /\ inbox' = [inbox EXCEPT ![c] = Append(@, Head(down[Cur(c)]))]
    BY <1>1, <1>7 DEF RecvEvent, ClientTakes, Cur
  <2>2. down'[Cur(c)] = Tail(down[Cur(c)]) /\ down[Cur(c)] \in Seq(LabFrame)
    BY <1>1, <1>2, <2>1 DEF LabTypes
  <2>3. EventsFrom(down[Cur(c)], 1) /\ EventsFrom(down[Cur(c)], 2)
    BY <1>1, <2>1 DEF ShakeAt, EventsFrom
  <2>4. Head(down[Cur(c)]) \in Event
    BY <2>1, <2>2, <2>3 DEF EventsFrom
  <2>5. ScreenTypes'
    <3>1. Append(inbox[c], Head(down[Cur(c)])) \in Seq(Event)
          /\ Len(Append(inbox[c], Head(down[Cur(c)]))) <= ClientBuf
      BY <1>1, <2>1, <2>4, StreamAssumption DEF ScreenTypes
    <3> QED
      BY <1>1, <2>1, <3>1 DEF ScreenTypes
  <2>6. EventsFrom(down'[Cur(c)], 1)
    BY <2>1, <2>2, <2>3, EventsTaken
  <2>7. ShakeAt(c)'
    BY <1>1, <2>1, <2>6 DEF ShakeAt, EventsFrom
  <2> QED
    BY <1>3, <2>5, <2>7 DEF ShakeInv
<1>8. CASE PushEvent(c)
  <2>1. UNCHANGED <<cpc, dials, hpc, up, down>>
    BY <1>8 DEF PushEvent, wireVars
  <2>2. ShakeAt(c)'
    BY <1>1, <2>1, ShakeFrame
  <2> QED
    BY <1>1, <1>3, <1>8, <2>2, PushTypes DEF ShakeInv
<1>9. CASE StreamEnds(c)
  <2>1. /\ cpc[c] = "stream" /\ cpc'[c] = "drain" /\ Cur(c)' = Cur(c)
        /\ UNCHANGED <<hpc, up, down, inbox, ring>>
    BY <1>1, <1>9 DEF StreamEnds, wireVars, Cur
  <2>2. ShakeAt(c)'
    BY <1>1, <2>1 DEF ShakeAt, EventsFrom
  <2> QED
    BY <1>1, <1>3, <2>1, <2>2 DEF ShakeInv, ScreenTypes
<1>10. CASE DialFails(c) \/ StreamClosed(c)
  <2>1. cpc'[c] \in {"off", "gone"} /\ UNCHANGED <<inbox, ring>>
    BY <1>1, <1>10 DEF DialFails, StreamClosed, After
  <2>2. ShakeAt(c)'
    BY <2>1 DEF ShakeAt
  <2> QED
    BY <1>1, <1>3, <2>1, <2>2 DEF ShakeInv, ScreenTypes
<1>11. CASE ClientKilled(c)
  <2>1. /\ cpc'[c] = "gone" /\ inbox' = [inbox EXCEPT ![c] = <<>>]
        /\ ring' = [ring EXCEPT ![c] = <<>>]
    BY <1>1, <1>11 DEF ClientKilled
  <2>2. ShakeAt(c)'
    BY <2>1 DEF ShakeAt
  <2>3. ScreenTypes'
    <3>1. <<>> \in Seq(Event) /\ Len(<<>>) = 0
      BY EmptySeq
    <3> QED
      BY <1>1, <2>1, <3>1, StreamAssumption DEF ScreenTypes
  <2> QED
    BY <1>3, <2>2, <2>3 DEF ShakeInv
<1> QED
  BY <1>4, <1>5, <1>6, <1>7, <1>8, <1>9, <1>10, <1>11 DEF ClientStep

LEMMA StreamInvStep == StreamInv /\ [Next]_vars => StreamInv'
<1> SUFFICES ASSUME StreamInv, [Next]_vars PROVE StreamInv'
  OBVIOUS
<1>1. LabInv'
  BY LabInvStep DEF StreamInv
<1>2. ASSUME UNCHANGED <<cpc, dials, hpc, up, down, inbox, ring>>
      PROVE  ShakeInv'
  <2>1. \A c \in Client : ShakeAt(c)'
    BY <1>2, ShakeFrame DEF StreamInv, ShakeInv
  <2> QED
    BY <1>2, <2>1 DEF StreamInv, ShakeInv, ScreenTypes
<1>3. ASSUME NEW a \in Angel, Publisher(a)
      PROVE  ShakeInv'
  BY <1>2, <1>3 DEF Publisher, InsertEvent, PublishStart, PublishTo, PublishEnd, wireVars, clientVars
<1>4. ASSUME Cancel \/ UNCHANGED vars
      PROVE  ShakeInv'
  <2>1. UNCHANGED <<cpc, dials, hpc, up, down, inbox, ring>>
    BY <1>4 DEF Cancel, vars, wireVars, clientVars
  <2> QED
    BY <1>2, <2>1
<1> QED
  BY <1>1, <1>3, <1>4, HandlerShake, ClientShake DEF Next, Labd, StreamInv

LEMMA StreamInvInit == Init => StreamInv
BY LabInvInit, ShakeInit DEF StreamInv

LEMMA StreamInvAlways == Spec => []StreamInv
BY StreamInvInit, StreamInvStep, PTL DEF Spec

\* Channels, sockets and lists keep their types and sizes: what a client takes for
\* an event is one, and no buffer outgrows its bound (cliEventStream, Client.EventStream,
\* pushEvent).
THEOREM StreamTypeCorrect == Spec => []StreamTypeOK
<1>1. StreamInv => StreamTypeOK
  <2> SUFFICES ASSUME StreamInv PROVE StreamTypeOK
    OBVIOUS
  <2>1. LabTypes /\ LockInv /\ DialInv /\ ScreenTypes
    BY DEF StreamInv, LabInv, IInv, ShakeInv
  <2>2. \A a \in Angel : sent[a] \in 0 .. MaxEvents[a]
    BY <2>1, StreamAssumption DEF LabTypes
  <2> QED
    BY <2>1, <2>2 DEF StreamTypeOK, LabTypes, LockInv, DialInv, ScreenTypes, IsBuffer
<1> QED
  BY <1>1, StreamInvAlways, PTL
-----------------------------------------------------------------------------
(* The order of what a client is shown.                                      *)

\* The events among the frames of a channel or a socket.
Events(s) == {s[i] : i \in 1 .. Len(s)} \cap Event

Older(x, y) == x[1] = y[1] => x[2] < y[2]

\* Each angel's events in S are older than its events in T.
Before(S, T) == \A x \in S : \A y \in T : Older(x, y)

\* Oldest first; newest first.
Sorted(s) ==
  \A i, j \in 1 .. Len(s) : (i < j /\ s[i] \in Event /\ s[j] \in Event) => Older(s[i], s[j])
Latest(s) == \A i, j \in 1 .. Len(s) : i < j => Older(s[j], s[i])

\* The last event of a that k may have been given: the Publish under way has come
\* to k, or not yet.
Upto(k, a) == IF apc[a] = "publish" \/ k \in todo[a] THEN sent[a] - 1 ELSE sent[a]
Bounded(S, k) == \A e \in S : e[2] <= Upto(k, e[1])

InHand(k) == {hand[k]} \cap Event
Carried(k) == Events(down[k]) \cup InHand(k) \cup Events(chan[k])

\* In labd and in the socket.
WireOrderAt(k) ==
  /\ Sorted(down[k]) /\ Sorted(chan[k])
  /\ Before(Events(down[k]), InHand(k))
  /\ Before(Events(down[k]) \cup InHand(k), Events(chan[k]))
  /\ Bounded(Carried(k), k)

\* In the client, where the events of earlier connections are too.
ScreenOrderAt(c) ==
  /\ dials[c] = 0 => inbox[c] = <<>> /\ ring[c] = <<>>
  /\ Sorted(inbox[c]) /\ Latest(ring[c])
  /\ Before(Events(ring[c]), Events(inbox[c]))
  /\ dials[c] > 0 =>
       /\ Before(Events(ring[c]) \cup Events(inbox[c]), Carried(Cur(c)))
       /\ Bounded(Events(ring[c]) \cup Events(inbox[c]), Cur(c))

OrderInv == (\A k \in Conn : WireOrderAt(k)) /\ (\A c \in Client : ScreenOrderAt(c))

LEMMA EventFrames == \A s \in Seq(Event) : s \in Seq(LabFrame)
<1>1. Event \subseteq LabFrame
  BY DEF LabFrame
<1> QED
  BY <1>1

LEMMA EventsEmpty == Events(<<>>) = {} /\ Sorted(<<>>) /\ Latest(<<>>)
BY DEF Events, Sorted, Latest

LEMMA EventsAppend ==
  ASSUME NEW s \in Seq(LabFrame), NEW f \in LabFrame
  PROVE  Events(Append(s, f)) = Events(s) \cup ({f} \cap Event)
<1> DEFINE t == Append(s, f)
<1>1. /\ Len(t) = Len(s) + 1 /\ Len(s) \in Nat
      /\ \A i \in 1 .. Len(s) : t[i] = s[i]
      /\ t[Len(s) + 1] = f
  OBVIOUS
<1> HIDE DEF t
<1> QED
  BY <1>1 DEF Events, t

LEMMA EventsTail ==
  ASSUME NEW s \in Seq(LabFrame), s # <<>>
  PROVE  /\ Events(Tail(s)) \subseteq Events(s)
         /\ Head(s) \in Event => Head(s) \in Events(s)
<1>1. /\ Len(Tail(s)) = Len(s) - 1 /\ Len(s) \in Nat /\ Len(s) > 0 /\ Head(s) = s[1]
      /\ \A i \in 1 .. Len(Tail(s)) : Tail(s)[i] = s[i + 1]
  OBVIOUS
<1> QED
  BY <1>1 DEF Events

LEMMA SortedAppend ==
  ASSUME NEW s \in Seq(LabFrame), NEW f \in LabFrame, Sorted(s), f \in Event => Before(Events(s), {f})
  PROVE  Sorted(Append(s, f))
<1> DEFINE t == Append(s, f)
<1>1. /\ Len(t) = Len(s) + 1 /\ Len(s) \in Nat
      /\ \A i \in 1 .. Len(s) : t[i] = s[i]
      /\ t[Len(s) + 1] = f
  OBVIOUS
<1> HIDE DEF t
<1>2. ASSUME NEW i \in 1 .. Len(t), NEW j \in 1 .. Len(t), i < j, t[i] \in Event, t[j] \in Event
      PROVE  Older(t[i], t[j])
  <2>1. i \in 1 .. Len(s) /\ t[i] = s[i] /\ s[i] \in Events(s)
    BY <1>1, <1>2 DEF Events
  <2>2. CASE j \in 1 .. Len(s)
    BY <1>1, <1>2, <2>1, <2>2 DEF Sorted
  <2>3. CASE j = Len(s) + 1
    BY <1>1, <1>2, <2>1, <2>3 DEF Before
  <2> QED
    BY <1>1, <2>2, <2>3
<1> QED
  BY <1>2 DEF Sorted, t

LEMMA SortedTail ==
  ASSUME NEW s \in Seq(LabFrame), s # <<>>, Sorted(s)
  PROVE  /\ Sorted(Tail(s))
         /\ Head(s) \in Event => Before({Head(s)}, Events(Tail(s)))
<1>1. /\ Len(Tail(s)) = Len(s) - 1 /\ Len(s) \in Nat /\ Len(s) > 0 /\ Head(s) = s[1]
      /\ \A i \in 1 .. Len(Tail(s)) : Tail(s)[i] = s[i + 1]
  OBVIOUS
<1>2. \A i \in 1 .. Len(Tail(s)) : i + 1 \in 1 .. Len(s) /\ 1 < i + 1
  BY <1>1
<1>3. Sorted(Tail(s))
  BY <1>1, <1>2 DEF Sorted
<1>4. ASSUME Head(s) \in Event, NEW y \in Events(Tail(s))
      PROVE  Older(Head(s), y)
  <2>1. PICK i \in 1 .. Len(Tail(s)) : y = Tail(s)[i] /\ y \in Event
    BY <1>4 DEF Events
  <2> QED
    BY <1>1, <1>2, <1>4, <2>1 DEF Sorted
<1> QED
  BY <1>3, <1>4 DEF Before

\* pushEvent puts a newer event before the others and cuts the list.
LEMMA LatestPush ==
  ASSUME NEW s \in Seq(Event), NEW e \in Event, Latest(s), Before(Events(s), {e}), NEW n \in Nat
  PROVE  LET t == <<e>> \o s
             u == IF Len(t) > n THEN SubSeq(t, 1, n) ELSE t
         IN  Latest(u) /\ Events(u) \subseteq Events(s) \cup {e}
<1> DEFINE t == <<e>> \o s
           u == IF Len(t) > n THEN SubSeq(t, 1, n) ELSE t
<1>1. /\ Len(t) = Len(s) + 1 /\ Len(s) \in Nat /\ t[1] = e /\ t \in Seq(Event)
      /\ \A i \in 2 .. Len(t) : t[i] = s[i - 1]
  OBVIOUS
<1> HIDE DEF t
<1>2. Len(u) \in Nat /\ Len(u) <= Len(t) /\ \A i \in 1 .. Len(u) : u[i] = t[i]
  BY <1>1
<1> HIDE DEF u
<1>3. \A i \in 2 .. Len(t) : i - 1 \in 1 .. Len(s) /\ t[i] \in Events(s)
  BY <1>1 DEF Events
<1>4. ASSUME NEW i \in 1 .. Len(u), NEW j \in 1 .. Len(u), i < j
      PROVE  Older(u[j], u[i])
  <2>1. j \in 2 .. Len(t) /\ u[j] = t[j] /\ u[i] = t[i] /\ t[j] = s[j - 1]
    BY <1>1, <1>2, <1>4
  <2>2. CASE i = 1
    BY <1>1, <1>3, <2>1, <2>2 DEF Before
  <2>3. CASE i > 1
    <3>1. t[i] = s[i - 1] /\ i - 1 \in 1 .. Len(s) /\ j - 1 \in 1 .. Len(s) /\ i - 1 < j - 1
      BY <1>1, <1>2, <1>4, <2>1, <2>3
    <3> QED
      BY <2>1, <3>1 DEF Latest
  <2> QED
    BY <2>2, <2>3
<1>5. Events(u) \subseteq Events(s) \cup {e}
  <2> SUFFICES ASSUME NEW i \in 1 .. Len(u) PROVE u[i] \in Events(s) \cup {e}
    BY DEF Events
  <2>1. u[i] = t[i] /\ (i = 1 \/ i \in 2 .. Len(t))
    BY <1>1, <1>2
  <2> QED
    BY <1>1, <1>3, <2>1
<1>6. Latest(u)
  BY <1>4 DEF Latest
<1> QED
  BY <1>5, <1>6 DEF u, t

LEMMA OrderInit == Init => OrderInv
<1> SUFFICES ASSUME Init PROVE OrderInv
  OBVIOUS
<1>1. \A k \in Conn : down[k] = <<>> /\ chan[k] = <<>> /\ hand[k] = NoEvent
  BY DEF Init
<1>2. ASSUME NEW k \in Conn
      PROVE  WireOrderAt(k)
  <2>1. Events(down[k]) = {} /\ InHand(k) = {} /\ Events(chan[k]) = {}
    BY <1>1, EventsEmpty, EventFacts DEF InHand
  <2> QED
    BY <1>1, <2>1, EventsEmpty DEF WireOrderAt, Carried, Before, Bounded
<1>3. \A c \in Client : ScreenOrderAt(c)
  BY EventsEmpty DEF Init, ScreenOrderAt, Before
<1> QED
  BY <1>2, <1>3 DEF OrderInv

\* What may have been given only grows, and a Publish makes room for its event.
LEMMA UptoGrows ==
  ASSUME LabInv, NEW a \in Angel, Publisher(a), NEW k \in Conn, NEW S \in SUBSET Event, Bounded(S, k)
  PROVE  Bounded(S, k)'
<1> SUFFICES ASSUME NEW e \in S, e[1] \in Angel, e[2] \in Nat PROVE e[2] <= Upto(k, e[1])'
  BY EventFacts DEF Bounded
<1>1. e[2] <= Upto(k, e[1])
  BY DEF Bounded
<1>2. /\ LockInv /\ sent \in [Angel -> Nat] /\ apc \in [Angel -> {"idle", "publish", "sending"}]
      /\ todo \in [Angel -> SUBSET Conn]
  BY DEF LabInv, IInv, LabTypes, LockInv
<1>3. CASE InsertEvent(a)
  BY <1>1, <1>2, <1>3 DEF InsertEvent, Upto, LockInv
<1>4. CASE PublishStart(a)
  BY <1>1, <1>2, <1>4 DEF PublishStart, Upto, LockInv
<1>5. CASE PublishEnd(a)
  BY <1>1, <1>2, <1>5 DEF PublishEnd, Upto, LockInv
<1>6. ASSUME NEW j \in Conn, PublishTo(a, j)
      PROVE  e[2] <= Upto(k, e[1])'
  BY <1>1, <1>2, <1>6 DEF PublishTo, Upto, LockInv
<1> QED
  BY <1>3, <1>4, <1>5, <1>6 DEF Publisher

LEMMA PublisherOrder ==
  ASSUME LabInv, OrderInv, NEW a \in Angel, Publisher(a)
  PROVE  OrderInv'
<1>1. LabTypes /\ IInv /\ LockInv /\ LabTypes' /\ UNCHANGED <<hand, down, inbox, ring, dials>>
  BY PublisherTypes DEF LabInv, IInv, Publisher, InsertEvent, PublishStart, PublishEnd, PublishTo, wireVars,
     clientVars
<1>2. \A c \in Client : dials[c] > 0 => Cur(c) \in Conn /\ Cur(c)' = Cur(c)
  BY <1>1, CurConn DEF Cur, IInv
<1>3. ASSUME NEW k \in Conn, chan'[k] = chan[k]
      PROVE  WireOrderAt(k)' /\ Carried(k)' = Carried(k)
  <2>1. Carried(k)' = Carried(k) /\ Carried(k) \in SUBSET Event /\ WireOrderAt(k)
    BY <1>1, <1>3 DEF Carried, Events, InHand, OrderInv
  <2>2. PICK S \in SUBSET Event : S = Carried(k)
    BY <2>1
  <2>3. Bounded(S, k)'
    BY <2>1, <2>2, UptoGrows DEF WireOrderAt
  <2>4. Bounded(Carried(k), k)'
    BY <2>1, <2>2, <2>3 DEF Bounded
  <2>5. Events(down[k])' = Events(down[k]) /\ Events(chan[k])' = Events(chan[k]) /\ InHand(k)' = InHand(k)
    BY <1>1, <1>3 DEF Events, InHand
  <2>6. Sorted(down[k])' /\ Sorted(chan[k])'
    BY <1>1, <1>3, <2>1 DEF WireOrderAt, Sorted
  <2> QED
    BY <2>1, <2>4, <2>5, <2>6 DEF WireOrderAt, Before
<1>4. ASSUME NEW c \in Client, dials[c] > 0 =>
               Before(Events(ring[c]) \cup Events(inbox[c]), Carried(Cur(c))')
      PROVE  ScreenOrderAt(c)'
  <2>1. ScreenOrderAt(c)
    BY DEF OrderInv
  <2>2. PICK S \in SUBSET Event : S = Events(ring[c]) \cup Events(inbox[c])
    BY DEF Events
  <2>3. dials[c] > 0 => Bounded(S, Cur(c))'
    <3>1. ASSUME NEW k \in Conn, Bounded(S, k)
          PROVE  Bounded(S, k)'
      BY <3>1, UptoGrows
    <3>2. ASSUME NEW k \in Conn, k = Cur(c), dials[c] > 0
          PROVE  Bounded(S, Cur(c))'
      <4>1. Bounded(S, k)'
        BY <2>1, <2>2, <3>1, <3>2 DEF ScreenOrderAt
      <4> QED
        BY <1>2, <3>2, <4>1 DEF Bounded, Upto
    <3> QED
      BY <1>2, <3>2
  <2>4. (Events(ring[c]) \cup Events(inbox[c]))' = S
    BY <1>1, <2>2 DEF Events
  <2>5. dials[c] > 0 => Bounded(Events(ring[c]) \cup Events(inbox[c]), Cur(c))'
    BY <2>3, <2>4 DEF Bounded
  <2> QED
    BY <1>1, <1>2, <1>4, <2>1, <2>5 DEF ScreenOrderAt, Sorted, Latest, Before, Events
<1>5. CASE chan' = chan
  <2>1. \A k \in Conn : WireOrderAt(k)' /\ Carried(k)' = Carried(k)
    BY <1>3, <1>5
  <2>2. \A c \in Client : ScreenOrderAt(c)'
    BY <1>2, <1>4, <2>1 DEF OrderInv, ScreenOrderAt
  <2> QED
    BY <2>1, <2>2 DEF OrderInv
<1>6. ASSUME NEW k \in Conn, PublishTo(a, k), chan' # chan
      PROVE  OrderInv'
  <2>0. PICK e : e = <<a, sent[a]>>
    OBVIOUS
  <2>1. /\ apc[a] = "sending" /\ k \in todo[a] /\ todo' = [todo EXCEPT ![a] = @ \ {k}]
        /\ chan' = [chan EXCEPT ![k] = Append(@, e)] /\ UNCHANGED <<sent, apc>>
    BY <1>6, <2>0 DEF PublishTo
  <2>2. e \in Event /\ e[1] = a /\ e[2] = sent[a] /\ sent[a] \in Nat
    BY <1>1, <2>1, <2>0, EventFacts DEF LabTypes
  <2>3. Upto(k, a) = sent[a] - 1 /\ Upto(k, a)' = sent[a]
    BY <1>1, <2>1 DEF Upto, LockInv
  <2>4. chan[k] \in Seq(LabFrame) /\ chan'[k] = Append(chan[k], e) /\ e \in LabFrame
    BY <1>1, <2>1, <2>2, EventFrames DEF LabTypes, LabFrame
  <2>5. ASSUME NEW S \in SUBSET Event, Bounded(S, k)
        PROVE  Before(S, {e})
    BY <1>1, <2>2, <2>3, <2>5, EventFacts DEF Bounded, Before, Older
  <2>6. WireOrderAt(k)
    BY DEF OrderInv
  <2>7. /\ Events(chan[k])' = Events(chan[k]) \cup {e}
        /\ Events(down[k])' = Events(down[k]) /\ InHand(k)' = InHand(k)
    BY <1>1, <2>2, <2>4, EventsAppend, SMTT(30) DEF InHand, Events
  <2>8. Carried(k)' = Carried(k) \cup {e}
    BY <2>7 DEF Carried
  <2>9. Before(Carried(k), {e})
    BY <2>5, <2>6 DEF WireOrderAt, Carried, Events, InHand
  <2>10. Bounded(Carried(k), k)'
    <3>1. PICK S \in SUBSET Event : S = Carried(k)
      BY DEF Carried, Events, InHand
    <3>2. Bounded(S, k)'
      BY <2>6, <3>1, UptoGrows DEF WireOrderAt
    <3>3. e[2] <= Upto(k, e[1])'
      BY <2>2, <2>3
    <3> QED
      BY <2>8, <3>1, <3>2, <3>3 DEF Bounded
  <2>11. Sorted(chan[k])'
    BY <2>4, <2>6, <2>9, SortedAppend DEF WireOrderAt, Carried, Before
  <2>12. WireOrderAt(k)'
    <3>1. Sorted(down[k])'
      BY <1>1, <2>6 DEF WireOrderAt, Sorted
    <3> QED
      BY <2>6, <2>7, <2>9, <2>10, <2>11, <3>1 DEF WireOrderAt, Before, Carried
  <2>13. \A j \in Conn \ {k} : WireOrderAt(j)' /\ Carried(j)' = Carried(j)
    BY <1>1, <1>3, <2>1 DEF LabTypes
  <2>14. ASSUME NEW c \in Client
         PROVE  ScreenOrderAt(c)'
    <3>1. ScreenOrderAt(c)
      BY DEF OrderInv
    <3>2. dials[c] > 0 => Before(Events(ring[c]) \cup Events(inbox[c]), Carried(Cur(c))')
      <4>1. CASE Cur(c) = k
        <5>1. dials[c] > 0 => Before(Events(ring[c]) \cup Events(inbox[c]), {e})
          BY <2>5, <3>1, <4>1 DEF ScreenOrderAt, Events
        <5>2. Cur(c)' = k
          BY <1>1, <4>1 DEF Cur
        <5> QED
          BY <2>8, <3>1, <4>1, <5>1, <5>2 DEF ScreenOrderAt, Before
      <4>2. CASE Cur(c) # k
        BY <1>2, <2>13, <3>1, <4>2 DEF ScreenOrderAt
      <4> QED
        BY <4>1, <4>2
    <3> QED
      BY <1>4, <3>2
  <2> QED
    BY <2>12, <2>13, <2>14 DEF OrderInv
<1> QED
  BY <1>5, <1>6 DEF Publisher, InsertEvent, PublishStart, PublishEnd, bcastVars

\* A handler moves an event from the channel to the socket, or loses it.
LEMMA HandlerOrder ==
  ASSUME LabInv, OrderInv, NEW k \in Conn, Handler(k)
  PROVE  OrderInv'
<1> USE DEF HandlerGoes, pubVars, bcastVars, wireVars, clientVars
<1>1. /\ LabTypes /\ WireInv /\ UNCHANGED <<sent, apc, todo, inbox, ring, dials>>
      /\ WireOrderAt(k) /\ LabTypes' /\ DialInv
  BY HandlerTypes DEF LabInv, IInv, OrderInv, Handler, AcceptHello, RecvRequest, HandshakeFails, AckStream,
     Subscribe, TakeEvent, StreamCancelled, SendEvent, SendFails, Unsubscribe, CloseChan, CloseConn
<1>2. \A j \in Conn \ {k} : chan'[j] = chan[j] /\ hand'[j] = hand[j] /\ down'[j] = down[j]
  BY <1>1 DEF Handler, AcceptHello, RecvRequest, HandshakeFails, AckStream, LabTypes,
     Subscribe, TakeEvent, StreamCancelled, SendEvent, SendFails, Unsubscribe, CloseChan, CloseConn
<1>3. /\ chan[k] \in Seq(LabFrame) /\ down[k] \in Seq(LabFrame) /\ Hello \in LabFrame /\ Ok \in LabFrame
      /\ {Hello} \cap Event = {} /\ {Ok} \cap Event = {}
      /\ Events(chan[k]) \subseteq Event /\ Events(down[k]) \subseteq Event
  BY <1>1, EventFrames, EventFacts DEF LabTypes, LabFrame, Events
\* What k holds afterwards is in order and was there before.
<1>4. /\ Sorted(down'[k]) /\ Sorted(chan'[k])
      /\ Before(Events(down'[k]), InHand(k)')
      /\ Before(Events(down'[k]) \cup InHand(k)', Events(chan'[k]))
      /\ Carried(k)' \subseteq Carried(k)
  <2>1. CASE UNCHANGED <<hand, chan, down>>
    <3>1. InHand(k)' = InHand(k) /\ Carried(k)' = Carried(k)
      BY <2>1 DEF InHand, Carried, Events
    <3> QED
      BY <1>1, <2>1, <3>1 DEF WireOrderAt
  <2>2. CASE AcceptHello(k) \/ AckStream(k)
    <3>1. /\ UNCHANGED <<hand, chan>>
          /\ down' = down \/ \E f \in {Hello, Ok} : down'[k] = Append(down[k], f)
      BY <1>1, <2>2 DEF AcceptHello, AckStream, LabTypes
    <3>2. Events(down'[k]) = Events(down[k]) /\ Sorted(down'[k])
      <4>1. CASE down' = down
        BY <1>1, <4>1 DEF WireOrderAt
      <4>2. ASSUME NEW f \in {Hello, Ok}, down'[k] = Append(down[k], f)
            PROVE  Events(down'[k]) = Events(down[k]) /\ Sorted(down'[k])
        <5>1. f \in LabFrame /\ f \notin Event /\ {f} \cap Event = {}
          BY <1>3
        <5>2. Events(Append(down[k], f)) = Events(down[k]) \cup ({f} \cap Event)
          BY <1>3, <5>1, EventsAppend
        <5>3. Sorted(Append(down[k], f))
          BY <1>1, <1>3, <5>1, SortedAppend DEF WireOrderAt
        <5> QED
          BY <4>2, <5>1, <5>2, <5>3
      <4> QED
        BY <3>1, <4>1, <4>2
    <3>3. InHand(k)' = InHand(k) /\ Carried(k)' = Carried(k)
      <4>1. Events(down[k])' = Events(down'[k]) /\ Events(chan[k])' = Events(chan[k])
        BY <3>1 DEF Events
      <4> QED
        BY <3>1, <3>2, <4>1 DEF InHand, Carried
    <3> QED
      BY <1>1, <3>1, <3>2, <3>3 DEF WireOrderAt
  <2>3. CASE TakeEvent(k)
    <3>1. /\ chan[k] # <<>> /\ hand'[k] = Head(chan[k]) /\ chan'[k] = Tail(chan[k]) /\ down' = down
          /\ hand[k] = NoEvent
      BY <1>1, <2>3 DEF TakeEvent, LabTypes, WireInv
    <3>2. Head(chan[k]) \in Event
      BY <1>1, <3>1 DEF LabTypes
    <3>3. InHand(k)' = {Head(chan[k])} /\ InHand(k) = {}
      BY <3>1, <3>2, EventFacts DEF InHand
    <3>4. /\ Events(chan'[k]) \subseteq Events(chan[k]) /\ Head(chan[k]) \in Events(chan[k])
          /\ Sorted(chan'[k]) /\ Before({Head(chan[k])}, Events(chan'[k]))
      <4>1. Events(Tail(chan[k])) \subseteq Events(chan[k]) /\ Head(chan[k]) \in Events(chan[k])
        BY <1>3, <3>1, <3>2, EventsTail
      <4>2. Sorted(Tail(chan[k])) /\ Before({Head(chan[k])}, Events(Tail(chan[k])))
        BY <1>1, <1>3, <3>1, <3>2, SortedTail DEF WireOrderAt
      <4> QED
        BY <3>1, <4>1, <4>2
    <3>5. Carried(k)' \subseteq Carried(k)
      <4>1. Events(down[k])' = Events(down[k]) /\ Events(chan[k])' = Events(chan'[k])
        BY <3>1 DEF Events
      <4> QED
        BY <3>3, <3>4, <4>1 DEF Carried
    <3> QED
      BY <1>1, <3>1, <3>3, <3>4, <3>5 DEF WireOrderAt, Before
  <2>4. CASE SendEvent(k)
    <3>1. down'[k] = Append(down[k], hand[k]) /\ hand'[k] = NoEvent /\ chan' = chan /\ hand[k] \in Event
      BY <1>1, <2>4 DEF SendEvent, LabTypes, WireInv
    <3>2. InHand(k)' = {} /\ InHand(k) = {hand[k]} /\ hand[k] \in LabFrame
      BY <3>1, EventFacts DEF InHand, LabFrame
    <3>3. Events(down'[k]) = Events(down[k]) \cup {hand[k]} /\ Sorted(down'[k])
      BY <1>1, <1>3, <3>1, <3>2, EventsAppend, SortedAppend DEF WireOrderAt
    <3>4. Carried(k)' \subseteq Carried(k)
      <4>1. Events(down[k])' = Events(down'[k]) /\ Events(chan[k])' = Events(chan[k])
        BY <3>1 DEF Events
      <4> QED
        BY <3>2, <3>3, <4>1 DEF Carried
    <3> QED
      BY <1>1, <3>1, <3>2, <3>3, <3>4 DEF WireOrderAt, Before
  <2>5. CASE SendFails(k)
    <3>1. hand'[k] = NoEvent /\ UNCHANGED <<chan, down>>
      BY <1>1, <2>5 DEF SendFails, LabTypes
    <3>2. InHand(k)' = {} /\ Events(down[k])' = Events(down[k]) /\ Events(chan[k])' = Events(chan[k])
      BY <3>1, EventFacts DEF InHand, Events
    <3> QED
      BY <1>1, <3>1, <3>2 DEF WireOrderAt, Before, Carried
  <2> QED
    BY <2>1, <2>2, <2>3, <2>4, <2>5 DEF Handler, RecvRequest, HandshakeFails, Subscribe, StreamCancelled,
       Unsubscribe, CloseChan, CloseConn
<1>5. WireOrderAt(k)'
  <2>1. /\ Events(down[k])' = Events(down'[k]) /\ Events(chan[k])' = Events(chan'[k])
        /\ Sorted(down[k])' = Sorted(down'[k]) /\ Sorted(chan[k])' = Sorted(chan'[k])
    BY DEF Events, Sorted
  <2>2. \A a \in Angel : Upto(k, a)' = Upto(k, a)
    BY <1>1 DEF Upto
  <2>3. \A e \in Carried(k)' : e[1] \in Angel
    BY <1>4, EventFacts DEF Carried, Events, InHand
  <2>4. Bounded(Carried(k), k)'
    BY <1>1, <1>4, <2>2, <2>3 DEF WireOrderAt, Bounded
  <2> QED
    BY <1>4, <2>1, <2>4 DEF WireOrderAt, Before
<1>6. ASSUME NEW j \in Conn \ {k}
      PROVE  WireOrderAt(j)' /\ Carried(j)' = Carried(j)
  <2>1. WireOrderAt(j) /\ chan'[j] = chan[j] /\ hand'[j] = hand[j] /\ down'[j] = down[j]
    BY <1>2 DEF OrderInv
  <2>2. /\ Events(down[j])' = Events(down[j]) /\ Events(chan[j])' = Events(chan[j])
        /\ InHand(j)' = InHand(j) /\ Carried(j)' = Carried(j)
    BY <2>1 DEF Events, InHand, Carried
  <2>3. Sorted(down[j])' /\ Sorted(chan[j])'
    BY <2>1 DEF WireOrderAt, Sorted
  <2>4. Bounded(Carried(j), j)'
    BY <1>1, <2>1, <2>2 DEF WireOrderAt, Bounded, Upto
  <2> QED
    BY <2>1, <2>2, <2>3, <2>4 DEF WireOrderAt, Before
<1>7. ASSUME NEW c \in Client
      PROVE  ScreenOrderAt(c)'
  <2>1. ScreenOrderAt(c) /\ Cur(c)' = Cur(c) /\ (dials[c] > 0 => Cur(c) \in Conn)
    BY <1>1, CurConn DEF OrderInv, Cur
  <2>2. dials[c] > 0 => Carried(Cur(c))' \subseteq Carried(Cur(c))
    <3>1. \A j \in Conn : Carried(j)' \subseteq Carried(j)
      BY <1>4, <1>6
    <3>2. \A j \in Conn : j = Cur(c) => Carried(Cur(c))' = Carried(j)'
      BY <2>1 DEF Carried, Events, InHand
    <3> QED
      BY <2>1, <3>1, <3>2
  <2>3. dials[c] > 0 => Before(Events(ring[c]) \cup Events(inbox[c]), Carried(Cur(c))')
    BY <2>1, <2>2 DEF ScreenOrderAt, Before
  <2> QED
    BY <1>1, <2>1, <2>3 DEF ScreenOrderAt, Sorted, Latest, Before, Events, Bounded, Upto
<1> QED
  BY <1>5, <1>6, <1>7 DEF OrderInv

\* A frame read from a socket leaves the rest in order.
LEMMA FrameOrder ==
  ASSUME LabInv, OrderInv, UNCHANGED <<sent, apc, todo, hand, chan>>, NEW k \in Conn,
         \/ down'[k] = down[k]
         \/ down[k] # <<>> /\ down'[k] = Tail(down[k])
  PROVE  /\ WireOrderAt(k)' /\ Carried(k)' \subseteq Carried(k)
<1>1. WireOrderAt(k) /\ down[k] \in Seq(LabFrame)
  BY DEF OrderInv, LabInv, LabTypes
<1>2. /\ Events(down'[k]) \subseteq Events(down[k]) /\ Sorted(down'[k])
  BY <1>1, EventsTail, SortedTail DEF WireOrderAt
<1>3. /\ Events(down[k])' = Events(down'[k]) /\ Sorted(down[k])' = Sorted(down'[k])
      /\ Events(chan[k])' = Events(chan[k]) /\ Sorted(chan[k])' = Sorted(chan[k])
      /\ InHand(k)' = InHand(k)
  BY DEF Events, Sorted, InHand
<1>4. Carried(k)' \subseteq Carried(k)
  BY <1>2, <1>3 DEF Carried
<1>5. Bounded(Carried(k), k)'
  BY <1>1, <1>4 DEF WireOrderAt, Bounded, Upto
<1> QED
  BY <1>1, <1>2, <1>3, <1>4, <1>5 DEF WireOrderAt, Before

LEMMA ClientOrder ==
  ASSUME StreamInv, OrderInv, NEW c \in Client, ClientStep(c) \/ ClientKilled(c)
  PROVE  OrderInv'
<1> USE DEF ClientGoes, pubVars, bcastVars, wireVars, ClientTakes
<1>1. /\ LabTypes /\ WireInv /\ LabInv /\ DialInv /\ LockInv /\ ScreenTypes /\ ShakeAt(c)
      /\ UNCHANGED <<sent, apc, todo, hand, chan>>
      /\ ScreenOrderAt(c)
  BY DEF StreamInv, ShakeInv, LabInv, IInv, OrderInv, ClientStep, Dial, SendRequest, RecvAck, DialFails,
     RecvEvent, StreamEnds, PushEvent, StreamClosed, ClientKilled
<1>2. dials[c] > 0 => Cur(c) \in Conn
  BY <1>1, CurConn
<1>3. \/ down' = down
      \/ dials[c] > 0 /\ down[Cur(c)] # <<>> /\ down' = [down EXCEPT ![Cur(c)] = Tail(@)]
  BY DEF ClientStep, Dial, SendRequest, RecvAck, DialFails, RecvEvent, StreamEnds, PushEvent,
     StreamClosed, ClientKilled
<1>4. ASSUME NEW k \in Conn
      PROVE  WireOrderAt(k)' /\ Carried(k)' \subseteq Carried(k)
  <2>1. down'[k] = down[k] \/ (down[k] # <<>> /\ down'[k] = Tail(down[k]))
    BY <1>1, <1>2, <1>3 DEF LabTypes
  <2> QED
    BY <1>1, <2>1, FrameOrder
<1>5. ASSUME NEW d \in Client, dials'[d] = dials[d]
      PROVE  /\ Cur(d)' = Cur(d)
             /\ dials[d] > 0 => Cur(d) \in Conn /\ Carried(Cur(d))' \subseteq Carried(Cur(d))
  <2>1. Cur(d)' = Cur(d) /\ (dials[d] > 0 => Cur(d) \in Conn)
    BY <1>1, <1>5, CurConn DEF Cur
  <2>2. \A k \in Conn : k = Cur(d) => Carried(Cur(d))' = Carried(k)'
    BY <2>1 DEF Carried, Events, InHand
  <2> QED
    BY <1>4, <2>1, <2>2
\* A client whose lists do not change.
<1>6. ASSUME NEW d \in Client, dials'[d] = dials[d], inbox'[d] = inbox[d], ring'[d] = ring[d]
      PROVE  ScreenOrderAt(d)'
  <2>1. ScreenOrderAt(d)
    BY DEF OrderInv
  <2>2. dials[d] > 0 => Before(Events(ring[d]) \cup Events(inbox[d]), Carried(Cur(d))')
    BY <1>5, <1>6, <2>1 DEF ScreenOrderAt, Before
  <2>3. dials[d] > 0 => Bounded(Events(ring[d]) \cup Events(inbox[d]), Cur(d))'
    BY <1>1, <1>5, <1>6, <2>1 DEF ScreenOrderAt, Bounded, Upto, Events
  <2> QED
    BY <1>5, <1>6, <2>1, <2>2, <2>3 DEF ScreenOrderAt, Sorted, Latest, Before, Events
<1>7. ASSUME NEW d \in Client \ {c}
      PROVE  ScreenOrderAt(d)'
  <2>1. dials'[d] = dials[d] /\ inbox'[d] = inbox[d] /\ ring'[d] = ring[d]
    BY <1>1 DEF ClientStep, Dial, SendRequest, RecvAck, DialFails, RecvEvent, StreamEnds, PushEvent,
       StreamClosed, ClientKilled, clientVars, DialInv, ScreenTypes
  <2> QED
    BY <1>6, <2>1
<1>8. CASE Dial(c)
  <2>1. /\ dials[c] \in Nat /\ dials[c] < MaxDials /\ MaxDials \in Nat /\ dials'[c] = dials[c] + 1
        /\ UNCHANGED <<inbox, ring, down>>
    BY <1>1, <1>8, StreamAssumption DEF Dial, DialInv
  <2>2. PICK k : k = <<c, dials[c] + 1>>
    OBVIOUS
  <2>3. k \in Conn /\ hpc[k] = "none" /\ Cur(c)' = k /\ dials'[c] > 0
    BY <1>1, <2>1, <2>2 DEF DialInv, Conn, Cur
  <2>4. \A a \in Angel : k \notin todo[a]
    BY <1>1, <2>3 DEF LockInv
  <2>5. Carried(Cur(c))' = {}
    <3>1. chan[k] = <<>> /\ down[k] = <<>> /\ hand[k] = NoEvent
      BY <1>1, <2>3 DEF WireInv
    <3>2. Carried(k) = {}
      BY <3>1, EventsEmpty, EventFacts DEF Carried, InHand
    <3> QED
      BY <1>4, <2>3, <3>2, SMTT(30) DEF Carried, Events, InHand
  <2>6. Bounded(Events(ring[c]) \cup Events(inbox[c]), Cur(c))'
    <3> SUFFICES ASSUME NEW e \in Events(ring[c]) \cup Events(inbox[c])
                 PROVE  e[2] <= Upto(Cur(c), e[1])'
      BY <2>1 DEF Bounded, Events
    <3>1. e[1] \in Angel /\ e[2] \in Nat
      BY EventFacts DEF Events
    <3>2. dials[c] > 0
      BY <1>1, <2>1, EventsEmpty DEF ScreenOrderAt
    <3>3. e[2] <= Upto(Cur(c), e[1])
      BY <1>1, <3>2 DEF ScreenOrderAt, Bounded
    <3>4. Upto(Cur(c), e[1])' = IF apc[e[1]] = "publish" THEN sent[e[1]] - 1 ELSE sent[e[1]]
      BY <1>1, <2>3, <2>4, <3>1 DEF Upto
    <3> QED
      BY <1>1, <3>1, <3>3, <3>4 DEF Upto, LabTypes
  <2>7. ScreenOrderAt(c)'
    <3>1. /\ Events(ring[c])' = Events(ring[c]) /\ Events(inbox[c])' = Events(inbox[c])
          /\ Sorted(inbox[c])' = Sorted(inbox[c]) /\ Latest(ring[c])' = Latest(ring[c])
      BY <2>1 DEF Events, Sorted, Latest
    <3>2. Before(Events(ring[c]) \cup Events(inbox[c]), Carried(Cur(c)))'
      BY <2>5 DEF Before
    <3>3. Before(Events(ring[c]), Events(inbox[c]))'
      BY <1>1, <3>1 DEF ScreenOrderAt, Before
    <3> QED
      BY <1>1, <2>3, <2>6, <3>1, <3>2, <3>3 DEF ScreenOrderAt
  <2> QED
    BY <1>4, <1>7, <2>7 DEF OrderInv
<1>9. CASE RecvEvent(c)
  <2>1. /\ cpc[c] = "stream" /\ down[Cur(c)] # <<>> /\ dials'[c] = dials[c] /\ ring' = ring
        /\ down' = [down EXCEPT ![Cur(c)] = Tail(@)] /\ dials[c] > 0
        /\ inbox'[c] = Append(inbox[c], Head(down[Cur(c)]))
    BY <1>1, <1>9 DEF RecvEvent, ScreenTypes
  <2>2. PICK k \in Conn : k = Cur(c)
    BY <1>2, <2>1
  <2>3. PICK e : e = Head(down[k])
    OBVIOUS
  <2>4. down[k] \in Seq(LabFrame) /\ down'[k] = Tail(down[k]) /\ down[k] # <<>>
    BY <1>1, <2>1, <2>2 DEF LabTypes
  <2>5. e \in Event
    BY <1>1, <2>1, <2>2, <2>3, <2>4 DEF ShakeAt, EventsFrom
  <2>6. e \in Events(down[k]) /\ Events(Tail(down[k])) \subseteq Events(down[k])
    BY <2>3, <2>4, <2>5, EventsTail
  <2>7. Before({e}, Events(Tail(down[k])))
    BY <1>4, <2>3, <2>4, <2>5, SortedTail DEF OrderInv, WireOrderAt
  <2>8. Before({e}, InHand(k) \cup Events(chan[k])) /\ WireOrderAt(k)
    BY <2>6 DEF OrderInv, WireOrderAt, Before
  <2>9. Carried(Cur(c))' = Events(Tail(down[k])) \cup InHand(k) \cup Events(chan[k])
    <3>1. Cur(c)' = k
      BY <1>5, <2>1, <2>2
    <3> QED
      BY <1>1, <2>4, <3>1 DEF Carried, Events, InHand
  <2>10. inbox[c] \in Seq(LabFrame) /\ e \in LabFrame
    BY <1>1, <2>5, EventFrames DEF ScreenTypes, LabFrame
  <2>11. Events(inbox[c])' = Events(inbox[c]) \cup {e}
    <3>1. Events(Append(inbox[c], e)) = Events(inbox[c]) \cup ({e} \cap Event)
      BY <2>10, EventsAppend
    <3> QED
      BY <2>1, <2>2, <2>3, <2>5, <3>1, SMTT(30) DEF Events
  <2>12. Events(ring[c])' = Events(ring[c])
    BY <2>1 DEF Events
  <2>13. Before(Events(ring[c]) \cup Events(inbox[c]), {e})
    BY <1>1, <2>1, <2>2, <2>6 DEF ScreenOrderAt, Before, Carried
  <2>14. Sorted(inbox[c])'
    <3>1. Sorted(Append(inbox[c], e))
      BY <1>1, <2>10, <2>13, SortedAppend DEF ScreenOrderAt, Before
    <3> QED
      BY <2>1, <2>2, <2>3, <3>1 DEF Sorted
  <2>15. (Before(Events(ring[c]) \cup Events(inbox[c]), Carried(Cur(c))))'
    <3>1. Before(Events(ring[c]) \cup Events(inbox[c]),
                 Events(Tail(down[k])) \cup InHand(k) \cup Events(chan[k]))
      BY <1>1, <2>1, <2>2, <2>6 DEF ScreenOrderAt, Before, Carried
    <3> QED
      BY <2>7, <2>8, <2>9, <2>11, <2>12, <3>1 DEF Before
  <2>16. Bounded(Events(ring[c]) \cup Events(inbox[c]), Cur(c))'
    <3>1. \A x \in Events(ring[c]) \cup Events(inbox[c]) \cup {e} : x[2] <= Upto(k, x[1])
      BY <1>1, <2>1, <2>2, <2>6, <2>8 DEF ScreenOrderAt, WireOrderAt, Bounded, Carried
    <3>2. Cur(c)' = k
      BY <1>5, <2>1, <2>2
    <3> QED
      BY <1>1, <2>11, <2>12, <3>1, <3>2 DEF Bounded, Upto
  <2>17. ScreenOrderAt(c)'
    BY <1>1, <2>1, <2>11, <2>12, <2>13, <2>14, <2>15, <2>16 DEF ScreenOrderAt, Latest, Before
  <2> QED
    BY <1>4, <1>7, <2>17 DEF OrderInv
<1>10. CASE PushEvent(c)
  <2>1. /\ inbox[c] # <<>> /\ UNCHANGED <<dials, down>> /\ inbox'[c] = Tail(inbox[c])
        /\ inbox[c] \in Seq(Event) /\ inbox[c] \in Seq(LabFrame) /\ ring[c] \in Seq(Event)
        /\ RingSize \in Nat
    BY <1>1, <1>10, StreamAssumption, EventFrames DEF PushEvent, ScreenTypes
  <2>2. PICK e : e = Head(inbox[c])
    OBVIOUS
  <2>3. ring'[c] = LET t == <<e>> \o ring[c]
                   IN  IF Len(t) > RingSize THEN SubSeq(t, 1, RingSize) ELSE t
    BY <1>1, <1>10, <2>2 DEF PushEvent, ScreenTypes
  <2>4. e \in Event
    BY <2>1, <2>2
  <2>5. e \in Events(inbox[c]) /\ Events(Tail(inbox[c])) \subseteq Events(inbox[c])
    BY <2>1, <2>2, <2>4, EventsTail
  <2>6. Sorted(Tail(inbox[c])) /\ Before({e}, Events(Tail(inbox[c])))
    BY <1>1, <2>1, <2>2, <2>4, SortedTail DEF ScreenOrderAt
  <2>7. Latest(ring'[c]) /\ Events(ring'[c]) \subseteq Events(ring[c]) \cup {e}
    <3>1. Before(Events(ring[c]), {e}) /\ Latest(ring[c])
      BY <1>1, <2>5 DEF ScreenOrderAt, Before
    <3>2. LET t == <<e>> \o ring[c]
              u == IF Len(t) > RingSize THEN SubSeq(t, 1, RingSize) ELSE t
          IN  Latest(u) /\ Events(u) \subseteq Events(ring[c]) \cup {e}
      BY <2>1, <2>4, <3>1, LatestPush
    <3> QED
      BY <2>3, <3>2
  <2>8. /\ Events(ring[c])' \subseteq Events(ring[c]) \cup {e}
        /\ Events(inbox[c])' = Events(Tail(inbox[c])) /\ Sorted(inbox[c])' /\ Latest(ring[c])'
    BY <2>1, <2>6, <2>7 DEF Events, Sorted, Latest
  <2>9. (Events(ring[c]) \cup Events(inbox[c]))' \subseteq Events(ring[c]) \cup Events(inbox[c])
    BY <2>5, <2>8
  <2>10. /\ dials[c] > 0 => Before(Events(ring[c]) \cup Events(inbox[c]), Carried(Cur(c)))'
         /\ dials[c] > 0 => Bounded(Events(ring[c]) \cup Events(inbox[c]), Cur(c))'
    <3>1. Cur(c)' = Cur(c) /\ (dials[c] > 0 => Carried(Cur(c))' \subseteq Carried(Cur(c)))
      BY <1>5, <2>1
    <3>2. dials[c] > 0 => Before(Events(ring[c]) \cup Events(inbox[c]), Carried(Cur(c)))'
      BY <1>1, <2>9, <3>1 DEF ScreenOrderAt, Before
    <3>3. \A a \in Angel : Upto(Cur(c), a)' = Upto(Cur(c), a)
      BY <1>1, <3>1 DEF Upto
    <3>4. \A x \in (Events(ring[c]) \cup Events(inbox[c]))' : x[1] \in Angel
      BY EventFacts DEF Events
    <3>5. dials[c] > 0 => Bounded(Events(ring[c]) \cup Events(inbox[c]), Cur(c))'
      BY <1>1, <2>9, <3>3, <3>4 DEF ScreenOrderAt, Bounded
    <3> QED
      BY <3>2, <3>5
  <2>11. Before(Events(ring[c]), Events(inbox[c]))'
    BY <1>1, <2>5, <2>6, <2>8 DEF ScreenOrderAt, Before
  <2>12. dials'[c] # 0
    BY <1>1, <2>1 DEF ScreenOrderAt
  <2>13. ScreenOrderAt(c)'
    BY <2>1, <2>8, <2>10, <2>11, <2>12 DEF ScreenOrderAt
  <2> QED
    BY <1>4, <1>7, <2>13 DEF OrderInv
<1>11. CASE ClientKilled(c)
  <2>1. inbox'[c] = <<>> /\ ring'[c] = <<>>
    BY <1>1, <1>11 DEF ClientKilled, ScreenTypes
  <2>2. /\ Events(inbox[c])' = {} /\ Events(ring[c])' = {} /\ Sorted(inbox[c])' /\ Latest(ring[c])'
    BY <2>1, EventsEmpty DEF Events, Sorted, Latest
  <2>3. ScreenOrderAt(c)'
    BY <2>1, <2>2 DEF ScreenOrderAt, Before, Bounded
  <2> QED
    BY <1>4, <1>7, <2>3 DEF OrderInv
<1>12. CASE SendRequest(c) \/ RecvAck(c) \/ DialFails(c) \/ StreamEnds(c) \/ StreamClosed(c)
  <2>1. UNCHANGED <<dials, inbox, ring>>
    BY <1>12 DEF SendRequest, RecvAck, DialFails, StreamEnds, StreamClosed
  <2>2. ScreenOrderAt(c)'
    BY <1>6, <2>1
  <2> QED
    BY <1>4, <1>7, <2>2 DEF OrderInv
<1> QED
  BY <1>8, <1>9, <1>10, <1>11, <1>12 DEF ClientStep

LEMMA OrderStep == StreamInv /\ OrderInv /\ [Next]_vars => OrderInv'
<1> SUFFICES ASSUME StreamInv, OrderInv, [Next]_vars PROVE OrderInv'
  OBVIOUS
<1>1. LabInv
  BY DEF StreamInv
<1>2. ASSUME Cancel \/ UNCHANGED vars
      PROVE  OrderInv'
  <2>1. UNCHANGED <<sent, apc, todo, hand, chan, down, dials, inbox, ring>>
    BY <1>2 DEF Cancel, vars, pubVars, bcastVars, wireVars, clientVars
  <2>2. \A k \in Conn : WireOrderAt(k)'
    BY <1>1, <2>1, FrameOrder
  <2>3. ASSUME NEW c \in Client
        PROVE  ScreenOrderAt(c)'
    <3>1. ScreenOrderAt(c) /\ Cur(c)' = Cur(c)
      BY <2>1 DEF OrderInv, Cur
    <3>2. Carried(Cur(c))' = Carried(Cur(c))
      BY <2>1, <3>1 DEF Carried, Events, InHand
    <3> QED
      BY <2>1, <3>1, <3>2 DEF ScreenOrderAt, Sorted, Latest, Before, Bounded, Upto, Events
  <2> QED
    BY <2>2, <2>3 DEF OrderInv
<1> QED
  BY <1>1, <1>2, PublisherOrder, HandlerOrder, ClientOrder DEF Next, Labd

\* A screen shows each angel's events newest first and none of them twice, for any
\* number of angels, clients, connections and events and any size of the buffers
\* between (Publish, cliEventStream, Client.EventStream, pushEvent).
THEOREM ShownInOrder == Spec => []NewestFirst
<1>1. Init => OrderInv
  BY OrderInit
<1>2. StreamInv /\ OrderInv => NewestFirst
  <2> SUFFICES ASSUME StreamInv, OrderInv, NEW c \in Client, NEW i \in 1 .. Len(ring[c]),
                      NEW j \in 1 .. Len(ring[c]), i < j, ring[c][i][1] = ring[c][j][1]
               PROVE  ring[c][i][2] > ring[c][j][2]
    BY DEF NewestFirst
  <2>1. ring[c] \in Seq(Event) /\ Latest(ring[c])
    BY DEF StreamInv, ShakeInv, ScreenTypes, OrderInv, ScreenOrderAt
  <2>2. ring[c][i] \in Event /\ ring[c][j] \in Event
    BY <2>1
  <2>3. ring[c][i][2] \in Nat /\ ring[c][j][2] \in Nat /\ Older(ring[c][j], ring[c][i])
    BY <2>1, <2>2, EventFacts DEF Latest
  <2> QED
    BY <2>3 DEF Older
<1> QED
  BY <1>1, <1>2, OrderStep, StreamInvAlways, PTL DEF Spec
-----------------------------------------------------------------------------
(* Nothing is lost between the channel and the screen.                       *)

LEMMA Whole ==
  ASSUME NEW s \in Seq(Event)
  PROVE  /\ SubSeq(s, 1, Len(s)) = s
         /\ s # <<>> => SubSeq(s, 2, Len(s)) = Tail(s)
OBVIOUS

LEMMA PrefixSelf ==
  ASSUME NEW s \in Seq(Event)
  PROVE  IsPrefix(s, s)
BY DEF IsPrefix

LEMMA PrefixAppended ==
  ASSUME NEW s \in Seq(Event), NEW e \in Event
  PROVE  IsPrefix(s, s \o <<e>>)
BY DEF IsPrefix

LEMMA Assoc == \A s, t, u \in Seq(Event) : /\ (s \o t) \o u = s \o (t \o u)
                                           /\ s \o t \in Seq(Event)
BY ConcatAssociative

LEMMA AppendConcat == \A s \in Seq(Event), e \in Event : Append(s, e) = s \o <<e>>
OBVIOUS

LEMMA HeadTail ==
  \A t \in Seq(Event) : t # <<>> => /\ Head(t) \in Event /\ <<Head(t)>> \in Seq(Event)
                                    /\ Tail(t) \in Seq(Event) /\ t = <<Head(t)>> \o Tail(t)
OBVIOUS

\* The head of a buffer becomes the end of the one before it.
LEMMA HeadMoves ==
  \A s, t \in Seq(Event) : t # <<>> => (s \o <<Head(t)>>) \o Tail(t) = s \o t
<1> SUFFICES ASSUME NEW s \in Seq(Event), NEW t \in Seq(Event), t # <<>>
             PROVE  (s \o <<Head(t)>>) \o Tail(t) = s \o t
  OBVIOUS
<1>1. PICK x \in Seq(Event), u \in Seq(Event) : x = <<Head(t)>> /\ u = Tail(t) /\ t = x \o u
  BY HeadTail
<1>2. (s \o x) \o u = s \o (x \o u)
  BY Assoc
<1> QED
  BY <1>1, <1>2

LEMMA HeadMovesOn ==
  \A r, s, t \in Seq(Event) : t # <<>> => (r \o (s \o <<Head(t)>>)) \o Tail(t) = (r \o s) \o t
<1> SUFFICES ASSUME NEW r \in Seq(Event), NEW s \in Seq(Event), NEW t \in Seq(Event), t # <<>>
             PROVE  (r \o (s \o <<Head(t)>>)) \o Tail(t) = (r \o s) \o t
  OBVIOUS
<1>1. PICK x \in Seq(Event) : x = <<Head(t)>>
  BY HeadTail
<1>2. (r \o s) \o x = r \o (s \o x)
  BY Assoc
<1>3. PICK q \in Seq(Event) : q = r \o s
  BY Assoc
<1>4. (q \o <<Head(t)>>) \o Tail(t) = q \o t
  BY HeadMoves
<1> QED
  BY <1>1, <1>2, <1>3, <1>4

LEMMA TailConcat ==
  ASSUME NEW s \in Seq(Event), NEW t \in Seq(Event), s # <<>>
  PROVE  Tail(s \o t) = Tail(s) \o t /\ s \o t # <<>>
OBVIOUS

LEMMA ReverseType ==
  ASSUME NEW s \in Seq(Event)
  PROVE  /\ Reverse(s) \in Seq(Event) /\ Len(Reverse(s)) = Len(s)
         /\ \A i \in 1 .. Len(s) : Reverse(s)[i] = s[Len(s) - i + 1]
<1>1. Len(s) \in Nat /\ \A i \in 1 .. Len(s) : Len(s) - i + 1 \in 1 .. Len(s) /\ s[Len(s) - i + 1] \in Event
  OBVIOUS
<1> QED
  BY <1>1 DEF Reverse

LEMMA ReversePush ==
  ASSUME NEW s \in Seq(Event), NEW e \in Event
  PROVE  /\ Reverse(<<e>> \o s) = Reverse(s) \o <<e>>
         /\ Reverse(SubSeq(<<e>> \o s, 1, Len(s))) = Tail(Reverse(s) \o <<e>>)
<1> DEFINE t == <<e>> \o s
           r == Reverse(s) \o <<e>>
           u == SubSeq(t, 1, Len(s))
<1>1. t \in Seq(Event) /\ Len(t) = Len(s) + 1 /\ t[1] = e /\ Len(s) \in Nat
      /\ \A i \in 1 .. Len(s) : t[i + 1] = s[i]
  OBVIOUS
<1>2. /\ r \in Seq(Event) /\ Len(r) = Len(s) + 1 /\ r[Len(s) + 1] = e
      /\ \A i \in 1 .. Len(s) : r[i] = s[Len(s) - i + 1]
  BY ReverseType
<1> HIDE DEF t, r
<1>3. u \in Seq(Event) /\ Len(u) = Len(s) /\ \A i \in 1 .. Len(s) : u[i] = t[i]
  BY <1>1
<1>4. Tail(r) \in Seq(Event) /\ Len(Tail(r)) = Len(s) /\ \A i \in 1 .. Len(s) : Tail(r)[i] = r[i + 1]
  BY <1>1, <1>2
<1> HIDE DEF u
<1>5. Reverse(t) = r
  <2>1. Reverse(t) \in Seq(Event) /\ Len(Reverse(t)) = Len(r)
    BY <1>1, <1>2, ReverseType
  <2>2. ASSUME NEW i \in 1 .. Len(r)
        PROVE  Reverse(t)[i] = r[i]
    <3>1. Reverse(t)[i] = t[Len(s) + 1 - i + 1]
      BY <1>1, <1>2, ReverseType
    <3>2. CASE i = Len(s) + 1
      BY <1>1, <1>2, <3>1, <3>2
    <3>3. CASE i \in 1 .. Len(s)
      <4>1. Len(s) - i + 1 \in 1 .. Len(s) /\ Len(s) + 1 - i + 1 = (Len(s) - i + 1) + 1
        BY <1>1, <3>3
      <4> QED
        BY <1>1, <1>2, <3>1, <3>3, <4>1
    <3> QED
      BY <1>1, <1>2, <3>2, <3>3
  <2> QED
    BY <1>2, <2>1, <2>2, SeqEqual
<1>6. Reverse(u) = Tail(r)
  <2>1. Reverse(u) \in Seq(Event) /\ Len(Reverse(u)) = Len(Tail(r))
    BY <1>3, <1>4, ReverseType
  <2>2. ASSUME NEW i \in 1 .. Len(s)
        PROVE  Reverse(u)[i] = Tail(r)[i]
    <3>1. Reverse(u)[i] = u[Len(s) - i + 1]
      BY <1>3, ReverseType
    <3>2. Len(s) - i + 1 \in 1 .. Len(s)
      BY <1>1
    <3>3. Reverse(u)[i] = t[Len(s) - i + 1] /\ Tail(r)[i] = r[i + 1]
      BY <1>3, <1>4, <3>1, <3>2
    <3>4. CASE i = Len(s)
      BY <1>1, <1>2, <3>3, <3>4
    <3>5. CASE i < Len(s)
      <4>1. /\ i + 1 \in 1 .. Len(s) /\ Len(s) - (i + 1) + 1 = Len(s) - i /\ Len(s) - i \in 1 .. Len(s)
        BY <1>1, <3>5
      <4> QED
        BY <1>1, <1>2, <3>3, <4>1
    <3>6. i = Len(s) \/ i < Len(s)
      BY <1>1
    <3> QED
      BY <3>4, <3>5, <3>6
  <2> QED
    BY <1>4, <2>1, <2>2, SeqEqual
<1> QED
  BY <1>5, <1>6 DEF t, r, u

\* The parts of a stream.
LEMMA StreamParts ==
  ASSUME StreamInv, NEW c \in Client, cpc[c] = "stream"
  PROVE  /\ Cur(c) \in Conn /\ dials[c] > 0
         /\ ring[c] \in Seq(Event) /\ Reverse(ring[c]) \in Seq(Event) /\ inbox[c] \in Seq(Event)
         /\ down[Cur(c)] \in Seq(Event) /\ Held(Cur(c)) \in Seq(Event) /\ chan[Cur(c)] \in Seq(Event)
         /\ Pipeline(c) \in Seq(Event)
<1>1. Cur(c) \in Conn /\ dials[c] > 0
  BY CurConn DEF StreamInv, LabInv, IInv, WireInv
<1>2. /\ ring[c] \in Seq(Event) /\ inbox[c] \in Seq(Event) /\ chan[Cur(c)] \in Seq(Event)
      /\ down[Cur(c)] \in Seq(LabFrame) /\ hand[Cur(c)] \in Event \cup {NoEvent}
  BY <1>1 DEF StreamInv, LabInv, LabTypes, ShakeInv, ScreenTypes
<1>3. \A i \in 1 .. Len(down[Cur(c)]) : down[Cur(c)][i] \in Event
  BY DEF StreamInv, ShakeInv, ShakeAt, EventsFrom
<1>4. down[Cur(c)] \in Seq(Event)
  BY <1>2, <1>3
<1>5. Held(Cur(c)) \in Seq(Event)
  BY <1>2 DEF Held
<1>6. Reverse(ring[c]) \in Seq(Event)
  BY <1>2, ReverseType
<1> QED
  BY <1>1, <1>2, <1>4, <1>5, <1>6 DEF Pipeline

\* What happens to a stream that neither side leaves: nothing, a new event behind
\* the others, or the oldest falls off a full list.
Flows(c) ==
  \/ Pipeline(c)' = Pipeline(c)
  \/ \E e \in Event : Pipeline(c)' = Pipeline(c) \o <<e>>
  \/ Len(ring[c]) = RingSize /\ Pipeline(c) # <<>> /\ Pipeline(c)' = Tail(Pipeline(c))

LEMMA FrameFlows ==
  ASSUME NEW c \in Client, UNCHANGED <<ring, inbox, down, hand, chan, dials>>
  PROVE  Flows(c)
<1>1. Cur(c)' = Cur(c)
  BY DEF Cur
<1> QED
  BY <1>1 DEF Flows, Pipeline, Held

LEMMA PublishFlows ==
  ASSUME StreamInv, NEW c \in Client, cpc[c] = "stream", NEW a \in Angel, Publisher(a)
  PROVE  Flows(c)
<1>1. UNCHANGED <<ring, inbox, down, hand, dials>> /\ Cur(c)' = Cur(c)
  BY DEF Publisher, InsertEvent, PublishStart, PublishEnd, PublishTo, wireVars, clientVars, Cur
<1>2. CASE chan'[Cur(c)] = chan[Cur(c)]
  BY <1>1, <1>2 DEF Flows, Pipeline, Held
<1>3. ASSUME NEW k \in Conn, PublishTo(a, k), chan'[Cur(c)] # chan[Cur(c)]
      PROVE  Flows(c)
  <2>1. PICK e : e = <<a, sent[a]>>
    OBVIOUS
  <2>2. e \in Event
    <3>1. apc[a] = "sending" /\ LabTypes
      BY <1>3 DEF PublishTo, StreamInv, LabInv
    <3>2. sent[a] \in 1 .. MaxEvents[a]
      BY <3>1, StreamAssumption DEF LabTypes
    <3> QED
      BY <2>1, <3>2, EventFacts
  <2>3. chan[Cur(c)] \in Seq(Event) /\ Cur(c) \in Conn /\ chan \in [Conn -> Seq(Event)]
    BY StreamParts DEF StreamInv, LabInv, LabTypes
  <2>4. chan'[Cur(c)] = Append(chan[Cur(c)], e)
    BY <1>3, <2>1, <2>3 DEF PublishTo
  <2>5. PICK x \in Seq(Event) : x = Reverse(ring[c]) \o inbox[c] \o down[Cur(c)] \o Held(Cur(c))
    <3>1. /\ Reverse(ring[c]) \in Seq(Event) /\ inbox[c] \in Seq(Event)
          /\ down[Cur(c)] \in Seq(Event) /\ Held(Cur(c)) \in Seq(Event)
      BY StreamParts
    <3> QED
      BY <3>1, Assoc
  <2>6. Pipeline(c) = x \o chan[Cur(c)] /\ Pipeline(c)' = x \o (chan[Cur(c)] \o <<e>>)
    <3>1. chan'[Cur(c)] = chan[Cur(c)] \o <<e>>
      BY <2>2, <2>3, <2>4
    <3> QED
      BY <1>1, <2>5, <3>1 DEF Pipeline, Held
  <2>7. (x \o chan[Cur(c)]) \o <<e>> = x \o (chan[Cur(c)] \o <<e>>)
    BY <2>2, <2>3, Assoc
  <2> QED
    BY <2>2, <2>6, <2>7 DEF Flows
<1> QED
  BY <1>2, <1>3 DEF Publisher, InsertEvent, PublishStart, PublishEnd, bcastVars

\* From the channel into the hand, and from the hand into the socket.
LEMMA HandlerFlows ==
  ASSUME StreamInv, NEW c \in Client, Streaming(c), Streaming(c)', NEW k \in Conn, Handler(k)
  PROVE  Flows(c)
<1> USE DEF HandlerGoes, pubVars, bcastVars, wireVars, clientVars
<1>1. /\ cpc[c] = "stream" /\ hpc[Cur(c)] \in {"loop", "send"} /\ hpc'[Cur(c)] \in {"loop", "send"}
      /\ UNCHANGED <<ring, inbox, dials>> /\ Cur(c)' = Cur(c)
      /\ LabTypes /\ WireInv /\ hpc \in [Conn -> HandlerPc]
  BY DEF Streaming, Cur, StreamInv, LabInv, IInv, LockInv, Handler, AcceptHello, RecvRequest,
     HandshakeFails, AckStream, Subscribe, TakeEvent, StreamCancelled, SendEvent, SendFails, Unsubscribe,
     CloseChan, CloseConn
<1>2. PICK j \in Conn : j = Cur(c)
  BY <1>1, StreamParts
<1>3. PICK r \in Seq(Event), i \in Seq(Event), d \in Seq(Event), m \in Seq(Event) :
        r = Reverse(ring[c]) /\ i = inbox[c] /\ d = down[j] /\ m = chan[j]
  BY <1>1, <1>2, StreamParts
<1>4. Pipeline(c) = r \o i \o d \o Held(j) \o m
  BY <1>2, <1>3 DEF Pipeline
<1>5. /\ \A s \in Seq(Event) : s \o <<>> = s
      /\ Pipeline(c)' = r \o i \o down'[j] \o Held(j)' \o chan'[j]
  BY <1>1, <1>2, <1>3 DEF Pipeline, Held
<1>6. CASE TakeEvent(k) /\ j = k
  <2>1. hand[j] = NoEvent /\ m # <<>> /\ hand'[j] = Head(m) /\ chan'[j] = Tail(m) /\ down' = down
    BY <1>1, <1>3, <1>6 DEF TakeEvent, WireInv, LabTypes
  <2>2. Held(j) = <<>> /\ Head(m) \in Event /\ Held(j)' = <<Head(m)>>
    <3>1. Head(m) \in Event /\ NoEvent \notin Event
      BY <2>1, HeadTail, EventFacts
    <3> QED
      BY <2>1, <3>1 DEF Held
  <2>3. PICK s \in Seq(Event) : s = r \o i \o d
    <3>1. r \o i \in Seq(Event)
      BY Assoc
    <3> QED
      BY <3>1, Assoc
  <2>4. Pipeline(c) = s \o m
    BY <1>4, <1>5, <2>2, <2>3
  <2>5. Pipeline(c)' = (s \o <<Head(m)>>) \o Tail(m)
    BY <1>3, <1>5, <2>1, <2>2, <2>3
  <2>6. (s \o <<Head(m)>>) \o Tail(m) = s \o m
    BY <2>1, HeadMoves
  <2> QED
    BY <2>4, <2>5, <2>6 DEF Flows
<1>7. CASE SendEvent(k) /\ j = k
  <2>1. hand[j] \in Event /\ hand'[j] = NoEvent /\ down'[j] = Append(d, hand[j]) /\ chan' = chan
    BY <1>1, <1>3, <1>7 DEF SendEvent, WireInv, LabTypes
  <2>2. Held(j) = <<hand[j]>> /\ Held(j)' = <<>> /\ down'[j] = d \o <<hand[j]>>
    <3>1. NoEvent \notin Event
      BY EventFacts
    <3>2. Append(d, hand[j]) = d \o <<hand[j]>>
      BY <2>1, AppendConcat
    <3> QED
      BY <2>1, <3>1, <3>2 DEF Held
  <2>3. <<hand[j]>> \in Seq(Event) /\ r \o i \in Seq(Event)
    BY <2>1, Assoc
  <2>4. (r \o i) \o (d \o <<hand[j]>>) = ((r \o i) \o d) \o <<hand[j]>>
    BY <2>3, Assoc
  <2>5. (r \o i) \o (d \o <<hand[j]>>) \in Seq(Event)
    BY <2>3, Assoc
  <2>6. Pipeline(c) = (((r \o i) \o d) \o <<hand[j]>>) \o m
    BY <1>4, <2>2
  <2>7. Pipeline(c)' = ((r \o i) \o (d \o <<hand[j]>>)) \o m
    BY <1>3, <1>5, <2>1, <2>2, <2>5
  <2> QED
    BY <2>4, <2>6, <2>7 DEF Flows
<1>8. CASE (~TakeEvent(k) /\ ~SendEvent(k)) \/ j # k
  <2>1. UNCHANGED <<down[j], hand[j], chan[j]>>
    BY <1>1, <1>2, <1>8 DEF Handler, AcceptHello, RecvRequest, HandshakeFails, AckStream, Subscribe,
       TakeEvent, StreamCancelled, SendEvent, SendFails, Unsubscribe, CloseChan, CloseConn, LabTypes
  <2> QED
    BY <1>3, <1>4, <1>5, <2>1 DEF Flows, Held
<1> QED
  BY <1>6, <1>7, <1>8

\* From the socket into the channel of EventStream, and from there onto the screen.
LEMMA ClientFlows ==
  ASSUME StreamInv, NEW c \in Client, Streaming(c), Streaming(c)', NEW d \in Client,
         ClientStep(d) \/ ClientKilled(d)
  PROVE  Flows(c)
<1> USE DEF ClientGoes, pubVars, bcastVars, wireVars, ClientTakes
<1>1. /\ cpc[c] = "stream" /\ cpc'[c] = "stream"
      /\ LabTypes /\ WireInv /\ ScreenTypes /\ DialInv /\ Cur(c) \in Conn /\ UNCHANGED <<hand, chan>>
  BY StreamParts DEF Streaming, StreamInv, LabInv, IInv, ShakeInv, ClientStep, Dial, SendRequest, RecvAck,
     DialFails, RecvEvent, StreamEnds, PushEvent, StreamClosed, ClientKilled
<1>2. CASE d # c
  <2>1. Cur(c) # Cur(d) /\ UNCHANGED <<ring[c], inbox[c], dials[c], down[Cur(c)]>>
    BY <1>1, <1>2, ZenonT(60) DEF Cur, ClientStep, Dial, SendRequest, RecvAck, DialFails, RecvEvent, StreamEnds,
       PushEvent, StreamClosed, ClientKilled, ScreenTypes, DialInv, LabTypes
  <2>2. Cur(c)' = Cur(c)
    BY <2>1 DEF Cur
  <2> QED
    BY <1>1, <2>1, <2>2 DEF Flows, Pipeline, Held
<1>3. CASE d = c /\ (StreamEnds(c) \/ StreamClosed(c) \/ DialFails(c) \/ Dial(c) \/ SendRequest(c)
                       \/ RecvAck(c) \/ ClientKilled(c))
  BY <1>1, <1>3 DEF StreamEnds, StreamClosed, DialFails, Dial, SendRequest, RecvAck, ClientKilled, LabTypes,
     After
<1>4. PICK k \in Conn : k = Cur(c)
  BY <1>1
<1>5. PICK r \in Seq(Event), i \in Seq(Event), f \in Seq(Event), h \in Seq(Event), m \in Seq(Event) :
        r = Reverse(ring[c]) /\ i = inbox[c] /\ f = down[k] /\ h = Held(k) /\ m = chan[k]
  BY <1>1, <1>4, StreamParts
<1>6. Pipeline(c) = r \o i \o f \o h \o m
  BY <1>4, <1>5 DEF Pipeline
<1>7. dials' = dials => Pipeline(c)' = Reverse(ring'[c]) \o inbox'[c] \o down'[k] \o h \o m
  <2>1. dials' = dials => Cur(c)' = k
    BY <1>4 DEF Cur
  <2> QED
    BY <1>1, <1>5, <2>1 DEF Pipeline, Held
<1>8. CASE d = c /\ RecvEvent(c)
  <2>1. /\ f # <<>> /\ down'[k] = Tail(f) /\ inbox'[c] = Append(i, Head(f)) /\ UNCHANGED <<ring, dials>>
    BY <1>1, <1>4, <1>5, <1>8 DEF RecvEvent, LabTypes, ScreenTypes
  <2>2. inbox'[c] = i \o <<Head(f)>>
    <3>1. Head(f) \in Event
      BY <2>1, HeadTail
    <3> QED
      BY <2>1, <3>1, AppendConcat
  <2>3. (r \o (i \o <<Head(f)>>)) \o Tail(f) = (r \o i) \o f
    <3>1. f # <<>>
      BY <2>1
    <3>2. \A s, t \in Seq(Event) : t # <<>> => (r \o (s \o <<Head(t)>>)) \o Tail(t) = (r \o s) \o t
      BY HeadMovesOn
    <3>3. \A t \in Seq(Event) : t # <<>> => (r \o (i \o <<Head(t)>>)) \o Tail(t) = (r \o i) \o t
      BY <3>2
    <3> QED
      BY <3>1, <3>3
  <2> QED
    BY <1>5, <1>6, <1>7, <2>1, <2>2, <2>3 DEF Flows
<1>9. CASE d = c /\ PushEvent(c)
  <2>1. /\ i # <<>> /\ inbox'[c] = Tail(i) /\ UNCHANGED <<down, dials>> /\ ring[c] \in Seq(Event)
        /\ ring'[c] = IF Len(<<Head(i)>> \o ring[c]) > RingSize
                      THEN SubSeq(<<Head(i)>> \o ring[c], 1, RingSize) ELSE <<Head(i)>> \o ring[c]
        /\ Len(ring[c]) <= RingSize /\ RingSize \in Nat
    BY <1>1, <1>5, <1>9, StreamAssumption DEF PushEvent, ScreenTypes
  <2>2. /\ Head(i) \in Event /\ <<Head(i)>> \in Seq(Event) /\ Tail(i) \in Seq(Event)
        /\ i = <<Head(i)>> \o Tail(i)
    BY <2>1, HeadTail
  <2>3. (r \o <<Head(i)>>) \o Tail(i) = r \o i
    BY <2>1, HeadMoves
  <2>4. Len(<<Head(i)>> \o ring[c]) = Len(ring[c]) + 1 /\ Len(ring[c]) \in Nat
    <3>1. Len(<<Head(i)>>) = 1
      OBVIOUS
    <3> QED
      BY <2>1, <2>2, <3>1, ConcatProperties
  <2>5. CASE Len(ring[c]) < RingSize
    <3>1. Reverse(ring'[c]) = r \o <<Head(i)>>
      <4>1. ring'[c] = <<Head(i)>> \o ring[c]
        BY <2>1, <2>4, <2>5
      <4>2. Reverse(<<Head(i)>> \o ring[c]) = Reverse(ring[c]) \o <<Head(i)>>
        BY <2>1, <2>2, ReversePush
      <4> QED
        BY <1>5, <4>1, <4>2
    <3> QED
      BY <1>5, <1>6, <1>7, <2>1, <2>3, <3>1 DEF Flows
  <2>6. CASE Len(ring[c]) = RingSize
    <3>1. ring'[c] = SubSeq(<<Head(i)>> \o ring[c], 1, Len(ring[c]))
      BY <2>1, <2>4, <2>6
    <3>2. Reverse(ring'[c]) = Tail(r \o <<Head(i)>>)
      BY <1>5, <2>1, <2>2, <3>1, ReversePush, ZenonT(60)
    <3>3. /\ r \o <<Head(i)>> \in Seq(Event) /\ r \o i \in Seq(Event)
          /\ (r \o i) \o f \in Seq(Event) /\ ((r \o i) \o f) \o h \in Seq(Event)
      BY <2>2, Assoc
    <3>4. r \o <<Head(i)>> # <<>>
      BY <2>2
    <3>5. Tail(r \o i) = Tail(r \o <<Head(i)>>) \o Tail(i) /\ r \o i # <<>>
      BY <2>2, <2>3, <3>3, <3>4, TailConcat, SMTT(40)
    <3>6. Tail((r \o i) \o f) = Tail(r \o i) \o f /\ (r \o i) \o f # <<>>
      BY <3>3, <3>5, TailConcat
    <3>7. Tail(((r \o i) \o f) \o h) = Tail((r \o i) \o f) \o h /\ ((r \o i) \o f) \o h # <<>>
      BY <3>3, <3>6, TailConcat
    <3>8. /\ Tail((((r \o i) \o f) \o h) \o m) = Tail(((r \o i) \o f) \o h) \o m
          /\ (((r \o i) \o f) \o h) \o m # <<>>
      BY <3>3, <3>7, TailConcat
    <3> QED
      BY <1>5, <1>6, <1>7, <2>1, <2>6, <3>2, <3>5, <3>6, <3>7, <3>8, ZenonT(60) DEF Flows
  <2> QED
    BY <2>1, <2>4, <2>5, <2>6
<1> QED
  BY <1>2, <1>3, <1>8, <1>9 DEF ClientStep

\* While both sides stream, an accepted event is neither lost nor repeated nor
\* overtaken on its way to the screen, whatever the sizes of the buffers and
\* whatever the others do (TakeEvent to PushEvent: cliEventStream,
\* Client.EventStream, pushEvent).
THEOREM AcceptedReachesScreen == Spec => AcceptedIsShown
<1>1. ASSUME StreamInv, [Next]_vars, NEW c \in Client, Streaming(c), Streaming(c)'
      PROVE  \E shift \in 0 .. 1 :
               /\ shift = 1 => Len(ring[c]) = RingSize
               /\ IsPrefix(SubSeq(Pipeline(c), 1 + shift, Len(Pipeline(c))), Pipeline(c)')
  <2>1. Flows(c)
    <3>1. CASE Cancel \/ UNCHANGED vars
      <4>1. UNCHANGED <<ring, inbox, down, hand, chan, dials>>
        BY <3>1 DEF Cancel, vars, pubVars, bcastVars, wireVars, clientVars
      <4> QED
        BY <4>1, FrameFlows
    <3> QED
      BY <1>1, <3>1, PublishFlows, HandlerFlows, ClientFlows DEF Next, Labd, Streaming
  <2>2. Pipeline(c) \in Seq(Event)
    BY <1>1, StreamParts DEF Streaming
  <2>3. SubSeq(Pipeline(c), 1 + 0, Len(Pipeline(c))) = Pipeline(c)
    BY <2>2, Whole
  <2>0. 0 # 1
    OBVIOUS
  <2> DEFINE Kept(n) == /\ n = 1 => Len(ring[c]) = RingSize
                       /\ IsPrefix(SubSeq(Pipeline(c), 1 + n, Len(Pipeline(c))), Pipeline(c)')
  <2>4. ASSUME Pipeline(c)' = Pipeline(c)
        PROVE  Kept(0)
    <3>1. IsPrefix(Pipeline(c), Pipeline(c)')
      BY <2>2, <2>4, PrefixSelf
    <3> QED
      BY <2>3, <2>0, <3>1
  <2>5. ASSUME NEW e \in Event, Pipeline(c)' = Pipeline(c) \o <<e>>
        PROVE  Kept(0)
    <3>1. IsPrefix(Pipeline(c), Pipeline(c)')
      BY <2>2, <2>5, PrefixAppended
    <3> QED
      BY <2>3, <2>0, <3>1
  <2>6. ASSUME Len(ring[c]) = RingSize, Pipeline(c) # <<>>, Pipeline(c)' = Tail(Pipeline(c))
        PROVE  Kept(1)
    <3>1. SubSeq(Pipeline(c), 1 + 1, Len(Pipeline(c))) = Tail(Pipeline(c))
      BY <2>2, <2>6, Whole
    <3>2. IsPrefix(Tail(Pipeline(c)), Tail(Pipeline(c)))
      <4>1. Tail(Pipeline(c)) \in Seq(Event)
        BY <2>2, <2>6
      <4> QED
        BY <4>1, PrefixSelf
    <3> QED
      BY <2>6, <3>1, <3>2
  <2>7. Flows(c) => Kept(0) \/ Kept(1)
    BY <2>4, <2>5, <2>6 DEF Flows
  <2>8. 0 \in 0 .. 1 /\ 1 \in 0 .. 1
    OBVIOUS
  <2> HIDE DEF Kept
  <2>9. \E shift \in 0 .. 1 : Kept(shift)
    BY <2>1, <2>7, <2>8
  <2> QED
    BY <2>9 DEF Kept
<1>2. StreamInv /\ [Next]_vars
        => [\A c \in Client : (Streaming(c) /\ Streaming(c)') =>
              \E shift \in 0 .. 1 :
                /\ shift = 1 => Len(ring[c]) = RingSize
                /\ IsPrefix(SubSeq(Pipeline(c), 1 + shift, Len(Pipeline(c))), Pipeline(c)')]_vars
  BY <1>1
<1> QED
  BY <1>2, StreamInvAlways, PTL DEF Spec, AcceptedIsShown
=============================================================================
