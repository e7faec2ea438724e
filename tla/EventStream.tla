---------------------------- MODULE EventStream ----------------------------
(***************************************************************************)
(* The way of an event from the connection handler of its angel to the     *)
(* screen of "lab tui" or "lab events": the HELLO handshake and the        *)
(* request of a client (pkg/ipc/transport.go, client.go), the handler of   *)
(* its connection (internal/lab/server.go), the Broadcaster between the    *)
(* handlers (broadcaster.go) and the streamer of the terminal interface,   *)
(* which dials again whenever its stream ends (cmd/lab/tui.go).            *)
(*                                                                         *)
(* Clients may be slow, hang or be killed at any step.  A Recv may time    *)
(* out whenever its socket is empty, a Send whenever its socket is full.   *)
(***************************************************************************)
EXTENDS Naturals, Sequences, SequencesExt, FiniteSets

CONSTANTS
  Angel,      \* angels that report events
  Client,     \* processes that follow the events
  Tui,        \* those that dial again: lab tui.  The others are lab events
  Alien,      \* clients of another ProtocolVersion
  MaxEvents,  \* bound: events of each angel
  MaxDials,   \* bound: connections per client
  BufSize,    \* the channel of a subscriber holds this many events (128)
  SockBuf,    \* bound: frames in a socket on their way to the client
  ClientBuf,  \* the channel of Client.EventStream (64)
  RingSize    \* eventBufSize: events on the screen (20)

ASSUME StreamAssumption ==
  /\ Tui \subseteq Client /\ Alien \subseteq Client
  /\ MaxEvents \in [Angel -> Nat] /\ MaxDials \in Nat
  /\ BufSize \in Nat /\ SockBuf \in Nat \ {0} /\ ClientBuf \in Nat /\ RingSize \in Nat

Conn == Client \X (1 .. MaxDials)
Event == UNION {{a} \X (1 .. MaxEvents[a]) : a \in Angel}
NoEvent == <<>>

\* What a client sends, and what labd sends.
ClientFrame == {"hello", "alien", "request"}
Hello == <<"hello">>
Ok == <<"ok">>
LabFrame == {Hello, Ok} \cup Event

VARIABLES
  sent,       \* angel -> events its handler has inserted: rows <<a, 1>> .. <<a, sent[a]>>
  apc,        \* angel -> its handler: "idle", "publish" (inserted), "sending"
  todo,       \* angel -> subscribers its Publish has still to visit
  subs,       \* Broadcaster.subs
  chan,       \* conn -> the subscriber's channel
  closed,     \* closed channels
  hpc,        \* conn -> its handler in labd
  hand,       \* conn -> the event its handler is sending
  up, down,   \* conn -> frames on their way to labd, to the client
  open,       \* conn -> which ends are open: a subset of {"lab", "client"}
  cpc,        \* client -> what it does
  dials,      \* client -> its connections so far
  inbox,      \* client -> the channel EventStream returned
  ring,       \* client -> tuiState.events, newest first
  cancelled   \* the daemon's context

pubVars == <<sent, apc, todo>>
bcastVars == <<subs, chan, closed>>
wireVars == <<up, down, open>>
clientVars == <<cpc, dials, inbox, ring>>
vars == <<pubVars, bcastVars, hpc, hand, wireVars, clientVars, cancelled>>

HandlerPc == {"none", "hello", "request", "ack", "subscribe", "loop", "send", "cancel",
              "closeChan", "close", "done"}
ClientPc == {"off", "hello", "ack", "stream", "drain", "gone"}

\* At most n elements of S.
IsBuffer(s, S, n) == s \in Seq(S) /\ Len(s) <= n

StreamTypeOK ==
  /\ \A a \in Angel : sent[a] \in 0 .. MaxEvents[a]
  /\ apc \in [Angel -> {"idle", "publish", "sending"}]
  /\ todo \in [Angel -> SUBSET Conn]
  /\ subs \subseteq Conn /\ closed \subseteq Conn
  /\ hpc \in [Conn -> HandlerPc]
  /\ hand \in [Conn -> Event \cup {NoEvent}]
  /\ open \in [Conn -> SUBSET {"lab", "client"}]
  /\ \A k \in Conn : /\ IsBuffer(chan[k], Event, BufSize)
                     /\ up[k] \in Seq(ClientFrame)
                     /\ IsBuffer(down[k], LabFrame, SockBuf)
  /\ cpc \in [Client -> ClientPc]
  /\ dials \in [Client -> 0 .. MaxDials]
  /\ \A c \in Client : IsBuffer(inbox[c], Event, ClientBuf) /\ IsBuffer(ring[c], Event, RingSize)
  /\ cancelled \in BOOLEAN

Init ==
  /\ sent = [a \in Angel |-> 0]
  /\ apc = [a \in Angel |-> "idle"] /\ todo = [a \in Angel |-> {}]
  /\ subs = {} /\ chan = [k \in Conn |-> <<>>] /\ closed = {}
  /\ hpc = [k \in Conn |-> "none"] /\ hand = [k \in Conn |-> NoEvent]
  /\ up = [k \in Conn |-> <<>>] /\ down = [k \in Conn |-> <<>>]
  /\ open = [k \in Conn |-> {}]
  /\ cpc = [c \in Client |-> "off"] /\ dials = [c \in Client |-> 0]
  /\ inbox = [c \in Client |-> <<>>] /\ ring = [c \in Client |-> <<>>]
  /\ cancelled = FALSE
-----------------------------------------------------------------------------
(* handleEvent, one per angel connection.                                    *)

\* Publish holds the read lock from its first to its last subscriber.
ReadLocked == \E a \in Angel : apc[a] = "sending"

\* The row is written before the event is published.
InsertEvent(a) ==
  /\ apc[a] = "idle" /\ sent[a] < MaxEvents[a]
  /\ sent' = [sent EXCEPT ![a] = @ + 1]
  /\ apc' = [apc EXCEPT ![a] = "publish"]
  /\ UNCHANGED <<todo, bcastVars, hpc, hand, wireVars, clientVars, cancelled>>

PublishStart(a) ==
  /\ apc[a] = "publish"
  /\ apc' = [apc EXCEPT ![a] = "sending"]
  /\ todo' = [todo EXCEPT ![a] = subs]
  /\ UNCHANGED <<sent, bcastVars, hpc, hand, wireVars, clientVars, cancelled>>

\* Waits for room in the channel.
PublishToBlocking(a, k) ==
  /\ apc[a] = "sending" /\ k \in todo[a]
  /\ Len(chan[k]) < BufSize
  /\ todo' = [todo EXCEPT ![a] = @ \ {k}]
  /\ chan' = [chan EXCEPT ![k] = Append(@, <<a, sent[a]>>)]
  /\ UNCHANGED <<sent, apc, subs, closed, hpc, hand, wireVars, clientVars, cancelled>>

\* Replaces the oldest event of a full channel.
PublishToDropOldest(a, k) ==
  /\ apc[a] = "sending" /\ k \in todo[a]
  /\ todo' = [todo EXCEPT ![a] = @ \ {k}]
  /\ chan' = [chan EXCEPT ![k] = IF Len(@) < BufSize THEN Append(@, <<a, sent[a]>>)
                                                     ELSE Append(Tail(@), <<a, sent[a]>>)]
  /\ UNCHANGED <<sent, apc, subs, closed, hpc, hand, wireVars, clientVars, cancelled>>

\* One subscriber, in any order of the map; a full channel drops the event.
PublishTo(a, k) ==
  /\ apc[a] = "sending" /\ k \in todo[a]
  /\ todo' = [todo EXCEPT ![a] = @ \ {k}]
  /\ chan' = IF Len(chan[k]) < BufSize
             THEN [chan EXCEPT ![k] = Append(@, <<a, sent[a]>>)] ELSE chan
  /\ UNCHANGED <<sent, apc, subs, closed, hpc, hand, wireVars, clientVars, cancelled>>

PublishEnd(a) ==
  /\ apc[a] = "sending" /\ todo[a] = {}
  /\ apc' = [apc EXCEPT ![a] = "idle"]
  /\ UNCHANGED <<sent, todo, bcastVars, hpc, hand, wireVars, clientVars, cancelled>>

Publisher(a) == \/ InsertEvent(a) \/ PublishStart(a) \/ PublishEnd(a)
                \/ \E k \in Conn : PublishTo(a, k)
-----------------------------------------------------------------------------
(* The handler of a client's connection.                                     *)

HandlerGoes(k, from, to) == hpc[k] = from /\ hpc' = [hpc EXCEPT ![k] = to]

ClientOpen(k) == "client" \in open[k]
LabOpen(k) == "lab" \in open[k]

\* AcceptHello of an own HELLO: answered with the Lab's.
AcceptHello(k) ==
  /\ up[k] # <<>> /\ Head(up[k]) = "hello"
  /\ up' = [up EXCEPT ![k] = Tail(@)]
  /\ IF ClientOpen(k) THEN /\ down' = [down EXCEPT ![k] = Append(@, Hello)]
                           /\ HandlerGoes(k, "hello", "request")
                      ELSE /\ HandlerGoes(k, "hello", "close")
                           /\ UNCHANGED down
  /\ UNCHANGED <<pubVars, bcastVars, hand, open, clientVars, cancelled>>

\* handleCLIConn reads the request.
RecvRequest(k) ==
  /\ up[k] # <<>> /\ Head(up[k]) = "request"
  /\ up' = [up EXCEPT ![k] = Tail(@)]
  /\ HandlerGoes(k, "request", "ack")
  /\ UNCHANGED <<pubVars, bcastVars, hand, down, open, clientVars, cancelled>>

\* The first or second frame is of another version, missing for 10 s, or the
\* client is gone: handleConn returns.
HandshakeFails(k) ==
  /\ up[k] # <<>> => Head(up[k]) = "alien"
  /\ HandlerGoes(k, "hello", "close") \/ HandlerGoes(k, "request", "close")
  /\ UNCHANGED <<pubVars, bcastVars, hand, wireVars, clientVars, cancelled>>

\* sendOK; an error of Send is ignored.
AckStream(k) ==
  /\ HandlerGoes(k, "ack", "subscribe")
  /\ down' = IF ClientOpen(k) THEN [down EXCEPT ![k] = Append(@, Ok)] ELSE down
  /\ Len(down[k]) < SockBuf
  /\ UNCHANGED <<pubVars, bcastVars, hand, up, open, clientVars, cancelled>>

Subscribe(k) ==
  /\ ~ReadLocked
  /\ HandlerGoes(k, "subscribe", "loop")
  /\ subs' = subs \cup {k}
  /\ UNCHANGED <<pubVars, chan, closed, hand, wireVars, clientVars, cancelled>>

\* The select of cliEventStream ...
TakeEvent(k) ==
  /\ chan[k] # <<>>
  /\ HandlerGoes(k, "loop", "send")
  /\ hand' = [hand EXCEPT ![k] = Head(chan[k])]
  /\ chan' = [chan EXCEPT ![k] = Tail(@)]
  /\ UNCHANGED <<pubVars, subs, closed, wireVars, clientVars, cancelled>>

StreamCancelled(k) ==
  /\ cancelled
  /\ HandlerGoes(k, "loop", "cancel")
  /\ UNCHANGED <<pubVars, bcastVars, hand, wireVars, clientVars, cancelled>>

\* ... and its Send, which a closed or a full socket makes fail: the deferred
\* cancel runs.
SendEvent(k) ==
  /\ ClientOpen(k) /\ Len(down[k]) < SockBuf
  /\ HandlerGoes(k, "send", "loop")
  /\ down' = [down EXCEPT ![k] = Append(@, hand[k])]
  /\ hand' = [hand EXCEPT ![k] = NoEvent]
  /\ UNCHANGED <<pubVars, bcastVars, up, open, clientVars, cancelled>>

\* The handler goes on after a failed Send.
SendFailsContinues(k) ==
  /\ ClientOpen(k) => Len(down[k]) = SockBuf
  /\ HandlerGoes(k, "send", "loop")
  /\ hand' = [hand EXCEPT ![k] = NoEvent]
  /\ UNCHANGED <<pubVars, bcastVars, wireVars, clientVars, cancelled>>

SendFails(k) ==
  /\ ClientOpen(k) => Len(down[k]) = SockBuf
  /\ HandlerGoes(k, "send", "cancel")
  /\ hand' = [hand EXCEPT ![k] = NoEvent]
  /\ UNCHANGED <<pubVars, bcastVars, wireVars, clientVars, cancelled>>

\* Removes the subscriber without the lock.
UnsubscribeUnlocked(k) ==
  /\ HandlerGoes(k, "cancel", "closeChan")
  /\ subs' = subs \ {k}
  /\ UNCHANGED <<pubVars, chan, closed, hand, wireVars, clientVars, cancelled>>

\* cancel: the subscriber is deleted under the lock, the channel closed after it.
Unsubscribe(k) ==
  /\ ~ReadLocked
  /\ HandlerGoes(k, "cancel", "closeChan")
  /\ subs' = subs \ {k}
  /\ UNCHANGED <<pubVars, chan, closed, hand, wireVars, clientVars, cancelled>>

\* close(ch), and the deferred Close of handleConn.
CloseChan(k) ==
  /\ HandlerGoes(k, "closeChan", "done")
  /\ closed' = closed \cup {k}
  /\ open' = [open EXCEPT ![k] = @ \ {"lab"}]
  /\ UNCHANGED <<pubVars, subs, chan, hand, up, down, clientVars, cancelled>>

\* handleConn has not come to a subscription.
CloseConn(k) ==
  /\ HandlerGoes(k, "close", "done")
  /\ open' = [open EXCEPT ![k] = @ \ {"lab"}]
  /\ UNCHANGED <<pubVars, bcastVars, hand, up, down, clientVars, cancelled>>

Handler(k) ==
  \/ AcceptHello(k) \/ RecvRequest(k) \/ HandshakeFails(k) \/ AckStream(k)
  \/ Subscribe(k) \/ TakeEvent(k) \/ StreamCancelled(k) \/ SendEvent(k) \/ SendFails(k)
  \/ Unsubscribe(k) \/ CloseChan(k) \/ CloseConn(k)
-----------------------------------------------------------------------------
(* The client.                                                               *)

\* The connection the client uses.
Cur(c) == <<c, dials[c]>>

ClientGoes(c, from, to) == cpc[c] = from /\ cpc' = [cpc EXCEPT ![c] = to]

\* Dial and sendHello; Serve accepts the connection and starts its handler.
Dial(c) ==
  /\ dials[c] < MaxDials
  /\ ClientGoes(c, "off", "hello")
  /\ dials' = [dials EXCEPT ![c] = @ + 1]
  /\ open' = [open EXCEPT ![Cur(c)'] = {"lab", "client"}]
  /\ hpc' = [hpc EXCEPT ![Cur(c)'] = "hello"]
  /\ up' = [up EXCEPT ![Cur(c)'] = <<IF c \in Alien THEN "alien" ELSE "hello">>]
  /\ UNCHANGED <<pubVars, bcastVars, hand, down, inbox, ring, cancelled>>

ClientTakes(c, frame) ==
  /\ dials[c] > 0 /\ down[Cur(c)] # <<>> /\ Head(down[Cur(c)]) = frame
  /\ down' = [down EXCEPT ![Cur(c)] = Tail(@)]

\* recvHelloAck, and EventStream sends its request.
SendRequest(c) ==
  /\ ClientTakes(c, Hello)
  /\ ClientGoes(c, "hello", "ack")
  /\ up' = [up EXCEPT ![Cur(c)] = Append(@, "request")]
  /\ UNCHANGED <<pubVars, bcastVars, hpc, hand, open, dials, inbox, ring, cancelled>>

RecvAck(c) ==
  /\ ClientTakes(c, Ok)
  /\ ClientGoes(c, "ack", "stream")
  /\ UNCHANGED <<pubVars, bcastVars, hpc, hand, up, open, dials, inbox, ring, cancelled>>

\* NewClient or EventStream returns an error: the TUI sleeps and dials again,
\* lab events exits.
After(c) == IF c \in Tui THEN "off" ELSE "gone"

DialFails(c) ==
  /\ dials[c] > 0 /\ down[Cur(c)] = <<>>
  /\ ClientGoes(c, "hello", After(c)) \/ ClientGoes(c, "ack", After(c))
  /\ open' = [open EXCEPT ![Cur(c)] = @ \ {"client"}]
  /\ UNCHANGED <<pubVars, bcastVars, hpc, hand, up, down, dials, inbox, ring, cancelled>>

\* The goroutine of EventStream: Recv, then the channel.
RecvEvent(c) ==
  /\ cpc[c] = "stream" /\ Len(inbox[c]) < ClientBuf
  /\ down[Cur(c)] # <<>>
  /\ LET e == Head(down[Cur(c)])
     IN  ClientTakes(c, e) /\ inbox' = [inbox EXCEPT ![c] = Append(@, e)]
  /\ UNCHANGED <<pubVars, bcastVars, hpc, hand, up, open, cpc, dials, ring, cancelled>>

\* Its Recv fails: after 10 s without an event, or because labd has closed.
StreamEnds(c) ==
  /\ ClientGoes(c, "stream", "drain")
  /\ down[Cur(c)] = <<>>
  /\ UNCHANGED <<pubVars, bcastVars, hpc, hand, wireVars, dials, inbox, ring, cancelled>>

\* Puts the event last and forgets the bound.
PushEventLast(c) ==
  /\ inbox[c] # <<>>
  /\ inbox' = [inbox EXCEPT ![c] = Tail(@)]
  /\ ring' = [ring EXCEPT ![c] = Append(@, Head(inbox[c]))]
  /\ UNCHANGED <<pubVars, bcastVars, hpc, hand, wireVars, cpc, dials, cancelled>>

PushEvent(c) ==
  /\ inbox[c] # <<>>
  /\ inbox' = [inbox EXCEPT ![c] = Tail(@)]
  /\ ring' = [ring EXCEPT ![c] = LET events == <<Head(inbox[c])>> \o @
                                 IN  IF Len(events) > RingSize
                                     THEN SubSeq(events, 1, RingSize) ELSE events]
  /\ UNCHANGED <<pubVars, bcastVars, hpc, hand, wireVars, cpc, dials, cancelled>>

\* The streamer has read the channel to its end: Close, and dial again after 1 s.
StreamClosed(c) ==
  /\ inbox[c] = <<>>
  /\ ClientGoes(c, "drain", After(c))
  /\ open' = [open EXCEPT ![Cur(c)] = @ \ {"client"}]
  /\ UNCHANGED <<pubVars, bcastVars, hpc, hand, up, down, dials, inbox, ring, cancelled>>

\* Ctrl-C or a kill: the process is gone with everything it held.  Before the
\* stream this is DialFails.
ClientKilled(c) ==
  /\ ClientGoes(c, "stream", "gone")
  /\ open' = [open EXCEPT ![Cur(c)] = @ \ {"client"}]
  /\ inbox' = [inbox EXCEPT ![c] = <<>>] /\ ring' = [ring EXCEPT ![c] = <<>>]
  /\ UNCHANGED <<pubVars, bcastVars, hpc, hand, up, down, dials, cancelled>>

ClientStep(c) ==
  \/ Dial(c) \/ SendRequest(c) \/ RecvAck(c) \/ DialFails(c) \/ RecvEvent(c) \/ StreamEnds(c)
  \/ PushEvent(c) \/ StreamClosed(c)
-----------------------------------------------------------------------------
Cancel ==
  /\ ~cancelled /\ cancelled' = TRUE
  /\ UNCHANGED <<pubVars, bcastVars, hpc, hand, wireVars, clientVars>>

Labd == \/ \E a \in Angel : Publisher(a)
        \/ \E k \in Conn : Handler(k)

Next == \/ Labd
        \/ \E c \in Client : ClientStep(c) \/ ClientKilled(c)
        \/ Cancel

Spec == Init /\ [][Next]_vars

\* labd's goroutines run, and its Sends time out; nothing is assumed of clients.
\* With bounded events and dials fairness of the whole of labd is enough.
Fairness == WF_vars(Labd)

FairSpec == Spec /\ Fairness
-----------------------------------------------------------------------------
\* A Publish never has a closed channel before it, whoever unsubscribes meanwhile:
\* the send would panic and take labd down (Publish, cancel).
NoSendOnClosed == \A a \in Angel : todo[a] \cap closed = {}

\* What a client that streams shows or has on its way to it, oldest first.
Held(k) == IF hand[k] = NoEvent THEN <<>> ELSE <<hand[k]>>
Pipeline(c) == Reverse(ring[c]) \o inbox[c] \o down[Cur(c)] \o Held(Cur(c)) \o chan[Cur(c)]

Streaming(c) == cpc[c] = "stream" /\ hpc[Cur(c)] \in {"loop", "send"}

\* While both sides stream, an event that a subscriber's channel has accepted is
\* not lost, repeated or overtaken on its way to the screen, and leaves it only as
\* the oldest of a full list (cliEventStream, Client.EventStream, pushEvent).
AcceptedIsShown ==
  [][\A c \in Client : (Streaming(c) /\ Streaming(c)') =>
       \E shift \in 0 .. 1 :
         /\ shift = 1 => Len(ring[c]) = RingSize
         /\ IsPrefix(SubSeq(Pipeline(c), 1 + shift, Len(Pipeline(c))), Pipeline(c)')]_vars

\* The screen shows each angel's events newest first and once, also when they came
\* over several connections (pushEvent, the streamer of cmdTUI).
NewestFirst ==
  \A c \in Client : \A i, j \in 1 .. Len(ring[c]) :
    (i < j /\ ring[c][i][1] = ring[c][j][1]) => ring[c][i][2] > ring[c][j][2]

\* A slow, hung or dead client never holds up the handler of an angel
\* (docs/architecture.md:263).
PublishersProceed == \A a \in Angel : apc[a] # "idle" ~> apc[a] = "idle"

\* The subscription of a client that has closed ends with the next event it is
\* given (cliEventStream).
NextEventUnsubscribes ==
  \A k \in Conn : (k \in subs /\ ~ClientOpen(k) /\ chan[k] # <<>>) ~> k \notin subs
-----------------------------------------------------------------------------
\* docs/ipc-protocol.md:42: event stream connections have no deadline; so a stream
\* ends only when labd closes it.
NoStreamDeadline ==
  [][\A c \in Client : (cpc[c] = "stream" /\ cpc'[c] = "drain") => ~LabOpen(Cur(c))]_vars
=============================================================================
