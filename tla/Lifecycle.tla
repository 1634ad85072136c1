------------------------------- MODULE Lifecycle -------------------------------
(***************************************************************************)
(* The life of one connection, over TCP or over a WebSocket:               *)
(* RSocketConnector.connect, the accept loops of RSocketResponder.ts, the  *)
(* read loops, SETUP and the acceptors' decisions, the keepalive timer,    *)
(* close() and the loss of the connection.  What the frames of requests do *)
(* is RSocketRequester.tla; here a request is only served, or dropped      *)
(* because there is no requester yet.                                      *)
(*                                                                         *)
(* A read hands the loop one message, or a chunk of frames, none of them   *)
(* cut in two (an assumption about TCP), which it takes in order without   *)
(* giving way to anything but what their handlers call.  Some decoders     *)
(* take more bytes than their frame has, or leave some: from there on      *)
(* parseFrames reads the chunk from a wrong byte, finds frames that nobody *)
(* sent and misses some that were; which ones depends on the bytes, so any *)
(* may be (NextFrame).                                                     *)
(*                                                                         *)
(* Of the WebSocket of the standard library this much is used: its close() *)
(* sends a CLOSE message and closes the socket when that is out, until     *)
(* then messages are read; and its iteration ends, and never throws, when  *)
(* it reads CLOSE, when the connection is lost or closed.                  *)
(*                                                                         *)
(* A definition introduced as a slip is what a plausible mistake in the    *)
(* code would make of the definition after it; no specification uses it.   *)
(***************************************************************************)
EXTENDS Integers, Sequences

CONSTANTS
    Client, Server,  \* the two ends
    Transports,      \* those that the connection may use
    Lossy,           \* bound: the ends that may lose the connection
    MaxRequests,     \* bound: requests made by each end
    MaxForeign,      \* bound: frames that this library has not sent
    MaxWire          \* bound: keepalives pile up no further than this

Peer == {Client, Server}

ASSUME PeerAssumption == Client # Server
ASSUME BoundAssumption ==
    /\ Lossy \subseteq Peer
    /\ Transports \subseteq {"tcp", "ws"}
    /\ MaxRequests \in Nat /\ MaxForeign \in Nat /\ MaxWire \in Nat

VARIABLES
    connecting,  \* the promise of connect()
    requester,   \* the server loop's rsocketRequester
    refused,     \* the server's acceptor has refused a SETUP
    closed,      \* closed[p]: _closed of p's RSocketRequester
    timer,       \* the client's keepalive interval
    transport,   \* "tcp" or "ws", the scheme of the URL
    socket,      \* socket[p]: p's end of the connection
    loop,        \* loop[p]: p's read loop
    chunk,       \* chunk[p]: frames of the chunk that p's loop is taking
    wire,        \* wire[p]: frames on their way to p
    alive,       \* alive[p]: p's process has not died
    lateDropped, \* history: the server had no requester for a frame not early
    setupLost,   \* history: a SETUP was not found behind another frame
    requests,    \* requests[p]: how many p has made
    foreign      \* how many frames another library's peer has sent, or were
                 \* found where none was sent

connVars == <<connecting, requester, refused, closed, timer>>
ioVars == <<socket, loop, chunk, wire, alive>>
countVars == <<transport, lateDropped, requests>>
parseVars == <<setupLost, foreign>>
vars == <<connVars, ioVars, countVars, parseVars>>

Other(p) == IF p = Client THEN Server ELSE Client

\* STREAM is a request whose decoder is wrong about its length (a stream, a
\* channel, a metadata push), REQUEST another one.  PING is a KEEPALIVE that
\* asks for a reply; ERROR is one on stream 0; early marks what was written
\* before the promise of connect() resolved.
\* TEXT and CLOSE are WebSocket messages that hold no frame.
RequestTypes == {"REQUEST", "STREAM"}
FrameTypes == RequestTypes \cup {"SETUP", "KEEPALIVE", "PING", "ERROR"}
Types == FrameTypes \cup {"TEXT", "CLOSE"}
Frame == [type : Types, early : BOOLEAN]
F(type) == [type |-> type, early |-> connecting # "resolved"]

HasSetup(s) == \E k \in 1..Len(s) : s[k].type = "SETUP"

TypeOK ==
    /\ connecting \in {"idle", "writing", "resolved", "rejected"}
    /\ requester \in {"none", "serving"}
    /\ refused \in BOOLEAN
    /\ closed \in [Peer -> BOOLEAN]
    /\ timer \in {"off", "on"}
    /\ transport \in Transports
    /\ socket \in [Peer -> {"none", "open", "lost", "closing", "closed"}]
    /\ loop \in [Peer -> {"off", "reading", "spinning", "starving", "ended"}]
    /\ chunk \in [Peer -> Seq(Frame)]
    /\ wire \in [Peer -> Seq(Frame)]
    /\ alive \in [Peer -> BOOLEAN]
    /\ lateDropped \in BOOLEAN
    /\ requests \in [Peer -> 0..MaxRequests]
    /\ foreign \in 0..MaxForeign
    /\ setupLost \in BOOLEAN

Init ==
    /\ connecting = "idle" /\ requester = "none" /\ refused = FALSE
    /\ closed = [p \in Peer |-> FALSE]
    /\ timer = "off"
    /\ transport \in Transports
    /\ socket = [p \in Peer |-> "none"]
    /\ loop = [p \in Peer |-> "off"]
    /\ chunk = [p \in Peer |-> <<>>]
    /\ wire = [p \in Peer |-> <<>>]
    /\ alive = [p \in Peer |-> TRUE]
    /\ lateDropped = FALSE
    /\ requests = [p \in Peer |-> 0]
    /\ foreign = 0
    /\ setupLost = FALSE

Broken == \E p \in Peer : socket[p] \in {"lost", "closing", "closed"} \/ ~alive[p]

\* p's process runs callbacks: it has not died, and no loop keeps it busy.
Runs(p) == alive[p] /\ loop[p] # "starving"
Idle(p) == Runs(p) /\ chunk[p] = <<>>

\* connection.write(f).then(): the frame is on its way, or the rejection that
\* nothing handles ends the process.  A write to a socket that is not open is
\* always rejected, one to a peer that is gone may be; behind a CLOSE that is
\* not out yet a message may still be written, for nobody.
Write(p, f) ==
    \/ /\ socket[p] = "open"
       /\ wire' = [wire EXCEPT ![Other(p)] = Append(@, f)]
       /\ UNCHANGED alive
    \/ /\ Broken
       /\ alive' = [alive EXCEPT ![p] = FALSE]
       /\ UNCHANGED wire
    \/ socket[p] = "closing" /\ UNCHANGED <<wire, alive>>

\* duplexConn.close(): conn.close(), or ws.close().catch(console.error).
HangUp(p) ==
    IF transport = "ws" /\ socket[p] = "open"
    THEN /\ socket' = [socket EXCEPT ![p] = "closing"]
         /\ wire' = [wire EXCEPT ![Other(p)] = Append(@, F("CLOSE"))]
    ELSE /\ socket' = [socket EXCEPT ![p] = IF @ = "closing" THEN @ ELSE "closed"]
         /\ UNCHANGED wire

-----------------------------------------------------------------------------
(* connect()                                                               *)

\* Slip: connect() does not send the setup frame.
NoSetupFrame(early) == early
\* What connect() writes: a request that the acceptor makes at once on the
\* socket it is given comes before the setup frame.
FirstFrames(early) == early \o <<F("SETUP")>>
EarlyRequests == {<<>>} \cup {<<F(type)>> : type \in RequestTypes}

\* The connection is made, and both ends have a read loop: the client's starts
\* before the setup frame is written.
Connect(early) ==
    /\ connecting = "idle"
    /\ connecting' = "writing"
    /\ socket' = [p \in Peer |-> "open"]
    /\ loop' = [p \in Peer |-> "reading"]
    /\ wire' = [wire EXCEPT ![Server] = FirstFrames(early)]
    /\ UNCHANGED <<requester, refused, closed, timer, chunk, alive, countVars, parseVars>>

\* The client's own acceptor refuses: connect() rejects and leaves the socket
\* open, with nobody to read it.
ConnectRefused ==
    /\ connecting = "idle"
    /\ connecting' = "rejected"
    /\ socket' = [p \in Peer |-> "open"]
    /\ loop' = [loop EXCEPT ![Server] = "reading"]
    /\ UNCHANGED <<requester, refused, closed, timer, chunk, wire, alive, countVars, parseVars>>

\* The write of the setup frame resolves: setInterval, then connect() resolves.
SetupWritten ==
    /\ connecting = "writing" /\ Idle(Client)
    /\ connecting' = "resolved"
    /\ timer' = "on"
    /\ UNCHANGED <<requester, refused, closed, ioVars, countVars, parseVars>>

\* It is rejected: sendSetupPayload rejects, and connect() with it.
SetupFails ==
    /\ connecting = "writing" /\ Broken /\ Idle(Client)
    /\ connecting' = "rejected"
    /\ UNCHANGED <<requester, refused, closed, timer, ioVars, countVars, parseVars>>

-----------------------------------------------------------------------------
(* The application's use of the two requesters                             *)

\* p's application has its RSocket: connect() has resolved, or an acceptor was
\* given it.
HasRSocket(p) ==
    /\ Runs(p)
    /\ IF p = Client THEN connecting \in {"writing", "resolved"} ELSE requester = "serving"

\* A closed WebSocket's send() throws, and what the application has called
\* with it.
Request(p) ==
    /\ HasRSocket(p) /\ chunk[p] = <<>>
    /\ requests[p] < MaxRequests
    /\ requests' = [requests EXCEPT ![p] = @ + 1]
    /\ IF transport = "ws" /\ socket[p] = "closed"
       THEN UNCHANGED <<wire, alive>>
       ELSE \E type \in RequestTypes : Write(p, F(type))
    /\ UNCHANGED <<connVars, transport, socket, loop, chunk, lateDropped, parseVars>>

\* RSocketRequester.close(), also from within a handler: _closed, clearInterval,
\* connection.close().
Close(p) ==
    /\ HasRSocket(p) /\ ~closed[p]
    /\ closed' = [closed EXCEPT ![p] = TRUE]
    /\ timer' = IF p = Client THEN "off" ELSE timer
    /\ HangUp(p)
    /\ UNCHANGED <<connecting, requester, refused, loop, chunk, alive, countVars, parseVars>>

\* The CLOSE message is written, or never will be: the socket is closed.
Closed(p) ==
    /\ socket[p] = "closing" /\ Idle(p)
    /\ socket' = [socket EXCEPT ![p] = "closed"]
    /\ UNCHANGED <<connVars, loop, chunk, wire, alive, countVars, parseVars>>

\* Slip: the callback looks at _closed and leaves the interval running.
TickUncleared ==
    /\ timer = "on" /\ Idle(Client) /\ ~closed[Client]
    /\ Len(wire[Server]) < MaxWire /\ Write(Client, F("KEEPALIVE"))
    /\ UNCHANGED <<connVars, socket, loop, chunk, countVars, parseVars>>

\* The interval's callback.  It finds _closed when close() came while the setup
\* frame was being written, before there was an interval to clear.
Tick ==
    /\ timer = "on" /\ Idle(Client)
    /\ IF closed[Client]
       THEN timer' = "off" /\ UNCHANGED <<wire, alive>>
       ELSE /\ Len(wire[Server]) < MaxWire /\ Write(Client, F("KEEPALIVE"))
            /\ UNCHANGED timer
    /\ UNCHANGED <<connecting, requester, refused, closed, socket, loop, chunk, countVars, parseVars>>

-----------------------------------------------------------------------------
(* The read loops                                                          *)

Reading(p) == loop[p] \in {"reading", "spinning"} /\ Idle(p)
Over(t, p) == transport = t /\ Reading(p)

\* A chunk arrives: frames that TCP delivered together, or one message.
Read(p) ==
    /\ Reading(p) /\ socket[p] \in {"open", "closing"}
    /\ \E n \in 1..Len(wire[p]) :
          /\ transport = "ws" => n = 1 /\ Head(wire[p]).type # "CLOSE"
          /\ chunk' = [chunk EXCEPT ![p] = SubSeq(wire[p], 1, n)]
          /\ wire' = [wire EXCEPT ![p] = SubSeq(@, n + 1, Len(@))]
    /\ loop' = [loop EXCEPT ![p] = "reading"]
    /\ UNCHANGED <<connVars, socket, alive, countVars, parseVars>>

\* There is nothing more to read, and will not be.
PeerGone(p) == wire[p] = <<>> /\ (socket[Other(p)] = "closed" \/ ~alive[Other(p)])

\* End of file: Deno.iter yields no empty chunk, it just ends, and the loop
\* around it begins another iteration, which ends the same way.
EndOfFile(p) ==
    /\ Over("tcp", p) /\ socket[p] = "open" /\ PeerGone(p)
    /\ loop' = [loop EXCEPT ![p] = "spinning"]
    /\ UNCHANGED <<connVars, socket, chunk, wire, alive, countVars, parseVars>>

\* Slip: handleWs has a loop around its iteration as well.
WsLoopAgain(p) == "starving"

\* handleWs is over with its iteration.  The client's loop begins another one,
\* which ends at once, and so on: it never gives way to anything else.
AfterIteration(p) == IF p = Server THEN "ended" ELSE "starving"

\* The iteration over a WebSocket ends, which is then closed; CLOSE is answered.
WsEnds(p) ==
    /\ Over("ws", p)
    /\ \/ wire[p] # <<>> /\ Head(wire[p]).type = "CLOSE" /\ socket[p] \in {"open", "closing"}
          /\ wire' = [wire EXCEPT ![p] = Tail(@), ![Other(p)] = Append(@, F("CLOSE"))]
       \/ PeerGone(p) /\ UNCHANGED wire
       \/ socket[p] \in {"closed", "lost"} /\ UNCHANGED wire
    /\ socket' = [socket EXCEPT ![p] = "closed"]
    /\ loop' = [loop EXCEPT ![p] = AfterIteration(p)]
    /\ UNCHANGED <<connVars, chunk, alive, countVars, parseVars>>

\* Slip: the loop goes round again after the exception.
ReadFailsGoesOn(p) ==
    /\ Over("tcp", p) /\ socket[p] \in {"closed", "lost"}
    /\ loop' = [loop EXCEPT ![p] = "spinning"]
    /\ socket' = [socket EXCEPT ![p] = "closed"]
    /\ UNCHANGED <<connVars, chunk, wire, alive, countVars, parseVars>>

\* The read throws, on a socket closed at this end or on a lost connection:
\* closed = true, duplexConn.close(), break.  The requester is not told.
ReadFails(p) ==
    /\ Over("tcp", p) /\ socket[p] \in {"closed", "lost"}
    /\ loop' = [loop EXCEPT ![p] = "ended"]
    /\ socket' = [socket EXCEPT ![p] = "closed"]
    /\ UNCHANGED <<connVars, chunk, wire, alive, countVars, parseVars>>

Takes(p, types) ==
    /\ Runs(p) /\ chunk[p] # <<>> /\ Head(chunk[p]).type \in types

\* Frames behind which the parser is at the next one, whatever there is: the
\* decoders of the others take more than theirs or, if the chunk has no more,
\* leave some of it; a KEEPALIVE leaves nothing but zeros.
TakesItsBytes(p) ==
    \/ Head(chunk[p]).type \in {"REQUEST", "ERROR", "TEXT"}
    \/ Head(chunk[p]).type = "KEEPALIVE" /\ Len(chunk[p]) = 1

\* A SETUP wants so much that it may get none of it; the others take some of
\* the frame behind them, if there is one.
MaySpareNext(p) == Len(chunk[p]) = 1 \/ Head(chunk[p]).type = "SETUP"

Stray(p) == [type : FrameTypes, early : {Head(chunk[p]).early}]

\* The loop goes on in the chunk: with the next frame, or with what it makes of
\* the bytes there, and then with some frame behind them, or none.
NextFrame(p) ==
    \E n \in 0..(MaxForeign - foreign) : \E found \in [1..n -> Stray(p)] :
    \E k \in 2..(Len(chunk[p]) + 1) :
        /\ IF TakesItsBytes(p) THEN n = 0 /\ k = 2 ELSE k = 2 => MaySpareNext(p)
        /\ chunk' = [chunk EXCEPT ![p] = found \o SubSeq(@, k, Len(@))]
        /\ foreign' = foreign + n
        /\ setupLost' = (setupLost \/ (p = Server /\ HasSetup(SubSeq(chunk[p], 2, k - 1))))

\* Slip: the acceptor's null is taken for a responder.
NullAccepted == "null"
\* temp.responder = responder; rsocketRequester = temp.
Accepted == "serving"

\* SETUP, accepted: a new requester takes the place of any earlier one.
AcceptSetup ==
    /\ Takes(Server, {"SETUP"})
    /\ requester' = Accepted
    /\ closed' = [closed EXCEPT ![Server] = FALSE]
    /\ NextFrame(Server)
    /\ UNCHANGED <<connecting, refused, timer, socket, loop, wire, alive, countVars>>

\* Slip: the frames after a refused SETUP are taken all the same.
RefuseSetupGoesOn ==
    /\ Takes(Server, {"SETUP"})
    /\ refused' = TRUE
    /\ HangUp(Server)
    /\ NextFrame(Server)
    /\ UNCHANGED <<connecting, requester, closed, timer, loop, alive, countVars>>

\* SETUP, refused: duplexConn.close(), and break out of the chunk.  A requester
\* that an earlier SETUP has made stays.
RefuseSetup ==
    /\ Takes(Server, {"SETUP"})
    /\ refused' = TRUE
    /\ HangUp(Server)
    /\ chunk' = [chunk EXCEPT ![Server] = <<>>]
    /\ UNCHANGED <<connecting, requester, closed, timer, loop, alive, countVars, parseVars>>

\* rsocketRequester?.receiveFrame(frame) without a requester.
DropFrame ==
    /\ Takes(Server, FrameTypes \ {"SETUP"})
    /\ requester = "none"
    /\ lateDropped' = (lateDropped \/ ~Head(chunk[Server]).early)
    /\ NextFrame(Server)
    /\ UNCHANGED <<connVars, transport, socket, loop, wire, alive, requests>>

HasRequester(p) == p = Server => requester # "none"

\* receiveFrame: a request, or a frame that changes nothing here; a KEEPALIVE
\* without the respond flag, an ERROR on stream 0 for the errorConsumer, at the
\* client a SETUP.
ServeFrame(p) ==
    /\ HasRequester(p)
    /\ Takes(p, RequestTypes \cup {"KEEPALIVE", "ERROR"} \cup (IF p = Client THEN {"SETUP"} ELSE {}))
    /\ NextFrame(p)
    /\ UNCHANGED <<connVars, socket, loop, wire, alive, countVars>>

\* Slip: the reply asks for a reply.
EchoType == "PING"
\* encodeKeepAlive(false, ...).
ReplyType == "KEEPALIVE"

\* receiveFrame: a KEEPALIVE with the respond flag is answered.
ServePing(p) ==
    /\ HasRequester(p)
    /\ Takes(p, {"PING"})
    /\ NextFrame(p)
    /\ Write(p, F(ReplyType))
    /\ UNCHANGED <<connVars, socket, loop, countVars>>

\* A text message: the server sends it back, in a try; the client logs it.
TakeText(p) ==
    /\ Takes(p, {"TEXT"})
    /\ NextFrame(p)
    /\ wire' = IF p = Server /\ socket[p] = "open"
               THEN [wire EXCEPT ![Other(p)] = Append(@, F("TEXT"))] ELSE wire
    /\ UNCHANGED <<connVars, socket, loop, alive, countVars>>

-----------------------------------------------------------------------------
(* The environment                                                         *)

\* The peer is another implementation of the protocol: a server that pings or
\* reports an error, a client that pings or sends a second SETUP, or a text.
Foreign(p) ==
    /\ foreign < MaxForeign /\ socket[p] = "open" /\ alive[p]
    /\ connecting = "resolved"
    /\ foreign' = foreign + 1
    /\ \E type \in {"PING", IF p = Client THEN "SETUP" ELSE "ERROR"}
                   \cup (IF transport = "ws" THEN {"TEXT"} ELSE {}) :
          wire' = [wire EXCEPT ![Other(p)] = Append(@, F(type))]
    /\ UNCHANGED <<connVars, socket, loop, chunk, alive, countVars, setupLost>>

\* The connection is reset, or lost, as p sees it.
Lose(p) ==
    /\ p \in Lossy /\ socket[p] = "open"
    /\ socket' = [socket EXCEPT ![p] = "lost"]
    /\ UNCHANGED <<connVars, loop, chunk, wire, alive, countVars, parseVars>>

-----------------------------------------------------------------------------
Take(p) == ServeFrame(p) \/ ServePing(p) \/ TakeText(p)

Next ==
    \/ \E early \in EarlyRequests : Connect(early)
    \/ ConnectRefused \/ SetupWritten \/ SetupFails \/ Tick
    \/ AcceptSetup \/ RefuseSetup \/ DropFrame
    \/ \E p \in Peer :
          \/ Request(p) \/ Close(p) \/ Closed(p)
          \/ Read(p) \/ EndOfFile(p) \/ ReadFails(p) \/ WsEnds(p) \/ Take(p)
          \/ Foreign(p) \/ Lose(p)

Spec == Init /\ [][Next]_vars

\* The event loops run: reads settle, chunks are worked off, intervals fire.
FairSpec ==
    /\ Spec
    /\ WF_vars(Tick)
    /\ WF_vars(AcceptSetup \/ RefuseSetup \/ DropFrame)
    /\ \A p \in Peer : /\ WF_vars(Read(p)) /\ WF_vars(ReadFails(p)) /\ WF_vars(WsEnds(p))
                       /\ WF_vars(Take(p)) /\ WF_vars(Closed(p))

-----------------------------------------------------------------------------
(* What the server's loop may find                                         *)

SetupFirst(s) ==
    \A k \in 1..Len(s) : s[k].early \/ \E j \in 1..(k - 1) : s[j].type = "SETUP"

\* As long as the server has no requester, its SETUP is still to be taken unless
\* it was lost, and before it only what was written before connect() resolved.
SetupAhead ==
    requester = "none" /\ ~refused /\ ~setupLost =>
        /\ connecting \in {"writing", "resolved"} =>
               HasSetup(chunk[Server]) \/ HasSetup(wire[Server])
        /\ SetupFirst(chunk[Server])
        /\ HasSetup(chunk[Server]) \/ SetupFirst(wire[Server])

\* Nothing has happened before connect(); a TCP connection with a refused SETUP
\* is closed, and nothing is left to take from it.
RefusedIsClosed ==
    /\ connecting = "idle" =>
           /\ ~refused /\ requester = "none"
           /\ chunk[Server] = <<>> /\ socket[Server] = "none" /\ loop[Server] = "off"
    /\ transport = "tcp" =>
           /\ socket[Server] # "closing"
           /\ refused => socket[Server] = "closed" /\ chunk[Server] = <<>>

-----------------------------------------------------------------------------
(* Properties                                                              *)

\* Only what was written before connect() resolved can meet a server without a
\* requester: a request made on the RSocket that connect() returns never comes
\* before its SETUP (the accept loops drop frames silently until then).  That is
\* so whatever the parser finds in the data of an early request, unless this one
\* makes it miss the SETUP behind it; and after a refused SETUP messages of a
\* WebSocket still arrive, and are dropped.
OnlyEarlyDropped ==
    lateDropped => setupLost \/ (transport = "ws" /\ refused)

\* After the server's acceptor has refused a SETUP nothing more is served on
\* that TCP connection, not even the rest of the chunk (RSocketResponder.accept).
\* (Over a WebSocket only a connection without another SETUP is so.)
RefusedServesNothing ==
    [][refused /\ Take(Server) => transport = "ws" /\ (requester # "none" \/ TakeText(Server))]_vars

\* close() stops the keepalive interval for good, even when it is called while
\* the setup frame is being written and the interval is set only afterwards.
TimerStops == closed[Client] ~> [](timer = "off" \/ ~Runs(Client))

\* A connection closed at this end ends its read loop; not so for the client of
\* a WebSocket, whose loop goes round for ever.  And a WebSocket that is closed
\* at the client's end ends the server's loop.
LoopEnds ==
    /\ \A p \in Peer :
          socket[p] = "closed" ~>
              loop[p] \in {"off", "ended"} \/ ~alive[p] \/ (transport = "ws" /\ p = Client)
    /\ socket[Client] = "closed" /\ transport = "ws" ~> loop[Server] = "ended" \/ ~alive[Server]

InTransit(type) ==
    \E p \in Peer : \E s \in {wire[p], chunk[p]} : \E k \in 1..Len(s) : s[k].type = type

\* Keepalives do not echo: a ping is answered by something that is not, and
\* unless nobody reads it, it is gone in the end.
PingsDieOut == []<>(InTransit("PING") => Broken \/ loop[Client] = "off")

\* rsocket/RSocket.ts: availability() "returns positive number representing
\* the availability of RSocket requester [...] 0.0 means not available": the
\* requester whose read loop has met the end of the connection is not.
availability(p) == IF closed[p] THEN 0 ELSE 1
AvailabilityTruthful ==
    \A p \in Peer : loop[p] \in {"spinning", "ended"} /\ HasRSocket(p) => availability(p) = 0
=============================================================================
