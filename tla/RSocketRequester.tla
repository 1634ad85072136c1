--------------------------- MODULE RSocketRequester ---------------------------
(***************************************************************************)
(* rsocket/core/RSocketRequester.ts at both ends of one connection: the    *)
(* requests each end makes, the table `senders` in which it registers      *)
(* them, the handlers its peer runs, the frames between them, and what     *)
(* happens to all of it when the connection breaks.                        *)
(*                                                                         *)
(* Every callback of the code is one action: JavaScript runs it to its end *)
(* before any other.  What the code awaits splits an operation: a request  *)
(* is Request (the frame is written) and later Written or Sent (the        *)
(* promise of that write resolves); a handler is started by HandleRequest  *)
(* and goes on by itself.                                                  *)
(*                                                                         *)
(* A payload is abstracted to the request it belongs to, who produced it   *)
(* and its index, none of which the code reads: what decides where a frame *)
(* goes is its stream identifier alone.  Publishers keep to the Reactive   *)
(* Streams protocol and are subscribed to once.  Assumed: each chunk that  *)
(* is read holds one whole frame, which parseFrames gives back as written. *)
(*                                                                         *)
(* A definition introduced as a slip is what a plausible mistake in the    *)
(* code would make of the definition after it; no specification uses it.   *)
(***************************************************************************)
EXTENDS StreamIds, FiniteSets, Sequences, Functions

CONSTANTS
    Client, Server,  \* the two ends
    Requests,        \* the requests that may be made
    NoRequest,       \* a stream identifier that is not a key of `senders`
    Owner,           \* Owner[r]: the end that makes request r
    Kind,            \* Kind[r]: its interaction model
    MaxItems,        \* bound: payloads per handler and per channel upload
    AckFirst,        \* a write's promise resolves before its answer is read
    Breaks,          \* bound: the ends whose connection may be closed or lost
    Throwing         \* requests whose requestStream handler may throw

Peer == {Client, Server}
Kinds == {"response", "stream", "channel", "fnf", "push"}

ASSUME PeerAssumption == Client # Server
ASSUME RequestAssumption ==
    /\ NoRequest \notin Requests
    /\ Owner \in [Requests -> Peer]
    /\ Kind \in [Requests -> Kinds]
    /\ MaxItems \in Nat \ {0}
ASSUME EnvironmentAssumption ==
    /\ AckFirst \in BOOLEAN
    /\ Breaks \subseteq Peer
    /\ Throwing \subseteq Requests

VARIABLES
    streamId,  \* streamId[p]: the counter of p's StreamIdSupplier
    senders,   \* senders[p][i]: the request registered under identifier i
    call,      \* call[r]: how far r has got at its owner
    sid,       \* sid[r]: the identifier r was given
    signals,   \* signals[r]: what r's subscriber or promise has been told
    upload,    \* upload[r]: a channel's own publisher at the caller
    uploaded,  \* uploaded[r]: how many payloads it has produced
    handler,   \* handler[r]: r's handler at the other end
    replyTo,   \* replyTo[r]: header.streamId in that handler's closure
    emitted,   \* emitted[r]: does the k-th payload it produced carry data?
    wire,      \* wire[p]: the frames on their way to p, one per chunk
    link       \* link[p]: p's end of the connection, and its process

callVars == <<streamId, senders, call, sid, signals>>
handlerVars == <<handler, replyTo, emitted>>
uploadVars == <<upload, uploaded>>
vars == <<callVars, uploadVars, handlerVars, wire, link>>

Other(p) == IF p = Client THEN Server ELSE Client
\* Slip: both ends take their identifiers from the same half.
SameInitial(p) == -1
\* serverSupplier() or clientSupplier(), by `mode`.
Initial(p) == IF p = Client THEN -1 ELSE 0
Answerable(r) == Kind[r] \in {"response", "stream", "channel"}

\* Slip: one more request type without a case in receiveFrame.
HandledButStream(r) == Kind[r] \notin {"channel", "push", "stream"}
\* receiveFrame has no case for REQUEST_CHANNEL; for METADATA_PUSH it has one,
\* but parseFrames skips these frames and never hands it one.
Handled(r) == Kind[r] \notin {"channel", "push"}
Responder(r) == Other(Owner[r])

Frame == [type : {"REQUEST", "PAYLOAD", "ERROR"}, sid : 0..MASK,
          req : Requests, by : {"caller", "handler"}, item : 0..MaxItems,
          data : BOOLEAN, complete : BOOLEAN]

Signal == [on : {"Subscribe", "Next", "Complete", "Error"}, req : Requests,
           by : {"caller", "handler"}, item : 0..MaxItems]

TypeOK ==
    /\ streamId \in [Peer -> -1..MASK]
    /\ senders \in [Peer -> [0..MASK -> Requests \cup {NoRequest}]]
    /\ call \in [Requests -> {"idle", "writing", "failing", "refused", "open", "over"}]
    /\ sid \in [Requests -> 0..MASK]
    /\ signals \in [Requests -> Seq(Signal)]
    /\ upload \in [Requests -> {"none", "open", "ended"}]
    /\ uploaded \in [Requests -> 0..MaxItems]
    /\ handler \in [Requests -> {"none", "running", "completed", "failed", "swallowed"}]
    /\ replyTo \in [Requests -> 0..MASK]
    /\ emitted \in [Requests -> Seq(BOOLEAN)]
    /\ \A r \in Requests : Len(emitted[r]) <= MaxItems
    /\ wire \in [Peer -> Seq(Frame)]
    /\ link \in [Peer -> {"up", "down", "dead"}]

Init ==
    /\ streamId = [p \in Peer |-> Initial(p)]
    /\ senders = [p \in Peer |-> [i \in 0..MASK |-> NoRequest]]
    /\ call = [r \in Requests |-> "idle"]
    /\ sid = [r \in Requests |-> 0]
    /\ signals = [r \in Requests |-> <<>>]
    /\ upload = [r \in Requests |-> "none"]
    /\ uploaded = [r \in Requests |-> 0]
    /\ handler = [r \in Requests |-> "none"]
    /\ replyTo = [r \in Requests |-> 0]
    /\ emitted = [r \in Requests |-> <<>>]
    /\ wire = [p \in Peer |-> <<>>]
    /\ link = [p \in Peer |-> "up"]

-----------------------------------------------------------------------------
(* Frames and writes                                                       *)

RequestFrame(r, id) ==
    [type |-> "REQUEST", sid |-> id, req |-> r, by |-> "caller",
     item |-> 0, data |-> TRUE, complete |-> FALSE]

\* encodePayloadFrame(id, complete, payload): a payload without data, or none.
PayloadFrame(r, id, by, item, data, complete) ==
    [type |-> "PAYLOAD", sid |-> id, req |-> r, by |-> by,
     item |-> item, data |-> data, complete |-> complete]

\* Slip: an error ends the stream as a completion does.
ErrorAsCompletion(r, id, by) == PayloadFrame(r, id, by, 0, FALSE, TRUE)
ErrorFrame(r, id, by) ==
    [type |-> "ERROR", sid |-> id, req |-> r, by |-> by,
     item |-> 0, data |-> FALSE, complete |-> FALSE]

Broken == \E p \in Peer : link[p] # "up"

Send(p, f) == wire' = [wire EXCEPT ![Other(p)] = Append(@, f)]

\* connection.write(f).then() with no rejection handler.  A write to a closed
\* connection, and possibly one to a lost peer, is rejected; the rejection is
\* unhandled and ends the process.
Write(p, f) ==
    \/ link[p] = "up" /\ Send(p, f) /\ UNCHANGED link
    \/ Broken /\ link' = [link EXCEPT ![p] = "dead"] /\ UNCHANGED wire

-----------------------------------------------------------------------------
(* The caller                                                              *)

\* Slip: the identifiers in use are not looked at.
NextStreamIdBlind(p, id) == IsNextStreamId(Initial(p), streamId[p], {}, id)

\* nextStreamId(this.senders); StreamIdSupplier.tla shows the loop does this.
NextStreamId(p, id) ==
    IsNextStreamId(Initial(p), streamId[p],
                   {i \in 1..MASK : senders[p][i] # NoRequest}, id)

\* Assumed: the supplier does not come round to an identifier while the write
\* of the request that holds it is still unresolved, 2^30 requests later.
NoFullTurn(p, id) ==
    \A r \in Requests : (Owner[r] = p /\ call[r] = "writing") => sid[r] # id

\* requestResponse, requestStream and requestChannel (when subscribed to),
\* fireAndForget: take an identifier and write the request frame.
Request(r) ==
    LET p == Owner[r] IN
    /\ Kind[r] # "push"
    /\ call[r] = "idle" /\ link[p] # "dead"
    /\ \E id \in IdsOf(Initial(p)) :
          /\ NextStreamId(p, id) /\ NoFullTurn(p, id)
          /\ streamId' = [streamId EXCEPT ![p] = id]
          /\ sid' = [sid EXCEPT ![r] = id]
          /\ IF link[p] = "up" THEN Send(p, RequestFrame(r, id)) ELSE UNCHANGED wire
    /\ call' = [call EXCEPT ![r] = IF link[p] = "up" THEN "writing" ELSE "failing"]
    /\ UNCHANGED <<senders, signals, uploadVars, handlerVars, link>>

\* metadataPush: no stream identifier, the frame has stream 0.
MetadataPush(r) ==
    LET p == Owner[r] IN
    /\ Kind[r] = "push"
    /\ call[r] = "idle" /\ link[p] # "dead"
    /\ IF link[p] = "up" THEN Send(p, RequestFrame(r, 0)) ELSE UNCHANGED wire
    /\ call' = [call EXCEPT ![r] = IF link[p] = "up" THEN "writing" ELSE "failing"]
    /\ UNCHANGED <<streamId, senders, sid, signals, uploadVars, handlerVars, link>>

SubscribeSignal(r) == [on |-> "Subscribe", req |-> r, by |-> "caller", item |-> 0]

\* Slip: the subscriber is registered but never told.
NoOnSubscribe(r) == signals
\* processor.onSubscribe(...); the promise of requestResponse has none.
OnSubscribe(r) ==
    IF Kind[r] = "response" THEN signals
    ELSE [signals EXCEPT ![r] = Append(@, SubscribeSignal(r))]

\* The write of an answerable request resolves: senders.set, and for a stream
\* or a channel onSubscribe; a channel subscribes to the caller's publisher.
Written(r) ==
    LET p == Owner[r] IN
    /\ Answerable(r) /\ call[r] = "writing" /\ link[p] # "dead"
    /\ senders' = [senders EXCEPT ![p][sid[r]] = r]
    /\ call' = [call EXCEPT ![r] = "open"]
    /\ signals' = OnSubscribe(r)
    /\ upload' = [upload EXCEPT ![r] = IF Kind[r] = "channel" THEN "open" ELSE @]
    /\ UNCHANGED <<streamId, sid, uploaded, handlerVars, wire, link>>

\* The write of a fire-and-forget or metadata push resolves, and with it the
\* promise of the caller.
Sent(r) ==
    /\ ~Answerable(r) /\ call[r] = "writing" /\ link[Owner[r]] # "dead"
    /\ call' = [call EXCEPT ![r] = "over"]
    /\ UNCHANGED <<streamId, senders, sid, signals, uploadVars, handlerVars, wire, link>>

\* The write of a request is rejected.  fireAndForget and metadataPush pass
\* the rejection on; in the others no handler takes it and the process ends.
WriteFails(r) ==
    LET p == Owner[r] IN
    /\ call[r] = "failing" \/ (call[r] = "writing" /\ Broken)
    /\ link[p] # "dead"
    /\ call' = [call EXCEPT ![r] = "refused"]
    /\ link' = IF Answerable(r) THEN [link EXCEPT ![p] = "dead"] ELSE link
    /\ UNCHANGED <<streamId, senders, sid, signals, uploadVars, handlerVars, wire>>

\* The caller's publisher of a channel produces a payload.
UploadNext(r) ==
    LET p == Owner[r] IN
    /\ upload[r] = "open" /\ uploaded[r] < MaxItems /\ link[p] # "dead"
    /\ uploaded' = [uploaded EXCEPT ![r] = @ + 1]
    /\ Write(p, PayloadFrame(r, sid[r], "caller", uploaded[r] + 1, TRUE, FALSE))
    /\ UNCHANGED <<callVars, upload, handlerVars>>

\* It completes or fails.
UploadEnd(r) ==
    LET p == Owner[r] IN
    /\ upload[r] = "open" /\ link[p] # "dead"
    /\ upload' = [upload EXCEPT ![r] = "ended"]
    /\ \/ Write(p, PayloadFrame(r, sid[r], "caller", 0, FALSE, TRUE))
       \/ Write(p, ErrorFrame(r, sid[r], "caller"))
    /\ UNCHANGED <<callVars, uploaded, handlerVars>>

-----------------------------------------------------------------------------
(* The handler: receiveFrame's request cases and what they leave running.  *)

\* p reads the next frame, one of this type.
Reads(p, types) ==
    /\ link[p] = "up"
    /\ wire[p] # <<>> /\ Head(wire[p]).type \in types
    /\ wire' = [wire EXCEPT ![p] = Tail(@)]

\* REQUEST_RESPONSE, REQUEST_STREAM, REQUEST_FNF.
HandleRequest(p) ==
    /\ Reads(p, {"REQUEST"})
    /\ LET f == Head(wire[p]) IN
          /\ Handled(f.req)
          /\ handler' = [handler EXCEPT ![f.req] = "running"]
          /\ replyTo' = [replyTo EXCEPT ![f.req] = f.sid]
    /\ UNCHANGED <<callVars, uploadVars, emitted, link>>

\* REQUEST_CHANNEL, METADATA_PUSH.
IgnoreRequest(p) ==
    /\ Reads(p, {"REQUEST"})
    /\ ~Handled(Head(wire[p]).req)
    /\ UNCHANGED <<callVars, uploadVars, handlerVars, link>>

Runs(r, kinds) ==
    /\ Kind[r] \in kinds
    /\ handler[r] = "running" /\ link[Responder(r)] # "dead"

\* The promise of requestResponse resolves: one frame, payload and completion.
Answer(r, data) ==
    /\ Runs(r, {"response"})
    /\ handler' = [handler EXCEPT ![r] = "completed"]
    /\ emitted' = [emitted EXCEPT ![r] = <<data>>]
    /\ Write(Responder(r), PayloadFrame(r, replyTo[r], "handler", 1, data, TRUE))
    /\ UNCHANGED <<callVars, uploadVars, replyTo>>

\* The publisher of requestStream calls onNext.
EmitNext(r, data) ==
    /\ Runs(r, {"stream"})
    /\ Len(emitted[r]) < MaxItems
    /\ emitted' = [emitted EXCEPT ![r] = Append(@, data)]
    /\ Write(Responder(r), PayloadFrame(r, replyTo[r], "handler",
                                        Len(emitted[r]) + 1, data, FALSE))
    /\ UNCHANGED <<callVars, uploadVars, handler, replyTo>>

\* It calls onComplete.
EmitComplete(r) ==
    /\ Runs(r, {"stream"})
    /\ handler' = [handler EXCEPT ![r] = "completed"]
    /\ Write(Responder(r), PayloadFrame(r, replyTo[r], "handler", 0, FALSE, TRUE))
    /\ UNCHANGED <<callVars, uploadVars, replyTo, emitted>>

\* Slip: the error is caught and not sent.
FailSilently(r) ==
    /\ Runs(r, {"response", "stream"})
    /\ handler' = [handler EXCEPT ![r] = "failed"]
    /\ UNCHANGED <<callVars, uploadVars, replyTo, emitted, wire, link>>

\* It calls onError, or the promise of requestResponse rejects.
Fail(r) ==
    /\ Runs(r, {"response", "stream"})
    /\ handler' = [handler EXCEPT ![r] = "failed"]
    /\ Write(Responder(r), ErrorFrame(r, replyTo[r], "handler"))
    /\ UNCHANGED <<callVars, uploadVars, replyTo, emitted>>

\* requestStream or its publisher's subscribe throws: catch (e) {}.
Swallow(r) ==
    /\ Runs(r, {"stream"}) /\ r \in Throwing
    /\ handler' = [handler EXCEPT ![r] = "swallowed"]
    /\ UNCHANGED <<callVars, uploadVars, replyTo, emitted, wire, link>>

\* fireAndForget settles; a failure is only logged.
Finish(r) ==
    /\ Runs(r, {"fnf"})
    /\ \E outcome \in {"completed", "failed"} :
          handler' = [handler EXCEPT ![r] = outcome]
    /\ UNCHANGED <<callVars, uploadVars, replyTo, emitted, wire, link>>

-----------------------------------------------------------------------------
(* The answer: receiveFrame's PAYLOAD and ERROR cases.                     *)

SignalOf(on, f) == [on |-> on, req |-> f.req, by |-> f.by, item |-> f.item]

\* A promise keeps the first of its settlements.
Settled(old, news) ==
    IF old # <<>> \/ news = <<>> THEN old ELSE <<Head(news)>>

Notified(s, news) ==
    IF Kind[s] = "response" THEN Settled(signals[s], news) ELSE signals[s] \o news

\* Slips: onNext without a look at the data; a completing frame's payload is
\* not passed on.
PayloadSignalsUnchecked(f) ==
    <<SignalOf("Next", f)>> \o
    (IF f.complete THEN <<SignalOf("Complete", f)>> ELSE <<>>)
PayloadSignalsOnce(f) ==
    IF f.complete THEN <<SignalOf("Complete", f)>>
    ELSE IF f.data THEN <<SignalOf("Next", f)>> ELSE <<>>

\* onNext when there is data, then onComplete when the frame completes.
PayloadSignals(f) ==
    (IF f.data THEN <<SignalOf("Next", f)>> ELSE <<>>) \o
    (IF f.complete THEN <<SignalOf("Complete", f)>> ELSE <<>>)

\* With AckFirst an answer is not read before its request's write resolves.
InTurn(f) == AckFirst /\ f.by = "handler" => call[f.req] # "writing"

\* The subscriber, if there is one, registered under the frame's identifier.
Receiver(p) == senders[p][Head(wire[p]).sid]

\* Slip: the entry stays.
KeepRegistered(p, id) == UNCHANGED senders

\* senders.delete(streamId), once its last frame is here.
Unregister(p, id) == senders' = [senders EXCEPT ![p][id] = NoRequest]

ReceivePayload(p) ==
    /\ Reads(p, {"PAYLOAD"})
    /\ LET f == Head(wire[p])
           s == Receiver(p)
       IN /\ InTurn(f)
          /\ s # NoRequest
          /\ signals' = [signals EXCEPT ![s] = Notified(s, PayloadSignals(f))]
          /\ IF f.complete
             THEN Unregister(p, f.sid) /\ call' = [call EXCEPT ![s] = "over"]
             ELSE UNCHANGED <<senders, call>>
    /\ UNCHANGED <<streamId, sid, uploadVars, handlerVars, link>>

ReceiveError(p) ==
    /\ Reads(p, {"ERROR"})
    /\ LET f == Head(wire[p])
           s == Receiver(p)
       IN /\ InTurn(f)
          /\ s # NoRequest
          /\ signals' = [signals EXCEPT ![s] = Notified(s, <<SignalOf("Error", f)>>)]
          /\ Unregister(p, f.sid)
          /\ call' = [call EXCEPT ![s] = "over"]
    /\ UNCHANGED <<streamId, sid, uploadVars, handlerVars, link>>

\* No subscriber: the frame is dropped without a trace.
Drop(p) ==
    /\ Reads(p, {"PAYLOAD", "ERROR"})
    /\ InTurn(Head(wire[p]))
    /\ Receiver(p) = NoRequest
    /\ UNCHANGED <<callVars, uploadVars, handlerVars, link>>

-----------------------------------------------------------------------------
(* p closes the connection, or loses it: frames it wrote last may be lost. *)

Disconnect(p) ==
    LET q == Other(p) IN
    /\ p \in Breaks /\ link[p] = "up"
    /\ link' = [link EXCEPT ![p] = "down"]
    /\ \E n \in 0..Len(wire[q]) : wire' = [wire EXCEPT ![q] = SubSeq(@, 1, n)]
    /\ UNCHANGED <<callVars, uploadVars, handlerVars>>

-----------------------------------------------------------------------------
Call(r) ==
    \/ Request(r) \/ MetadataPush(r) \/ Written(r) \/ Sent(r) \/ WriteFails(r)
    \/ UploadNext(r) \/ UploadEnd(r)

Handle(r) ==
    \/ \E data \in BOOLEAN : Answer(r, data) \/ EmitNext(r, data)
    \/ EmitComplete(r) \/ Fail(r) \/ Swallow(r) \/ Finish(r)

Receive(p) ==
    \/ HandleRequest(p) \/ IgnoreRequest(p)
    \/ ReceivePayload(p) \/ ReceiveError(p) \/ Drop(p)

Next ==
    \/ \E r \in Requests : Call(r) \/ Handle(r)
    \/ \E p \in Peer : Receive(p) \/ Disconnect(p)

Spec == Init /\ [][Next]_vars

\* A handler ends, one way or another.
HandlerEnds(r) ==
    (\E data \in BOOLEAN : Answer(r, data)) \/ EmitComplete(r) \/ Fail(r) \/ Finish(r)

\* Each read loop goes on reading, the promise of each write settles, and the
\* application's handlers end.
FairSpec ==
    /\ Spec
    /\ \A p \in Peer : WF_vars(Receive(p))
    /\ \A r \in Requests : WF_vars(Written(r) \/ Sent(r)) /\ WF_vars(HandlerEnds(r))

-----------------------------------------------------------------------------
(* What the wire may hold                                                  *)

Last(f) == f.type = "ERROR" \/ f.complete

\* A request frame is on its way to a handler that has not started.
RequestFrameOK(p, f) ==
    f.type = "REQUEST" =>
        /\ f.by = "caller" /\ p = Responder(f.req) /\ f.sid = sid[f.req]
        /\ ~f.complete
        /\ handler[f.req] = "none" /\ call[f.req] \notin {"idle", "failing"}

\* A channel's payload is on its way to the end that did not make the channel.
UploadFrameOK(p, f) ==
    f.type # "REQUEST" /\ f.by = "caller" =>
        /\ Kind[f.req] = "channel" /\ p = Responder(f.req)
        /\ call[f.req] \notin {"idle", "failing"}
        /\ f.sid \in IdsOf(Initial(Owner[f.req]))

\* An answer is on its way to a request that has not settled, under its
\* identifier, and only the last one says how the handler ended.
AnswerFrameOK(p, f) ==
    f.by = "handler" =>
        /\ f.type # "REQUEST"
        /\ Kind[f.req] \in {"response", "stream"}
        /\ p = Owner[f.req] /\ f.sid = sid[f.req]
        /\ call[f.req] \in {"writing", "open", "refused"}
        /\ handler[f.req] # "none"
        /\ f.type = "ERROR" => handler[f.req] = "failed"
        /\ f.complete => handler[f.req] = "completed"

FrameOK(p, f) == RequestFrameOK(p, f) /\ UploadFrameOK(p, f) /\ AnswerFrameOK(p, f)
FramesOK == \A p \in Peer : \A f \in Range(wire[p]) : FrameOK(p, f)

\* No request is sent twice, and no answer follows the last one.
WireOrderOK ==
    \A p \in Peer : \A j, k \in 1..Len(wire[p]) :
        j < k /\ wire[p][j].req = wire[p][k].req =>
            /\ wire[p][k].type # "REQUEST"
            /\ ~(wire[p][j].by = "handler" /\ Last(wire[p][j]))

\* Requests that hold an identifier hold one each.
Holds(r) == Answerable(r) /\ call[r] \in {"writing", "open"}
UniqueIds ==
    \A r, s \in Requests :
        Holds(r) /\ Holds(s) /\ Owner[r] = Owner[s] /\ sid[r] = sid[s] => r = s

\* A request settles only after its handler has ended.
CallOK(r) ==
    /\ call[r] \in {"idle", "failing"} => handler[r] = "none" /\ upload[r] = "none"
    /\ call[r] = "idle" \/ Kind[r] = "push" => sid[r] = 0
    /\ handler[r] # "none" => replyTo[r] = sid[r] /\ Handled(r)
    /\ Answerable(r) /\ call[r] = "over" => handler[r] \in {"completed", "failed"}
    /\ call[r] # "idle" /\ Kind[r] # "push" => sid[r] \in IdsOf(Initial(Owner[r]))
    /\ call[r] = "refused" /\ Answerable(r) => link[Owner[r]] = "dead"
    /\ upload[r] # "none" => Kind[r] = "channel"
CallsOK == \A r \in Requests : CallOK(r)

-----------------------------------------------------------------------------
(* Properties                                                              *)

SignalsOf(r) ==
    [on : {"Subscribe"}, req : {r}, by : {"caller"}, item : {0}] \cup
    [on : {"Next", "Complete", "Error"}, req : {r}, by : {"handler"}, item : 0..MaxItems]

\* No cross-talk: whatever a requester is told, through receiveFrame's lookup
\* in `senders`, was produced by the handler of that very request, although
\* identifiers are used again after the supplier turns round, both ends use
\* the same wire and a channel's own payloads travel as PAYLOAD frames too.
OwnAnswers == \A r \in Requests : signals[r] \in Seq(SignalsOf(r))

Terminal == {"Complete", "Error"}

\* Reactive Streams' rule 1.7 and 1.9 for the subscribers of requestStream and
\* requestChannel: onSubscribe comes first and once, nothing comes after
\* onComplete or onError; the promise of requestResponse settles once.
SignalOrder ==
    \A r \in Requests : \A k \in 1..Len(signals[r]) :
        /\ signals[r][k].on \in Terminal => k = Len(signals[r])
        /\ IF Kind[r] = "response" THEN k = 1
           ELSE signals[r][k].on = "Subscribe" <=> k = 1

\* A subscriber gets the payloads of its stream in the order the handler
\* produced them, each at most once, and only those that carry data; this
\* holds even where the first ones arrive before it is registered.
InOrder ==
    \A r \in Requests : \A k \in 1..Len(signals[r]) :
        signals[r][k].on = "Next" =>
            /\ signals[r][k].item \in 1..Len(emitted[r])
            /\ emitted[r][signals[r][k].item]
            /\ \A j \in 1..(k - 1) : signals[r][j].item < signals[r][k].item

\* A requester is told of a completion or an error only when its handler
\* ended so; it never learns an outcome from somebody else's frame.
OutcomeTruthful ==
    \A r \in Requests : \A k \in 1..Len(signals[r]) :
        /\ signals[r][k].on = "Complete" => handler[r] = "completed"
        /\ signals[r][k].on = "Error" => handler[r] = "failed"

\* `senders` holds exactly the open requests of its end, each under the
\* identifier its handler replies to: no entry outlives its request, none is
\* overwritten by another's, none is missing.
SendersAreOpen ==
    /\ \A p \in Peer, i \in 0..MASK :
          LET r == senders[p][i] IN
          r # NoRequest => Owner[r] = p /\ sid[r] = i /\ call[r] = "open" /\ Answerable(r)
    /\ \A r \in Requests : call[r] = "open" => senders[Owner[r]][sid[r]] = r

Indices(r) == {k \in 1..Len(emitted[r]) : emitted[r][k]}
Received(r) == {signals[r][k].item : k \in {j \in 1..Len(signals[r]) : signals[r][j].on = "Next"}}

\* When the subscriber of a stream is told of its completion it has had every
\* payload with data that the handler produced, provided answers are read after
\* the request's write has resolved.
NothingMissing ==
    \A r \in Requests :
        (\E k \in 1..Len(signals[r]) : signals[r][k].on = "Complete") =>
            Received(r) = Indices(r)

Ended(r) == handler[r] \in {"completed", "failed", "swallowed"}

\* The handler of an answerable request has ended, none of its frames is on
\* the way, the connection is up, and yet its caller waits.
AnswerLost(r) ==
    /\ Answerable(r) /\ Ended(r) /\ ~Broken
    /\ \A k \in 1..Len(wire[Owner[r]]) : wire[Owner[r]][k].req # r
    /\ call[r] # "over"

\* rsocket/RSocket.ts: the promise of requestResponse "resolves with the
\* response", the publisher of requestStream "returns values representing the
\* response(s)": no caller is left waiting for a handler that has ended.
NoAnswerLost == \A r \in Requests : ~AnswerLost(r)

\* Every request that is written settles once its handler ends, unless the
\* connection breaks, if answers are read after the write has resolved.
RequestSettles ==
    \A r \in Requests :
        Kind[r] # "channel" => (call[r] = "writing" ~> call[r] = "over" \/ Broken)
-----------------------------------------------------------------------------
(* The promise of one interaction                                          *)

\* The members of a finite set of numbers, each once, in their order.
Ascending(S) ==
    CHOOSE s \in [1..Cardinality(S) -> S] :
        /\ Range(s) = S
        /\ \A j, k \in 1..Cardinality(S) : j < k => s[j] < s[k]

ItemsWithData(r) == Ascending(Indices(r))

\* The items of the payloads that a subscriber with these signals has had.
NextsIn(told) == {k \in 1..Len(told) : told[k].on = "Next"}
ItemsIn(told) ==
    LET nexts == Ascending(NextsIn(told)) IN [k \in DOMAIN nexts |-> told[nexts[k]].item]
ItemsTold(r) == ItemsIn(signals[r])

\* A promise has settled with its first signal, a subscriber with its last.
OutcomeTold(r) ==
    CASE \E s \in Range(signals[r]) : s.on = "Error" -> "failed"
      [] \E s \in Range(signals[r]) : s.on \in
             (IF Kind[r] = "response" THEN {"Next", "Complete"} ELSE {"Complete"}) -> "completed"
      [] OTHER -> "open"

\* A requestStream that throws never tells its caller that it has ended.
EndOf(r) == IF handler[r] \in {"completed", "failed"} THEN handler[r] ELSE "open"
=============================================================================
