# A TLA+ model of rsocket-deno

rsocket-deno (`src/`) implements the RSocket protocol for Deno: a client connects to a
server over TCP or WebSocket, both ends get an `RSocket`, and either may make requests of
five kinds (fire-and-forget, request/response, request/stream, request/channel, metadata
push) on the one connection.  This directory holds TLA+ modules that model that code, TLC
configurations that check them on small instances, and TLAPS proofs of what holds for
every instance.  Paths below are relative to the repository, e.g. `src/rsocket/...`.

## 1. Inventory

| Component | State it keeps | Operations |
|---|---|---|
| **Stream identifiers** `core/StreamIdSupplier.ts` | `streamId`, the last one handed out | `nextStreamId(senders)`: a loop that counts up by two, turns round at `MASK`, skips the keys of the map it is given |
| **Requester and responder** `core/RSocketRequester.ts` | `senders` (stream id -> subscriber), the supplier, `_closed`, `keepAliveTimer`, the connection, the application's `responder` | the five request methods, `receiveFrame`, `sendSetupPayload`, `close`, `availability` |
| **Connection lifecycle** `RSocketConnector.ts`, `core/RSocketResponder.ts`, `DuplexConnection.ts` | locals of `connect()` and of the accept loop: the requester (`null` until SETUP), `closed`; the socket | `connect`, `accept`, the two read loops, the acceptor's decision |
| **Frame codec** `frame/frame.ts` | none | `parseFrames` and decoders over a chunk, one encoder per frame type |
| **Byte buffer** `io/ByteBuffer.ts` | bytes, reader index, writer index | reads, writes, resets, integer conversions |
| **Reactive Streams** `src/reactivestreams/mod.ts` | a processor's subscriber; the generator's `values`, `error` and `done` | `onNext/onError/onComplete`, `subscribe`, the two conversions |
| **Load balancer** `loadbalance/LoadBalanceRSocket.ts` | the pool `connections`, `url2Conn`, `poolSize`, `counter` | `refreshUrl`, `getRandomRSocket`, the five request methods, `close` |
| **Composite metadata** `metadata/CompositeMetadata.ts` | a buffer and, once something was looked up, `_map` | `addMetadata`, iteration, `findEntry`; tags and routing in and out of bytes |
| **Router and stubs** `core/RSocketRouter.ts` | `serviceCollection` | `addService`, the five handlers, `buildServiceStub` |
| **Server and acceptors** `RSocketServer.ts`, `SocketAcceptor.ts` | configuration | `bind`, the ready-made acceptors |
| **Public interface** `RSocket.ts`, `Payload.ts`, `RSocketError.ts`, `mod.ts` | none | interfaces, value classes, re-exports |

**How they interact.**  `connect()` opens the socket, builds an `RSocketRequester`, starts
the read loop *without* waiting for it, then awaits `sendSetupPayload`.  The server's
accept loop starts a read loop per connection; the first SETUP makes it build a requester
and ask the acceptor for a responder; frames that come earlier meet
`rsocketRequester?.receiveFrame` and vanish.  Each read loop hands a chunk to
`parseFrames` and every frame to `receiveFrame`, which either runs a handler of the
application's (whose promise or publisher later writes frames through the closure's
`header.streamId`) or looks up `senders` and tells the subscriber.  The request methods
take an identifier, write a frame, and register the subscriber *when the promise of that
write resolves*.  `close()` sets `_closed`, clears the keepalive interval and closes the
socket; nothing tells the requester that the socket died by itself.

**What is hard here.**  JavaScript runs one callback at a time, so the interleavings are
those of promise reactions: between a write and its `.then` the read loop may deliver the
answer; between the `await` of the setup frame and the `setInterval` after it the
application may call `close()`; handlers of several streams write to one connection in any
order; generators over one composite metadata share its reader.  Identifiers are re-used after the supplier turns round.  Both ends make requests on
one connection and a channel's payloads travel as PAYLOAD frames like answers do, so only
parity and `senders` keep them apart.  Connections are closed and lost at any point, frames
at the end are lost with them, and a rejected write is an unhandled rejection, which ends
a Deno process.  `parseFrames` keeps nothing between chunks.

**What makes each part correct.**

* Stream identifiers: the one returned is free, of the right parity, the next in turn; the
  loop ends when there is a free one.
* Requester: a caller is told only what its own handler produced, in order, without gaps,
  ended by what really happened; `senders` holds exactly the open requests; every request
  settles.
* Lifecycle: only early frames may meet a server without a requester, a refused connection serves nothing,
  `close()` is final for the timer and for the loop, keepalives do not echo.
* Codec: what one end encodes the other decodes, whatever the chunk boundaries.
* Reactive Streams: values neither lost nor reordered, one terminal signal.
* Load balancer: no connection leaks, and none that is in use is closed.
* Composite metadata: entries come out as they were put in, once, and a lookup finds the latest.
* Router: a routed call reaches the method that it names, and its result comes back in
  the shape the interaction model needs.

`PROJECT.json` lists the hazards line by line with the properties that watch them.

## 2. Plan

1. `StreamIds`, `StreamIdSupplier` (**done**), with proofs (**done**): everything else
   relies on identifiers not being handed out twice.
2. `RSocketRequester` (**done**): the core, both ends of a connection.  Uses the *relation*
   `IsNextStreamId` that `StreamIdSupplier` shows the loop to implement, so that the loop's
   turns are not interleaved with everything else.  Proofs (**done**): types, and every safety
   invariant the runs check.
3. `Interaction` (**done**): what `RSocket.ts` promises of one request, as an abstract
   specification that `RSocketRequester` implements under a refinement mapping: its steps as a
   theorem (**done**), its liveness checked by TLC.
4. `Lifecycle` (**done**, TCP and WebSocket), with proofs of its types, `OnlyEarlyDropped` and
   `RefusedServesNothing` (**done**).
5. `ByteBuffers`, `ByteBuffer`, `Framing` (**done**): what the codec does with every chunk a
   connection may yield.  Theorems: every safety property their runs check (**done**).
6. `AsyncIterator` over `AsyncChannel` (**done**): `src/reactivestreams/mod.ts` with a publisher
   and a consumer that interleave, against a lossless channel.  Theorems: its invariants and the step
   refinement (**done**).
7. `LoadBalance` (**done**): calls of `refreshUrl` in flight with `close()` and requests.  Theorems:
   every safety property its run checks (**done**).
8. `CompositeMetadata` and `Router` (**done**): the object and its generators, and one request
   through a stub, its metadata, the responder and back.  Theorems: every safety property their run
   checks (**done**).

Modules meant for proofs declare parameters as CONSTANTS with named assumptions and no
RECURSIVE operator; their invariants are conjunctions of named parts.

## 3. Modules

### StreamIds, StreamIdSupplier

`StreamIds` has the identifiers of each end (`IdsOf`, odd for the client, even for the
server), one turn of the counter (`Advance`) and the relation `IsNextStreamId`: the first
identifier after the counter that is not in use.  `StreamIdSupplier` is the loop of
`nextStreamId()` one turn per step: `Enter`, `Turn`, `Return`, while the environment
registers (`Register`), forgets (`Abandon`: fire-and-forget takes an identifier that is
never a key) and deletes (`Release`).  `MASK` is a parameter: 0x7FFFFFFF in the code, 7 for
TLC, any number from 3 in the proofs.

### RSocketRequester, MCRSocketRequester

Both ends of a connection whose setup is over.  Each action is one callback of the code.

| Variable | Code |
|---|---|
| `streamId[p]`, `senders[p]` | `streamIdSupplier.streamId`, `senders` of the requester at end `p` |
| `call[r]` | where the request method is: not called, `writing` (until the promise of the write settles; `failing` on a closed socket, `refused` once rejected), `open` (a key of `senders`), `over` |
| `sid[r]` | `streamId` in that method's closure |
| `signals[r]` | what its subscriber or promise was told, oldest first (history) |
| `upload[r]`, `uploaded[r]` | the publisher handed to `requestChannel` |
| `handler[r]`, `replyTo[r]`, `emitted[r]` | the responder's promise or publisher, `header.streamId` in its closure, what it produced (history) |
| `wire[p]` | frames written and not yet read by `p`: TCP keeps their order |
| `link[p]` | `up`, `down` (closed or lost) or `dead` (process ended by an unhandled rejection) |

| Action | Code in `RSocketRequester.ts` |
|---|---|
| `Request`, `MetadataPush` | the synchronous part of the request methods, to `connection.write` |
| `Written`, `Sent`, `WriteFails` | the reaction to the write's promise |
| `UploadNext`, `UploadEnd` | the subscriber `requestChannel` gives to the caller's publisher |
| `HandleRequest`, `IgnoreRequest` | `receiveFrame` on a request frame; those with no case (REQUEST_CHANNEL) or that `parseFrames` skips (METADATA_PUSH) |
| `Answer`, `EmitNext`, `EmitComplete`, `Fail`, `Swallow`, `Finish` | what a handler's promise or publisher does when it goes on |
| `ReceivePayload`, `ReceiveError`, `Drop` | `receiveFrame` on PAYLOAD and ERROR, with and without a subscriber under the identifier |
| `Disconnect` | `close()`, or the loss of the connection; any number of the last frames is lost |

Abstractions: a payload is the request it belongs to, the side that produced it and its
number; the code reads none of these, it finds the subscriber by the stream identifier, and
so do the actions (`Receiver`).  The histories `signals`, `emitted` and the payload's tags
exist for the properties.  The state of the supplier's loop is `IsNextStreamId`.

Assumptions, each named where it is made: a chunk holds one whole frame that comes out as it
was written (for the frames that `Framing!TakesItsBytes` names, `ChunkFaithful` shows it, and
for chunks of several; a REQUEST_STREAM loses its data there, but not its stream or type, and
data play no part here); publishers keep to Reactive Streams and are subscribed to once; an
identifier does not come round again, 2^30 requests later, while the write of the request
that holds it is still pending (`NoFullTurn`).  `AckFirst` is the switch between the code
as it is (`FALSE`: an answer may be read before the write's promise has resolved) and the
favourable schedule (`TRUE`) under which liveness can be asked for at all.

### Interaction

What a caller may rely on in one `requestResponse` or `requestStream`: the handler produces
items and ends (`Work`), the caller is told the next item, the end, or both by one frame
(`Tell`), all of it in the end unless the connection breaks (`Prompt`, `Concluded`).  There are
no identifiers, frames or tables in it.  `RSocketRequester` has the mapping's operators; `MCRSocketRequester`
takes it for a stream of the server's (`StreamPromise`) and a response of the client's
(`ResponsePromise`), `RSocketRequesterProofs` for any request (`Promise(r)`): `ItemsWithData` of
`emitted` is what was produced, since `receiveFrame` passes on no payload without data,
`ItemsTold` and `OutcomeTold` of `signals` what was told, `EndOf` the handler's end.

### Lifecycle

One connection from `connect()` on, over TCP or over a WebSocket (`transport`): `Connect`,
`ConnectRefused`, `SetupWritten`, `SetupFails` for the connector, `AcceptSetup`, `RefuseSetup`,
`DropFrame` for the accept loops, `Read`, `EndOfFile`, `ReadFails`, `WsEnds`, `ServeFrame`,
`ServePing`, `TakeText` for the read loops, `Tick` for the keepalive interval, `Close`, `Closed` and
`Request` for the application, `Foreign` and `Lose` for the environment.  Frames are only their
type; a request counts as served or dropped.  A chunk of TCP may hold several frames (`chunk`),
since `RefuseSetup` leaves the rest of one; a message of a WebSocket holds one.

What `parseFrames` makes of several frames is `NextFrame`.  Behind a frame whose decoder takes its bytes
(`TakesItsBytes`, here request-response and fire-and-forget, ERROR, a lone KEEPALIVE) it goes on with
the next one.  The others (REQUEST_STREAM, REQUEST_CHANNEL, METADATA_PUSH, SETUP, a KEEPALIVE with
something behind it) take too many bytes or too few: what follows in that chunk is read from a wrong byte,
so that some of the frames are missed, and others found that nobody sent (`Stray`; they count as
`foreign`).  Which depends on the bytes, and those are not modelled here but
in `Framing`: any of it may happen.  `setupLost` remembers that a SETUP was among those missed.  Assumed
is that a chunk of TCP ends where a frame does; what becomes of a frame cut in two is `Framing`'s
`ReadCut`.

The transports differ in how they end.  Over TCP, `Deno.iter` ends without an empty chunk at the
end of file and the outer loop starts it again (`spinning`, which gives way to other callbacks at
every read), and a read on a closed or lost connection throws (`ReadFails`).  A WebSocket's
`close()` sends a CLOSE message and the socket is closed when that is out (`closing`); its iteration
ends, without an exception, on a CLOSE, on a lost and on a closed connection (`WsEnds`).  The
server's `handleWs` is then over; the loop of `connect()` iterates again, over a socket whose
iteration ends at once, and so on in microtasks, so that the client's process runs no other
callback (`starving`).  What is used of the standard library's WebSocket is not under `src/`; the
module's head says how much.

Not modelled: `Deno.connect` failing (only rejects), a client acceptor that makes a request and then
refuses, ping and pong events (logged).

### ByteBuffers, ByteBuffer

`ByteBuffers` has `io/ByteBuffer.ts` as operators on a record (`data`, `reader`, `writer`,
`capacity`); a read is two operators, the value (`ReadNumber`, `ReadBytes`) and the buffer it leaves
(`Skip`), because a read past the end returns `undefined` and does not move.  Kept as they are:
`i64ToByteArray`, which writes one byte and at the wrong end, and `resetReaderIndex`, which
resets the writer.  `ByteBuffer` makes a state machine (`BufferSpec`) of them: `Write`, `WriteI64`, `InsertI24`,
`Read`, `Remain`, `Reset` in any order.

### Framing, MCFraming

The encoders (`Encode`), the header and each decoder (`Decode...`), and `parseFrames` one turn of its
loop per step (`Parse`), on bytes.  Chunks arrive as the transports make them: whole frames
(`ReadFrames`, TCP), one message with its length cut off and put back (`ReadMessage`, WebSocket), or
cut inside a frame (`ReadCut`).  A frame is its type, stream, numbers, one flag and two parts; an
ERROR's message is its data, and one byte stands for each MIME type of a SETUP.

`Written` is any set of frames that are `Writable`: what the encoders are given.  Identifiers and
numbers have 31 bits; the intervals of a SETUP are not 0, which its decoder would take for its
defaults; a KEEPALIVE's position is 0, where this library starts and stays; a frame has the parts its
encoder has.  And a frame is no longer than the 24 bits of its length can say: nothing in the code
sees to that, and `ToByteArray` keeps the lowest three bytes.

### AsyncChannel, AsyncIterator

`AsyncIterator` is `publisherToAsyncIterator` suspended at a yield or in its timer of 0 ms while
the publisher tells its subscriber things: a `DefaultQueueProcessor` (`Make`, `Complete`, `Fail`), an
async iterable (also `Throw`), an iterable or an `ErrorPublisher`, which tell everything inside
`subscribe` (`Start`).  `AsyncChannel` is what a user takes it for: everything told is delivered, in
order, then the end.  The mapping: what the subscriber was told is `sent`, its `error`/`done` the
channel's `ending`.  `FollowsChannel` is the part of it that says what steps may do, without the
liveness.

### CompositeMetadata, Router, MCRouter

`CompositeMetadata` is one such object with everything that reads or writes its buffer:
`AddMetadata`, `Iterate` (a new generator, which resets the buffer's index), `Advance` (a generator
asked for its next value), `FindEntry` (which reads all and keeps it in `_map`).  Generators have no
state but the shared reader, so they are counted.  `EntryBytes`, `ReadEntry`, `NextEntry` and
`AllEntries` are the bytes of entries and back, over the operators of `ByteBuffers`.

`Router` extends it by one request: a call of a stub (`StubCall`) or one whose metadata the
application has put together (`OwnRequest`), services registered in between (`AddService`), the
router (`Route`, by `ParseRouting` of the metadata's bytes) or a ready-made acceptor's responder
(`Accept`, with `AbstractRSocket`'s defaults in `Refuse`), how the method ends (`Resolves`, `Fails`,
`Rejects`, `Gives`), and what the caller hears (`HearsError`, `HearsAnswer`, `HearsStream`).  JSON is
what it does to a value: `undefined` has no text, in an array it becomes `null`; a text may be no JSON
at all (`Bad`).  The frames between are `RSocketRequester`'s and arrive, but not as they were: the decoder of a
REQUEST_STREAM takes no data if nothing is behind the frame in its chunk, and otherwise four bytes of
the next frame with them, the first of which is the 0 of its length (`Arriving`; assumed is that no
frame has 64 KiB).  A stub's `findAll...`, `readAll...` and `streamAll...` therefore run their method without
arguments, or not at all, and `CalledAsAsked` claims no more of them.

What the modules assume of their constants is what the bytes of an entry can say, and what
an application that uses the classes hands them:

* `EntriesAssumption`: a content fits the three bytes of its length, and a type's name is shorter than
  128 bytes, because the byte that says how long it is has its highest bit set for a well-known type.
* `KeysAssumption`: the routing keys of the services offered have at most 255 bytes.  `TagBytes` leaves
  a longer tag out without a word, so that a stub of such a service asks for nothing.
* `TagsAssumption`: the content of a routing entry begins with a key, as `RoutingMetadata` makes it.
* `NamesAssumption`: a method's name has no dot (it is an identifier), a service's name may have.
* `ValuesAssumption`: results and lone arguments are JSON values or `undefined`.
* `WellKnownAssumption`, `RoutingAssumption`: no two types of the table share an identifier, identifiers
  have seven bits, and the routing type is in the table.

### LoadBalance, MCLoadBalance

`refreshUrl` from one `await connect()` to the next: `RefreshUrl`, `Connected`, `ConnectFails` each
run on to the next missing url or to the end, where `Swap` replaces the pool and `closeStales`
closes what left the map.  `Request` is `getRandomRSocket`, `RequestThrows` the same with no pool.
`asked`, `turns` and `overlapped` are history.  `NoRepeats` is the assumption that no list of urls names one
twice: `MapMatchesPool` and `NothingLeaks` need it, because a repeated url makes two connections
(section 6).

## 4. What TLC checks

| Run | Shows | Instance |
|---|---|---|
| `supplier` | the loop returns the first free identifier, and ends if one is free | MASK 7: three identifiers, several turns round |
| `requester_races` | a requester gets its own handler's answers (`OwnAnswers`), in order (`InOrder`), in Reactive Streams' form (`SignalOrder`), with the outcome that was (`OutcomeTruthful`); `senders` is exactly the open requests (`SendersAreOpen`).  It has no channel and nothing breaks: with those, the theorems of section 5 are what shows these five | three client requests on two identifiers, a push of the server's, two payloads, answers before registration, a throwing handler |
| `requester_settles` | with `AckFirst`, no gap (`NothingMissing`), no lost answer (`NoAnswerLost`), every request settles unless the connection breaks (`RequestSettles`); a stream and a response are each an `Interaction`, liveness included (`ImplementsInteraction`) | a channel that uploads across a stream of the server's, and a response; the server's connection may break |
| `lifecycle` | only early frames meet a server without a requester, unless the SETUP was missed in its chunk or refused on a WebSocket (`OnlyEarlyDropped`); a refused TCP connection serves nothing (`RefusedServesNothing`); the timer and the loops end, pings die out (`TimerStops`, `LoopEnds`, `PingsDieOut`) | either transport, one request per end, losses at both ends, frames missed in a chunk, and a frame of a foreign peer or one found that nobody sent |
| `byte_buffer` | a number reads back as it was written, whatever was written, inserted or reset since (`FieldsIntact`) | up to 8 bytes, numbers of 1 to 4 bytes |
| `framing` | the six types whose decoder takes its bytes come out as written, several to a chunk (`ChunkFaithful`); the first frame is recognised whatever it is (`FirstFrameRecognised`); every turn takes a byte, so the parser ends (`TurnsTakeBytes`) | all chunks of two out of some fifty frames, and all cuts of one |
| `async_iterator` | a loop that ends has everything (`EndsWithAll`); over a processor the generator implements the channel (`ImplementsChannel`) | four values, all kinds of publisher, truthy and falsy errors |
| `balancer` | the pool and the map agree (`MapMatchesPool`), the round robin is fair (`Balanced`); without overlap no connection leaks, none in use is closed, a url keeps its connection | three calls with four lists of three urls, failures, `close()` |
| `router` | entries come out once and in order over all generators (`EntriesComeOutOnce`), a lookup finds the latest (`FindsLatest`); the method that was named runs, and unless it is a stream's with its argument (`CalledAsAsked`), and the caller is told its outcome (`OutcomeTold`) | two entries out of five, two generators; two services with three methods, stubs with none to two arguments, every kind of responder |
| the three violation runs | the findings of section 6 | one request, frame or connection each |

**Why the bounds suffice.**  `MASK = 3` gives the client identifiers 1 and 3 and the
server 2: with three client requests, one a fire-and-forget whose identifier is never
registered, the supplier must turn round and re-use, and skip one that is held, in every
order.  Two payloads per stream are what is needed for "one lost", "two swapped" and "one after
the end".  `requester_settles` has requests in both directions and gives every crossing on one
connection.  In `Lifecycle` one foreign frame is a second SETUP, a ping, an error or a text, at any
moment of the connection; a further one would meet the same loops, which remember nothing but
the requester.  Or it is one found where none was sent, of any type, a SETUP too, before or behind
the true one.  `MaxWire` only caps the keepalives nobody reads.  Two entries and two generators are
what it takes for one generator to go on where the other has stopped and for a lookup to have an
earlier and a later entry of one type; contents are missing, or would be taken for another entry
by a reader that is one byte off.  One of the two services has the other's name up to a dot.  Eight bytes hold two fields and an insertion between
them, or one number of 64 bits.  Parts of frames are missing, empty, shorter or longer than
the four to eight bytes that decoders take too many; two frames are enough for the damage
one does to the next, since nothing is kept from one turn to the next but the index.  A
KEEPALIVE with RESPOND is not cut, because its flag could become a number of 32 bits, which
TLC's integers do not hold.  `CounterEnd = 5` is no multiple of a pool of two or three, so that
a round is broken off; three calls of `refreshUrl` are one to fill the pool, and two
that may overlap.  Symmetry exchanges the calls of `refreshUrl`, where no liveness is checked.

**Fairness.**  `RSocketRequester!FairSpec`: each read loop goes on reading and the promise of
each write settles (the runtime schedules them and nothing in the code can disable them),
and a handler that runs ends, which is the application's part.  No fairness is given to
making requests, to uploads, to emitting payloads, to breaking.  `Lifecycle!FairSpec`: reads
settle, chunks are worked off, a WebSocket's
close message goes out, the interval fires.  `EndOfFile` is not fair (a spinning loop
must not be what ends anything), nor are `Close`, `Lose` and `Foreign`.  `AsyncIterator`: timers fire
and the loop goes on asking; the publisher owes nothing.  `RequestSettles` is
claimed for a lasting connection: the code never settles what is pending when it breaks
(listed as a hazard; nothing promises it).

`Interaction!Spec` states its liveness as leads-to formulas, which the fairness of `Tell` would
give; `RSocketRequester!FairSpec` implies them.

Only `supplier` checks for deadlock.  Every other run can end, with all requests made and answered,
the connection closed or the process gone.

## 5. What is proved

`StreamIdSupplierProofs`, for every `MASK >= 3` and either parity:

* `TypeCorrect`: counter and identifiers keep their parity and never pass `MASK`.
* `SupplierCorrect`: `Spec => []ResultIsNext`.  `ResultIsNext` is not inductive: in the middle of
  the loop nothing is returned yet.  `AheadOfCounter` says that everything between where the
  loop began and the counter is in use; with it a `Turn` either goes on or returns the first
  free identifier.

`RSocketRequesterProofs`, for any requests, owners, kinds, bounds and environment, in parts.

Types: `TypeCorrect`, `Spec => []TypeOK`.

Answers:

* `SendersCorrect`: `senders` holds exactly the open requests.
* `AnswersAreOwn`: no cross-talk (`OwnAnswers`).
* `OutcomesAreTrue`: nobody is told of an end that was not (`OutcomeTruthful`).

None of the three is inductive: a step of `ReceivePayload` finds the subscriber by the identifier
on the frame, so one must know what frames there can be.  `IInv` says it: `FramesOK` (whose a
frame is, where it goes, under which identifier, and that a last frame tells how its
handler ended; here parity keeps the payloads of a channel's upload away from the requests of the
end that reads them), `WireOrderOK` (no request twice, nothing after the last answer, so that no
frame finds an identifier that has been handed out again), `UniqueIds` (requests waiting for
answers hold different identifiers, which `IsNextStreamId` and `NoFullTurn` give), `CallsOK` (a call
goes no further than its handler) and `SendersAreOpen` itself.  `RSocketRequester`'s
assumptions on its constants are all that is assumed.

Order:

* `SignalsAreOrdered`: `Spec => []SignalOrder`, and `PayloadsAreInOrder`: `Spec => []InOrder`.  The
  invariant `OInv` adds to `IInv` what a caller can have been told in each state of its call
  (`Progress`), that the items on the wire rise (`ItemsRise`), and that each is one its handler
  produced and later than all that its caller has been told (`ItemsOK`).
* `NothingIsMissing`: `AckFirst /\ Spec => []NothingMissing`.  While its handler runs, an item with data is
  with its caller or on the wire; whatever breaks, all items are so ahead of the frame that completes
  the stream, and with the caller once it is told of the completion (`Arriving`).  A break takes frames off
  the end of the wire only.
* `NoneWaitsInVain`: `AckFirst /\ Throwing = {} /\ Spec => []NoAnswerLost`.  The frame by which a handler
  ends is on the wire until its call is over (`Ending`).

Promise:

* `PromiseIsKept`: `AckFirst /\ Spec => Promise(r)!Safe` for every stream and every response `r`: under the
  mapping the initial states are initial states of `Interaction`, and every step is a step of it or
  changes nothing the caller could see.  It rests on all of the above: that the items told are the first of
  those produced is `InOrder` and `NothingMissing` together, that the outcome told is the
  handler's is `OutcomeTruthful`.  The liveness of `Interaction` stays with TLC.

`AckFirst` is assumed by these last three alone: `answer_race` shows `NoAnswerLost` violated without it.

`LifecycleProofs`, for any bounds, any losses and both transports:

* `TypeCorrect`, `LateRequestsServed` (`OnlyEarlyDropped`), `RefusedIsQuiet` (`RefusedServesNothing`).
  The invariant is `TypeOK` with `SetupAhead` (while the server has no requester and has missed no SETUP,
  its SETUP is in the chunk or on the wire, and only what was written before `connect()` resolved is
  ahead of it) and `RefusedIsClosed` (a refused TCP connection is closed and its chunk is gone).  That
  the parser keeps `SetupAhead` is `ParseKeeps`: what it finds behind an early frame is made of the
  bytes behind it, and comes before what it leaves.

`CodecProofs` (with `ByteBuffersLemmas`, what the operators of `ByteBuffers` return), first about
`ByteBuffer`, for any sizes and any numbers:

* `BufferTypeCorrect`: `BufferSpec => []BufferTypeOK`, the indices inside the data and the capacity its length.
* `FieldsCorrect`: `BufferSpec => []FieldsIntact`.  What is invariant is stronger: where a number was
  written the data holds its bytes one by one (`FieldsStand`); a write keeps the bytes before and
  behind it, an insertion moves those behind, and bytes that stand are put together to the
  number they came from (`RoundTrip`, digits to the base of 256).

then about `Framing`, for any bytes a peer may send (`AnySpec`: chunks are arbitrary sequences of bytes,
not only what the encoders write):

* `ParserEnds`: `AnySpec => []TurnsTakeBytes`.  Every decoder only moves its reader ahead inside
  the chunk (`Ahead`, which composes), whatever lengths it has read, because a length is either a
  natural number or missing; and of a header at least one byte is taken even where the rest is
  missing.
* `ParserStaysInside`: a turn leaves less of the chunk, so the turns are bounded by its length.

And for any set of writable frames, with parts of any length, and any number of them in a chunk:

* `ParserTypeCorrect` (`TypeOK`): what the parser yields are frames, wherever chunks are cut.
* `FirstIsRecognised` (`FirstFrameRecognised`), and `ChunksAreParsed` (`ChunkFaithful`).

Encoders and decoders meet in two lemmas.  `EncodeIs`: an encoder's bytes are the length, the stream, type,
flags, numbers and parts, one behind the other, though it writes the length last and over what is there.
`DecodesFrame`: where such bytes are next in a buffer (`Follows`), with the length the encoder or the
receiver of a WebSocket message gave them, a decoder's reads go over them one by one (`ReadsOn`,
`FollowsCat`) and give back what they were made of; for the types of `TakesItsBytes` they end behind
the last byte.  The invariant `ParserInv` says where the parser is: its reader is behind the first `k` frames of the
chunk, and it has yielded just these (`TakenInOrder`); until the first is taken it is next
(`FirstIsNext`).  The bytes of the frames before and behind are `Joins`, which `Joined` computes; that
it does, for any number of frames, is an induction written out with the smallest
counterexample (`JoinExists`, `JoinType`, `JoinGrows`).

The assumptions are that `Undefined` is no number and no sequence of bytes, `NoFrame` no frame, that sizes
and numbers are natural, and `WrittenAssumption`.

`LoadBalanceProofs`, for any lists of urls, any number of calls and any failures:

* `TypeCorrect`, and `RoundIsBalanced` (`Balanced`).  Balance alone is not inductive; `RoundRobin` says
  who had how many: since the counter last went back to 0 the requests have gone round from some place on,
  each connection got `n` of them and the next `d` places one more, and the counter stands where that leaves
  it; what they had before differs by the turns at most.
* `PoolStaysOpen` (`PoolIsOpen`), `UrlsStayConnected` (`StaysConnected`) and, with `NoRepeats`, `NoneIsDropped`
  (`NothingLeaks`): as long as calls of `refreshUrl` do not overlap.  They speak of the pool, but what is swapped
  in comes from a call's locals, so that the invariant says what these hold: `Alone`, that only one call is
  on its way, that of a url in the pool it holds the pool's connection and of another one the pool
  has not (`Holds`), and that none of them is closed.
* `MapIsThePool`: `NoRepeats /\ Spec => []MapMatchesPool`, overlaps and all, since the pool and the map are
  replaced in one step.

`AsyncIteratorProofs`, for any values, any errors and every kind of publisher:

* `TypeCorrect`, `LoopEndsWithAll` (`EndsWithAll`), and `GeneratorFollowsChannel`: over a processor every step is
  a step of `AsyncChannel` or none.  `IInv` says where `values`, what was yielded and what was told stand
  to one another at each place the generator can be suspended.

`RouterProofs`, for any names, entries, values and tables of types that the assumptions of section 3
allow, any number of entries and of generators:

* `RouterTypeCorrect` (`TypeOK`).
* `EntriesOnce` (`EntriesComeOutOnce`) and `LookupsFindLatest` (`FindsLatest`).  That what was yielded is a
  prefix of what was added is not inductive: the next value depends on the bytes and on where the
  shared reader is.  `MetadataInv` adds `Between`: unless an entry was added behind an iteration (`mixed`),
  the bytes are those of the entries added, one behind the other, and the reader is behind those that
  have been yielded.  `ReadsEntry` is the round trip of one entry among any bytes before and behind it.
* `MethodsCalledAsAsked` (`CalledAsAsked`) and `OutcomesTold` (`OutcomeTold`).  `CallInv` adds where the
  request is (`Stages`: not handled yet, refused, running, ended) and that its metadata
  is the stub's or the application's (`Sources`).  What the router then reads in it is `StubRouting` and
  `OwnRouting`: the first tag of the latest routing entry is the key (`GetsLatest`, `FirstTagIs`), and
  a key splits at its last dot into the service and the method it was made of (`SplitOfKey`,
  `KeyOfSplit`), whatever dots the service's name has.

`NextEntry`, `AllEntries` and `Tags` are recursive functions on the places of a buffer.  A step of
each goes to a later place (`ReadMimeAhead`, `EndsAhead`), so that such a function exists
(`WalkExists`) and its value at a place follows from its value at the next; what it is behind `k` of
`n` entries is then shown from `n` down, with the smallest counterexample, as for `Joined`.

Only model-checked: liveness (`LoopEnds` of the supplier and of the read loops, `RequestSettles`,
`TimerStops`, `PingsDieOut`, and what `ImplementsInteraction` and `ImplementsChannel` say beyond
steps), which is beyond the prover, as ENABLED is.  Every safety invariant and every safety action
property of a passing run is a theorem.  `ToNumber` is unrolled for the four bytes it is ever given.

## 6. Findings

Three disagreements between the code and what its own documents say; each is a run whose one
property TLC violates.

* **An early answer is lost** (`answer_race`).  `senders.set` happens when the promise of the
  write resolves; nothing keeps the read loop from reading the answer first.  It is dropped
  and the caller waits for ever, although `RSocket.ts` says the call "resolves with the
  response".
* **A REQUEST_STREAM loses its data** (`framing_stream`): `decodePayload` takes `frameLength - 6`
  bytes although four have been read as `initialRequestN`.
* **availability() of a dead connection is 1.0** (`availability`): only `close()` sets `_closed`.

Met on the way, modelled as they are, without a run of their own.

Requests, codec and balancer: REQUEST_CHANNEL reaches no handler (`RSocketRequester.ts:79`,
`IgnoreRequest`), though `src/README.md:156` ticks it as done, and neither does METADATA_PUSH
(`frame.ts:315`); `fireAndForget` resolves on write, not when
"successfully handled" (`Sent`); a stream handler that throws is silent (`catch (e) {}`, `Swallow`);
a KEEPALIVE takes four bytes of the frame behind it (`frame.ts:146`, `DecodeKeepAlive`); what follows
a METADATA_PUSH in its chunk is parsed from the wrong byte (`frame.ts:317`, `SkipFrame`); overlapping
calls of `refreshUrl` leak connections and close some that are in the pool; a url that stands twice in its
list gets two connections, of which the map keeps the last only; the balancer's
`availability()` is 1.0 with nothing connected; a failing async iterable is reported as a
completion (`mod.ts:113`, `Throw`), and a falsy error leaves `publisherToAsyncIterator` polling.

Connection: an acceptor of the client's that makes a stream request at once may have it read in one chunk
with the SETUP behind it, which the parser then misses: the server never makes a requester, drops
whatever comes later, and nobody is told (`NextFrame`, `setupLost`); in the same way a SETUP, whose
decoder wants as many bytes past its end as it has read before the payload (`frame.ts:116`), may swallow
requests behind it.

WebSocket: once its socket is closed, the loop of `connect()` goes round for ever in microtasks and its
process does nothing else (`AfterIteration`); after a refused SETUP the server goes on taking messages
until the socket is closed, `closed` in `handleWs` being written and never read (`RefuseSetup`).

Metadata: a second iteration yields nothing, and the reset of the *writer's* index lets the next entry
overwrite the first (`Iterate`, `mixed`); tags of more than 255 bytes are left out and empty ones vanish
(`TagBytes`, `Tags`); a type's name of 128 bytes or more would be read as a well-known type (excluded by
`EntriesAssumption`).

Router: the arguments of a stub's stream never arrive (`Arriving`; the cause is the second finding); a
routed `requestStream` gives back a promise, whose `subscribe` throws: the caller waits for
ever, and if the method rejects the responder's process ends (`Resolves`, `Rejects`); no
argument or several arrive as one array, because `Array.isArray` is asked of the text (`Params`); a method
that resolves to `undefined` makes the stub reject (`HearsAnswer`); an element of a stream that is not
JSON ends the process of a stub's caller (`HearsStream`).

## 7. Not modelled

Of composite metadata, `AuthMetadata` and the tracing entries are left out: nothing in the library
reads them (`AuthMetadata.getContent` copies an array into itself behind its first byte, which always
throws).  Well-known types added while a program runs (`addWellKnownType`) are not modelled either:
the table is a parameter.  `bind` of the server makes a listener and an accept loop for it, nothing more.
`RSocketStreamQueueProcessor` is part of `RSocketRequester` with one subscriber; a second one is
assumed away.  Left out for good: the WebSocket client handshake in `src/deps.ts` and `rxjs.ts`
(adapters of external code), the tables of MIME types and error codes (data), the example
programs, the empty decorator.  `setup` parameters such as `keepAliveMaxLifetime`, resumption
and leases are parsed or declared by the code but never acted on, so there is nothing to model.
