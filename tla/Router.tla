-------------------------------- MODULE Router --------------------------------
(***************************************************************************)
(* One request through rsocket/core/RSocketRouter.ts, end to end: a call   *)
(* of a service stub, or a request whose metadata the application has made *)
(* with the CompositeMetadata of that module; the responder that gets it,  *)
(* an RSocketRouteHandler or one of SocketAcceptor.ts; the method it runs; *)
(* and what the caller is told.  The frames in between are those of        *)
(* RSocketRequester.tla: here they arrive, with all that is in them but    *)
(* the data of a REQUEST_STREAM, which its decoder gets wrong (Arriving).  *)
(*                                                                         *)
(* A JSON value is a record; a text is the value that it denotes, `Bad` if *)
(* none, and NoText if there is no text or an empty one.                   *)
(***************************************************************************)
EXTENDS CompositeMetadata

CONSTANTS
    RoutingType,   \* MESSAGE_RSOCKET_ROUTING.mimeType
    StreamPrefix,  \* stands for "findAll", "readAll" and "streamAll"
    FirePrefix,    \* stands for "fire"
    Services,      \* names that services are registered under
    Methods,       \* names of methods, none of which has a dot
    Instances,     \* the methods that an instance of a service may have
    ArgumentLists, \* what stubs are called with
    Results,       \* what methods resolve to
    Responders     \* "router", or the kind for which an acceptor has a handler

Dot == 46

\* The kinds that receiveFrame hands to a responder.
Kinds == {"response", "stream", "fnf"}

ASSUME NamesAssumption ==
    /\ Services \subseteq Names /\ Methods \subseteq Names
    /\ \A m \in Methods : ~Contains(m, Dot)
    /\ Instances \subseteq SUBSET Methods
ASSUME UndefinedIsNoRouting == Undefined \notin [service : Seq(Bytes), method : Seq(Bytes)]
ASSUME RespondersAssumption == Responders \subseteq Kinds \cup {"channel", "router"}
ASSUME RoutingAssumption == RoutingType \in DOMAIN WellKnown /\ Len(RoutingType) < 128

\* Applications make routing entries of tags, the first of which is a key.
ASSUME TagsAssumption ==
    \A e \in Entries : e.mime = RoutingType =>
        e.content # <<>> /\ e.content[1] \in 1..(Len(e.content) - 1)

VARIABLES
    responder,  \* what the acceptor of the connection gave
    services,   \* serviceCollection: the methods of the instance of each name
    request,    \* the request, as the responder gets it
    asked,      \* what its caller had in mind (history)
    ran,        \* the method that was called, and its arguments
    reply,      \* what the responder has given receiveFrame
    ended,      \* how the method ended, and with what (history)
    outcome,    \* what the caller has been told of the end
    told        \* the values the caller got

callVars == <<request, asked, ran, reply, ended, outcome, told>>
vars == <<metadataVars, responder, services, callVars>>

-----------------------------------------------------------------------------
(* JSON                                                                    *)

Json(kind) == [json |-> kind, items |-> <<>>]
Array(items) == [json |-> "array", items |-> items]
UndefinedValue == Json("undefined")
NoText == Json("none")
Bad == Json("bad")

\* NoText and Bad are no values, but what texts denote.
IsValue(v) == "json" \in DOMAIN v /\ v.json \notin {"none", "bad"}
ASSUME ValuesAssumption ==
    /\ \A v \in Results : IsValue(v)
    /\ \A args \in ArgumentLists : Len(args) = 1 => IsValue(args[1])

\* What is left of a value in a text: in an array undefined becomes null.
InArray(v) == IF v = UndefinedValue THEN Json("null") ELSE v
AsJson(v) == [v EXCEPT !.items = [i \in DOMAIN @ |-> InArray(@[i])]]

\* encode(JSON.stringify(v)): undefined makes no text.
Stringify(v) == IF v = UndefinedValue THEN NoText ELSE AsJson(v)

-----------------------------------------------------------------------------
(* The stub                                                                *)

\* TaggingMetadata.getContent: the buffer is allocated with two bytes per tag
\* and tags of more than 255 bytes are left out.
TagBytes(tag) == IF Len(tag) <= 255 THEN <<Len(tag)>> \o tag ELSE <<>>
TagsContent(tags) ==
    FoldLeft(LAMBDA b, tag : WriteBytes(b, TagBytes(tag)), Alloc(2 * Len(tags)), tags).data

RoutingMetadata(tags) == [mime |-> RoutingType, content |-> TagsContent(tags)]

RoutingKey(service, method) == service \o <<Dot>> \o method

\* A longer key would be left out of the metadata.
ASSUME KeysAssumption ==
    \A s \in Services, m \in Methods : Len(RoutingKey(s, m)) <= 255

\* Which request a stub makes of a call.
KindOf(method) ==
    CASE IsPrefix(StreamPrefix, method) -> "stream"
      [] IsPrefix(FirePrefix, method)   -> "fnf"
      [] OTHER                          -> "response"

\* One argument is the text, any other number an array of them.
ArgumentsText(args) == IF Len(args) = 1 THEN Stringify(args[1]) ELSE Stringify(Array(args))

Nobody == [phase |-> "none"]
NotRun == [method |-> Undefined]
NoReply == [type |-> "none", texts |-> <<>>]
NotEnded == [how |-> "none", values |-> <<>>]

Init ==
    /\ MetadataInit
    /\ responder \in Responders
    /\ services = <<>>
    /\ request = Nobody
    /\ asked = Nobody
    /\ ran = NotRun
    /\ reply = NoReply
    /\ ended = NotEnded
    /\ outcome = "waiting"
    /\ told = <<>>

\* What the decoder makes of a request's data.  It looks for four bytes more than
\* the data of a REQUEST_STREAM has: either there are none and it takes no data, or
\* it takes four bytes of the next frame with them.  That frame's length begins
\* with a 0 (an assumption: it is shorter than 64 KiB), which no JSON text has.
Arriving(kind, data) == IF kind = "stream" THEN {NoText, Bad} ELSE {data}

\* The promise of fireAndForget resolves when the frame is written.
Sends(by, kind, metadata, data) ==
    /\ request = Nobody
    /\ \E arriving \in Arriving(kind, data) :
          request' = [phase |-> "requested", by |-> by, kind |-> kind,
                      metadata |-> metadata, data |-> arriving]
    /\ outcome' = IF kind = "fnf" THEN "resolved" ELSE "waiting"
    /\ UNCHANGED <<metadataVars, responder, services, ran, reply, ended, told>>

\* Nothing has been done to the metadata of the application; a stub has its own,
\* and an acceptor's responder does not look into it.
Untouched == added = <<>> /\ iterators = 0 /\ map = Undefined

StubCall(service, method, args) ==
    /\ Untouched
    /\ Sends("stub", KindOf(method),
             FromEntries(<<RoutingMetadata(<<RoutingKey(service, method)>>)>>).data,
             ArgumentsText(args))
    /\ asked' = [service |-> service, method |-> method, args |-> args]

\* The application's own request, with the metadata it has put together.
OwnRequest(kind, data) ==
    /\ responder # "router" => Untouched
    /\ Sends("own", kind, buffer.data, data)
    /\ asked' = Nobody

-----------------------------------------------------------------------------
(* The responder                                                           *)

\* Only what is registered when a request is there matters.
AddService(service, methods) ==
    /\ request # Nobody /\ request.phase = "requested" /\ responder = "router"
    /\ services' = [s \in DOMAIN services \cup {service} |->
                        IF s = service THEN methods ELSE services[s]]
    /\ UNCHANGED <<metadataVars, responder, callVars>>

\* TaggingMetadata.fromEntry: every tag that is not empty.
Tags(content) ==
    LET b == FromUint8Array(content)
        from[r \in 0..b.capacity] ==
            LET at     == [b EXCEPT !.reader = r]
                length == ReadNumber(at, 1)
                c      == Skip(at, 1)
                tag    == ReadBytes(c, length)
            IN  IF ~IsReadable(at) THEN <<>>
                ELSE IF length = 0 \/ tag = Undefined THEN from[c.reader]
                ELSE <<tag>> \o from[Skip(c, length).reader]
    IN  from[0]

\* RoutingMetadata.fromEntry: the first tag, or ''.
FirstTag(tags) == IF tags = <<>> THEN <<>> ELSE Head(tags)

\* Slip: the first dot ends the name of the service.
SplitAtFirst(key) ==
    LET dot == SelectInSeq(key, LAMBDA c : c = Dot)
    IN  [service |-> SubSeq(key, 1, dot - 1), method |-> SubSeq(key, dot + 1, Len(key))]

\* parseRouting: the last one does; without one there is no service.
SplitKey(key) ==
    LET dot == SelectLastInSeq(key, LAMBDA c : c = Dot)
    IN  [service |-> SubSeq(key, 1, dot - 1), method |-> SubSeq(key, dot + 1, Len(key))]

\* A payload without metadata has no entries either.
RoutingOf(entry) ==
    IF entry = Undefined THEN Undefined ELSE SplitKey(FirstTag(Tags(entry.content)))
ParseRouting(bytes) == RoutingOf(Get(AllEntries(FromUint8Array(bytes)), RoutingType))

HasHandler(routing) ==
    /\ routing.service \in DOMAIN services
    /\ routing.method \in services[routing.service]

\* JSON.parse; the text itself is never an array, so there is one argument.
Params(data) == IF data = NoText THEN <<>> ELSE <<data>>

\* Slip: nothing is said of a request that no handler takes.
RefuseSilently(kind) ==
    reply' = [type |-> IF kind = "response" THEN "error" ELSE "silent", texts |-> <<>>]

\* A promise that rejects or an ErrorPublisher; fireAndForget says nothing.
Refuse(kind) ==
    reply' = [type |-> IF kind = "fnf" THEN "silent" ELSE "error", texts |-> <<>>]

\* It throws: receiveFrame makes an error of that for a response only.
Throws(kind) ==
    reply' = [type |-> IF kind = "response" THEN "error" ELSE "silent", texts |-> <<>>]

Handling ==
    /\ request # Nobody /\ request.phase = "requested"
    /\ request' = [request EXCEPT !.phase = "handled"]

\* The request methods of RSocketRouteHandler, to the call of the method.
RouteTo(routing) ==
    IF routing = Undefined
    THEN Refuse(request.kind) /\ UNCHANGED ran
    ELSE IF request.data = Bad THEN Throws(request.kind) /\ UNCHANGED ran
    ELSE IF ~HasHandler(routing) THEN Refuse(request.kind) /\ UNCHANGED ran
    ELSE /\ ran' = [service |-> routing.service, method |-> routing.method,
                    params |-> Params(request.data)]
         /\ UNCHANGED reply

Route ==
    /\ responder = "router" /\ Handling
    /\ RouteTo(ParseRouting(request.metadata))
    /\ UNCHANGED <<metadataVars, responder, services, asked, ended, outcome, told>>

\* An acceptor's responder: one handler, for payloads of its own kind;
\* AbstractRSocket answers for the others.
Accept ==
    /\ responder # "router" /\ Handling
    /\ IF request.kind = responder
       THEN ran' = [method |-> <<>>, params |-> <<>>] /\ UNCHANGED reply
       ELSE Refuse(request.kind) /\ UNCHANGED ran
    /\ UNCHANGED <<metadataVars, responder, services, asked, ended, outcome, told>>

Running == ran # NotRun /\ ended = NotEnded
Ends(how, values) ==
    /\ Running
    /\ ended' = [how |-> how, values |-> values]
    /\ UNCHANGED <<metadataVars, responder, services, request, asked, ran, outcome, told>>

\* The promise of a routed method resolves.  For a stream the router has given
\* back that promise: its `subscribe` throws, and nobody hears of it.
Resolves(value) ==
    /\ responder = "router" /\ Ends("resolved", <<value>>)
    /\ reply' = IF request.kind = "response"
                THEN [type |-> "answer", texts |-> <<Stringify(value)>>]
                ELSE [type |-> "silent", texts |-> <<>>]

\* The method throws, or returns what has no `then`.
Fails == Ends("failed", <<>>) /\ Throws(request.kind)

\* Its promise rejects.  The one that the router has given back for a stream
\* rejects with it, which nothing handles: the responder's process ends.
Rejects ==
    /\ Ends("failed", <<>>)
    /\ responder # "stream"
    /\ IF request.kind = "stream"
       THEN reply' = [type |-> "died", texts |-> <<>>]
       ELSE Throws(request.kind)

\* The handler of an acceptor gives a payload, or a publisher that gives some
\* and then completes or fails.
Gives(how, texts) ==
    /\ responder # "router" /\ Ends(how, texts)
    /\ request.kind \in {"response", "stream"}
    /\ request.kind = "response" => how = "resolved" /\ Len(texts) = 1
    /\ reply' = [type |-> IF how = "resolved" THEN "answer" ELSE "error", texts |-> texts]

-----------------------------------------------------------------------------
(* The caller                                                              *)

Hears(end, values) ==
    /\ outcome = "waiting"
    /\ outcome' = end /\ told' = values
    /\ UNCHANGED <<metadataVars, responder, services, request, asked, ran, reply, ended>>

\* An ERROR frame for a response.
HearsError ==
    /\ reply.type = "error" /\ request.kind = "response"
    /\ Hears("rejected", <<>>)

\* The answer to a response.  Without data it is null, which the stub cannot
\* ask for its text; nor can it parse what is not JSON.
HearsAnswer ==
    LET text == reply.texts[1] IN
    /\ reply.type = "answer" /\ request.kind = "response"
    /\ IF request.by = "stub" /\ text \in {NoText, Bad}
       THEN Hears("rejected", <<>>)
       ELSE Hears("resolved", <<text>>)

\* receiveFrame passes on no payload without data.
WithData(texts) ==
    FoldLeft(LAMBDA heard, t : IF t = NoText THEN heard ELSE Append(heard, t), <<>>, texts)

\* The values of a stream and its end; what is not JSON is an exception in the
\* stub's onNext, which nothing catches: the caller's process ends.
HearsStream ==
    LET texts == WithData(reply.texts)
        bad   == SelectInSeq(texts, LAMBDA t : t = Bad)
    IN  /\ reply.type \in {"answer", "error"} /\ request.kind = "stream"
        /\ IF request.by = "stub" /\ bad > 0
           THEN Hears("died", SubSeq(texts, 1, bad - 1))
           ELSE Hears(IF reply.type = "answer" THEN "completed" ELSE "failed", texts)

-----------------------------------------------------------------------------
CallNext ==
    \/ \E s \in Services, m \in Methods, args \in ArgumentLists : StubCall(s, m, args)
    \/ \E kind \in Kinds, data \in {NoText, Bad, Json("x")} : OwnRequest(kind, data)
    \/ \E s \in Services, methods \in Instances : AddService(s, methods)
    \/ Route \/ Accept \/ Fails \/ Rejects
    \/ \E value \in Results : Resolves(value)
    \/ \E how \in {"resolved", "failed"}, texts \in SeqOf({NoText, Bad, Json("x")}, 2) :
          Gives(how, texts)
    \/ HearsError \/ HearsAnswer \/ HearsStream

Next ==
    \/ request = Nobody /\ responder = "router" /\ MetadataNext /\ UNCHANGED <<responder, services, callVars>>
    \/ CallNext

Spec == Init /\ [][Next]_vars

TypeOK ==
    /\ MetadataTypeOK
    /\ responder \in Responders
    /\ DOMAIN services \subseteq Services /\ \A s \in DOMAIN services : services[s] \in Instances
    /\ request = Nobody \/ request.kind \in Kinds
    /\ reply.type \in {"none", "answer", "error", "silent", "died"}
    /\ ended.how \in {"none", "resolved", "failed"}
    /\ outcome \in {"waiting", "resolved", "rejected", "completed", "failed", "died"}

-----------------------------------------------------------------------------
(* Properties                                                              *)

Routed == ran # NotRun /\ responder = "router"

\* The data of a stream request came with bytes of the next frame.
Garbled == request.kind = "stream" /\ request.data = Bad

\* A stub's call runs its method if the service that it names, with whatever
\* dots, has that method, and a single argument arrives as it was, an array as
\* one array; but a stream's arguments never arrive, and where they are garbled
\* the method does not run.
StubRoutes ==
    request # Nobody /\ request.phase = "handled" /\ request.by = "stub" /\ responder = "router" =>
        IF /\ asked.service \in DOMAIN services /\ asked.method \in services[asked.service]
           /\ ~Garbled
        THEN /\ Routed
             /\ ran.service = asked.service /\ ran.method = asked.method
             /\ IF request.kind = "stream" THEN ran.params = <<>>
                ELSE Len(asked.args) = 1 /\ asked.args[1] # UndefinedValue =>
                         ran.params = <<AsJson(asked.args[1])>>
        ELSE ran = NotRun

\* What an application's own metadata runs is the method under its routing key,
\* the first tag of the routing entry that was added last.
OwnRoutes ==
    Routed /\ request.by = "own" /\ ~mixed =>
        LET key == RoutingKey(ran.service, ran.method)
            routing == SelectLastInSeq(added, LAMBDA e : e.mime = RoutingType)
        IN  routing > 0 /\ IsPrefix(<<Len(key)>> \o key, added[routing].content)

\* The method that runs is the one that was called, and but for a stream with
\* what it was called.
CalledAsAsked == StubRoutes /\ OwnRoutes

\* What a stub resolves to is what the method resolved to, and it rejects only
\* if the call was refused or failed, or if the method has resolved to nothing.
ResultTold ==
    Routed /\ request.by = "stub" /\ request.kind = "response" =>
        /\ outcome = "resolved" => ended.how = "resolved" /\ told = <<AsJson(ended.values[1])>>
        /\ outcome = "rejected" => ended.how = "failed" \/ ended.values = <<UndefinedValue>>

\* A request that no handler takes is answered with an error, unless it was
\* fireAndForget, or the text of its arguments, as it arrived, was not JSON.
RefusalTold ==
    request # Nobody /\ request.phase = "handled" /\ ran = NotRun /\ request.kind # "fnf" =>
        reply.type = "error" \/ request.data = Bad

\* A stream that ends for its caller has ended as its publisher did, with every
\* payload that has data; one that no handler took has failed.  (A routed one
\* that a method has taken never ends: see Resolves.)
StreamTold ==
    request # Nobody /\ request.kind = "stream" /\ outcome \in {"completed", "failed"} =>
        IF ran = NotRun THEN outcome = "failed" /\ told = <<>>
        ELSE /\ responder # "router"
             /\ outcome = "completed" <=> ended.how = "resolved"
             /\ told = WithData(ended.values)

\* Callers learn what has become of their requests, through the router's and
\* the stub's conversions and the defaults of AbstractRSocket.
OutcomeTold == ResultTold /\ StreamTold /\ RefusalTold
=============================================================================
