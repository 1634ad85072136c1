---------------------------- MODULE AsyncIterator ----------------------------
(***************************************************************************)
(* src/reactivestreams/mod.ts: publisherToAsyncIterator over each kind of  *)
(* publisher the module makes, and a `for await` loop over the iterator.   *)
(*                                                                         *)
(* The generator runs only when the loop asks for a value, or when its     *)
(* timer of 0 ms fires, and then to its next yield or await; the publisher *)
(* calls its subscriber at any time in between.  A value is its number in  *)
(* the order in which the source made them.  A publisher ends once.        *)
(***************************************************************************)
EXTENDS Naturals, Sequences

CONSTANTS
    Sources,   \* the kinds of publisher
    MaxItems,  \* bound: values a source makes
    Errors     \* what onError may be given: "truthy", "falsy"

ASSUME SourcesAssumption ==
    Sources \subseteq {"iterable", "asyncIterable", "processor", "error"}
ASSUME BoundsAssumption == MaxItems \in Nat /\ Errors \subseteq {"truthy", "falsy"}

VARIABLES
    source,     \* the kind of this publisher
    made,       \* how many values its source has made
    end,        \* how the source has ended
    values,     \* the array `values`, from where the loop over it has got to
    told,       \* `error` and `done`: what the subscriber was told of the end
    generator,  \* where it is suspended, or how it has ended
    process,    \* "up", "rejecting" until the end of the microtasks, "dead"
    sent,       \* the values its subscriber was told (history)
    delivered   \* the values the `for await` loop has got (history)

sourceVars == <<source, made, end>>
iteratorVars == <<values, told, generator, sent, delivered>>
vars == <<sourceVars, iteratorVars, process>>

Items == 1..MaxItems

TypeOK ==
    /\ source \in Sources
    /\ made \in 0..MaxItems
    /\ end \in {"open", "completed", "failed"}
    /\ values \in Seq(Items)
    /\ told \in {"open", "completed", "truthy", "falsy"}
    /\ generator \in {"fresh", "yielded", "deferred", "returned", "threw", "left"}
    /\ process \in {"up", "rejecting", "dead"}
    /\ sent \in Seq(Items)
    /\ delivered \in Seq(Items)

Init ==
    /\ source \in Sources
    /\ made = 0
    /\ end = "open"
    /\ values = <<>>
    /\ told = "open"
    /\ generator = "fresh"
    /\ process = "up"
    /\ sent = <<>>
    /\ delivered = <<>>

\* The first turn of the generator subscribes.
IsSubscribed == generator # "fresh"

-----------------------------------------------------------------------------
(* The publisher                                                           *)

\* A processor's source works by itself, an async iterable from subscribe on.
Works ==
    /\ process = "up"
    /\ end = "open"
    /\ source = "processor" \/ (source = "asyncIterable" /\ IsSubscribed)

\* Slip: the subscriber keeps the last value only.
PushLatest(v) == <<v>>

\* values.push(v)
Push(v) == Append(values, v)

\* DefaultQueueProcessor.onNext, which drops the value if nobody has subscribed
\* yet, or one turn of asyncIteratorToPublisher's loop.
Make ==
    /\ Works
    /\ made < MaxItems
    /\ made' = made + 1
    /\ values' = IF IsSubscribed THEN Push(made') ELSE values
    /\ sent' = IF IsSubscribed THEN Append(sent, made') ELSE sent
    /\ UNCHANGED <<source, end, told, generator, delivered, process>>

\* Slip: how the source has ended is mixed up with what it says.
EndsAsTold(how, signal) ==
    /\ Works
    /\ end' = signal
    /\ told' = IF IsSubscribed THEN signal ELSE told
    /\ UNCHANGED <<source, made, values, generator, sent, delivered>>

\* Its onComplete and onError; the same of the end of an async iterable.
EndsAs(how, signal) ==
    /\ Works
    /\ end' = how
    /\ told' = IF IsSubscribed THEN signal ELSE told
    /\ UNCHANGED <<source, made, values, generator, sent, delivered>>

Complete == EndsAs("completed", "completed") /\ UNCHANGED process

Fail ==
    /\ source = "processor"
    /\ \E err \in Errors : EndsAs("failed", err)
    /\ UNCHANGED process

\* The async iterable throws: `finally` reports a completion, and its promise
\* is rejected with nobody to handle it.
Throw ==
    /\ source = "asyncIterable"
    /\ EndsAs("failed", "completed")
    /\ process' = "rejecting"

\* The runtime ends the process once the microtasks are done; what the loop
\* over the iterator does in them, a timer not being one, comes before.
Die ==
    /\ process = "rejecting"
    /\ process' = "dead"
    /\ UNCHANGED <<sourceVars, iteratorVars>>

-----------------------------------------------------------------------------
(* The generator                                                           *)

\* Slip: the end is looked at before the values.
GoOnEndFirst(vals, signal) ==
    /\ values' = vals
    /\ UNCHANGED delivered
    /\ generator' = IF signal = "completed" THEN "returned" ELSE "deferred"

\* The generator goes on with what is left of the array: to its next yield, or
\* past the end of the inner loop to the checks and the timer.  A falsy error
\* passes the check.
GoOn(vals, signal) ==
    \/ /\ vals # <<>>
       /\ delivered' = Append(delivered, Head(vals))
       /\ values' = Tail(vals)
       /\ generator' = "yielded"
    \/ /\ vals = <<>>
       /\ values' = <<>>
       /\ generator' = CASE signal = "truthy" -> "threw"
                         [] signal = "completed" -> "returned"
                         [] OTHER -> "deferred"
       /\ UNCHANGED delivered

\* A processor takes note of its subscriber, asyncIteratorToPublisher starts a
\* loop that runs later: subscribe tells the subscriber nothing yet.
SubscribeLater ==
    /\ source \in {"processor", "asyncIterable"}
    /\ GoOn(values, told)
    /\ UNCHANGED <<made, end, told, sent>>

\* iteratorToPublisher: subscribe tells everything and the end, or it throws
\* after n values, into the generator.
SubscribeIterable(n) ==
    /\ source = "iterable"
    /\ made' = n
    /\ sent' = [i \in 1..n |-> i]
    /\ \/ /\ end' = "completed"
          /\ told' = "completed"
          /\ GoOn(sent', told')
       \/ /\ end' = "failed"
          /\ values' = sent'
          /\ generator' = "threw"
          /\ UNCHANGED <<told, delivered>>

\* ErrorPublisher: subscribe tells an error, which is an object.
SubscribeError ==
    /\ source = "error"
    /\ end' = "failed"
    /\ told' = "truthy"
    /\ GoOn(values, told')
    /\ UNCHANGED <<made, sent>>

\* The loop asks for its first value.
Start ==
    /\ process # "dead"
    /\ generator = "fresh"
    /\ SubscribeLater \/ SubscribeError \/ \E n \in 0..MaxItems : SubscribeIterable(n)
    /\ UNCHANGED <<source, process>>

\* It asks for another after a yield.
Resume ==
    /\ process # "dead"
    /\ generator = "yielded"
    /\ GoOn(values, told)
    /\ UNCHANGED <<sourceVars, told, process, sent>>

\* The promise of defer() resolves: round the outer loop.
Timer ==
    /\ process = "up"
    /\ generator = "deferred"
    /\ GoOn(values, told)
    /\ UNCHANGED <<sourceVars, told, process, sent>>

\* break: the generator ends at its yield; the publisher goes on.
Leave ==
    /\ process # "dead"
    /\ generator = "yielded"
    /\ generator' = "left"
    /\ UNCHANGED <<sourceVars, values, told, process, sent, delivered>>

Next == Make \/ Complete \/ Fail \/ Throw \/ Die \/ Start \/ Resume \/ Timer \/ Leave

\* The runtime fires timers, and the loop goes on asking.
Spec == Init /\ [][Next]_vars /\ WF_vars(Start) /\ WF_vars(Resume) /\ WF_vars(Timer)

-----------------------------------------------------------------------------
\* A loop that ends of itself has got everything its subscriber was told, and
\* it has not taken a failure for the end nor the end for a failure, whenever
\* the source ended (publisherToAsyncIterator and the publishers of the module).
\* The code has two exceptions: an iterable that throws inside subscribe takes
\* its values with it, and a failing async iterable reports a completion.
EndsWithAll ==
    /\ generator = "returned" =>
           /\ end = "completed" \/ source = "asyncIterable"
           /\ delivered = sent
    /\ generator = "threw" =>
           /\ end = "failed"
           /\ delivered = sent \/ source = "iterable"

Channel == INSTANCE AsyncChannel WITH
    ending <- CASE told = "truthy" -> "failed"
                [] told = "falsy" -> "open"  \* to the generator it is no end
                [] OTHER -> told,
    outcome <- CASE generator = "returned" -> "completed"
                 [] generator = "threw" -> "failed"
                 [] generator = "left" -> "left"
                 [] OTHER -> "open"

OverProcessor == source = "processor"

\* Over a DefaultQueueProcessor no step of the generator and of the publisher is
\* one that AsyncChannel does not take: values pushed while the generator is
\* suspended at a yield, in its timer or between the two are delivered once and
\* in order, before the end.
FollowsChannel ==
    /\ OverProcessor => Channel!Init
    /\ [][OverProcessor => [Channel!Next]_(Channel!vars)]_vars

\* It is the channel that AsyncChannel describes: and in the end everything is
\* delivered.  (This is OverProcessor => Channel!Spec: the source of a behaviour
\* does not change.)
ImplementsChannel == FollowsChannel /\ (OverProcessor => Channel!Fairness)
=============================================================================
