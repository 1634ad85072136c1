------------------------- MODULE AsyncIteratorProofs -------------------------
(***************************************************************************)
(* Proofs about AsyncIterator (src/reactivestreams/mod.ts), for any number *)
(* of values, any of its publishers and any kind of error: a loop that     *)
(* ends of itself has got everything, and over a DefaultQueueProcessor     *)
(* each step is a step of AsyncChannel.                                    *)
(***************************************************************************)
EXTENDS AsyncIterator, TLAPS

\* Before the generator's first turn nobody has subscribed: nothing has been
\* told, and a source that works only from subscribe on has not begun.
Unsubscribed ==
    generator = "fresh" =>
        /\ values = <<>> /\ sent = <<>> /\ delivered = <<>>
        /\ told = "open"
        /\ source # "processor" => end = "open"

\* What the subscriber is told of the end is how the source has ended, but for
\* the async iterable that throws; so nothing is told before it has ended.
TellsTheEnd ==
    /\ told = "completed" =>
           end = "completed" \/ (source = "asyncIterable" /\ end = "failed")
    /\ told \in {"truthy", "falsy"} => end = "failed"

\* An iterable has thrown inside subscribe, into the generator.
ThrewInSubscribe == source = "iterable" /\ generator = "threw"

\* Nothing is lost or overtaken between the subscriber and the loop: what the
\* loop has got and what is left of the array are what the subscriber was told.
Conserved == IsSubscribed /\ ~ThrewInSubscribe => delivered \o values = sent

\* The generator ends of itself only with nothing left, and only at an end.
EndsEmpty ==
    /\ generator = "returned" => told = "completed" /\ values = <<>>
    /\ generator = "threw" => end = "failed"
    /\ (generator = "threw" /\ ~ThrewInSubscribe) => values = <<>>

IInv == TypeOK /\ Unsubscribed /\ TellsTheEnd /\ Conserved /\ EndsEmpty

-----------------------------------------------------------------------------
(* Sequences                                                               *)

\* Handing over the first of what is left keeps what there is in all.
LEMMA HandOver ==
    ASSUME NEW S, NEW got \in Seq(S), NEW left \in Seq(S), left # <<>>
    PROVE  /\ Append(got, Head(left)) \in Seq(S)
           /\ Tail(left) \in Seq(S)
           /\ Append(got, Head(left)) \o Tail(left) = got \o left
<1>1. Head(left) \in S /\ Tail(left) \in Seq(S) /\ Len(left) > 0
  OBVIOUS
<1>2. Append(got, Head(left)) \in Seq(S)
  BY <1>1
<1> DEFINE a == Append(got, Head(left)) \o Tail(left)
           b == got \o left
<1>3. a \in Seq(S) /\ b \in Seq(S)
  BY <1>1, <1>2
<1>4. Len(a) = Len(b)
  BY <1>1, <1>2
<1>5. \A i \in 1..Len(b) : a[i] = b[i]
  BY <1>1, <1>2
<1>6. a = b
  BY <1>3, <1>4, <1>5
<1> QED BY <1>1, <1>2, <1>6

\* A value pushed behind what is left is behind all there is.
LEMMA PushBehind ==
    ASSUME NEW S, NEW got \in Seq(S), NEW left \in Seq(S), NEW v \in S
    PROVE  got \o Append(left, v) = Append(got \o left, v)
<1> DEFINE a == got \o Append(left, v)
           b == Append(got \o left, v)
<1>1. a \in Seq(S) /\ b \in Seq(S)
  OBVIOUS
<1>2. Len(a) = Len(b)
  OBVIOUS
<1>3. \A i \in 1..Len(b) : a[i] = b[i]
  OBVIOUS
<1> QED BY <1>1, <1>2, <1>3

\* The first of what is left is the next of all there is.
LEMMA NextOfAll ==
    ASSUME NEW S, NEW got \in Seq(S), NEW left \in Seq(S), left # <<>>
    PROVE  /\ Len(got) < Len(got \o left)
           /\ (got \o left)[Len(got) + 1] = Head(left)
  OBVIOUS

LEMMA NothingLeft ==
    ASSUME NEW S, NEW got \in Seq(S)
    PROVE  got \o <<>> = got /\ <<>> \o got = got
<1>1. <<>> \in Seq(S) /\ Len(<<>>) = 0
  OBVIOUS
<1>2. got \o <<>> \in Seq(S) /\ Len(got \o <<>>) = Len(got)
  BY <1>1
<1>3. \A i \in 1..Len(got) : (got \o <<>>)[i] = got[i]
  BY <1>1
<1>4. got \o <<>> = got
  BY <1>2, <1>3
<1>5. <<>> \o got \in Seq(S) /\ Len(<<>> \o got) = Len(got)
  BY <1>1
<1>6. \A i \in 1..Len(got) : (<<>> \o got)[i] = got[i]
  BY <1>1
<1>7. <<>> \o got = got
  BY <1>5, <1>6
<1> QED BY <1>4, <1>7

-----------------------------------------------------------------------------
(* What a turn of the generator does                                       *)

\* A turn keeps what the loop has got and what is left, in order, and ends only
\* with nothing left.
LEMMA Turn ==
    ASSUME NEW vals \in Seq(Items), NEW signal,
           delivered \in Seq(Items), GoOn(vals, signal)
    PROVE  /\ values' \in Seq(Items)
           /\ delivered' \in Seq(Items)
           /\ generator' \in {"yielded", "deferred", "returned", "threw"}
           /\ delivered' \o values' = delivered \o vals
           /\ generator' = "returned" => signal = "completed" /\ values' = <<>>
           /\ generator' = "threw" => signal = "truthy" /\ values' = <<>>
<1>1. CASE vals # <<>>
  <2>1. /\ delivered' = Append(delivered, Head(vals))
        /\ values' = Tail(vals)
        /\ generator' = "yielded"
    BY <1>1 DEF GoOn
  <2> QED BY <2>1, <1>1, HandOver
<1>2. CASE vals = <<>>
  <2>1. values' = vals /\ delivered' = delivered
    BY <1>2 DEF GoOn
  <2>2. generator' = CASE signal = "truthy" -> "threw"
                       [] signal = "completed" -> "returned"
                       [] OTHER -> "deferred"
    BY <1>2 DEF GoOn
  <2> QED BY <2>1, <2>2, <1>2
<1> QED BY <1>1, <1>2

-----------------------------------------------------------------------------
(* The invariant                                                           *)

LEMMA InitInvariant == Init => IInv
<1> SUFFICES ASSUME Init PROVE IInv
  OBVIOUS
<1>1. TypeOK
  BY BoundsAssumption DEF Init, TypeOK
<1> QED BY <1>1 DEF Init, IInv, Unsubscribed, TellsTheEnd, Conserved, EndsEmpty, IsSubscribed

\* Nothing has been told of the end while the source works, and the generator
\* has not ended of itself.
LEMMA WorksUntold ==
    ASSUME IInv, Works
    PROVE  told = "open" /\ generator \notin {"returned", "threw"}
  BY DEF IInv, TypeOK, Works, TellsTheEnd, EndsEmpty

LEMMA MakeKeeps == ASSUME IInv, Make PROVE IInv'
<1> USE DEF IInv
<1>0. /\ made < MaxItems /\ made' = made + 1
      /\ UNCHANGED <<source, end, told, generator, delivered, process>>
  BY DEF Make
<1>1. made' \in Items /\ made' \in 0..MaxItems
  BY <1>0, BoundsAssumption DEF TypeOK, Items
<1>2. told = "open" /\ generator \notin {"returned", "threw"}
  BY WorksUntold DEF Make
<1>3. CASE IsSubscribed
  <2>1. values' = Append(values, made') /\ sent' = Append(sent, made')
    BY <1>3 DEF Make, Push
  <2>2. values' \in Seq(Items) /\ sent' \in Seq(Items)
    BY <2>1, <1>1 DEF TypeOK
  <2>3. TypeOK'
    BY <2>2, <1>0, <1>1 DEF TypeOK
  <2>4. delivered \o values = sent
    BY <1>2, <1>3 DEF Conserved, ThrewInSubscribe
  <2>5. delivered' \o values' = sent'
    BY <2>1, <2>4, <1>0, <1>1, PushBehind DEF TypeOK
  <2> QED BY <2>3, <2>5, <1>0, <1>2, <1>3
       DEF Unsubscribed, TellsTheEnd, Conserved, EndsEmpty, IsSubscribed, ThrewInSubscribe
<1>4. CASE ~IsSubscribed
  <2>1. values' = values /\ sent' = sent
    BY <1>4 DEF Make
  <2>2. TypeOK'
    BY <2>1, <1>0, <1>1 DEF TypeOK
  <2> QED BY <2>1, <2>2, <1>0, <1>4
       DEF Unsubscribed, TellsTheEnd, Conserved, EndsEmpty, IsSubscribed, ThrewInSubscribe
<1> QED BY <1>3, <1>4

\* The end of a source, told as it is or, by an async iterable, as a completion.
LEMMA EndKeeps ==
    ASSUME IInv, NEW how, NEW signal, EndsAs(how, signal),
           process' \in {"up", "rejecting", "dead"},
           \/ how = "completed" /\ signal = "completed"
           \/ how = "failed" /\ signal \in {"truthy", "falsy"}
           \/ how = "failed" /\ signal = "completed" /\ source = "asyncIterable"
    PROVE  IInv'
<1> USE DEF IInv
<1>0. /\ end' = how
      /\ told' = IF IsSubscribed THEN signal ELSE told
      /\ UNCHANGED <<source, made, values, generator, sent, delivered>>
  BY DEF EndsAs
<1>1. told = "open" /\ generator \notin {"returned", "threw"}
  BY WorksUntold DEF EndsAs
<1>2. TypeOK'
  BY <1>0 DEF TypeOK
<1>3. Unsubscribed'
  <2>1. generator = "fresh" => source = "processor"
    BY DEF EndsAs, Works, IsSubscribed
  <2> QED BY <1>0, <2>1 DEF Unsubscribed, IsSubscribed
<1>4. TellsTheEnd'
  BY <1>0, <1>1 DEF TellsTheEnd
<1>5. Conserved' /\ EndsEmpty'
  BY <1>0, <1>1 DEF Conserved, EndsEmpty, IsSubscribed, ThrewInSubscribe
<1> QED BY <1>2, <1>3, <1>4, <1>5

LEMMA SourceEndKeeps == ASSUME IInv, Complete \/ Fail \/ Throw PROVE IInv'
<1>0. process \in {"up", "rejecting", "dead"}
  BY DEF IInv, TypeOK
<1>1. CASE Complete
  BY <1>0, <1>1, EndKeeps DEF Complete
<1>2. CASE Fail
  <2>1. PICK err \in Errors : EndsAs("failed", err)
    BY <1>2 DEF Fail
  <2>2. err \in {"truthy", "falsy"}
    BY BoundsAssumption
  <2> QED BY <1>0, <1>2, <2>1, <2>2, EndKeeps DEF Fail
<1>3. CASE Throw
  BY <1>0, <1>3, EndKeeps DEF Throw
<1> QED BY <1>1, <1>2, <1>3

LEMMA DieKeeps == ASSUME IInv, Die PROVE IInv'
<1> QED BY DEF IInv, Die, sourceVars, iteratorVars, TypeOK, Unsubscribed, TellsTheEnd,
       Conserved, EndsEmpty, IsSubscribed, ThrewInSubscribe

\* A turn that finds what it was told: of the first request, after a yield, by
\* the timer.
LEMMA TurnKeeps ==
    ASSUME IInv, generator \in {"fresh", "yielded", "deferred"},
           GoOn(values, told), UNCHANGED <<sourceVars, told, process, sent>>
    PROVE  IInv'
<1> USE DEF IInv
<1>0. /\ values' \in Seq(Items)
      /\ delivered' \in Seq(Items)
      /\ generator' \in {"yielded", "deferred", "returned", "threw"}
      /\ delivered' \o values' = delivered \o values
      /\ generator' = "returned" => told = "completed" /\ values' = <<>>
      /\ generator' = "threw" => told = "truthy" /\ values' = <<>>
  BY Turn DEF TypeOK
<1>1. delivered \o values = sent
  <2>1. CASE generator = "fresh"
    BY <2>1, NothingLeft DEF Unsubscribed, TypeOK
  <2>2. CASE generator # "fresh"
    BY <2>2 DEF Conserved, IsSubscribed, ThrewInSubscribe
  <2> QED BY <2>1, <2>2
<1>2. TypeOK'
  BY <1>0 DEF TypeOK, sourceVars
<1>3. TellsTheEnd' /\ Unsubscribed'
  BY <1>0 DEF TellsTheEnd, Unsubscribed, sourceVars
<1>4. Conserved'
  BY <1>0, <1>1 DEF Conserved
<1>5. EndsEmpty'
  <2>1. generator' = "threw" => end' = "failed"
    BY <1>0 DEF TellsTheEnd, sourceVars
  <2> QED BY <1>0, <2>1 DEF EndsEmpty
<1> QED BY <1>2, <1>3, <1>4, <1>5

\* An iterable is told whole, with its end, or throws with what it has told.
LEMMA SubscribeIterableKeeps ==
    ASSUME IInv, generator = "fresh", NEW n \in 0..MaxItems, SubscribeIterable(n),
           UNCHANGED <<source, process>>
    PROVE  IInv'
<1> USE DEF IInv
<1>0. source = "iterable" /\ made' = n /\ sent' = [i \in 1..n |-> i]
  BY DEF SubscribeIterable
<1>1. sent' \in Seq(Items)
  BY <1>0, BoundsAssumption DEF Items
<1>2. delivered = <<>>
  BY DEF Unsubscribed
<1>3. CASE end' = "completed" /\ told' = "completed" /\ GoOn(sent', told')
  <2>0. PICK all \in Seq(Items) : all = sent'
    BY <1>1
  <2>1. GoOn(all, "completed")
    BY <1>3, <2>0
  <2>2. /\ values' \in Seq(Items)
        /\ delivered' \in Seq(Items)
        /\ generator' \in {"yielded", "deferred", "returned", "threw"}
        /\ delivered' \o values' = delivered \o all
        /\ generator' = "returned" => values' = <<>>
        /\ generator' # "threw"
    BY <2>1, Turn DEF TypeOK
  <2>3. delivered' \o values' = sent'
    BY <2>0, <2>2, <1>2, NothingLeft
  <2>4. TypeOK'
    BY <2>2, <1>0, <1>1, <1>3 DEF TypeOK
  <2> QED BY <2>2, <2>3, <2>4, <1>3
       DEF Unsubscribed, TellsTheEnd, Conserved, EndsEmpty
<1>4. CASE end' = "failed" /\ values' = sent' /\ generator' = "threw"
           /\ UNCHANGED <<told, delivered>>
  <2>1. TypeOK'
    BY <1>0, <1>1, <1>4 DEF TypeOK
  <2>2. told' = "open"
    BY <1>4 DEF Unsubscribed
  <2> QED BY <2>1, <2>2, <1>0, <1>4
       DEF Unsubscribed, TellsTheEnd, Conserved, EndsEmpty, ThrewInSubscribe
<1> QED BY <1>3, <1>4 DEF SubscribeIterable

LEMMA SubscribeErrorKeeps ==
    ASSUME IInv, generator = "fresh", SubscribeError, UNCHANGED <<source, process>>
    PROVE  IInv'
<1> USE DEF IInv
<1>0. end' = "failed" /\ told' = "truthy" /\ UNCHANGED <<made, sent>>
  BY DEF SubscribeError
<1>1. GoOn(values, "truthy")
  BY <1>0 DEF SubscribeError
<1>2. /\ values' \in Seq(Items)
      /\ delivered' \in Seq(Items)
      /\ generator' \in {"yielded", "deferred", "returned", "threw"}
      /\ delivered' \o values' = delivered \o values
      /\ generator' # "returned"
      /\ generator' = "threw" => values' = <<>>
  BY <1>1, Turn DEF TypeOK
<1>3. delivered' \o values' = sent'
  BY <1>0, <1>2, NothingLeft DEF Unsubscribed, TypeOK
<1>4. TypeOK'
  BY <1>0, <1>2 DEF TypeOK
<1> QED BY <1>0, <1>2, <1>3, <1>4
     DEF Unsubscribed, TellsTheEnd, Conserved, EndsEmpty

LEMMA StartKeeps == ASSUME IInv, Start PROVE IInv'
<1>0. generator = "fresh" /\ UNCHANGED <<source, process>>
  BY DEF Start
<1>1. CASE SubscribeLater
  BY <1>0, <1>1, TurnKeeps DEF SubscribeLater, sourceVars
<1>2. CASE SubscribeError
  BY <1>0, <1>2, SubscribeErrorKeeps
<1>3. CASE \E n \in 0..MaxItems : SubscribeIterable(n)
  BY <1>0, <1>3, SubscribeIterableKeeps
<1> QED BY <1>1, <1>2, <1>3 DEF Start

LEMMA LeaveKeeps == ASSUME IInv, Leave PROVE IInv'
<1> QED BY DEF IInv, Leave, sourceVars, TypeOK, Unsubscribed, TellsTheEnd,
       Conserved, EndsEmpty, IsSubscribed, ThrewInSubscribe

LEMMA NextInvariant == IInv /\ [Next]_vars => IInv'
<1> SUFFICES ASSUME IInv, [Next]_vars PROVE IInv'
  OBVIOUS
<1>1. CASE Make
  BY <1>1, MakeKeeps
<1>2. CASE Complete \/ Fail \/ Throw
  BY <1>2, SourceEndKeeps
<1>3. CASE Die
  BY <1>3, DieKeeps
<1>4. CASE Start
  BY <1>4, StartKeeps
<1>5. CASE Resume
  BY <1>5, TurnKeeps DEF Resume
<1>6. CASE Timer
  BY <1>6, TurnKeeps DEF Timer
<1>7. CASE Leave
  BY <1>7, LeaveKeeps
<1>8. CASE UNCHANGED vars
  BY <1>8 DEF vars, sourceVars, iteratorVars, IInv, TypeOK, Unsubscribed, TellsTheEnd,
     Conserved, EndsEmpty, IsSubscribed, ThrewInSubscribe
<1> QED BY <1>1, <1>2, <1>3, <1>4, <1>5, <1>6, <1>7, <1>8 DEF Next

THEOREM Invariant == Spec => []IInv
  BY InitInvariant, NextInvariant, PTL DEF Spec

\* The variables have their types, for any number of values.
THEOREM TypeCorrect == Spec => []TypeOK
<1>1. IInv => TypeOK
  BY DEF IInv
<1> QED BY <1>1, Invariant, PTL

\* A loop over publisherToAsyncIterator that ends of itself has got everything
\* its subscriber was told, whenever the source ended, and takes neither a
\* failure for the end nor the end for a failure, but for the two exceptions
\* that EndsWithAll names.
THEOREM LoopEndsWithAll == Spec => []EndsWithAll
<1>1. IInv => EndsWithAll
  <2> SUFFICES ASSUME IInv PROVE EndsWithAll
    OBVIOUS
  <2> USE DEF IInv
  <2>1. ASSUME generator \in {"returned", "threw"}, ~ThrewInSubscribe
        PROVE  delivered = sent
    <3>1. values = <<>> /\ delivered \o values = sent
      BY <2>1 DEF EndsEmpty, Conserved, IsSubscribed
    <3> QED BY <3>1, NothingLeft DEF TypeOK
  <2>2. generator = "returned" => end = "completed" \/ source = "asyncIterable"
    BY DEF EndsEmpty, TellsTheEnd
  <2>3. generator = "threw" => end = "failed"
    BY DEF EndsEmpty
  <2> QED BY <2>1, <2>2, <2>3 DEF EndsWithAll, ThrewInSubscribe
<1> QED BY <1>1, Invariant, PTL

-----------------------------------------------------------------------------
(* Over a DefaultQueueProcessor, AsyncChannel                              *)

\* How the subscriber has been told of the end, and how the loop has ended, as
\* AsyncChannel has them.
Ending == CASE told = "truthy" -> "failed"
            [] told = "falsy" -> "open"
            [] OTHER -> told
Outcome == CASE generator = "returned" -> "completed"
             [] generator = "threw" -> "failed"
             [] generator = "left" -> "left"
             [] OTHER -> "open"

LEMMA ChannelInit == Init => Channel!Init
  BY DEF Init, Channel!Init

LEMMA ChannelStutter ==
    ASSUME sent' = sent, Ending' = Ending, delivered' = delivered, Outcome' = Outcome
    PROVE  [Channel!Next]_(Channel!vars)
  BY DEF Channel!vars, Ending, Outcome

\* A value told to the subscriber; one that comes before it is nobody's.
LEMMA MakeIsTell ==
    ASSUME IInv, Make PROVE [Channel!Next]_(Channel!vars)
<1>0. /\ made' = made + 1 /\ made < MaxItems
      /\ UNCHANGED <<told, generator, delivered>>
  BY DEF Make
<1>1. Ending' = Ending /\ Outcome' = Outcome /\ Ending = "open"
  BY <1>0, WorksUntold DEF Make, Ending, Outcome
<1>2. CASE IsSubscribed
  <2>1. made' \in Items /\ sent' = Append(sent, made')
    BY <1>0, <1>2, BoundsAssumption DEF Make, IInv, TypeOK, Items
  <2>2. Channel!Tell
    BY <2>1, <1>0, <1>1 DEF Channel!Tell, Ending, Outcome
  <2> QED BY <2>2 DEF Channel!Next
<1>3. CASE ~IsSubscribed
  BY <1>0, <1>1, <1>3, ChannelStutter DEF Make
<1> QED BY <1>2, <1>3

\* An end: none yet for a source without a subscriber, and none that the
\* generator notices for a falsy error.
LEMMA EndIsEnd ==
    ASSUME IInv, NEW how, NEW signal \in {"completed", "truthy", "falsy"},
           EndsAs(how, signal)
    PROVE  [Channel!Next]_(Channel!vars)
<1>0. /\ told' = IF IsSubscribed THEN signal ELSE told
      /\ UNCHANGED <<generator, sent, delivered>>
  BY DEF EndsAs
<1>1. Ending = "open" /\ Outcome' = Outcome
  BY <1>0, WorksUntold DEF EndsAs, Ending, Outcome
<1>2. Ending' \in {"open", "completed", "failed"}
  BY <1>0, WorksUntold DEF EndsAs, Ending
<1>3. CASE Ending' = "open"
  BY <1>0, <1>1, <1>3, ChannelStutter
<1>4. CASE Ending' # "open"
  <2>1. Channel!End
    BY <1>0, <1>1, <1>2, <1>4 DEF Channel!End, Ending, Outcome
  <2> QED BY <2>1 DEF Channel!Next
<1> QED BY <1>3, <1>4

\* A turn delivers the next value, concludes, or waits.
LEMMA TurnIsDeliverOrConclude ==
    ASSUME IInv, generator \in {"fresh", "yielded", "deferred"},
           GoOn(values, told), UNCHANGED <<told, sent>>
    PROVE  [Channel!Next]_(Channel!vars)
<1>0. Outcome = "open" /\ Ending' = Ending
  BY DEF Outcome, Ending
<1>1. delivered \o values = sent
  <2>1. CASE generator = "fresh"
    BY <2>1, NothingLeft DEF IInv, Unsubscribed, TypeOK
  <2>2. CASE generator # "fresh"
    BY <2>2 DEF IInv, Conserved, IsSubscribed, ThrewInSubscribe
  <2> QED BY <2>1, <2>2
<1>2. CASE values # <<>>
  <2>1. delivered' = Append(delivered, Head(values)) /\ generator' = "yielded"
    BY <1>2 DEF GoOn
  <2>2. Len(delivered) < Len(sent) /\ Head(values) = sent[Len(delivered) + 1]
    BY <1>1, <1>2, NextOfAll DEF IInv, TypeOK
  <2>3. Channel!Deliver
    BY <1>0, <2>1, <2>2 DEF Channel!Deliver, Ending, Outcome
  <2> QED BY <2>3 DEF Channel!Next
<1>3. CASE values = <<>>
  <2>1. delivered' = delivered
    BY <1>3 DEF GoOn
  <2>2. generator' = CASE told = "truthy" -> "threw"
                       [] told = "completed" -> "returned"
                       [] OTHER -> "deferred"
    BY <1>3 DEF GoOn
  <2>3. CASE told \in {"truthy", "completed"}
    <3>1. delivered = sent
      BY <1>1, <1>3, NothingLeft DEF IInv, TypeOK
    <3>2. Ending # "open" /\ Outcome' = Ending
      BY <2>2, <2>3 DEF Ending, Outcome
    <3>3. Channel!Conclude
      BY <1>0, <2>1, <3>1, <3>2 DEF Channel!Conclude, Ending, Outcome
    <3> QED BY <3>3 DEF Channel!Next
  <2>4. CASE told \notin {"truthy", "completed"}
    <3>1. Outcome' = Outcome
      BY <2>2, <2>4, <1>0 DEF Outcome
    <3> QED BY <1>0, <2>1, <3>1, ChannelStutter
  <2> QED BY <2>3, <2>4
<1> QED BY <1>2, <1>3

LEMMA LeaveIsLeave ==
    ASSUME Leave PROVE [Channel!Next]_(Channel!vars)
<1>1. Channel!Leave
  BY DEF Leave, Channel!Leave
<1> QED BY <1>1 DEF Channel!Next

LEMMA ChannelStep ==
    IInv /\ [Next]_vars => [OverProcessor => [Channel!Next]_(Channel!vars)]_vars
<1> SUFFICES ASSUME IInv, [Next]_vars, OverProcessor
             PROVE  [Channel!Next]_(Channel!vars)
  OBVIOUS
<1>1. CASE Make
  BY <1>1, MakeIsTell
<1>2. CASE Complete
  BY <1>2, EndIsEnd DEF Complete
<1>3. CASE Fail
  <2>1. PICK err \in Errors : EndsAs("failed", err)
    BY <1>3 DEF Fail
  <2>2. err \in {"completed", "truthy", "falsy"}
    BY BoundsAssumption
  <2> QED BY <2>1, <2>2, EndIsEnd
<1>4. CASE Die
  BY <1>4, ChannelStutter DEF Die, iteratorVars, Ending, Outcome
<1>5. CASE Start
  <2>1. SubscribeLater /\ generator = "fresh"
    BY <1>5 DEF Start, OverProcessor, SubscribeError, SubscribeIterable
  <2> QED BY <2>1, TurnIsDeliverOrConclude DEF SubscribeLater
<1>6. CASE Resume
  BY <1>6, TurnIsDeliverOrConclude DEF Resume
<1>7. CASE Timer
  BY <1>7, TurnIsDeliverOrConclude DEF Timer
<1>8. CASE Leave
  BY <1>8, LeaveIsLeave
<1>9. CASE UNCHANGED vars
  BY <1>9, ChannelStutter DEF vars, iteratorVars, Ending, Outcome
<1>10. ~Throw
  BY DEF Throw, OverProcessor
<1> QED BY <1>1, <1>2, <1>3, <1>4, <1>5, <1>6, <1>7, <1>8, <1>9, <1>10 DEF Next

\* Over a DefaultQueueProcessor publisherToAsyncIterator and its loop take no
\* step that the channel of AsyncChannel does not: every value pushed while the
\* generator is suspended is delivered once, in order and before the end.
THEOREM GeneratorFollowsChannel == Spec => FollowsChannel
<1>1. Init => (OverProcessor => Channel!Init)
  BY ChannelInit
<1> QED BY <1>1, ChannelStep, Invariant, PTL DEF Spec, FollowsChannel
=============================================================================
