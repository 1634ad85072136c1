------------------------ MODULE RSocketRequesterProofs ------------------------
(***************************************************************************)
(* Proofs about RSocketRequester for any requests, any identifier space,   *)
(* any bounds and any environment (AckFirst, Breaks, Throwing).  Five      *)
(* parts, each resting on the ones before it:                              *)
(*                                                                         *)
(*   types    TypeOK                                                       *)
(*   answers  SendersAreOpen, OwnAnswers, OutcomeTruthful     from IInv    *)
(*   order    SignalOrder, InOrder                            from OInv    *)
(*   nothing missing  NothingMissing, NoAnswerLost      from AInv, EInv    *)
(*   promise  each interaction implements Interaction         from AInv    *)
(***************************************************************************)
EXTENDS RSocketRequester, FiniteSetTheorems, SequenceTheorems, WellFoundedInduction, TLAPS

-----------------------------------------------------------------------------
(* Peers and identifiers                                                   *)

LEMMA OtherPeer ==
    ASSUME NEW p \in Peer
    PROVE  Other(p) \in Peer /\ Other(p) # p /\ Other(Other(p)) = p
BY PeerAssumption DEF Other, Peer

LEMMA OwnerPeer ==
    ASSUME NEW r \in Requests
    PROVE  /\ Owner[r] \in Peer /\ Responder(r) \in Peer
           /\ Responder(r) # Owner[r] /\ Other(Responder(r)) = Owner[r]
BY RequestAssumption, OtherPeer DEF Responder

LEMMA IdsType ==
    ASSUME NEW p \in Peer, NEW id \in IdsOf(Initial(p))
    PROVE  id \in 1..MASK /\ id \in 0..MASK /\ id \in -1..MASK
BY MaskAssumption DEF IdsOf

\* The two ends never use the same identifier.
LEMMA DisjointIds ==
    ASSUME NEW p \in Peer, NEW id \in IdsOf(Initial(p))
    PROVE  id \notin IdsOf(Initial(Other(p)))
<1>1. CASE p = Client
  BY <1>1, MaskAssumption, PeerAssumption DEF IdsOf, Initial, Other, Peer
<1>2. CASE p = Server
  BY <1>2, MaskAssumption, PeerAssumption DEF IdsOf, Initial, Other, Peer
<1> QED
  BY <1>1, <1>2 DEF Peer

-----------------------------------------------------------------------------
(* Type correctness                                                        *)

LEMMA FrameTypes ==
    ASSUME NEW r \in Requests, NEW id \in 0..MASK, NEW by \in {"caller", "handler"},
           NEW item \in 0..MaxItems, NEW data \in BOOLEAN, NEW complete \in BOOLEAN
    PROVE  /\ RequestFrame(r, id) \in Frame
           /\ PayloadFrame(r, id, by, item, data, complete) \in Frame
           /\ ErrorFrame(r, id, by) \in Frame
BY RequestAssumption DEF Frame, RequestFrame, PayloadFrame, ErrorFrame

LEMMA SendType ==
    ASSUME TypeOK, NEW p \in Peer, NEW f \in Frame, Send(p, f)
    PROVE  wire' \in [Peer -> Seq(Frame)]
BY OtherPeer DEF Send, TypeOK

LEMMA WriteType ==
    ASSUME TypeOK, NEW p \in Peer, NEW f \in Frame, Write(p, f)
    PROVE  wire' \in [Peer -> Seq(Frame)] /\ link' \in [Peer -> {"up", "down", "dead"}]
BY SendType DEF Write, TypeOK

LEMMA ReadsType ==
    ASSUME TypeOK, NEW p \in Peer, NEW types, Reads(p, types)
    PROVE  /\ wire' \in [Peer -> Seq(Frame)]
           /\ Head(wire[p]) \in Frame
           /\ Head(wire[p]).type \in types
           /\ Receiver(p) \in Requests \cup {NoRequest}
<1>1. wire[p] \in Seq(Frame) /\ wire[p] # <<>>
  BY DEF Reads, TypeOK
<1>2. Head(wire[p]) \in Frame /\ Tail(wire[p]) \in Seq(Frame)
  BY <1>1
<1>3. wire' \in [Peer -> Seq(Frame)]
  BY <1>2 DEF Reads, TypeOK
<1>4. Head(wire[p]).sid \in 0..MASK
  BY <1>2 DEF Frame
<1>5. Receiver(p) \in Requests \cup {NoRequest}
  <2>1. senders[p] \in [0..MASK -> Requests \cup {NoRequest}]
    BY DEF TypeOK
  <2> QED
    BY <1>4, <2>1 DEF Receiver
<1>6. Head(wire[p]).type \in types
  BY DEF Reads
<1> QED
  BY <1>2, <1>3, <1>5, <1>6

LEMMA NotifiedType ==
    ASSUME TypeOK, NEW s \in Requests, NEW news \in Seq(Signal)
    PROVE  Notified(s, news) \in Seq(Signal)
<1>1. signals[s] \in Seq(Signal)
  BY DEF TypeOK
<1>2. news # <<>> => <<Head(news)>> \in Seq(Signal)
  OBVIOUS
<1> QED
  BY <1>1, <1>2 DEF Notified, Settled

LEMMA SignalTypes ==
    ASSUME NEW f \in Frame
    PROVE  PayloadSignals(f) \in Seq(Signal) /\ <<SignalOf("Error", f)>> \in Seq(Signal)
<1>1. /\ SignalOf("Next", f) \in Signal /\ SignalOf("Complete", f) \in Signal
      /\ SignalOf("Error", f) \in Signal
  BY DEF SignalOf, Signal, Frame
<1> QED
  BY <1>1 DEF PayloadSignals

LEMMA InitType == Init => TypeOK
BY MaskAssumption, PeerAssumption, RequestAssumption DEF Init, TypeOK, Initial, Peer

LEMMA CallType ==
    ASSUME TypeOK, NEW r \in Requests, Call(r)
    PROVE  TypeOK'
<1> DEFINE p == Owner[r]
<1>0. p \in Peer
  BY OwnerPeer
<1> USE DEF callVars, uploadVars, handlerVars
<1>1. CASE Request(r)
  <2>1. PICK id \in IdsOf(Initial(p)) :
          /\ streamId' = [streamId EXCEPT ![p] = id]
          /\ sid' = [sid EXCEPT ![r] = id]
          /\ IF link[p] = "up" THEN Send(p, RequestFrame(r, id)) ELSE UNCHANGED wire
    BY <1>1 DEF Request
  <2>2. id \in 0..MASK /\ id \in -1..MASK
    BY <1>0, IdsType
  <2>3. wire' \in [Peer -> Seq(Frame)]
    <3>1. RequestFrame(r, id) \in Frame
      BY <2>2, RequestAssumption DEF RequestFrame, Frame
    <3> QED
      BY <1>0, <2>1, <3>1, SendType DEF TypeOK
  <2>4. streamId' \in [Peer -> -1..MASK] /\ sid' \in [Requests -> 0..MASK]
    BY <1>0, <2>1, <2>2 DEF TypeOK
  <2> QED
    BY <1>1, <2>3, <2>4 DEF Request, TypeOK
<1>2. CASE MetadataPush(r)
  <2>1. RequestFrame(r, 0) \in Frame
    BY MaskAssumption, RequestAssumption DEF RequestFrame, Frame
  <2>2. wire' \in [Peer -> Seq(Frame)]
    BY <1>0, <1>2, <2>1, SendType DEF MetadataPush, TypeOK
  <2> QED
    BY <1>2, <2>2 DEF MetadataPush, TypeOK
<1>3. CASE Written(r)
  <2>1. SubscribeSignal(r) \in Signal
    BY RequestAssumption DEF SubscribeSignal, Signal
  <2>2. signals' \in [Requests -> Seq(Signal)]
    BY <1>3, <2>1 DEF Written, OnSubscribe, TypeOK
  <2>3. upload' \in [Requests -> {"none", "open", "ended"}]
    BY <1>3 DEF Written, TypeOK
  <2>4. senders' \in [Peer -> [0..MASK -> Requests \cup {NoRequest}]]
    BY <1>0, <1>3 DEF Written, TypeOK
  <2> QED
    BY <1>3, <2>2, <2>3, <2>4 DEF Written, TypeOK
<1>4. CASE Sent(r)
  BY <1>4 DEF Sent, TypeOK
<1>5. CASE WriteFails(r)
  BY <1>0, <1>5 DEF WriteFails, TypeOK
<1>6. CASE UploadNext(r)
  <2>1. uploaded[r] + 1 \in 0..MaxItems /\ uploaded' \in [Requests -> 0..MaxItems]
    BY <1>6, RequestAssumption DEF UploadNext, TypeOK
  <2>2. PayloadFrame(r, sid[r], "caller", uploaded[r] + 1, TRUE, FALSE) \in Frame
    BY <2>1 DEF PayloadFrame, Frame, TypeOK
  <2> QED
    BY <1>0, <1>6, <2>1, <2>2, WriteType DEF UploadNext, TypeOK
<1>7. CASE UploadEnd(r)
  <2>1. /\ PayloadFrame(r, sid[r], "caller", 0, FALSE, TRUE) \in Frame
        /\ ErrorFrame(r, sid[r], "caller") \in Frame
    BY RequestAssumption DEF PayloadFrame, ErrorFrame, Frame, TypeOK
  <2>2. wire' \in [Peer -> Seq(Frame)] /\ link' \in [Peer -> {"up", "down", "dead"}]
    BY <1>0, <1>7, <2>1, WriteType DEF UploadEnd
  <2>3. upload' \in [Requests -> {"none", "open", "ended"}]
    BY <1>7 DEF UploadEnd, TypeOK
  <2> QED
    BY <1>7, <2>2, <2>3 DEF UploadEnd, TypeOK
<1> QED
  BY <1>1, <1>2, <1>3, <1>4, <1>5, <1>6, <1>7 DEF Call

LEMMA HandleType ==
    ASSUME TypeOK, NEW r \in Requests, Handle(r)
    PROVE  TypeOK'
<1> DEFINE p == Responder(r)
<1>0. p \in Peer
  BY OwnerPeer
<1>. /\ replyTo[r] \in 0..MASK /\ emitted[r] \in Seq(BOOLEAN) /\ Len(emitted[r]) \in 0..MaxItems
  BY RequestAssumption DEF TypeOK
<1> USE DEF callVars, uploadVars, handlerVars
<1>1. ASSUME NEW data \in BOOLEAN, Answer(r, data) PROVE TypeOK'
  <2>1. PayloadFrame(r, replyTo[r], "handler", 1, data, TRUE) \in Frame
    BY RequestAssumption DEF PayloadFrame, Frame
  <2>2. wire' \in [Peer -> Seq(Frame)] /\ link' \in [Peer -> {"up", "down", "dead"}]
    BY <1>0, <1>1, <2>1, WriteType DEF Answer
  <2>3. /\ emitted' \in [Requests -> Seq(BOOLEAN)]
        /\ \A s \in Requests : Len(emitted'[s]) <= MaxItems
    BY <1>1, RequestAssumption DEF Answer, TypeOK
  <2> QED
    BY <1>1, <2>2, <2>3 DEF Answer, TypeOK
<1>2. ASSUME NEW data \in BOOLEAN, EmitNext(r, data) PROVE TypeOK'
  <2>1. Len(emitted[r]) + 1 \in 0..MaxItems
    BY <1>2, RequestAssumption DEF EmitNext
  <2>2. PayloadFrame(r, replyTo[r], "handler", Len(emitted[r]) + 1, data, FALSE) \in Frame
    BY <2>1 DEF PayloadFrame, Frame
  <2>3. wire' \in [Peer -> Seq(Frame)] /\ link' \in [Peer -> {"up", "down", "dead"}]
    BY <1>0, <1>2, <2>2, WriteType DEF EmitNext
  <2>4. /\ emitted' \in [Requests -> Seq(BOOLEAN)]
        /\ \A s \in Requests : Len(emitted'[s]) <= MaxItems
    BY <1>2, <2>1 DEF EmitNext, TypeOK
  <2> QED
    BY <1>2, <2>3, <2>4 DEF EmitNext, TypeOK
<1>3. CASE EmitComplete(r) \/ Fail(r)
  <2>1. /\ PayloadFrame(r, replyTo[r], "handler", 0, FALSE, TRUE) \in Frame
        /\ ErrorFrame(r, replyTo[r], "handler") \in Frame
    BY RequestAssumption DEF PayloadFrame, ErrorFrame, Frame
  <2>2. wire' \in [Peer -> Seq(Frame)] /\ link' \in [Peer -> {"up", "down", "dead"}]
    BY <1>0, <1>3, <2>1, WriteType DEF EmitComplete, Fail
  <2> QED
    BY <1>3, <2>2 DEF EmitComplete, Fail, TypeOK
<1>4. CASE Swallow(r) \/ Finish(r)
  BY <1>4 DEF Swallow, Finish, TypeOK
<1> QED
  BY <1>1, <1>2, <1>3, <1>4 DEF Handle

LEMMA ReceiveType ==
    ASSUME TypeOK, NEW p \in Peer, Receive(p)
    PROVE  TypeOK'
<1> DEFINE f == Head(wire[p])
           s == Receiver(p)
<1> USE DEF callVars, uploadVars, handlerVars
<1>1. CASE HandleRequest(p)
  <2>1. f \in Frame /\ wire' \in [Peer -> Seq(Frame)]
    BY <1>1, ReadsType DEF HandleRequest
  <2>2. f.req \in Requests /\ f.sid \in 0..MASK
    BY <2>1 DEF Frame
  <2> QED
    BY <1>1, <2>1, <2>2 DEF HandleRequest, TypeOK
<1>2. CASE IgnoreRequest(p) \/ Drop(p)
  <2>1. wire' \in [Peer -> Seq(Frame)]
    BY <1>2, ReadsType DEF IgnoreRequest, Drop
  <2> QED
    BY <1>2, <2>1 DEF IgnoreRequest, Drop, TypeOK
<1>3. CASE ReceivePayload(p) \/ ReceiveError(p)
  <2>1. f \in Frame /\ wire' \in [Peer -> Seq(Frame)] /\ s \in Requests
    BY <1>3, ReadsType DEF ReceivePayload, ReceiveError
  <2>2. f.sid \in 0..MASK
    BY <2>1 DEF Frame
  <2>3. /\ Notified(s, PayloadSignals(f)) \in Seq(Signal)
        /\ Notified(s, <<SignalOf("Error", f)>>) \in Seq(Signal)
    BY <2>1, SignalTypes, NotifiedType
  <2>4. signals' \in [Requests -> Seq(Signal)]
    BY <1>3, <2>3 DEF ReceivePayload, ReceiveError, TypeOK
  <2>5. senders' \in [Peer -> [0..MASK -> Requests \cup {NoRequest}]]
    <3>1. senders' = senders \/ Unregister(p, f.sid)
      BY <1>3 DEF ReceivePayload, ReceiveError
    <3>2. [senders[p] EXCEPT ![f.sid] = NoRequest] \in [0..MASK -> Requests \cup {NoRequest}]
      BY <2>2 DEF TypeOK
    <3>3. CASE Unregister(p, f.sid)
      BY <3>2, <3>3 DEF Unregister, TypeOK
    <3>4. CASE senders' = senders
      BY <3>4 DEF TypeOK
    <3> QED
      BY <3>1, <3>3, <3>4
  <2>6. call' \in [Requests -> {"idle", "writing", "failing", "refused", "open", "over"}]
    BY <1>3 DEF ReceivePayload, ReceiveError, TypeOK
  <2> QED
    BY <1>3, <2>1, <2>4, <2>5, <2>6 DEF ReceivePayload, ReceiveError, TypeOK
<1> QED
  BY <1>1, <1>2, <1>3 DEF Receive

LEMMA DisconnectType ==
    ASSUME TypeOK, NEW p \in Peer, Disconnect(p)
    PROVE  TypeOK'
<1>1. PICK n \in 0..Len(wire[Other(p)]) :
        wire' = [wire EXCEPT ![Other(p)] = SubSeq(@, 1, n)]
  BY DEF Disconnect
<1>2. wire[Other(p)] \in Seq(Frame)
  BY OtherPeer DEF TypeOK
<1>3. SubSeq(wire[Other(p)], 1, n) \in Seq(Frame)
  BY <1>2
<1>4. wire' \in [Peer -> Seq(Frame)]
  BY <1>1, <1>3 DEF TypeOK
<1> QED
  BY <1>4 DEF Disconnect, TypeOK, callVars, uploadVars, handlerVars

LEMMA NextType == TypeOK /\ [Next]_vars => TypeOK'
<1> SUFFICES ASSUME TypeOK, [Next]_vars PROVE TypeOK'
  OBVIOUS
<1>1. ASSUME NEW r \in Requests, Call(r) \/ Handle(r) PROVE TypeOK'
  BY <1>1, CallType, HandleType
<1>2. ASSUME NEW p \in Peer, Receive(p) \/ Disconnect(p) PROVE TypeOK'
  BY <1>2, ReceiveType, DisconnectType
<1>3. CASE UNCHANGED vars
  BY <1>3 DEF vars, callVars, uploadVars, handlerVars, TypeOK
<1> QED
  BY <1>1, <1>2, <1>3 DEF Next

\* Whatever the two ends do and however their connection breaks, every counter,
\* table, frame and signal keeps its type: identifiers stay within MASK, and a
\* closure's stream identifier is always one a frame can carry.
THEOREM TypeCorrect == Spec => []TypeOK
BY InitType, NextType, PTL DEF Spec
-----------------------------------------------------------------------------
(***************************************************************************)
(* Answers.  No cross-talk: what a requester is told was produced by the   *)
(* handler of its own request.  The invariant says of every frame on the   *)
(* wire whose it is and what it tells (FramesOK), in what order frames of  *)
(* one request may follow each other (WireOrderOK), that requests waiting  *)
(* for answers hold different identifiers (UniqueIds), how a call and its  *)
(* handler go together (CallsOK), and what `senders` holds.                *)
(***************************************************************************)

IInv ==
    /\ TypeOK
    /\ FramesOK
    /\ WireOrderOK
    /\ UniqueIds
    /\ CallsOK
    /\ SendersAreOpen

-----------------------------------------------------------------------------
(* Frames written and read                                                 *)

LEMMA RangeOfAppend ==
    ASSUME NEW S, NEW s \in Seq(S), NEW x \in S
    PROVE  Range(Append(s, x)) = Range(s) \cup {x}
<1> DEFINE n == Len(s)
           t == Append(s, x)
<1>1. /\ n \in Nat /\ DOMAIN s = 1..n /\ DOMAIN t = 1..(n + 1)
      /\ t[n + 1] = x /\ \A k \in 1..n : t[k] = s[k]
  OBVIOUS
<1>2. 1..(n + 1) = 1..n \cup {n + 1}
  BY <1>1
<1> HIDE DEF n, t
<1> QED
  BY <1>1, <1>2 DEF Range

LEMMA RangeOfTail ==
    ASSUME NEW S, NEW s \in Seq(S), s # <<>>
    PROVE  Range(Tail(s)) \subseteq Range(s) /\ Head(s) \in Range(s)
<1>1. DOMAIN s = 1..Len(s) /\ Len(s) \in Nat \ {0} /\ Head(s) = s[1]
  OBVIOUS
<1>2. DOMAIN Tail(s) = 1..(Len(s) - 1) /\ \A k \in 1..(Len(s) - 1) : Tail(s)[k] = s[k + 1]
  BY <1>1
<1> QED
  BY <1>1, <1>2 DEF Range

LEMMA RangeOfPrefix ==
    ASSUME NEW S, NEW s \in Seq(S), NEW n \in 0..Len(s)
    PROVE  Range(SubSeq(s, 1, n)) \subseteq Range(s)
<1>1. /\ DOMAIN s = 1..Len(s) /\ DOMAIN SubSeq(s, 1, n) = 1..n
      /\ \A k \in 1..n : SubSeq(s, 1, n)[k] = s[k] /\ k \in 1..Len(s)
  OBVIOUS
<1> QED
  BY <1>1 DEF Range

LEMMA SendFrames ==
    ASSUME TypeOK, NEW p \in Peer, NEW f \in Frame, Send(p, f)
    PROVE  /\ Range(wire'[Other(p)]) = Range(wire[Other(p)]) \cup {f}
           /\ wire'[p] = wire[p]
<1>1. /\ Other(p) \in Peer /\ Other(p) # p
      /\ wire[Other(p)] \in Seq(Frame)
  BY OtherPeer DEF TypeOK
<1>2. wire'[Other(p)] = Append(wire[Other(p)], f) /\ wire'[p] = wire[p]
  BY <1>1 DEF Send, TypeOK
<1> QED
  BY <1>1, <1>2, RangeOfAppend

\* Sending f keeps the order if no earlier frame of its request is the last.
LEMMA SendOrder ==
    ASSUME TypeOK, WireOrderOK, NEW p \in Peer, NEW f \in Frame, Send(p, f),
           \A g \in Range(wire[Other(p)]) : g.req = f.req =>
               f.type # "REQUEST" /\ ~(g.by = "handler" /\ Last(g))
    PROVE  WireOrderOK'
<1> DEFINE q == Other(p)
           n == Len(wire[q])
<1>1. /\ q \in Peer /\ q # p
      /\ wire[q] \in Seq(Frame) /\ wire[p] \in Seq(Frame)
      /\ \A o \in Peer : o = p \/ o = q
  BY OtherPeer DEF TypeOK, Other, Peer
<1>2. wire'[q] = Append(wire[q], f) /\ wire'[p] = wire[p]
  BY <1>1 DEF Send, TypeOK
<1>3. /\ n \in Nat /\ Len(wire'[q]) = n + 1 /\ wire'[q][n + 1] = f
      /\ \A k \in 1..n : wire'[q][k] = wire[q][k] /\ wire[q][k] \in Range(wire[q])
  BY <1>1, <1>2 DEF Range
<1> SUFFICES ASSUME NEW o \in Peer, NEW j \in 1..Len(wire'[o]), NEW k \in 1..Len(wire'[o]),
                    j < k, wire'[o][j].req = wire'[o][k].req
             PROVE  /\ wire'[o][k].type # "REQUEST"
                    /\ ~(wire'[o][j].by = "handler" /\ Last(wire'[o][j]))
  BY DEF WireOrderOK, Last
<1>4. CASE o = p
  BY <1>2, <1>4 DEF WireOrderOK
<1>5. CASE o = q /\ k \in 1..n
  <2>1. j \in 1..n
    BY <1>3, <1>5
  <2> QED
    BY <1>1, <1>3, <1>5, <2>1 DEF WireOrderOK
<1>6. CASE o = q /\ k = n + 1
  <2>1. j \in 1..n
    BY <1>3, <1>6
  <2> QED
    BY <1>3, <1>6, <2>1
<1> QED
  BY <1>1, <1>3, <1>4, <1>5, <1>6

LEMMA ReadFrames ==
    ASSUME TypeOK, WireOrderOK, NEW p \in Peer, NEW types, Reads(p, types)
    PROVE  /\ Head(wire[p]) \in Range(wire[p])
           /\ \A q \in Peer : Range(wire'[q]) \subseteq Range(wire[q])
           /\ \A g \in Range(wire'[p]) : g.req = Head(wire[p]).req =>
                 /\ g.type # "REQUEST"
                 /\ ~(Head(wire[p]).by = "handler" /\ Last(Head(wire[p])))
           /\ WireOrderOK'
<1> DEFINE s == wire[p]
<1>1. s \in Seq(Frame) /\ s # <<>> /\ wire' = [wire EXCEPT ![p] = Tail(s)]
  BY DEF Reads, TypeOK
<1>2. wire'[p] = Tail(s) /\ \A q \in Peer : q # p => wire'[q] = wire[q]
  BY <1>1 DEF TypeOK
<1>3. /\ Len(s) \in Nat \ {0} /\ Head(s) = s[1]
      /\ Len(Tail(s)) = Len(s) - 1 /\ DOMAIN Tail(s) = 1..(Len(s) - 1)
      /\ \A k \in 1..(Len(s) - 1) : Tail(s)[k] = s[k + 1]
  BY <1>1
<1>4. Range(wire'[p]) \subseteq Range(s) /\ Head(s) \in Range(s)
  BY <1>1, <1>2, RangeOfTail
<1>5. \A g \in Range(wire'[p]) : g.req = Head(s).req =>
          g.type # "REQUEST" /\ ~(Head(s).by = "handler" /\ Last(Head(s)))
  <2> TAKE g \in Range(wire'[p])
  <2>1. PICK k \in 1..(Len(s) - 1) : g = s[k + 1]
    BY <1>2, <1>3 DEF Range
  <2>2. 1 \in 1..Len(s) /\ k + 1 \in 1..Len(s) /\ 1 < k + 1
    BY <1>3
  <2> QED
    BY <1>3, <2>1, <2>2 DEF WireOrderOK
<1>6. WireOrderOK'
  <2> SUFFICES ASSUME NEW o \in Peer, NEW j \in 1..Len(wire'[o]), NEW k \in 1..Len(wire'[o]),
                      j < k, wire'[o][j].req = wire'[o][k].req
               PROVE  /\ wire'[o][k].type # "REQUEST"
                      /\ ~(wire'[o][j].by = "handler" /\ Last(wire'[o][j]))
    BY DEF WireOrderOK, Last
  <2>1. CASE o # p
    BY <1>2, <2>1 DEF WireOrderOK
  <2>2. CASE o = p
    <3>. wire'[o] = Tail(s) /\ j \in 1..(Len(s) - 1) /\ k \in 1..(Len(s) - 1)
      BY <1>2, <1>3, <2>2
    <3>1. /\ j + 1 \in 1..Len(s) /\ k + 1 \in 1..Len(s) /\ j + 1 < k + 1
          /\ wire'[o][j] = s[j + 1] /\ wire'[o][k] = s[k + 1]
      BY <1>3
    <3> QED
      BY <2>2, <3>1 DEF WireOrderOK
  <2> QED
    BY <2>1, <2>2
<1> QED
  BY <1>2, <1>4, <1>5, <1>6

LEMMA WireType ==
    ASSUME TypeOK, NEW p \in Peer
    PROVE  \A f \in Range(wire[p]) : f \in Frame
BY DEF TypeOK, Range

\* A frame's state of affairs depends on its own request only.
LEMMA FrameStays ==
    ASSUME NEW p \in Peer, NEW f \in Frame, FrameOK(p, f),
           call'[f.req] = call[f.req], sid'[f.req] = sid[f.req],
           handler'[f.req] = handler[f.req]
    PROVE  FrameOK(p, f)'
BY DEF FrameOK, RequestFrameOK, UploadFrameOK, AnswerFrameOK

\* What a step that writes f has to show about the wire.
LEMMA AfterWrite ==
    ASSUME TypeOK, WireOrderOK, NEW p \in Peer, NEW f \in Frame, Write(p, f),
           \A q \in Peer : \A g \in Range(wire[q]) : FrameOK(q, g)',
           FrameOK(Other(p), f)',
           \A g \in Range(wire[Other(p)]) : g.req = f.req =>
               f.type # "REQUEST" /\ ~(g.by = "handler" /\ Last(g))
    PROVE  FramesOK' /\ WireOrderOK'
<1>1. CASE Send(p, f)
  <2>1. WireOrderOK'
    BY <1>1, SendOrder
  <2>2. \A q \in Peer : Range(wire'[q]) \subseteq Range(wire[q]) \cup (IF q = Other(p) THEN {f} ELSE {})
    BY <1>1, SendFrames DEF Other, Peer
  <2>3. FramesOK'
    BY <2>2 DEF FramesOK
  <2> QED
    BY <2>1, <2>3
<1>2. CASE wire' = wire
  BY <1>2 DEF FramesOK, WireOrderOK, Last
<1> QED
  BY <1>1, <1>2 DEF Write

\* ... a step that reads a frame ...
LEMMA AfterRead ==
    ASSUME TypeOK, WireOrderOK, NEW p \in Peer, NEW types, Reads(p, types),
           \A q \in Peer : \A g \in Range(wire'[q]) : FrameOK(q, g)'
    PROVE  FramesOK' /\ WireOrderOK'
BY ReadFrames DEF FramesOK

\* ... and one that leaves the wire alone.
LEMMA AfterNothing ==
    ASSUME WireOrderOK, wire' = wire,
           \A q \in Peer : \A g \in Range(wire[q]) : FrameOK(q, g)'
    PROVE  FramesOK' /\ WireOrderOK'
BY DEF FramesOK, WireOrderOK, Last

\* A process does not come back.
LEMMA DeadForGood ==
    ASSUME TypeOK, NEW p \in Peer, NEW f, Write(p, f), NEW q \in Peer, link[q] = "dead"
    PROVE  link'[q] = "dead"
BY DEF Write, TypeOK

LEMMA SendersStay ==
    ASSUME TypeOK, SendersAreOpen, senders' = senders,
           \A s \in Requests : call[s] = "open" => call'[s] = "open" /\ sid'[s] = sid[s],
           \A s \in Requests : call'[s] = "open" => call[s] = "open"
    PROVE  SendersAreOpen'
<1>1. ASSUME NEW p \in Peer, NEW i \in 0..MASK, NEW s, s = senders[p][i], s # NoRequest
      PROVE  Owner[s] = p /\ sid'[s] = i /\ call'[s] = "open" /\ Answerable(s)
  <2>1. senders[p] \in [0..MASK -> Requests \cup {NoRequest}]
    BY DEF TypeOK
  <2>2. s \in Requests /\ Owner[s] = p /\ sid[s] = i /\ call[s] = "open" /\ Answerable(s)
    BY <1>1, <2>1 DEF SendersAreOpen
  <2> QED
    BY <2>2
<1>2. ASSUME NEW s \in Requests, call'[s] = "open"
      PROVE  senders'[Owner[s]][sid'[s]] = s
  BY <1>2 DEF SendersAreOpen
<1> QED
  BY <1>1, <1>2 DEF SendersAreOpen, Answerable

-----------------------------------------------------------------------------
(* The caller's steps                                                      *)

LEMMA InitIInv == Init => IInv
<1> SUFFICES ASSUME Init PROVE IInv
  OBVIOUS
<1>1. \A p \in Peer : wire[p] = <<>> /\ Range(wire[p]) = {}
  BY DEF Init, Range
<1>2. FramesOK /\ WireOrderOK
  BY <1>1 DEF FramesOK, WireOrderOK
<1>3. UniqueIds /\ CallsOK
  BY DEF Init, UniqueIds, Holds, CallsOK, CallOK
<1>4. SendersAreOpen
  BY DEF Init, SendersAreOpen
<1> QED
  BY <1>2, <1>3, <1>4, InitType DEF IInv

\* A request that has not been made has no frame anywhere.
LEMMA IdleIsUnknown ==
    ASSUME IInv, NEW r \in Requests, call[r] \in {"idle", "failing"}, NEW p \in Peer
    PROVE  \A f \in Range(wire[p]) : f.req # r
BY WireType DEF IInv, FramesOK, FrameOK, RequestFrameOK, UploadFrameOK, AnswerFrameOK, Frame

LEMMA RequestStep ==
    ASSUME IInv, TypeOK', NEW r \in Requests, Request(r)
    PROVE  IInv'
<1> DEFINE p == Owner[r]
<1> USE DEF IInv
<1>1. PICK id \in IdsOf(Initial(p)) :
        /\ NextStreamId(p, id) /\ NoFullTurn(p, id)
        /\ sid' = [sid EXCEPT ![r] = id]
        /\ IF link[p] = "up" THEN Send(p, RequestFrame(r, id)) ELSE UNCHANGED wire
  BY DEF Request
<1>2. /\ p \in Peer /\ Other(p) = Responder(r) /\ id \in 1..MASK /\ id \in 0..MASK
  BY OwnerPeer, IdsType DEF Responder
<1>3. /\ Kind[r] # "push" /\ call[r] = "idle" /\ link[p] # "dead" /\ handler[r] = "none"
      /\ upload[r] = "none"
      /\ call' = [call EXCEPT ![r] = IF link[p] = "up" THEN "writing" ELSE "failing"]
      /\ UNCHANGED <<senders, upload, handler, replyTo, link>>
  BY DEF Request, CallsOK, CallOK, uploadVars, handlerVars
<1>4. /\ sid'[r] = id /\ call'[r] = (IF link[p] = "up" THEN "writing" ELSE "failing")
      /\ \A s \in Requests : s # r => sid'[s] = sid[s] /\ call'[s] = call[s]
  BY <1>1, <1>3 DEF TypeOK
<1>5. \A q \in Peer : \A f \in Range(wire[q]) : FrameOK(q, f)' /\ f.req # r
  <2> TAKE q \in Peer
  <2> TAKE f \in Range(wire[q])
  <2>1. f \in Frame /\ f.req \in Requests /\ f.req # r /\ FrameOK(q, f)
    BY <1>3, WireType, IdleIsUnknown DEF FramesOK, Frame
  <2> QED
    BY <1>3, <1>4, <2>1, FrameStays
<1>6. FramesOK' /\ WireOrderOK'
  <2>1. CASE link[p] = "up"
    <3> DEFINE f == RequestFrame(r, id)
    <3>1. f \in Frame
      BY <1>2, RequestAssumption DEF RequestFrame, Frame
    <3>2. FrameOK(Other(p), f)'
      BY <1>2, <1>3, <1>4, <2>1 DEF FrameOK, RequestFrameOK, UploadFrameOK, AnswerFrameOK, RequestFrame
    <3>3. Write(p, f)
      BY <1>1, <1>3, <2>1 DEF Write
    <3>4. \A g \in Range(wire[Other(p)]) : g.req # f.req
      BY <1>2, <1>5, OtherPeer DEF RequestFrame
    <3> HIDE DEF f
    <3> QED
      BY <1>2, <1>5, <3>1, <3>2, <3>3, <3>4, AfterWrite
  <2>2. CASE link[p] # "up"
    BY <1>1, <1>5, <2>2, AfterNothing
  <2> QED
    BY <2>1, <2>2
<1>7. UniqueIds'
  <2>1. ASSUME NEW s \in Requests, Holds(s), Owner[s] = p, sid[s] = id PROVE FALSE
    <3>1. CASE call[s] = "writing"
      BY <1>1, <2>1, <3>1 DEF NoFullTurn
    <3>2. CASE call[s] = "open"
      <4>1. senders[p][id] = s
        BY <2>1, <3>2 DEF SendersAreOpen
      <4>2. id \notin {i \in 1..MASK : senders[p][i] # NoRequest}
        BY <1>1 DEF NextStreamId, IsNextStreamId
      <4> QED
        BY <1>2, <4>1, <4>2, RequestAssumption
    <3> QED
      BY <2>1, <3>1, <3>2 DEF Holds
  <2>2. \A s \in Requests : s # r => (Holds(s)' <=> Holds(s))
    BY <1>4 DEF Holds, Answerable
  <2> QED
    BY <1>4, <2>1, <2>2 DEF UniqueIds
<1>8. CallsOK'
  <2>1. ASSUME NEW s \in Requests, s # r PROVE CallOK(s)'
    BY <1>3, <1>4, <2>1 DEF CallsOK, CallOK, Handled, Answerable
  <2>2. CallOK(r)'
    <3>1. /\ call'[r] \in {"writing", "failing"} /\ sid'[r] = id
          /\ handler'[r] = "none" /\ upload'[r] = "none"
      BY <1>3, <1>4
    <3> QED
      BY <1>1, <1>3, <3>1 DEF CallOK, Answerable
  <2> QED
    BY <2>1, <2>2 DEF CallsOK
<1>9. SendersAreOpen'
  BY <1>3, <1>4, SendersStay
<1> QED
  BY <1>6, <1>7, <1>8, <1>9

LEMMA MetadataPushStep ==
    ASSUME IInv, TypeOK', NEW r \in Requests, MetadataPush(r)
    PROVE  IInv'
<1> DEFINE p == Owner[r]
<1> USE DEF IInv
<1>1. /\ p \in Peer /\ Other(p) = Responder(r) /\ 0 \in 0..MASK
  BY OwnerPeer, MaskAssumption DEF Responder
<1>2. /\ Kind[r] = "push" /\ call[r] = "idle" /\ handler[r] = "none" /\ sid[r] = 0
      /\ upload[r] = "none"
      /\ call' = [call EXCEPT ![r] = IF link[p] = "up" THEN "writing" ELSE "failing"]
      /\ UNCHANGED <<senders, sid, upload, handler, replyTo, link>>
  BY DEF MetadataPush, CallsOK, CallOK, uploadVars, handlerVars
<1>3. /\ call'[r] = (IF link[p] = "up" THEN "writing" ELSE "failing")
      /\ \A s \in Requests : s # r => call'[s] = call[s]
  BY <1>2 DEF TypeOK
<1>4. \A q \in Peer : \A f \in Range(wire[q]) : FrameOK(q, f)' /\ f.req # r
  <2> TAKE q \in Peer
  <2> TAKE f \in Range(wire[q])
  <2>1. f \in Frame /\ f.req \in Requests /\ f.req # r /\ FrameOK(q, f)
    BY <1>2, WireType, IdleIsUnknown DEF FramesOK, Frame
  <2> QED
    BY <1>2, <1>3, <2>1, FrameStays
<1>5. FramesOK' /\ WireOrderOK'
  <2>1. CASE link[p] = "up"
    <3> DEFINE f == RequestFrame(r, 0)
    <3>1. f \in Frame
      BY <1>1, RequestAssumption DEF RequestFrame, Frame
    <3>2. FrameOK(Other(p), f)'
      BY <1>1, <1>2, <1>3, <2>1 DEF FrameOK, RequestFrameOK, UploadFrameOK, AnswerFrameOK, RequestFrame
    <3>3. Write(p, f)
      BY <1>2, <2>1 DEF MetadataPush, Write
    <3>4. \A g \in Range(wire[Other(p)]) : g.req # f.req
      BY <1>1, <1>4, OtherPeer DEF RequestFrame
    <3> HIDE DEF f
    <3> QED
      BY <1>1, <1>4, <3>1, <3>2, <3>3, <3>4, AfterWrite
  <2>2. CASE link[p] # "up"
    BY <1>4, <2>2, AfterNothing DEF MetadataPush
  <2> QED
    BY <2>1, <2>2
<1>6. UniqueIds'
  BY <1>2, <1>3 DEF UniqueIds, Holds, Answerable
<1>7. CallsOK'
  BY <1>2, <1>3 DEF CallsOK, CallOK, Handled, Answerable
<1>8. SendersAreOpen'
  BY <1>2, <1>3, SendersStay
<1> QED
  BY <1>5, <1>6, <1>7, <1>8

LEMMA WrittenStep ==
    ASSUME IInv, TypeOK', NEW r \in Requests, Written(r)
    PROVE  IInv'
<1> DEFINE p == Owner[r]
           i == sid[r]
<1> USE DEF IInv
<1>1. /\ Answerable(r) /\ call[r] = "writing" /\ Kind[r] # "push"
      /\ call' = [call EXCEPT ![r] = "open"]
      /\ senders' = [senders EXCEPT ![p][i] = r]
      /\ upload' = [upload EXCEPT ![r] = IF Kind[r] = "channel" THEN "open" ELSE @]
      /\ UNCHANGED <<sid, handler, replyTo, wire, link>>
  BY DEF Written, handlerVars, Answerable
<1>2. /\ p \in Peer /\ i \in 0..MASK /\ r # NoRequest
  BY OwnerPeer, RequestAssumption DEF TypeOK
<1>3. /\ call'[r] = "open" /\ upload'[r] = (IF Kind[r] = "channel" THEN "open" ELSE upload[r])
      /\ \A s \in Requests : s # r => call'[s] = call[s] /\ upload'[s] = upload[s]
  BY <1>1 DEF TypeOK
<1>4. FramesOK' /\ WireOrderOK'
  <2>1. \A q \in Peer : \A f \in Range(wire[q]) : FrameOK(q, f)'
    <3> TAKE q \in Peer
    <3> TAKE f \in Range(wire[q])
    <3>1. f \in Frame /\ f.req \in Requests /\ FrameOK(q, f)
      BY WireType DEF FramesOK, Frame
    <3> QED
      BY <1>1, <1>3, <3>1 DEF FrameOK, RequestFrameOK, UploadFrameOK, AnswerFrameOK
  <2> QED
    BY <1>1, <2>1, AfterNothing
<1>5. UniqueIds'
  BY <1>1, <1>3 DEF UniqueIds, Holds, Answerable
<1>6. CallsOK'
  BY <1>1, <1>3 DEF CallsOK, CallOK, Handled, Answerable
<1>7. SendersAreOpen'
  <2>1. senders[p] \in [0..MASK -> Requests \cup {NoRequest}]
    BY <1>2 DEF TypeOK
  <2>2. /\ senders'[p][i] = r
        /\ \A q \in Peer, j \in 0..MASK : q # p \/ j # i => senders'[q][j] = senders[q][j]
    <3>1. senders'[p] = [senders[p] EXCEPT ![i] = r] /\ \A q \in Peer : q # p => senders'[q] = senders[q]
      BY <1>1, <1>2 DEF TypeOK
    <3> QED
      BY <1>2, <2>1, <3>1
  <2>3. ASSUME NEW q \in Peer, NEW j \in 0..MASK, NEW s, s = senders'[q][j], s # NoRequest
        PROVE  Owner[s] = q /\ sid'[s] = j /\ call'[s] = "open" /\ Answerable(s)
    <3>1. CASE q = p /\ j = i
      BY <1>1, <1>3, <2>2, <2>3, <3>1
    <3>2. CASE q # p \/ j # i
      <4>1. s = senders[q][j] /\ s \in Requests
        <5>1. senders[q] \in [0..MASK -> Requests \cup {NoRequest}]
          BY DEF TypeOK
        <5> QED
          BY <2>2, <2>3, <3>2, <5>1
      <4>2. Owner[s] = q /\ sid[s] = j /\ call[s] = "open" /\ Answerable(s)
        BY <2>3, <4>1 DEF SendersAreOpen
      <4> QED
        BY <1>1, <1>3, <4>1, <4>2
    <3> QED
      BY <3>1, <3>2
  <2>4. ASSUME NEW s \in Requests, call'[s] = "open" PROVE senders'[Owner[s]][sid'[s]] = s
    <3>1. CASE s = r
      BY <1>1, <2>2, <3>1
    <3>2. CASE s # r
      <4>1. call[s] = "open" /\ senders[Owner[s]][sid[s]] = s
        BY <1>3, <2>4, <3>2 DEF SendersAreOpen
      <4>2. Owner[s] \in Peer /\ sid[s] \in 0..MASK
        BY OwnerPeer DEF TypeOK
      <4>3. Answerable(s)
        BY <4>1, <4>2, RequestAssumption DEF SendersAreOpen
      <4>4. Owner[s] # p \/ sid[s] # i
        BY <1>1, <3>2, <4>1, <4>3 DEF UniqueIds, Holds
      <4> QED
        BY <1>1, <2>2, <4>1, <4>2, <4>4
    <3> QED
      BY <3>1, <3>2
  <2> QED
    BY <2>3, <2>4 DEF SendersAreOpen, Answerable
<1> QED
  BY <1>4, <1>5, <1>6, <1>7

LEMMA SentStep ==
    ASSUME IInv, TypeOK', NEW r \in Requests, Sent(r)
    PROVE  IInv'
<1> USE DEF IInv
<1>1. /\ ~Answerable(r) /\ call[r] = "writing"
      /\ call' = [call EXCEPT ![r] = "over"]
      /\ UNCHANGED <<senders, sid, upload, handler, replyTo, wire, link>>
  BY DEF Sent, uploadVars, handlerVars
<1>2. /\ call'[r] = "over"
      /\ \A s \in Requests : s # r => call'[s] = call[s]
  BY <1>1 DEF TypeOK
<1>3. \A q \in Peer : \A f \in Range(wire[q]) : FrameOK(q, f)'
  <2> TAKE q \in Peer
  <2> TAKE f \in Range(wire[q])
  <2>1. f \in Frame /\ f.req \in Requests /\ FrameOK(q, f)
    BY WireType DEF FramesOK, Frame
  <2> QED
    BY <1>1, <1>2, <2>1 DEF FrameOK, RequestFrameOK, UploadFrameOK, AnswerFrameOK, Answerable
<1>4. FramesOK' /\ WireOrderOK'
  BY <1>1, <1>3, AfterNothing
<1>5. UniqueIds'
  BY <1>1, <1>2 DEF UniqueIds, Holds, Answerable
<1>6. CallsOK'
  BY <1>1, <1>2 DEF CallsOK, CallOK, Handled, Answerable
<1>7. SendersAreOpen'
  BY <1>1, <1>2, SendersStay
<1> QED
  BY <1>4, <1>5, <1>6, <1>7

LEMMA WriteFailsStep ==
    ASSUME IInv, TypeOK', NEW r \in Requests, WriteFails(r)
    PROVE  IInv'
<1> DEFINE p == Owner[r]
<1> USE DEF IInv
<1>1. /\ call[r] \in {"failing", "writing"}
      /\ call' = [call EXCEPT ![r] = "refused"]
      /\ link' = IF Answerable(r) THEN [link EXCEPT ![p] = "dead"] ELSE link
      /\ UNCHANGED <<senders, sid, upload, handler, replyTo, wire>>
  BY DEF WriteFails, uploadVars, handlerVars
<1>2. /\ call'[r] = "refused"
      /\ \A s \in Requests : s # r => call'[s] = call[s]
      /\ Answerable(r) => link'[p] = "dead"
      /\ \A q \in Peer : link[q] = "dead" => link'[q] = "dead"
  BY <1>1, OwnerPeer DEF TypeOK
<1>3. \A q \in Peer : \A f \in Range(wire[q]) : FrameOK(q, f)'
  <2> TAKE q \in Peer
  <2> TAKE f \in Range(wire[q])
  <2>1. f \in Frame /\ f.req \in Requests /\ FrameOK(q, f)
    BY WireType DEF FramesOK, Frame
  <2> QED
    BY <1>1, <1>2, <2>1 DEF FrameOK, RequestFrameOK, UploadFrameOK, AnswerFrameOK
<1>4. FramesOK' /\ WireOrderOK'
  BY <1>1, <1>3, AfterNothing
<1>5. UniqueIds'
  BY <1>1, <1>2 DEF UniqueIds, Holds, Answerable
<1>6. CallsOK'
  BY <1>1, <1>2, OwnerPeer DEF CallsOK, CallOK, Handled, Answerable
<1>7. SendersAreOpen'
  BY <1>1, <1>2, SendersStay
<1> QED
  BY <1>4, <1>5, <1>6, <1>7

\* A step that writes a frame and changes neither calls nor handlers.
LEMMA WriteStep ==
    ASSUME IInv, TypeOK', NEW p \in Peer, NEW f \in Frame, Write(p, f),
           UNCHANGED <<senders, call, sid, handler, replyTo>>,
           \A r \in Requests : upload'[r] # "none" => upload[r] # "none",
           FrameOK(Other(p), f), f.type # "REQUEST",
           \A g \in Range(wire[Other(p)]) : g.req = f.req => ~(g.by = "handler" /\ Last(g))
    PROVE  IInv'
<1> USE DEF IInv
<1>1. \A q \in Peer : \A g \in Range(wire[q]) : FrameOK(q, g)'
  BY FrameStays, WireType DEF FramesOK
<1>2. FrameOK(Other(p), f)'
  BY OtherPeer, FrameStays
<1>3. FramesOK' /\ WireOrderOK'
  BY <1>1, <1>2, AfterWrite
<1>4. UniqueIds'
  BY DEF UniqueIds, Holds, Answerable
<1>5. \A q \in Peer : link[q] = "dead" => link'[q] = "dead"
  BY DeadForGood
<1>6. CallsOK'
  BY <1>5, OwnerPeer DEF CallsOK, CallOK, Handled, Answerable
<1>7. SendersAreOpen'
  BY SendersStay
<1> QED
  BY <1>3, <1>4, <1>6, <1>7

LEMMA UploadStep ==
    ASSUME IInv, TypeOK', NEW r \in Requests, UploadNext(r) \/ UploadEnd(r)
    PROVE  IInv'
<1> DEFINE p == Owner[r]
<1>1. /\ p \in Peer /\ Other(p) = Responder(r)
      /\ upload[r] = "open" /\ Kind[r] = "channel"
      /\ call[r] \notin {"idle", "failing"} /\ sid[r] \in IdsOf(Initial(p))
      /\ sid[r] \in 0..MASK
      /\ UNCHANGED <<senders, call, sid, handler, replyTo>>
  BY OwnerPeer DEF IInv, TypeOK, CallsOK, CallOK, UploadNext, UploadEnd, callVars, handlerVars, Responder
<1>2. PICK f \in Frame :
        /\ Write(p, f)
        /\ f.type # "REQUEST" /\ f.by = "caller" /\ f.req = r /\ f.sid = sid[r]
  <2>1. CASE UploadNext(r)
    <3>1. uploaded[r] + 1 \in 0..MaxItems
      BY <2>1, RequestAssumption DEF UploadNext, IInv, TypeOK
    <3>2. PayloadFrame(r, sid[r], "caller", uploaded[r] + 1, TRUE, FALSE) \in Frame
      BY <1>1, <3>1 DEF PayloadFrame, Frame
    <3> QED
      BY <2>1, <3>2 DEF UploadNext, PayloadFrame
  <2>2. CASE UploadEnd(r)
    <3>1. /\ PayloadFrame(r, sid[r], "caller", 0, FALSE, TRUE) \in Frame
          /\ ErrorFrame(r, sid[r], "caller") \in Frame
      BY <1>1, RequestAssumption DEF PayloadFrame, ErrorFrame, Frame
    <3> QED
      BY <2>2, <3>1 DEF UploadEnd, PayloadFrame, ErrorFrame
  <2> QED
    BY <2>1, <2>2
<1>3. \A s \in Requests : upload'[s] # "none" => upload[s] # "none"
  BY <1>1 DEF UploadNext, UploadEnd, IInv, TypeOK
<1>4. FrameOK(Other(p), f)
  BY <1>1, <1>2 DEF FrameOK, RequestFrameOK, UploadFrameOK, AnswerFrameOK
<1>5. \A g \in Range(wire[Other(p)]) : g.req = f.req => ~(g.by = "handler" /\ Last(g))
  BY <1>1, <1>2, OtherPeer DEF IInv, FramesOK, FrameOK, AnswerFrameOK
<1> QED
  BY <1>1, <1>2, <1>3, <1>4, <1>5, WriteStep

LEMMA CallStep ==
    ASSUME IInv, TypeOK', NEW r \in Requests, Call(r)
    PROVE  IInv'
BY RequestStep, MetadataPushStep, WrittenStep, SentStep, WriteFailsStep, UploadStep DEF Call

-----------------------------------------------------------------------------
(* The handler's steps                                                     *)

\* While a handler runs, its caller waits and its last frame is unwritten.
LEMMA WhileRunning ==
    ASSUME IInv, NEW r \in Requests, handler[r] = "running", Kind[r] \in {"response", "stream"}
    PROVE  /\ replyTo[r] = sid[r] /\ call[r] \in {"writing", "open", "refused"}
           /\ \A p \in Peer : \A g \in Range(wire[p]) : g.req = r =>
                 g.type # "REQUEST" /\ g.by = "handler" /\ ~Last(g)
<1>1. /\ replyTo[r] = sid[r]
      /\ call[r] \in {"idle", "writing", "failing", "refused", "open", "over"}
  BY DEF IInv, TypeOK, CallsOK, CallOK
<1>2. call[r] \in {"writing", "open", "refused"}
  BY <1>1 DEF IInv, CallsOK, CallOK, Answerable
<1>3. ASSUME NEW p \in Peer, NEW g \in Range(wire[p]), g.req = r
      PROVE  g.type # "REQUEST" /\ g.by = "handler" /\ ~Last(g)
  <2>1. g \in Frame /\ FrameOK(p, g)
    BY WireType DEF IInv, FramesOK
  <2>2. g.type # "REQUEST" /\ g.by = "handler"
    BY <1>3, <2>1 DEF FrameOK, RequestFrameOK, UploadFrameOK, Frame
  <2> QED
    BY <1>3, <2>1, <2>2 DEF FrameOK, AnswerFrameOK, Last
<1> QED
  BY <1>1, <1>2, <1>3

\* A handler that ends writes its last frame.
LEMMA EndStep ==
    ASSUME IInv, TypeOK', NEW r \in Requests, handler[r] = "running",
           Kind[r] \in {"response", "stream"},
           NEW outcome \in {"completed", "failed"},
           handler' = [handler EXCEPT ![r] = outcome],
           UNCHANGED <<senders, call, sid, upload, replyTo>>,
           NEW f \in Frame, Write(Responder(r), f),
           f.req = r, f.by = "handler", f.sid = replyTo[r], f.type # "REQUEST",
           f.type = "ERROR" => outcome = "failed",
           f.complete => outcome = "completed"
    PROVE  IInv'
<1> DEFINE p == Responder(r)
<1> USE DEF IInv
<1>1. /\ p \in Peer /\ Other(p) = Owner[r] /\ Owner[r] \in Peer
      /\ handler'[r] = outcome
      /\ \A s \in Requests : s # r => handler'[s] = handler[s]
  BY OwnerPeer DEF TypeOK
<1>2. /\ replyTo[r] = sid[r] /\ call[r] \in {"writing", "open", "refused"}
      /\ \A q \in Peer : \A g \in Range(wire[q]) : g.req = r =>
            g.type # "REQUEST" /\ g.by = "handler" /\ ~Last(g)
  BY WhileRunning
<1>3. \A q \in Peer : \A g \in Range(wire[q]) : FrameOK(q, g)'
  <2> TAKE q \in Peer
  <2> TAKE g \in Range(wire[q])
  <2>1. g \in Frame /\ g.req \in Requests /\ FrameOK(q, g)
    BY WireType DEF FramesOK, Frame
  <2>2. CASE g.req # r
    BY <1>1, <2>1, <2>2, FrameStays
  <2>3. CASE g.req = r
    BY <1>1, <1>2, <2>1, <2>3 DEF FrameOK, RequestFrameOK, UploadFrameOK, AnswerFrameOK, Last
  <2> QED
    BY <2>2, <2>3
<1>4. FrameOK(Other(p), f)'
  BY <1>1, <1>2 DEF FrameOK, RequestFrameOK, UploadFrameOK, AnswerFrameOK
<1>5. FramesOK' /\ WireOrderOK'
  BY <1>1, <1>2, <1>3, <1>4, AfterWrite
<1>6. UniqueIds'
  BY DEF UniqueIds, Holds, Answerable
<1>7. \A q \in Peer : link[q] = "dead" => link'[q] = "dead"
  BY <1>1, DeadForGood
<1>8. CallsOK'
  BY <1>1, <1>2, <1>7, OwnerPeer DEF CallsOK, CallOK, Handled, Answerable
<1>9. SendersAreOpen'
  BY SendersStay
<1> QED
  BY <1>5, <1>6, <1>8, <1>9

\* A handler that ends writes nothing.
LEMMA SilentEndStep ==
    ASSUME IInv, TypeOK', NEW r \in Requests, Swallow(r) \/ Finish(r)
    PROVE  IInv'
<1> USE DEF IInv
<1>1. /\ handler[r] = "running" /\ Kind[r] \in {"stream", "fnf"}
      /\ UNCHANGED <<senders, call, sid, upload, replyTo, wire, link>>
  BY DEF Swallow, Finish, Runs, callVars, uploadVars
<1>2. PICK outcome \in {"completed", "failed", "swallowed"} :
        /\ handler' = [handler EXCEPT ![r] = outcome]
        /\ Kind[r] = "fnf" => outcome # "swallowed"
  BY DEF Swallow, Finish, Runs
<1>3. /\ handler'[r] = outcome
      /\ \A s \in Requests : s # r => handler'[s] = handler[s]
  BY <1>2 DEF TypeOK
<1>4. \A q \in Peer : \A g \in Range(wire[q]) : FrameOK(q, g)'
  <2> TAKE q \in Peer
  <2> TAKE g \in Range(wire[q])
  <2>1. g \in Frame /\ g.req \in Requests /\ FrameOK(q, g)
    BY WireType DEF FramesOK, Frame
  <2>2. CASE g.req # r
    BY <1>1, <1>3, <2>1, <2>2, FrameStays
  <2>3. CASE g.req = r
    BY <1>1, <1>2, <1>3, <2>1, <2>3 DEF FrameOK, RequestFrameOK, UploadFrameOK, AnswerFrameOK
  <2> QED
    BY <2>2, <2>3
<1>5. FramesOK' /\ WireOrderOK'
  BY <1>1, <1>4, AfterNothing
<1>6. UniqueIds'
  BY <1>1 DEF UniqueIds, Holds, Answerable
<1>7. CallsOK'
  BY <1>1, <1>2, <1>3 DEF CallsOK, CallOK, Handled, Answerable
<1>8. SendersAreOpen'
  BY <1>1, SendersStay
<1> QED
  BY <1>5, <1>6, <1>7, <1>8

LEMMA HandleStep ==
    ASSUME IInv, TypeOK', NEW r \in Requests, Handle(r)
    PROVE  IInv'
<1> DEFINE p == Responder(r)
<1>0. p \in Peer /\ Other(p) = Owner[r] /\ replyTo[r] \in 0..MASK /\ Len(emitted[r]) \in Nat
  BY OwnerPeer DEF IInv, TypeOK
<1> USE DEF Runs, callVars, uploadVars
<1>1. ASSUME NEW data \in BOOLEAN, Answer(r, data) PROVE IInv'
  <2>1. PICK f : f = PayloadFrame(r, replyTo[r], "handler", 1, data, TRUE)
    OBVIOUS
  <2>2. /\ f \in Frame /\ f.req = r /\ f.by = "handler" /\ f.sid = replyTo[r]
        /\ f.type = "PAYLOAD" /\ f.complete
    BY <1>0, <2>1, RequestAssumption DEF PayloadFrame, Frame
  <2>3. Write(p, f)
    BY <1>1, <2>1 DEF Answer
  <2> QED
    BY <1>1, <2>2, <2>3, EndStep DEF Answer
<1>2. ASSUME NEW data \in BOOLEAN, EmitNext(r, data) PROVE IInv'
  <2>1. PICK f : f = PayloadFrame(r, replyTo[r], "handler", Len(emitted[r]) + 1, data, FALSE)
    OBVIOUS
  <2>2. /\ f \in Frame /\ f.req = r /\ f.by = "handler" /\ f.sid = replyTo[r]
        /\ f.type = "PAYLOAD" /\ ~f.complete
    BY <1>0, <1>2, <2>1, RequestAssumption DEF EmitNext, PayloadFrame, Frame
  <2>3. /\ Write(p, f) /\ handler[r] = "running" /\ Kind[r] = "stream"
        /\ UNCHANGED <<senders, call, sid, handler, replyTo, upload>>
    BY <1>2, <2>1 DEF EmitNext
  <2>4. /\ replyTo[r] = sid[r] /\ call[r] \in {"writing", "open", "refused"}
        /\ \A g \in Range(wire[Other(p)]) : g.req = f.req => ~(g.by = "handler" /\ Last(g))
    BY <1>0, <2>2, <2>3, OtherPeer, WhileRunning
  <2>5. FrameOK(Other(p), f)
    BY <1>0, <2>2, <2>3, <2>4 DEF FrameOK, RequestFrameOK, UploadFrameOK, AnswerFrameOK
  <2> QED
    BY <1>0, <2>2, <2>3, <2>4, <2>5, WriteStep
<1>3. CASE EmitComplete(r)
  <2>1. PICK f : f = PayloadFrame(r, replyTo[r], "handler", 0, FALSE, TRUE)
    OBVIOUS
  <2>2. /\ f \in Frame /\ f.req = r /\ f.by = "handler" /\ f.sid = replyTo[r]
        /\ f.type = "PAYLOAD" /\ f.complete
    BY <1>0, <2>1, RequestAssumption DEF PayloadFrame, Frame
  <2>3. Write(p, f)
    BY <1>3, <2>1 DEF EmitComplete
  <2> QED
    BY <1>3, <2>2, <2>3, EndStep DEF EmitComplete
<1>4. CASE Fail(r)
  <2>1. PICK f : f = ErrorFrame(r, replyTo[r], "handler")
    OBVIOUS
  <2>2. /\ f \in Frame /\ f.req = r /\ f.by = "handler" /\ f.sid = replyTo[r]
        /\ f.type = "ERROR" /\ ~f.complete
    BY <1>0, <2>1, RequestAssumption DEF ErrorFrame, Frame
  <2>3. Write(p, f)
    BY <1>4, <2>1 DEF Fail
  <2> QED
    BY <1>4, <2>2, <2>3, EndStep DEF Fail
<1>5. CASE Swallow(r) \/ Finish(r)
  BY <1>5, SilentEndStep
<1> QED
  BY <1>1, <1>2, <1>3, <1>4, <1>5 DEF Handle

-----------------------------------------------------------------------------
(* The reader's steps                                                      *)

\* The entry of `senders` that a frame finds is that of its own request: the
\* parity of identifiers keeps the uploads of the other end's channels away,
\* and no two requests that wait hold one identifier.
LEMMA OwnFrame ==
    ASSUME IInv, NEW p \in Peer, Reads(p, {"PAYLOAD", "ERROR"}), Receiver(p) # NoRequest
    PROVE  LET f == Head(wire[p]) IN
           /\ f \in Frame /\ f \in Range(wire[p]) /\ f.req \in Requests /\ f.sid \in 0..MASK
           /\ Receiver(p) = f.req /\ f.by = "handler" /\ AnswerFrameOK(p, f)
           /\ Owner[f.req] = p /\ sid[f.req] = f.sid /\ call[f.req] = "open"
<1> DEFINE f == Head(wire[p])
           s == Receiver(p)
<1> USE DEF IInv
<1>1. /\ f \in Frame /\ f \in Range(wire[p]) /\ f.type # "REQUEST"
      /\ s \in Requests /\ f.req \in Requests /\ f.sid \in 0..MASK
      /\ f.by \in {"caller", "handler"}
  BY ReadsType, ReadFrames DEF Frame
<1>2. FrameOK(p, f)
  BY <1>1 DEF FramesOK
<1>3. Owner[s] = p /\ sid[s] = f.sid /\ call[s] = "open" /\ Answerable(s)
  BY <1>1 DEF SendersAreOpen, Receiver
<1>4. f.by = "handler"
  <2>1. ASSUME f.by = "caller" PROVE FALSE
    <3>1. p = Responder(f.req) /\ f.sid \in IdsOf(Initial(Owner[f.req]))
      BY <1>1, <1>2, <2>1 DEF FrameOK, UploadFrameOK
    <3>2. sid[s] \in IdsOf(Initial(p))
      BY <1>1, <1>3 DEF CallsOK, CallOK, Answerable
    <3> QED
      BY <1>1, <1>3, <3>1, <3>2, OwnerPeer, DisjointIds DEF Responder
  <2> QED
    BY <1>1, <2>1
<1>5. /\ Kind[f.req] \in {"response", "stream"} /\ p = Owner[f.req] /\ f.sid = sid[f.req]
      /\ call[f.req] \in {"writing", "open", "refused"}
  BY <1>2, <1>4 DEF FrameOK, AnswerFrameOK
<1>6. call[f.req] # "refused"
  <2>1. link[p] = "up"
    BY DEF Reads
  <2> QED
    BY <1>1, <1>5, <2>1 DEF CallsOK, CallOK, Answerable
<1>7. s = f.req
  BY <1>1, <1>3, <1>5, <1>6 DEF UniqueIds, Holds, Answerable
<1> QED
  BY <1>1, <1>2, <1>3, <1>4, <1>7 DEF FrameOK

\* Reading a frame that changes nothing else.
LEMMA SkipStep ==
    ASSUME IInv, TypeOK', NEW p \in Peer, IgnoreRequest(p) \/ Drop(p)
    PROVE  IInv'
<1> USE DEF IInv
<1>1. UNCHANGED <<senders, call, sid, upload, handler, replyTo, link>>
  BY DEF IgnoreRequest, Drop, callVars, uploadVars, handlerVars
<1>2. /\ \A q \in Peer : Range(wire'[q]) \subseteq Range(wire[q])
      /\ WireOrderOK'
  BY ReadFrames DEF IgnoreRequest, Drop
<1>3. FramesOK'
  BY <1>1, <1>2, WireType, FrameStays DEF FramesOK
<1>4. UniqueIds' /\ CallsOK'
  BY <1>1 DEF UniqueIds, Holds, Answerable, CallsOK, CallOK, Handled
<1>5. SendersAreOpen'
  BY <1>1, SendersStay
<1> QED
  BY <1>2, <1>3, <1>4, <1>5

LEMMA HandleRequestStep ==
    ASSUME IInv, TypeOK', NEW p \in Peer, HandleRequest(p)
    PROVE  IInv'
<1> DEFINE f == Head(wire[p])
           r == f.req
<1> USE DEF IInv
<1>1. /\ Reads(p, {"REQUEST"}) /\ Handled(r)
      /\ handler' = [handler EXCEPT ![r] = "running"]
      /\ replyTo' = [replyTo EXCEPT ![r] = f.sid]
      /\ UNCHANGED <<senders, call, sid, upload, link>>
  BY DEF HandleRequest, callVars, uploadVars
<1>2. /\ f \in Frame /\ f.type = "REQUEST" /\ r \in Requests
      /\ \A q \in Peer : Range(wire'[q]) \subseteq Range(wire[q])
      /\ \A g \in Range(wire'[p]) : g.req = r => g.type # "REQUEST"
      /\ WireOrderOK'
      /\ f \in Range(wire[p])
  <2>1. f \in Frame /\ f.type \in {"REQUEST"}
    BY <1>1, ReadsType
  <2>2. f.req \in Requests
    BY <2>1 DEF Frame
  <2> QED
    BY <1>1, <2>1, <2>2, ReadFrames
<1>3. /\ p = Responder(r) /\ f.sid = sid[r] /\ handler[r] = "none"
      /\ call[r] \notin {"idle", "failing"}
  BY <1>2 DEF FramesOK, FrameOK, RequestFrameOK
<1>4. /\ handler'[r] = "running" /\ replyTo'[r] = sid[r]
      /\ \A s \in Requests : s # r => handler'[s] = handler[s] /\ replyTo'[s] = replyTo[s]
  BY <1>1, <1>2, <1>3 DEF TypeOK
<1>5. FramesOK'
  <2> SUFFICES ASSUME NEW q \in Peer, NEW g \in Range(wire'[q]) PROVE FrameOK(q, g)'
    BY DEF FramesOK
  <2>1. g \in Frame /\ g.req \in Requests /\ FrameOK(q, g)
    BY <1>2, WireType DEF FramesOK, Frame
  <2>2. CASE g.req # r
    BY <1>1, <1>4, <2>1, <2>2, FrameStays
  <2>3. CASE g.req = r
    <3>1. g.type # "REQUEST"
      BY <1>2, <1>3, <2>1, <2>3 DEF FrameOK, RequestFrameOK
    <3> QED
      BY <1>1, <1>3, <1>4, <2>1, <2>3, <3>1 DEF FrameOK, RequestFrameOK, UploadFrameOK, AnswerFrameOK
  <2> QED
    BY <2>2, <2>3
<1>6. UniqueIds'
  BY <1>1 DEF UniqueIds, Holds, Answerable
<1>7. CallsOK'
  <2>1. ASSUME NEW s \in Requests, s # r PROVE CallOK(s)'
    BY <1>1, <1>4, <2>1 DEF CallsOK, CallOK, Handled, Answerable
  <2>2. ASSUME NEW s \in Requests, s = r PROVE CallOK(s)'
    BY <1>1, <1>2, <1>3, <1>4, <2>2 DEF CallsOK, CallOK, Handled, Answerable
  <2> QED
    BY <2>1, <2>2 DEF CallsOK
<1>8. SendersAreOpen'
  BY <1>1, SendersStay
<1> QED
  BY <1>2, <1>5, <1>6, <1>7, <1>8

\* The frame that ends a request leaves none of that request's behind.
LEMMA AnswerStep ==
    ASSUME IInv, TypeOK', NEW p \in Peer, ReceivePayload(p) \/ ReceiveError(p)
    PROVE  IInv'
<1> DEFINE f == Head(wire[p])
           r == f.req
<1> USE DEF IInv
<1>1. /\ Reads(p, {"PAYLOAD", "ERROR"}) /\ Receiver(p) # NoRequest
      /\ UNCHANGED <<sid, upload, handler, replyTo, link>>
  BY DEF ReceivePayload, ReceiveError, Reads, uploadVars, handlerVars
<1>2. /\ f \in Frame /\ r \in Requests /\ f.sid \in 0..MASK /\ f.by = "handler"
      /\ Receiver(p) = r /\ AnswerFrameOK(p, f)
      /\ Owner[r] = p /\ sid[r] = f.sid /\ call[r] = "open"
  BY <1>1, OwnFrame
<1>3. /\ \A q \in Peer : Range(wire'[q]) \subseteq Range(wire[q])
      /\ Last(f) => \A g \in Range(wire'[p]) : g.req # r
      /\ WireOrderOK'
  BY <1>1, <1>2, ReadFrames
<1>4. CASE UNCHANGED <<senders, call>>
  <2>1. FramesOK'
    BY <1>1, <1>3, <1>4, WireType, FrameStays DEF FramesOK
  <2>2. UniqueIds' /\ CallsOK'
    BY <1>1, <1>4 DEF UniqueIds, Holds, Answerable, CallsOK, CallOK, Handled
  <2>3. SendersAreOpen'
    BY <1>1, <1>4, SendersStay
  <2> QED
    BY <1>3, <2>1, <2>2, <2>3
<1>5. CASE Last(f) /\ Unregister(p, f.sid) /\ call' = [call EXCEPT ![r] = "over"]
  <2>1. /\ call'[r] = "over" /\ \A s \in Requests : s # r => call'[s] = call[s]
    BY <1>2, <1>5 DEF TypeOK
  <2>2. handler[r] \in {"completed", "failed"}
    BY <1>2, <1>5 DEF AnswerFrameOK, Last
  <2>3. FramesOK'
    <3> SUFFICES ASSUME NEW q \in Peer, NEW g \in Range(wire'[q]) PROVE FrameOK(q, g)'
      BY DEF FramesOK
    <3>1. g \in Frame /\ g.req \in Requests /\ FrameOK(q, g)
      BY <1>3, WireType DEF FramesOK, Frame
    <3>2. CASE g.req # r
      BY <1>1, <2>1, <3>1, <3>2, FrameStays
    <3>3. CASE g.req = r
      <4>1. q # p
        BY <1>3, <1>5, <3>3
      <4>2. g.by # "handler"
        BY <1>2, <3>1, <3>3, <4>1 DEF FrameOK, AnswerFrameOK
      <4> QED
        BY <1>1, <1>2, <2>1, <3>1, <3>3, <4>2 DEF FrameOK, RequestFrameOK, UploadFrameOK, AnswerFrameOK
    <3> QED
      BY <3>2, <3>3
  <2>4. UniqueIds'
    BY <1>1, <2>1 DEF UniqueIds, Holds, Answerable
  <2>5. CallsOK'
    BY <1>1, <1>2, <2>1, <2>2 DEF CallsOK, CallOK, Handled, Answerable
  <2>6. SendersAreOpen'
    <3>1. /\ senders'[p][f.sid] = NoRequest
          /\ \A q \in Peer, j \in 0..MASK : q # p \/ j # f.sid => senders'[q][j] = senders[q][j]
          /\ \A q \in Peer, j \in 0..MASK : senders[q][j] \in Requests \cup {NoRequest}
      <4>1. \A q \in Peer : senders[q] \in [0..MASK -> Requests \cup {NoRequest}]
        BY DEF TypeOK
      <4>2. /\ senders'[p] = [senders[p] EXCEPT ![f.sid] = NoRequest]
            /\ \A q \in Peer : q # p => senders'[q] = senders[q]
        BY <1>5 DEF Unregister, TypeOK
      <4> QED
        BY <1>2, <4>1, <4>2
    <3>2. ASSUME NEW q \in Peer, NEW j \in 0..MASK, NEW s, s = senders'[q][j], s # NoRequest
          PROVE  Owner[s] = q /\ sid'[s] = j /\ call'[s] = "open" /\ Answerable(s)
      <4>1. (q # p \/ j # f.sid) /\ s = senders[q][j] /\ s \in Requests
        BY <3>1, <3>2
      <4>2. Owner[s] = q /\ sid[s] = j /\ call[s] = "open" /\ Answerable(s)
        BY <3>2, <4>1 DEF SendersAreOpen
      <4> QED
        BY <1>1, <1>2, <2>1, <4>1, <4>2
    <3>3. ASSUME NEW s \in Requests, call'[s] = "open" PROVE senders'[Owner[s]][sid'[s]] = s
      <4>1. s # r /\ call[s] = "open" /\ senders[Owner[s]][sid[s]] = s
        BY <2>1, <3>3 DEF SendersAreOpen
      <4>2. Owner[s] \in Peer /\ sid[s] \in 0..MASK
        BY OwnerPeer DEF TypeOK
      <4>3. senders[p][f.sid] = r
        BY <1>2 DEF Receiver
      <4> QED
        BY <1>1, <3>1, <4>1, <4>2, <4>3
    <3> QED
      BY <3>2, <3>3 DEF SendersAreOpen, Answerable
  <2> QED
    BY <1>3, <2>3, <2>4, <2>5, <2>6
<1>6. \/ UNCHANGED <<senders, call>>
      \/ Last(f) /\ Unregister(p, f.sid) /\ call' = [call EXCEPT ![r] = "over"]
  <2>1. CASE ReceivePayload(p)
    BY <1>2, <2>1 DEF ReceivePayload, Last
  <2>2. CASE ReceiveError(p)
    <3>1. f.type = "ERROR"
      BY <2>2 DEF ReceiveError, Reads
    <3> QED
      BY <1>2, <2>2, <3>1 DEF ReceiveError, Last
  <2> QED
    BY <2>1, <2>2
<1> QED
  BY <1>4, <1>5, <1>6

LEMMA DisconnectStep ==
    ASSUME IInv, TypeOK', NEW p \in Peer, Disconnect(p)
    PROVE  IInv'
<1> DEFINE q == Other(p)
<1> USE DEF IInv
<1>1. PICK n \in 0..Len(wire[q]) : wire' = [wire EXCEPT ![q] = SubSeq(@, 1, n)]
  BY DEF Disconnect
<1>2. /\ UNCHANGED <<senders, call, sid, upload, handler, replyTo>>
      /\ link[p] = "up" /\ link' = [link EXCEPT ![p] = "down"]
  BY DEF Disconnect, callVars, uploadVars, handlerVars
<1>3. /\ q \in Peer /\ wire[q] \in Seq(Frame)
      /\ wire'[q] = SubSeq(wire[q], 1, n) /\ \A o \in Peer : o # q => wire'[o] = wire[o]
  BY <1>1, OtherPeer DEF TypeOK
<1>4. \A o \in Peer : Range(wire'[o]) \subseteq Range(wire[o])
  BY <1>3, RangeOfPrefix
<1>5. FramesOK'
  BY <1>2, <1>4, WireType, FrameStays DEF FramesOK
<1>6. WireOrderOK'
  <2>1. /\ Len(wire'[q]) = n /\ n <= Len(wire[q]) /\ Len(wire[q]) \in Nat
        /\ \A k \in 1..n : wire'[q][k] = wire[q][k] /\ k \in 1..Len(wire[q])
    BY <1>3
  <2> QED
    BY <1>3, <2>1 DEF WireOrderOK, Last
<1>7. UniqueIds'
  BY <1>2 DEF UniqueIds, Holds, Answerable
<1>8. \A o \in Peer : link[o] = "dead" => link'[o] = "dead"
  BY <1>2 DEF TypeOK
<1>9. CallsOK'
  BY <1>2, <1>8, OwnerPeer DEF CallsOK, CallOK, Handled, Answerable
<1>10. SendersAreOpen'
  BY <1>2, SendersStay
<1> QED
  BY <1>5, <1>6, <1>7, <1>9, <1>10

LEMMA NextIInv == IInv /\ [Next]_vars => IInv'
<1> SUFFICES ASSUME IInv, [Next]_vars PROVE IInv'
  OBVIOUS
<1>0. TypeOK'
  BY NextType DEF IInv
<1>1. ASSUME NEW r \in Requests, Call(r) \/ Handle(r) PROVE IInv'
  BY <1>0, <1>1, CallStep, HandleStep
<1>2. ASSUME NEW p \in Peer, Receive(p) \/ Disconnect(p) PROVE IInv'
  BY <1>0, <1>2, HandleRequestStep, SkipStep, AnswerStep, DisconnectStep DEF Receive
<1>3. CASE UNCHANGED vars
  <2>1. UNCHANGED <<senders, call, sid, upload, handler, replyTo, wire, link>>
    BY <1>3 DEF vars, callVars, uploadVars, handlerVars
  <2>2. FramesOK' /\ WireOrderOK'
    BY <2>1, AfterNothing, WireType, FrameStays DEF IInv, FramesOK
  <2>3. UniqueIds' /\ CallsOK'
    BY <2>1 DEF IInv, UniqueIds, Holds, Answerable, CallsOK, CallOK, Handled
  <2>4. SendersAreOpen'
    BY <2>1, SendersStay DEF IInv
  <2> QED
    BY <1>0, <2>2, <2>3, <2>4 DEF IInv
<1> QED
  BY <1>1, <1>2, <1>3 DEF Next

\* The table of a requester holds exactly its open requests, for any number of
\* requests, turns of the supplier and breaks of the connection.
THEOREM SendersCorrect == Spec => []SendersAreOpen
<1>1. IInv => SendersAreOpen
  BY DEF IInv
<1> QED
  BY <1>1, InitIInv, NextIInv, PTL DEF Spec

-----------------------------------------------------------------------------
(* What a requester is told                                                *)

\* Signals of r's own handler that tell how it ended only as it did.
TrueSignals(r) ==
    {x \in SignalsOf(r) : /\ x.on = "Complete" => handler[r] = "completed"
                          /\ x.on = "Error" => handler[r] = "failed"}

AnswersOK == \A r \in Requests : signals[r] \in Seq(TrueSignals(r))

LEMMA InitAnswers == Init => AnswersOK
BY DEF Init, AnswersOK

\* A handler that has ended stays as it is.
LEMMA HandlerStays ==
    ASSUME IInv, [Next]_vars, NEW r \in Requests, handler[r] \in {"completed", "failed"}
    PROVE  handler'[r] = handler[r]
<1> USE DEF callVars, uploadVars, handlerVars
<1>1. ASSUME NEW s \in Requests, Call(s) PROVE handler' = handler
  BY <1>1 DEF Call, Request, MetadataPush, Written, Sent, WriteFails, UploadNext, UploadEnd
<1>2. ASSUME NEW s \in Requests, Handle(s) PROVE handler'[r] = handler[r]
  <2>1. handler \in [Requests -> {"none", "running", "completed", "failed", "swallowed"}]
    BY DEF IInv, TypeOK
  <2> QED
    BY <1>2, <2>1 DEF Handle, Answer, EmitNext, EmitComplete, Fail, Swallow, Finish, Runs
<1>3. ASSUME NEW p \in Peer, HandleRequest(p) PROVE handler'[r] = handler[r]
  <2> DEFINE f == Head(wire[p])
  <2>1. f \in Range(wire[p]) /\ f.type \in {"REQUEST"} /\ f \in Frame
    BY <1>3, ReadsType, ReadFrames DEF IInv, HandleRequest
  <2>2. handler[f.req] = "none"
    BY <2>1 DEF IInv, FramesOK, FrameOK, RequestFrameOK
  <2> QED
    BY <1>3, <2>2 DEF HandleRequest, IInv, TypeOK
<1>4. ASSUME NEW p \in Peer, Receive(p) \/ Disconnect(p) PROVE handler'[r] = handler[r]
  BY <1>3, <1>4 DEF Receive, IgnoreRequest, ReceivePayload, ReceiveError, Drop, Disconnect
<1> QED
  BY <1>1, <1>2, <1>4 DEF Next, vars

LEMMA TrueSignalsStay ==
    ASSUME IInv, [Next]_vars, NEW r \in Requests
    PROVE  TrueSignals(r) \subseteq TrueSignals(r)'
BY HandlerStays DEF TrueSignals, SignalsOf

\* The signals of a frame that its own request receives.
LEMMA TrueFrame ==
    ASSUME NEW p \in Peer, NEW f \in Frame, AnswerFrameOK(p, f), f.by = "handler"
    PROVE  /\ PayloadSignals(f) \in Seq(TrueSignals(f.req))
           /\ f.type = "ERROR" => <<SignalOf("Error", f)>> \in Seq(TrueSignals(f.req))
<1> DEFINE r == f.req
<1>1. /\ SignalOf("Next", f) \in TrueSignals(r)
      /\ f.complete => SignalOf("Complete", f) \in TrueSignals(r)
      /\ f.type = "ERROR" => SignalOf("Error", f) \in TrueSignals(r)
  BY DEF AnswerFrameOK, SignalOf, TrueSignals, SignalsOf, Frame
<1>2. \A x, y \in TrueSignals(r) :
        /\ <<>> \in Seq(TrueSignals(r)) /\ <<x>> \in Seq(TrueSignals(r))
        /\ <<x>> \o <<>> \in Seq(TrueSignals(r)) /\ <<x>> \o <<y>> \in Seq(TrueSignals(r))
        /\ <<>> \o <<x>> \in Seq(TrueSignals(r)) /\ <<>> \o <<>> \in Seq(TrueSignals(r))
  OBVIOUS
<1> HIDE DEF r
<1>3. PayloadSignals(f) \in Seq(TrueSignals(r))
  BY <1>1, <1>2 DEF PayloadSignals
<1>4. f.type = "ERROR" => <<SignalOf("Error", f)>> \in Seq(TrueSignals(r))
  BY <1>1, <1>2
<1> QED
  BY <1>3, <1>4 DEF r

LEMMA NextAnswers ==
    ASSUME IInv, AnswersOK, [Next]_vars
    PROVE  AnswersOK'
<1> SUFFICES ASSUME NEW r \in Requests PROVE signals'[r] \in Seq(TrueSignals(r)')
  BY DEF AnswersOK, TrueSignals, SignalsOf
<1> USE DEF callVars, uploadVars, handlerVars
<1>0. signals[r] \in Seq(TrueSignals(r)) /\ TrueSignals(r) \subseteq TrueSignals(r)'
  BY TrueSignalsStay DEF AnswersOK
<1>1. SUFFICES signals'[r] \in Seq(TrueSignals(r))
  BY <1>0
<1>2. ASSUME NEW s \in Requests, Written(s) PROVE signals'[r] \in Seq(TrueSignals(r))
  <2>1. CASE r # s
    BY <1>0, <1>2, <2>1 DEF Written, OnSubscribe, IInv, TypeOK
  <2>2. CASE r = s
    <3>1. SubscribeSignal(r) \in TrueSignals(r)
      BY DEF SubscribeSignal, TrueSignals, SignalsOf
    <3>2. Append(signals[r], SubscribeSignal(r)) \in Seq(TrueSignals(r))
      BY <1>0, <3>1
    <3> QED
      BY <1>0, <1>2, <2>2, <3>2 DEF Written, OnSubscribe, IInv, TypeOK
  <2> QED
    BY <2>1, <2>2
<1>3. ASSUME NEW s \in Requests, Call(s), ~Written(s) PROVE signals'[r] \in Seq(TrueSignals(r))
  BY <1>0, <1>3 DEF Call, Request, MetadataPush, Sent, WriteFails, UploadNext, UploadEnd
<1>4. ASSUME NEW s \in Requests, Handle(s) PROVE signals'[r] \in Seq(TrueSignals(r))
  BY <1>0, <1>4 DEF Handle, Answer, EmitNext, EmitComplete, Fail, Swallow, Finish
<1>5. ASSUME NEW p \in Peer, ReceivePayload(p) \/ ReceiveError(p)
      PROVE  signals'[r] \in Seq(TrueSignals(r))
  <2> DEFINE f == Head(wire[p])
             s == Receiver(p)
  <2>1. Reads(p, {"PAYLOAD", "ERROR"}) /\ s # NoRequest
    BY <1>5 DEF ReceivePayload, ReceiveError, Reads
  <2>2. /\ f \in Frame /\ s = f.req /\ f.req \in Requests
        /\ f.by = "handler" /\ AnswerFrameOK(p, f)
    BY <2>1, OwnFrame
  <2>3. PICK news \in Seq(TrueSignals(s)) :
          signals' = [signals EXCEPT ![s] = Notified(s, news)]
    <3>1. CASE ReceivePayload(p)
      BY <2>2, <3>1, TrueFrame DEF ReceivePayload
    <3>2. CASE ReceiveError(p)
      <4>1. f.type = "ERROR"
        BY <3>2 DEF ReceiveError, Reads
      <4> QED
        BY <2>2, <3>2, <4>1, TrueFrame DEF ReceiveError
    <3> QED
      BY <1>5, <3>1, <3>2
  <2>4. CASE r # s
    BY <1>0, <2>3, <2>4 DEF IInv, TypeOK
  <2>5. CASE r = s
    <3>1. Notified(r, news) \in Seq(TrueSignals(r))
      BY <1>0, <2>3, <2>5 DEF Notified, Settled
    <3>2. signals'[r] = Notified(r, news)
      BY <2>3, <2>5 DEF IInv, TypeOK
    <3> QED
      BY <3>1, <3>2
  <2> QED
    BY <2>4, <2>5
<1>6. ASSUME NEW p \in Peer, HandleRequest(p) \/ IgnoreRequest(p) \/ Drop(p) \/ Disconnect(p)
      PROVE  signals'[r] \in Seq(TrueSignals(r))
  BY <1>0, <1>6 DEF HandleRequest, IgnoreRequest, Drop, Disconnect
<1>7. CASE UNCHANGED vars
  BY <1>0, <1>7 DEF vars
<1> QED
  BY <1>2, <1>3, <1>4, <1>5, <1>6, <1>7 DEF Next, Receive

\* No cross-talk, for any requests, any interaction models, any number of turns
\* of the identifiers and any break of the connection: whatever a requester is
\* told was produced by the handler of that request.
THEOREM AnswersAreOwn == Spec => []OwnAnswers
<1>1. AnswersOK => OwnAnswers
  <2> SUFFICES ASSUME AnswersOK, NEW r \in Requests PROVE signals[r] \in Seq(SignalsOf(r))
    BY DEF OwnAnswers
  <2>1. TrueSignals(r) \subseteq SignalsOf(r)
    BY DEF TrueSignals
  <2> QED
    BY <2>1 DEF AnswersOK
<1> QED
  BY <1>1, InitIInv, NextIInv, InitAnswers, NextAnswers, PTL DEF Spec

\* A requester that is told of a completion or an error has it from its own
\* handler, which ended so.
THEOREM OutcomesAreTrue == Spec => []OutcomeTruthful
<1>1. AnswersOK => OutcomeTruthful
  <2> SUFFICES ASSUME AnswersOK, NEW r \in Requests, NEW k \in 1..Len(signals[r])
               PROVE  /\ signals[r][k].on = "Complete" => handler[r] = "completed"
                      /\ signals[r][k].on = "Error" => handler[r] = "failed"
    BY DEF OutcomeTruthful
  <2>1. signals[r][k] \in TrueSignals(r)
    BY DEF AnswersOK
  <2> QED
    BY <2>1 DEF TrueSignals
<1> QED
  BY <1>1, InitIInv, NextIInv, InitAnswers, NextAnswers, PTL DEF Spec
-----------------------------------------------------------------------------
(***************************************************************************)
(* Order.  A requester is told the payloads of its handler in their order, *)
(* in the form that Reactive Streams asks for.  Beside IInv this takes:    *)
(* that the payloads on the wire are the handler's, not yet told (ItemsOK) *)
(* and in their order (ItemsRise), and how far what was told goes with the *)
(* call (Progress).  The last part is about what has not been told yet:    *)
(* where answers are read in turn, everything produced is told already or  *)
(* on its way.                                                             *)
(***************************************************************************)

-----------------------------------------------------------------------------
(* The invariant                                                           *)

\* A handler's frame brings a payload for onNext.
Carries(f) == f.by = "handler" /\ f.type = "PAYLOAD" /\ f.data

\* What it brings was produced by its handler, after all that was told; and
\* the answer to a requestResponse is the last frame.
ItemOK(f) ==
    /\ f.by = "handler" /\ Kind[f.req] = "response" => Last(f)
    /\ Carries(f) =>
        /\ f.item \in 1..Len(emitted[f.req]) /\ emitted[f.req][f.item]
        /\ \A j \in 1..Len(signals[f.req]) :
              signals[f.req][j].on = "Next" => signals[f.req][j].item < f.item
ItemsOK == \A p \in Peer : \A f \in Range(wire[p]) : ItemOK(f)

ItemsRise ==
    \A p \in Peer : \A j, k \in 1..Len(wire[p]) :
        j < k /\ wire[p][j].req = wire[p][k].req /\ Carries(wire[p][j]) /\ Carries(wire[p][k]) =>
            wire[p][j].item < wire[p][k].item

\* What r's requester has been told at most, and at least, in each state.
Progress(r) ==
    /\ call[r] \notin {"open", "over"} => signals[r] = <<>>
    /\ Kind[r] = "response" => Len(signals[r]) <= 1
    /\ Kind[r] = "response" /\ call[r] = "open" => signals[r] = <<>>
    /\ Kind[r] \in {"stream", "channel"} /\ call[r] = "open" => signals[r] # <<>>
    /\ \A k \in 1..Len(signals[r]) :
          /\ Kind[r] # "response" => (signals[r][k].on = "Subscribe" <=> k = 1)
          /\ signals[r][k].on \in Terminal => k = Len(signals[r]) /\ call[r] = "over"

\* InOrder of one request.
OrderAt(r) ==
    \A k \in 1..Len(signals[r]) :
        signals[r][k].on = "Next" =>
            /\ signals[r][k].item \in 1..Len(emitted[r])
            /\ emitted[r][signals[r][k].item]
            /\ \A j \in 1..(k - 1) : signals[r][j].item < signals[r][k].item

Told(r) == Progress(r) /\ OrderAt(r)
OInv ==
    /\ IInv /\ AnswersOK
    /\ ItemsOK
    /\ ItemsRise
    /\ \A r \in Requests : Told(r)

LEMMA InitOInv == Init => OInv
<1> SUFFICES ASSUME Init PROVE OInv
  OBVIOUS
<1>1. IInv /\ AnswersOK
  BY InitIInv, InitAnswers
<1>2. \A p \in Peer : wire[p] = <<>> /\ Range(wire[p]) = {}
  BY DEF Init, Range
<1>3. ItemsOK /\ ItemsRise
  BY <1>2 DEF ItemsOK, ItemsRise
<1>4. \A r \in Requests : Told(r)
  BY DEF Init, Told, Progress, OrderAt
<1> QED
  BY <1>1, <1>3, <1>4 DEF OInv

-----------------------------------------------------------------------------
(* The wire                                                                *)

\* Sending f keeps the items rising if f's, if any, is above those before it.
LEMMA SendRises ==
    ASSUME TypeOK, ItemsRise, NEW p \in Peer, NEW f \in Frame, Send(p, f),
           \A g \in Range(wire[Other(p)]) :
               g.req = f.req /\ Carries(g) /\ Carries(f) => g.item < f.item
    PROVE  ItemsRise'
<1> DEFINE q == Other(p)
           n == Len(wire[q])
<1>1. /\ q \in Peer /\ q # p
      /\ wire[q] \in Seq(Frame) /\ wire[p] \in Seq(Frame)
      /\ \A o \in Peer : o = p \/ o = q
  BY OtherPeer DEF TypeOK, Other, Peer
<1>2. wire'[q] = Append(wire[q], f) /\ wire'[p] = wire[p]
  BY <1>1 DEF Send, TypeOK
<1>3. /\ n \in Nat /\ Len(wire'[q]) = n + 1 /\ wire'[q][n + 1] = f
      /\ \A k \in 1..n : wire'[q][k] = wire[q][k] /\ wire[q][k] \in Range(wire[q])
  BY <1>1, <1>2 DEF Range
<1> SUFFICES ASSUME NEW o \in Peer, NEW j \in 1..Len(wire'[o]), NEW k \in 1..Len(wire'[o]),
                    j < k, wire'[o][j].req = wire'[o][k].req,
                    Carries(wire'[o][j]), Carries(wire'[o][k])
             PROVE  wire'[o][j].item < wire'[o][k].item
  BY DEF ItemsRise, Carries
<1>4. CASE o = p
  BY <1>2, <1>4 DEF ItemsRise
<1>5. CASE o = q /\ k \in 1..n
  <2>1. j \in 1..n
    BY <1>3, <1>5
  <2> QED
    BY <1>1, <1>3, <1>5, <2>1 DEF ItemsRise
<1>6. CASE o = q /\ k = n + 1
  <2>1. j \in 1..n
    BY <1>3, <1>6
  <2> QED
    BY <1>3, <1>6, <2>1
<1> QED
  BY <1>1, <1>3, <1>4, <1>5, <1>6

\* What is left of a wire is in the same order.
LEMMA LessRises ==
    ASSUME TypeOK, ItemsRise,
           \A q \in Peer : \E d \in {0, 1} : \A k \in 1..Len(wire'[q]) :
               k + d \in 1..Len(wire[q]) /\ wire'[q][k] = wire[q][k + d]
    PROVE  ItemsRise'
<1> SUFFICES ASSUME NEW q \in Peer, NEW j \in 1..Len(wire'[q]), NEW k \in 1..Len(wire'[q]),
                    j < k, wire'[q][j].req = wire'[q][k].req,
                    Carries(wire'[q][j]), Carries(wire'[q][k])
             PROVE  wire'[q][j].item < wire'[q][k].item
  BY DEF ItemsRise, Carries
<1>1. PICK d \in {0, 1} : \A i \in 1..Len(wire'[q]) :
          i + d \in 1..Len(wire[q]) /\ wire'[q][i] = wire[q][i + d]
  OBVIOUS
<1>2. /\ j + d \in 1..Len(wire[q]) /\ k + d \in 1..Len(wire[q]) /\ j + d < k + d
      /\ wire'[q][j] = wire[q][j + d] /\ wire'[q][k] = wire[q][k + d]
  BY <1>1
<1> QED
  BY <1>2 DEF ItemsRise

\* The frame that is read is the first, and the others move up.
LEMMA ReadWire ==
    ASSUME TypeOK, NEW p \in Peer, NEW types, Reads(p, types)
    PROVE  /\ 1 \in 1..Len(wire[p]) /\ Head(wire[p]) = wire[p][1]
           /\ Len(wire'[p]) = Len(wire[p]) - 1
           /\ \A k \in 1..Len(wire'[p]) : k + 1 \in 1..Len(wire[p]) /\ wire'[p][k] = wire[p][k + 1]
           /\ \A q \in Peer : q # p => wire'[q] = wire[q]
<1>1. wire[p] \in Seq(Frame) /\ wire[p] # <<>> /\ wire' = [wire EXCEPT ![p] = Tail(wire[p])]
  BY DEF Reads, TypeOK
<1>2. wire'[p] = Tail(wire[p]) /\ \A q \in Peer : q # p => wire'[q] = wire[q]
  BY <1>1 DEF TypeOK
<1> DEFINE s == wire[p]
<1>3. /\ Len(s) \in Nat \ {0} /\ Head(s) = s[1]
      /\ Len(Tail(s)) = Len(s) - 1
      /\ \A k \in 1..(Len(s) - 1) : Tail(s)[k] = s[k + 1]
  BY <1>1
<1>4. 1 \in 1..Len(s) /\ \A k \in 1..(Len(s) - 1) : k + 1 \in 1..Len(s)
  BY <1>3
<1> QED
  BY <1>2, <1>3, <1>4

LEMMA ReadRises ==
    ASSUME TypeOK, ItemsRise, NEW p \in Peer, NEW types, Reads(p, types)
    PROVE  ItemsRise'
<1>1. ASSUME NEW q \in Peer
      PROVE  \E d \in {0, 1} : \A k \in 1..Len(wire'[q]) :
                 k + d \in 1..Len(wire[q]) /\ wire'[q][k] = wire[q][k + d]
  <2>1. CASE q = p
    <3>1. \A k \in 1..Len(wire'[q]) : k + 1 \in 1..Len(wire[q]) /\ wire'[q][k] = wire[q][k + 1]
      BY <2>1, ReadWire
    <3> QED
      BY <3>1
  <2>2. CASE q # p
    <3>1. wire'[q] = wire[q]
      BY <2>2, ReadWire
    <3>2. \A k \in 1..Len(wire'[q]) : k + 0 \in 1..Len(wire[q]) /\ wire'[q][k] = wire[q][k + 0]
      BY <3>1
    <3> QED
      BY <3>2
  <2> QED
    BY <2>1, <2>2
<1> QED
  BY <1>1, LessRises

-----------------------------------------------------------------------------
(* Steps that tell nobody anything                                         *)

\* r's call stays, or moves between states in which nothing has been told.
Keeps(r) ==
    \/ call'[r] = call[r]
    \/ call[r] \notin {"open", "over"} /\ call'[r] \notin {"open", "over"}
    \/ call[r] = "writing" /\ Kind[r] \in {"fnf", "push"}

LEMMA ToldStays ==
    ASSUME NEW r \in Requests, Told(r), signals'[r] = signals[r], emitted'[r] = emitted[r],
           Keeps(r)
    PROVE  Told(r)'
<1>1. OrderAt(r)'
  BY DEF Told, OrderAt
<1>2. Progress(r)'
  <2>1. CASE call'[r] = call[r]
    BY <2>1 DEF Told, Progress, Terminal
  <2>2. CASE signals[r] = <<>> /\ (call'[r] = "open" => Kind[r] \notin {"stream", "channel"})
    BY <2>2 DEF Progress, Terminal
  <2>3. CASE call[r] = "writing" /\ Kind[r] \in {"fnf", "push"}
    BY <2>2, <2>3 DEF Told, Progress
  <2> QED
    BY <2>1, <2>2, <2>3 DEF Keeps, Told, Progress
<1> QED
  BY <1>1, <1>2 DEF Told

\* What holds of a frame of r goes on to hold while r's signals and payloads
\* stay as they are.
LEMMA ItemStays ==
    ASSUME NEW f, ItemOK(f),
           signals'[f.req] = signals[f.req], emitted'[f.req] = emitted[f.req]
    PROVE  ItemOK(f)'
BY DEF ItemOK, Carries, Last

\* A step by which p may write f, and which tells and produces nothing.
LEMMA WriteQuiet ==
    ASSUME OInv, signals' = signals, emitted' = emitted,
           NEW p \in Peer, NEW f \in Frame, Write(p, f) \/ wire' = wire,
           ~Carries(f), f.by = "handler" => Last(f),
           \A r \in Requests : Keeps(r)
    PROVE  ItemsOK' /\ ItemsRise' /\ \A r \in Requests : Told(r)'
<1>1. \A r \in Requests : Told(r)'
  BY ToldStays DEF OInv, Keeps
<1>2. ItemOK(f)'
  BY DEF ItemOK, Last, Carries
<1>3. \A q \in Peer : \A g \in Range(wire[q]) : ItemOK(g)'
  BY ItemStays DEF OInv, ItemsOK
<1>4. CASE wire' = wire
  BY <1>1, <1>3, <1>4 DEF OInv, ItemsOK, ItemsRise, Carries
<1>5. CASE Send(p, f)
  <2>1. ItemsRise'
    BY <1>5, SendRises DEF OInv, IInv
  <2>2. \A q \in Peer : Range(wire'[q]) \subseteq Range(wire[q]) \cup {f}
    BY <1>5, SendFrames DEF OInv, IInv, Other, Peer
  <2>3. ItemsOK'
    BY <1>2, <1>3, <2>2 DEF ItemsOK
  <2> QED
    BY <1>1, <2>1, <2>3
<1> QED
  BY <1>4, <1>5 DEF Write

\* A step by which the wires lose frames, and which tells and produces nothing.
LEMMA ReadQuiet ==
    ASSUME OInv, signals' = signals, emitted' = emitted, call' = call, ItemsRise',
           \A q \in Peer : Range(wire'[q]) \subseteq Range(wire[q])
    PROVE  ItemsOK' /\ ItemsRise' /\ \A r \in Requests : Told(r)'
<1>1. \A r \in Requests : Told(r)'
  BY ToldStays DEF OInv, Keeps
<1>2. \A q \in Peer : \A g \in Range(wire[q]) : ItemOK(g)'
  BY ItemStays DEF OInv, ItemsOK
<1> QED
  BY <1>1, <1>2 DEF ItemsOK

\* Everything a caller does but Written.
LEMMA CallOrder ==
    ASSUME OInv, NEW r \in Requests, Call(r), ~Written(r)
    PROVE  ItemsOK' /\ ItemsRise' /\ \A s \in Requests : Told(s)'
<1> DEFINE p == Owner[r]
<1> USE DEF callVars, uploadVars, handlerVars
<1>0. p \in Peer /\ TypeOK /\ call \in [Requests -> {"idle", "writing", "failing", "refused", "open", "over"}]
  BY OwnerPeer DEF OInv, IInv, TypeOK
<1>1. CASE Request(r)
  <2>1. PICK id \in IdsOf(Initial(p)) :
          IF link[p] = "up" THEN Send(p, RequestFrame(r, id)) ELSE UNCHANGED wire
    BY <1>1 DEF Request
  <2> DEFINE f == RequestFrame(r, id)
  <2>2. f \in Frame /\ ~Carries(f) /\ f.by # "handler"
    BY <1>0, IdsType, RequestAssumption DEF RequestFrame, Frame, Carries
  <2>3. Write(p, f) \/ wire' = wire
    BY <1>1, <2>1 DEF Write, Request
  <2>4. \A s \in Requests : Keeps(s)
    BY <1>0, <1>1 DEF Request, Keeps
  <2>5. signals' = signals /\ emitted' = emitted
    BY <1>1 DEF Request
  <2> HIDE DEF f
  <2> QED
    BY <1>0, <2>2, <2>3, <2>4, <2>5, WriteQuiet
<1>2. CASE MetadataPush(r)
  <2> DEFINE f == RequestFrame(r, 0)
  <2>2. f \in Frame /\ ~Carries(f) /\ f.by # "handler"
    BY MaskAssumption, RequestAssumption DEF RequestFrame, Frame, Carries
  <2>3. Write(p, f) \/ wire' = wire
    BY <1>2 DEF Write, MetadataPush
  <2>4. \A s \in Requests : Keeps(s)
    BY <1>0, <1>2 DEF MetadataPush, Keeps
  <2>5. signals' = signals /\ emitted' = emitted
    BY <1>2 DEF MetadataPush
  <2> HIDE DEF f
  <2> QED
    BY <1>0, <2>2, <2>3, <2>4, <2>5, WriteQuiet
<1>3. CASE Sent(r) \/ WriteFails(r)
  <2>1. \A s \in Requests : Keeps(s)
    <3>1. Kind[r] \in Kinds
      BY RequestAssumption
    <3> QED
      BY <1>0, <1>3, <3>1 DEF Sent, WriteFails, Answerable, Kinds, Keeps
  <2>2. signals' = signals /\ emitted' = emitted /\ wire' = wire
    BY <1>3 DEF Sent, WriteFails
  <2>3. \A s \in Requests : Told(s)'
    BY <2>1, <2>2, ToldStays DEF OInv
  <2>4. ItemsOK' /\ ItemsRise'
    BY <2>2, ItemStays DEF OInv, ItemsOK, ItemsRise, Carries
  <2> QED
    BY <2>3, <2>4
<1>4. CASE UploadNext(r) \/ UploadEnd(r)
  <2>1. PICK f \in Frame : Write(p, f) /\ f.by = "caller"
    <3>1. CASE UploadNext(r)
      <4>1. uploaded[r] + 1 \in 0..MaxItems /\ sid[r] \in 0..MASK
        BY <1>0, <3>1, RequestAssumption DEF UploadNext, TypeOK
      <4>2. PayloadFrame(r, sid[r], "caller", uploaded[r] + 1, TRUE, FALSE) \in Frame
        BY <4>1, FrameTypes
      <4> QED
        BY <3>1, <4>2 DEF UploadNext, PayloadFrame
    <3>2. CASE UploadEnd(r)
      <4>1. sid[r] \in 0..MASK /\ 0 \in 0..MaxItems
        BY <1>0, RequestAssumption DEF TypeOK
      <4>2. /\ PayloadFrame(r, sid[r], "caller", 0, FALSE, TRUE) \in Frame
            /\ ErrorFrame(r, sid[r], "caller") \in Frame
        BY <4>1, FrameTypes
      <4> QED
        BY <3>2, <4>2 DEF UploadEnd, PayloadFrame, ErrorFrame
    <3> QED
      BY <1>4, <3>1, <3>2
  <2>2. ~Carries(f) /\ f.by # "handler"
    BY <2>1 DEF Carries
  <2>3. signals' = signals /\ emitted' = emitted /\ call' = call
    BY <1>4 DEF UploadNext, UploadEnd
  <2>4. \A s \in Requests : Keeps(s)
    BY <2>3 DEF Keeps
  <2> QED
    BY <1>0, <2>1, <2>2, <2>3, <2>4, WriteQuiet
<1> QED
  BY <1>1, <1>2, <1>3, <1>4 DEF Call

-----------------------------------------------------------------------------
(* Steps that tell or produce something                                    *)

\* The first that a subscriber is told.
LEMMA WrittenOrder ==
    ASSUME OInv, NEW r \in Requests, Written(r)
    PROVE  ItemsOK' /\ ItemsRise' /\ \A s \in Requests : Told(s)'
<1>0. /\ call[r] = "writing" /\ signals[r] = <<>>
      /\ Kind[r] \in {"response", "stream", "channel"}
  <2>1. call[r] = "writing" /\ Kind[r] \in {"response", "stream", "channel"}
    BY DEF Written, Answerable
  <2> QED
    BY <2>1 DEF OInv, Told, Progress
<1>1. /\ call'[r] = "open" /\ \A s \in Requests : s # r => call'[s] = call[s]
      /\ emitted' = emitted /\ wire' = wire
  BY DEF OInv, IInv, TypeOK, Written, handlerVars
<1>2. \A s \in Requests : s # r => signals'[s] = signals[s]
  BY DEF OInv, IInv, TypeOK, Written, OnSubscribe
<1>3. signals'[r] = IF Kind[r] = "response" THEN <<>> ELSE <<SubscribeSignal(r)>>
  BY <1>0 DEF OInv, IInv, TypeOK, Written, OnSubscribe
<1>4. ASSUME NEW s \in Requests PROVE Told(s)'
  <2>1. CASE s # r
    BY <1>1, <1>2, <2>1, ToldStays DEF OInv, Keeps
  <2>2. CASE s = r /\ Kind[r] = "response"
    BY <1>0, <1>1, <1>3, <2>2 DEF Told, Progress, OrderAt
  <2>3. CASE s = r /\ Kind[r] # "response"
    <3>1. /\ Len(signals'[r]) = 1 /\ signals'[r][1] = SubscribeSignal(r) /\ signals'[r] # <<>>
          /\ SubscribeSignal(r).on = "Subscribe"
      BY <1>3, <2>3 DEF SubscribeSignal
    <3>2. OrderAt(r)'
      BY <3>1 DEF OrderAt
    <3>3. Progress(r)'
      BY <1>0, <1>1, <2>3, <3>1 DEF Progress, Terminal
    <3> QED
      BY <2>3, <3>2, <3>3 DEF Told
  <2> QED
    BY <2>1, <2>2, <2>3
<1>5. ASSUME NEW q \in Peer, NEW g \in Range(wire'[q]) PROVE ItemOK(g)'
  <2>1. ItemOK(g)
    BY <1>1, <1>5 DEF OInv, ItemsOK
  <2>2. g \in Frame /\ g.req \in Requests
    BY <1>1, <1>5, WireType DEF OInv, IInv, Frame
  <2>3. CASE g.req # r
    BY <1>1, <1>2, <2>1, <2>2, <2>3, ItemStays
  <2>4. CASE g.req = r
    <3>1. \A j \in 1..Len(signals'[r]) : signals'[r][j].on # "Next"
      BY <1>3 DEF SubscribeSignal
    <3> QED
      BY <1>1, <2>1, <2>4, <3>1 DEF ItemOK, Carries, Last
  <2> QED
    BY <2>3, <2>4
<1>6. ItemsRise'
  BY <1>1 DEF OInv, ItemsRise, Carries
<1> QED
  BY <1>4, <1>5, <1>6 DEF ItemsOK

\* The payload that a handler produces is the next of its own.
LEMMA ProduceOrder ==
    ASSUME OInv, NEW r \in Requests, NEW data \in BOOLEAN, Answer(r, data) \/ EmitNext(r, data)
    PROVE  ItemsOK' /\ ItemsRise' /\ \A s \in Requests : Told(s)'
<1> DEFINE p == Responder(r)
           old == emitted[r]
           n == Len(old)
<1>0. /\ p \in Peer /\ replyTo[r] \in 0..MASK /\ TypeOK
      /\ old \in Seq(BOOLEAN) /\ n \in Nat /\ emitted \in [Requests -> Seq(BOOLEAN)]
  BY OwnerPeer DEF OInv, IInv, TypeOK
<1>1. /\ handler[r] = "running" /\ Kind[r] \in {"response", "stream"}
      /\ signals' = signals /\ call' = call
      /\ Answer(r, data) => Kind[r] = "response"
      /\ EmitNext(r, data) => Kind[r] = "stream"
  BY DEF Answer, EmitNext, Runs, callVars
<1>2. /\ call[r] \in {"writing", "open", "refused"}
      /\ \A q \in Peer : \A g \in Range(wire[q]) : g.req = r =>
            g.type # "REQUEST" /\ g.by = "handler" /\ ~Last(g)
  BY <1>1, WhileRunning DEF OInv
<1>3. Kind[r] = "response" => /\ signals[r] = <<>>
                              /\ \A q \in Peer : \A g \in Range(wire[q]) : g.req # r
  <2>1. Told(r) /\ \A q \in Peer : \A g \in Range(wire[q]) : ItemOK(g)
    BY DEF OInv, ItemsOK
  <2> QED
    BY <1>2, <2>1 DEF Told, Progress, ItemOK
<1>4. PICK f \in Frame : /\ Write(p, f) /\ f.by = "handler" /\ f.req = r /\ f.data = data
                         /\ f.item = (IF Kind[r] = "stream" THEN n + 1 ELSE 1)
                         /\ Kind[r] = "response" => Last(f)
  <2>1. CASE Answer(r, data)
    <3> DEFINE g == PayloadFrame(r, replyTo[r], "handler", 1, data, TRUE)
    <3>1. 1 \in 0..MaxItems
      BY RequestAssumption
    <3>2. g \in Frame
      BY <1>0, <3>1, FrameTypes
    <3>3. g.by = "handler" /\ g.req = r /\ g.data = data /\ g.item = 1 /\ Last(g)
      BY DEF PayloadFrame, Last
    <3>4. Write(p, g)
      BY <2>1 DEF Answer
    <3> HIDE DEF g
    <3> QED
      BY <1>1, <2>1, <3>2, <3>3, <3>4
  <2>2. CASE EmitNext(r, data)
    <3>1. n + 1 \in 0..MaxItems
      BY <1>0, <2>2, RequestAssumption DEF EmitNext
    <3>2. PayloadFrame(r, replyTo[r], "handler", n + 1, data, FALSE) \in Frame
      BY <1>0, <3>1, FrameTypes
    <3> QED
      BY <1>1, <2>2, <3>2 DEF EmitNext, PayloadFrame
  <2> QED
    BY <2>1, <2>2
<1>5. /\ \A s \in Requests : s # r => emitted'[s] = emitted[s]
      /\ emitted'[r] = IF Kind[r] = "stream" THEN Append(old, data) ELSE <<data>>
  BY <1>0, <1>1 DEF Answer, EmitNext
<1>6. /\ f.item \in 1..Len(emitted'[r]) /\ emitted'[r][f.item] = data
      /\ Kind[r] = "stream" => \A i \in 1..n : i \in 1..Len(emitted'[r]) /\ emitted'[r][i] = old[i]
      /\ Kind[r] = "stream" => \A i \in 1..n : i < f.item
  <2>1. CASE Kind[r] = "stream"
    BY <1>0, <1>4, <1>5, <2>1
  <2>2. CASE Kind[r] = "response"
    BY <1>4, <1>5, <2>2
  <2> QED
    BY <1>1, <2>1, <2>2
<1> HIDE DEF n, old
<1>7. ASSUME NEW s \in Requests PROVE Told(s)'
  <2>1. Told(s)
    BY DEF OInv
  <2>2. CASE s # r
    BY <1>1, <1>5, <2>1, <2>2, ToldStays DEF Keeps
  <2>3. CASE s = r
    <3>1. Progress(s)'
      BY <1>1, <2>1 DEF Told, Progress, Terminal
    <3>2. OrderAt(s)'
      BY <1>1, <1>3, <1>6, <2>1, <2>3 DEF Told, OrderAt, n, old
    <3> QED
      BY <3>1, <3>2 DEF Told
  <2> QED
    BY <2>2, <2>3
<1>8. ASSUME NEW q \in Peer, NEW g \in Range(wire[q])
      PROVE  /\ ItemOK(g)'
             /\ g.req = r /\ Carries(g) => g.item < f.item
  <2>1. ItemOK(g) /\ g \in Frame /\ g.req \in Requests
    BY WireType DEF OInv, IInv, ItemsOK, Frame
  <2>2. CASE g.req # r
    BY <1>1, <1>5, <2>1, <2>2, ItemStays
  <2>3. CASE g.req = r
    BY <1>1, <1>3, <1>6, <2>1, <2>3 DEF ItemOK, Carries, Last, n, old
  <2> QED
    BY <2>2, <2>3
<1>9. ItemOK(f)'
  <2>1. ASSUME NEW j \in 1..Len(signals'[r]), signals'[r][j].on = "Next"
        PROVE  signals'[r][j].item < f.item
    BY <1>1, <1>3, <1>6, <2>1 DEF OInv, Told, OrderAt, n, old
  <2> QED
    BY <1>4, <1>6, <2>1 DEF ItemOK, Carries, Last
<1>10. CASE Send(p, f)
  <2>1. ItemsRise'
    BY <1>0, <1>4, <1>8, <1>10, SendRises, OtherPeer DEF OInv
  <2>2. \A q \in Peer : Range(wire'[q]) \subseteq Range(wire[q]) \cup {f}
    BY <1>0, <1>10, SendFrames DEF Other, Peer
  <2> QED
    BY <1>7, <1>8, <1>9, <2>1, <2>2 DEF ItemsOK
<1>11. CASE wire' = wire
  BY <1>7, <1>8, <1>11 DEF OInv, ItemsOK, ItemsRise, Carries
<1> QED
  BY <1>4, <1>10, <1>11 DEF Write

\* The other steps of a handler produce nothing.
LEMMA EndOrder ==
    ASSUME OInv, NEW r \in Requests,
           EmitComplete(r) \/ Fail(r) \/ Swallow(r) \/ Finish(r)
    PROVE  ItemsOK' /\ ItemsRise' /\ \A s \in Requests : Told(s)'
<1> DEFINE p == Responder(r)
<1> USE DEF callVars, uploadVars, handlerVars
<1>0. p \in Peer /\ replyTo[r] \in 0..MASK /\ 0 \in 0..MaxItems
  BY OwnerPeer, RequestAssumption DEF OInv, IInv, TypeOK
<1>1. signals' = signals /\ emitted' = emitted /\ call' = call
  BY DEF EmitComplete, Fail, Swallow, Finish
<1>2. PICK f \in Frame : /\ Write(p, f) \/ wire' = wire
                         /\ ~Carries(f) /\ Last(f)
  <2>1. /\ PayloadFrame(r, replyTo[r], "handler", 0, FALSE, TRUE) \in Frame
        /\ ErrorFrame(r, replyTo[r], "handler") \in Frame
    BY <1>0, FrameTypes
  <2>2. /\ ~Carries(PayloadFrame(r, replyTo[r], "handler", 0, FALSE, TRUE))
        /\ Last(PayloadFrame(r, replyTo[r], "handler", 0, FALSE, TRUE))
        /\ ~Carries(ErrorFrame(r, replyTo[r], "handler"))
        /\ Last(ErrorFrame(r, replyTo[r], "handler"))
    BY DEF PayloadFrame, ErrorFrame, Carries, Last
  <2> QED
    BY <2>1, <2>2 DEF EmitComplete, Fail, Swallow, Finish
<1>3. \A s \in Requests : Keeps(s)
  BY <1>1 DEF Keeps
<1> QED
  BY <1>0, <1>1, <1>2, <1>3, WriteQuiet

\* What a PAYLOAD frame tells: onNext if it has data, then onComplete.
LEMMA NewSignals ==
    ASSUME NEW f \in Frame
    PROVE  /\ PayloadSignals(f) \in Seq(Signal)
           /\ Len(PayloadSignals(f)) \in 0..2
           /\ \A k \in 1..Len(PayloadSignals(f)) :
                 LET x == PayloadSignals(f)[k] IN
                 /\ x.on \in {"Next", "Complete"} /\ x.item = f.item
                 /\ x.on = "Next" => k = 1 /\ f.data
                 /\ x.on = "Complete" => k = Len(PayloadSignals(f)) /\ f.complete
           /\ f.data => Len(PayloadSignals(f)) >= 1 /\ PayloadSignals(f)[1].on = "Next"
           /\ f.complete => Len(PayloadSignals(f)) >= 1
           /\ ~f.data /\ f.complete => Len(PayloadSignals(f)) = 1
<1> DEFINE a == SignalOf("Next", f)
           b == SignalOf("Complete", f)
<1>1. /\ a \in Signal /\ b \in Signal /\ a.on = "Next" /\ b.on = "Complete"
      /\ a.item = f.item /\ b.item = f.item
  BY DEF SignalOf, Signal, Frame
<1>2. PayloadSignals(f) = (IF f.data THEN <<a>> ELSE <<>>) \o (IF f.complete THEN <<b>> ELSE <<>>)
  BY DEF PayloadSignals
<1>3. f.data \in BOOLEAN /\ f.complete \in BOOLEAN
  BY DEF Frame
<1> HIDE DEF a, b
<1>4. CASE f.data /\ f.complete
  <2>1. PayloadSignals(f) = <<a>> \o <<b>>
    BY <1>2, <1>4
  <2>2. /\ PayloadSignals(f) \in Seq(Signal) /\ Len(PayloadSignals(f)) = 2
        /\ PayloadSignals(f)[1] = a /\ PayloadSignals(f)[2] = b
    BY <1>1, <2>1
  <2> QED
    BY <1>1, <1>4, <2>2
<1>5. CASE f.data /\ ~f.complete
  <2>1. PayloadSignals(f) = <<a>> \o <<>>
    BY <1>2, <1>5
  <2>2. /\ PayloadSignals(f) \in Seq(Signal) /\ Len(PayloadSignals(f)) = 1
        /\ PayloadSignals(f)[1] = a
    BY <1>1, <2>1
  <2> QED
    BY <1>1, <1>5, <2>2
<1>6. CASE ~f.data /\ f.complete
  <2>1. PayloadSignals(f) = <<>> \o <<b>>
    BY <1>2, <1>6
  <2>2. /\ PayloadSignals(f) \in Seq(Signal) /\ Len(PayloadSignals(f)) = 1
        /\ PayloadSignals(f)[1] = b
    BY <1>1, <2>1
  <2> QED
    BY <1>1, <1>6, <2>2
<1>7. CASE ~f.data /\ ~f.complete
  <2>1. PayloadSignals(f) = <<>> \o <<>>
    BY <1>2, <1>7
  <2>2. PayloadSignals(f) \in Seq(Signal) /\ Len(PayloadSignals(f)) = 0
    BY <2>1
  <2> QED
    BY <1>7, <2>2
<1> QED
  BY <1>3, <1>4, <1>5, <1>6, <1>7

\* What r's requester has been told after it was notified: all of the old, which
\* for a promise is nothing, and of the new all, or for a promise the first.
LEMMA NowTold ==
    ASSUME NEW r \in Requests, NEW old \in Seq(Signal), signals[r] = old,
           Kind[r] = "response" => old = <<>>,
           NEW news \in Seq(Signal), NEW now, now = Notified(r, news)
    PROVE  /\ now \in Seq(Signal)
           /\ Len(now) = Len(old) + (IF Kind[r] = "response" /\ news # <<>> THEN 1 ELSE Len(news))
           /\ \A k \in 1..Len(old) : now[k] = old[k]
           /\ \A k \in 1..Len(now) : k > Len(old) =>
                 k - Len(old) \in 1..Len(news) /\ now[k] = news[k - Len(old)]
<1>1. CASE Kind[r] = "response" /\ news = <<>>
  <2>1. now = old
    BY <1>1 DEF Notified, Settled
  <2>2. Len(old) = 0 /\ Len(news) = 0 /\ Len(now) = 0
    BY <1>1, <2>1
  <2>3. now \in Seq(Signal)
    BY <2>1
  <2>4. \A k : k \notin 1..Len(now) /\ k \notin 1..Len(old)
    BY <2>2
  <2>5. Len(now) = Len(old) + (IF Kind[r] = "response" /\ news # <<>> THEN 1 ELSE Len(news))
    BY <1>1, <2>2
  <2> QED
    BY <2>3, <2>4, <2>5
<1>2. CASE Kind[r] = "response" /\ news # <<>>
  <2>1. now = <<Head(news)>> /\ old = <<>> /\ Head(news) = news[1] /\ Len(news) >= 1
    BY <1>2 DEF Notified, Settled
  <2>2. Len(now) = 1 /\ now[1] = news[1] /\ now \in Seq(Signal) /\ Len(old) = 0 /\ Len(news) \in Nat
    BY <2>1
  <2> QED
    BY <1>2, <2>1, <2>2
<1>3. CASE Kind[r] # "response"
  <2>1. now = old \o news
    BY <1>3 DEF Notified
  <2>2. /\ now \in Seq(Signal) /\ Len(now) = Len(old) + Len(news)
        /\ Len(old) \in Nat /\ Len(news) \in Nat
        /\ \A k \in 1..Len(old) : now[k] = old[k]
    BY <2>1
  <2>3. \A k \in 1..Len(now) : k > Len(old) => now[k] = news[k - Len(old)]
    BY <2>1
  <2>4. \A k \in 1..Len(now) : k > Len(old) => k - Len(old) \in 1..Len(news)
    BY <2>2
  <2> QED
    BY <1>3, <2>2, <2>3, <2>4
<1> QED
  BY <1>1, <1>2, <1>3

\* What r, open, may be told of a frame f of its own: a payload of f, and of an
\* end only if that is the end of the call.
NewsOK(r, f, news) ==
    /\ news \in Seq(Signal)
    /\ \A k \in 1..Len(news) :
          /\ news[k].on \in {"Next", "Complete", "Error"} /\ news[k].item = f.item
          /\ news[k].on = "Next" => k = 1 /\ Carries(f)
          /\ news[k].on # "Next" => k = Len(news) /\ call'[r] = "over"
          /\ news[k].on = "Complete" => f.complete
    /\ Carries(f) => news # <<>> /\ news[1].on = "Next"
    /\ call'[r] \in {"open", "over"}
    /\ Kind[r] = "response" => call'[r] = "over" /\ (news # <<>> => Len(news) = 1 \/ news[1].on = "Next")

LEMMA ToldMore ==
    ASSUME OInv, NEW r \in Requests, call[r] = "open", Kind[r] \in {"response", "stream"},
           NEW f, f.req = r, ItemOK(f), f.by = "handler",
           NEW news, NewsOK(r, f, news),
           emitted'[r] = emitted[r], signals'[r] = Notified(r, news)
    PROVE  Told(r)'
<1>0. /\ call[r] = "open" /\ Kind[r] \in {"response", "stream"}
      /\ news \in Seq(Signal) /\ Len(news) \in Nat
      /\ emitted'[r] = emitted[r] /\ emitted[r] \in Seq(BOOLEAN)
      /\ call'[r] \in {"open", "over"}
      /\ Kind[r] = "response" => call'[r] = "over"
      /\ Told(r) /\ signals[r] \in Seq(TrueSignals(r)) /\ signals[r] \in Seq(Signal)
  <2>1. news \in Seq(Signal) /\ call'[r] \in {"open", "over"} /\ (Kind[r] = "response" => call'[r] = "over")
    BY DEF NewsOK
  <2>2. Told(r) /\ signals[r] \in Seq(TrueSignals(r))
    BY DEF OInv, AnswersOK
  <2>3. signals[r] \in Seq(Signal) /\ emitted[r] \in Seq(BOOLEAN)
    BY DEF OInv, IInv, TypeOK
  <2> QED
    BY <2>1, <2>2, <2>3
<1>1. PICK old : old = signals[r]
  OBVIOUS
<1>2. PICK now : now = signals'[r]
  OBVIOUS
<1>3. PICK n : n = Len(old)
  OBVIOUS
<1>4. /\ old \in Seq(Signal) /\ n \in Nat
      /\ Kind[r] = "response" => old = <<>>
      /\ Kind[r] = "stream" => n >= 1
  BY <1>0, <1>1, <1>3 DEF Told, Progress
<1>5. now = Notified(r, news)
  BY <1>2
<1>6. /\ now \in Seq(Signal) /\ Len(now) \in Nat
      /\ Len(now) = n + (IF Kind[r] = "response" /\ news # <<>> THEN 1 ELSE Len(news))
      /\ \A k \in 1..n : now[k] = old[k]
      /\ \A k \in 1..Len(now) : k > n => k - n \in 1..Len(news) /\ now[k] = news[k - n]
  <2>1. /\ now \in Seq(Signal)
        /\ Len(now) = Len(old) + (IF Kind[r] = "response" /\ news # <<>> THEN 1 ELSE Len(news))
        /\ \A k \in 1..Len(old) : now[k] = old[k]
        /\ \A k \in 1..Len(now) : k > Len(old) => k - Len(old) \in 1..Len(news) /\ now[k] = news[k - Len(old)]
    <3>1. /\ old \in Seq(Signal) /\ signals[r] = old /\ news \in Seq(Signal)
          /\ Kind[r] = "response" => old = <<>>
      BY <1>0, <1>1, <1>4
    <3> QED
      BY <3>1, <1>5, NowTold
  <2> QED
    BY <1>3, <2>1
<1>7. \A k \in 1..n : /\ old[k].on \in {"Subscribe", "Next"}
                      /\ Kind[r] # "response" => (old[k].on = "Subscribe" <=> k = 1)
                      /\ old[k].on = "Subscribe" => old[k].item = 0
  <2> TAKE k \in 1..n
  <2>1. old[k].on \notin Terminal /\ (Kind[r] # "response" => (old[k].on = "Subscribe" <=> k = 1))
    BY <1>0, <1>1, <1>3 DEF Told, Progress
  <2>2. old[k] \in SignalsOf(r)
    BY <1>0, <1>1, <1>3 DEF TrueSignals
  <2> QED
    BY <2>1, <2>2 DEF SignalsOf, Terminal
<1>8. Carries(f) => /\ f.item \in 1..Len(emitted[r]) /\ emitted[r][f.item] /\ f.item > 0
                /\ \A k \in 1..n : old[k].on = "Next" => old[k].item < f.item
  <2>1. Carries(f) => /\ f.item \in 1..Len(emitted[r]) /\ emitted[r][f.item]
                  /\ \A k \in 1..n : old[k].on = "Next" => old[k].item < f.item
    BY <1>1, <1>3 DEF ItemOK, Carries
  <2> QED
    BY <1>0, <2>1
<1>9. ASSUME NEW k \in 1..Len(now), k > n
      PROVE  /\ now[k].on \in {"Next", "Complete", "Error"} /\ now[k].item = f.item
             /\ now[k].on = "Next" => k = n + 1 /\ Carries(f)
             /\ now[k].on # "Next" => k = Len(now) /\ call'[r] = "over"
  <2>1. PICK i \in 1..Len(news) : i = k - n /\ now[k] = news[i]
    BY <1>6, <1>9
  <2>2. /\ news[i].on \in {"Next", "Complete", "Error"} /\ news[i].item = f.item
        /\ news[i].on = "Next" => i = 1 /\ Carries(f)
        /\ news[i].on # "Next" => i = Len(news) /\ call'[r] = "over"
    BY <2>1 DEF NewsOK
  <2>3. CASE Kind[r] # "response"
    BY <1>0, <1>4, <1>6, <1>9, <2>1, <2>2, <2>3
  <2>4. CASE Kind[r] = "response"
    <3>1. n = 0 /\ news # <<>>
      BY <1>0, <1>3, <1>4, <2>1, <2>4
    <3>2. Len(now) = 1 /\ k = 1
      BY <1>6, <1>9, <2>4, <3>1
    <3> QED
      BY <1>0, <2>1, <2>2, <2>4, <3>1, <3>2
  <2> QED
    BY <2>3, <2>4
<1>10. Progress(r)'
  <2>1. Kind[r] = "response" => Len(now) <= 1
    BY <1>0, <1>3, <1>4, <1>6
  <2>2. Kind[r] = "stream" => now # <<>>
    BY <1>0, <1>4, <1>6
  <2>3. \A k \in 1..Len(now) : /\ Kind[r] # "response" => (now[k].on = "Subscribe" <=> k = 1)
                               /\ now[k].on \in Terminal => k = Len(now) /\ call'[r] = "over"
    <3> TAKE k \in 1..Len(now)
    <3>1. CASE k \in 1..n
      BY <1>6, <1>7, <3>1 DEF Terminal
    <3>2. CASE k > n
      BY <1>0, <1>4, <1>9, <3>2 DEF Terminal
    <3> QED
      BY <1>4, <1>6, <3>1, <3>2
  <2> QED
    BY <1>0, <1>2, <2>1, <2>2, <2>3 DEF Progress
<1>11. OrderAt(r)'
  <2>1. ASSUME NEW k \in 1..Len(now), now[k].on = "Next"
        PROVE  /\ now[k].item \in 1..Len(emitted[r])
               /\ emitted[r][now[k].item]
               /\ \A j \in 1..(k - 1) : now[j].item < now[k].item
    <3>1. CASE k \in 1..n
      <4>1. \A j \in 1..(k - 1) : j \in 1..n /\ now[j] = old[j]
        BY <1>4, <1>6, <3>1
      <4>2. now[k] = old[k]
        BY <1>6, <3>1
      <4>3. /\ old[k].item \in 1..Len(emitted[r])
            /\ emitted[r][old[k].item]
            /\ \A j \in 1..(k - 1) : old[j].item < old[k].item
        BY <1>0, <1>1, <1>3, <2>1, <3>1, <4>2 DEF Told, OrderAt
      <4> QED
        BY <4>1, <4>2, <4>3
    <3>2. CASE k > n
      <4>1. k = n + 1 /\ Carries(f) /\ now[k].item = f.item
        BY <1>9, <2>1, <3>2
      <4>2. \A j \in 1..(k - 1) : j \in 1..n /\ now[j] = old[j]
        BY <1>4, <1>6, <4>1
      <4>3. \A j \in 1..n : old[j].item < f.item
        BY <1>7, <1>8, <4>1
      <4> QED
        BY <1>8, <4>1, <4>2, <4>3
    <3> QED
      BY <1>4, <1>6, <3>1, <3>2
  <2> QED
    BY <1>0, <1>2, <2>1 DEF OrderAt
<1> QED
  BY <1>10, <1>11 DEF Told

\* What p's requester r is told when it reads a frame of its own.
LEMMA ReceiveNews ==
    ASSUME OInv, NEW p \in Peer, ReceivePayload(p) \/ ReceiveError(p)
    PROVE  LET f == Head(wire[p])
               r == f.req
           IN  /\ f \in Frame /\ f.by = "handler" /\ r \in Requests /\ Owner[r] = p
               /\ call[r] = "open" /\ Kind[r] \in {"response", "stream"} /\ ItemOK(f)
               /\ \E news : NewsOK(r, f, news) /\ signals' = [signals EXCEPT ![r] = Notified(r, news)]
               /\ \A s \in Requests : s # r => call'[s] = call[s]
               /\ emitted' = emitted
<1> DEFINE f == Head(wire[p])
           r == f.req
<1>0. TypeOK /\ call \in [Requests -> {"idle", "writing", "failing", "refused", "open", "over"}]
  BY DEF OInv, IInv, TypeOK
<1>1. Reads(p, {"PAYLOAD", "ERROR"}) /\ Receiver(p) # NoRequest
  BY DEF ReceivePayload, ReceiveError, Reads
<1>2. /\ f \in Frame /\ f \in Range(wire[p]) /\ r \in Requests /\ f.by = "handler"
      /\ Receiver(p) = r /\ AnswerFrameOK(p, f) /\ Owner[r] = p /\ call[r] = "open"
  BY <1>1, OwnFrame DEF OInv
<1>3. Kind[r] \in {"response", "stream"}
  BY <1>2 DEF AnswerFrameOK
<1>4. ItemOK(f)
  BY <1>2 DEF OInv, ItemsOK
<1>5. emitted' = emitted
  BY DEF ReceivePayload, ReceiveError, handlerVars
<1>6. CASE ReceivePayload(p)
  <2> DEFINE news == PayloadSignals(f)
  <2>1. /\ signals' = [signals EXCEPT ![r] = Notified(r, news)]
        /\ IF f.complete THEN call' = [call EXCEPT ![r] = "over"] ELSE call' = call
        /\ f.type = "PAYLOAD"
    BY <1>2, <1>6 DEF ReceivePayload, Reads
  <2>2. /\ \A s \in Requests : s # r => call'[s] = call[s]
        /\ call'[r] \in {"open", "over"} /\ (f.complete => call'[r] = "over")
    BY <1>0, <1>2, <2>1
  <2>3. Kind[r] = "response" => f.complete
    BY <1>2, <1>4, <2>1 DEF ItemOK, Last
  <2>4. /\ news \in Seq(Signal)
        /\ \A k \in 1..Len(news) :
                 /\ news[k].on \in {"Next", "Complete"} /\ news[k].item = f.item
                 /\ news[k].on = "Next" => k = 1 /\ f.data
                 /\ news[k].on = "Complete" => k = Len(news) /\ f.complete
        /\ f.data => Len(news) >= 1 /\ news[1].on = "Next"
        /\ ~f.data /\ f.complete => Len(news) = 1
    BY <1>2, NewSignals
  <2> HIDE DEF news
  <2>5. f.data \in BOOLEAN /\ (f.data <=> Carries(f))
    BY <1>2, <2>1 DEF Frame, Carries
  <2>6. Carries(f) => news # <<>>
    BY <2>4, <2>5
  <2>7. NewsOK(r, f, news)
    BY <2>2, <2>3, <2>4, <2>5, <2>6 DEF NewsOK
  <2> QED
    BY <1>2, <1>3, <1>4, <1>5, <2>1, <2>2, <2>7
<1>7. CASE ReceiveError(p)
  <2> DEFINE x == SignalOf("Error", f)
  <2>1. signals' = [signals EXCEPT ![r] = Notified(r, <<x>>)] /\ call' = [call EXCEPT ![r] = "over"]
    BY <1>2, <1>7 DEF ReceiveError
  <2>2. call'[r] = "over" /\ \A s \in Requests : s # r => call'[s] = call[s]
    BY <1>0, <1>2, <2>1
  <2>3. x \in Signal /\ x.on = "Error" /\ x.item = f.item
    BY <1>2 DEF SignalOf, Signal, Frame
  <2> HIDE DEF x
  <2>4. <<x>> \in Seq(Signal) /\ Len(<<x>>) = 1 /\ <<x>>[1] = x
    BY <2>3
  <2>5. NewsOK(r, f, <<x>>)
    <3>1. ~Carries(f)
      BY <1>7 DEF ReceiveError, Reads, Carries
    <3> QED
      BY <2>2, <2>3, <2>4, <3>1 DEF NewsOK
  <2> QED
    BY <1>2, <1>3, <1>4, <1>5, <2>1, <2>2, <2>5
<1> QED
  BY <1>6, <1>7

\* The signals of the news are those of f, so that an item told anew is f's.
LEMMA OnlyNews ==
    ASSUME OInv, NEW r \in Requests, call[r] = "open", Kind[r] \in {"response", "stream"},
           NEW f, NEW news, NewsOK(r, f, news), NEW j \in 1..Len(Notified(r, news)),
           Notified(r, news)[j].on = "Next"
    PROVE  \/ j \in 1..Len(signals[r]) /\ Notified(r, news)[j] = signals[r][j]
           \/ Carries(f) /\ Notified(r, news)[j].item = f.item
<1>1. PICK old : old = signals[r]
  OBVIOUS
<1>2. PICK now : now = Notified(r, news)
  OBVIOUS
<1>3. news \in Seq(Signal) /\ old \in Seq(Signal) /\ (Kind[r] = "response" => old = <<>>)
  <2>1. news \in Seq(Signal)
    BY DEF NewsOK
  <2>2. signals[r] \in Seq(Signal)
    BY DEF OInv, IInv, TypeOK
  <2>3. Told(r)
    BY DEF OInv
  <2> QED
    BY <1>1, <2>1, <2>2, <2>3 DEF Told, Progress
<1>4. /\ \A k \in 1..Len(old) : now[k] = old[k]
      /\ \A k \in 1..Len(now) : k > Len(old) => k - Len(old) \in 1..Len(news) /\ now[k] = news[k - Len(old)]
  <2>1. /\ old \in Seq(Signal) /\ signals[r] = old /\ news \in Seq(Signal)
        /\ Kind[r] = "response" => old = <<>>
    BY <1>1, <1>3
  <2> QED
    BY <1>2, <2>1, NowTold
<1>5. Len(old) \in Nat
  BY <1>3
<1>6. CASE j > Len(old)
  <2>1. PICK i \in 1..Len(news) : now[j] = news[i]
    BY <1>2, <1>4, <1>6
  <2> QED
    BY <1>2, <2>1 DEF NewsOK
<1> QED
  BY <1>1, <1>2, <1>4, <1>5, <1>6

LEMMA ReceiveOrder ==
    ASSUME OInv, NEW p \in Peer, ReceivePayload(p) \/ ReceiveError(p)
    PROVE  ItemsOK' /\ ItemsRise' /\ \A s \in Requests : Told(s)'
<1> DEFINE f == Head(wire[p])
           r == f.req
<1>1. /\ f \in Frame /\ f.by = "handler" /\ r \in Requests /\ Owner[r] = p
      /\ call[r] = "open" /\ Kind[r] \in {"response", "stream"} /\ ItemOK(f)
      /\ \A s \in Requests : s # r => call'[s] = call[s]
      /\ emitted' = emitted
  BY ReceiveNews
<1>2. PICK news : NewsOK(r, f, news) /\ signals' = [signals EXCEPT ![r] = Notified(r, news)]
  BY ReceiveNews
<1>3. /\ signals'[r] = Notified(r, news)
      /\ \A s \in Requests : s # r => signals'[s] = signals[s]
  BY <1>1, <1>2 DEF OInv, IInv, TypeOK
<1>4. Reads(p, {"PAYLOAD", "ERROR"})
  BY DEF ReceivePayload, ReceiveError, Reads
<1>5. ItemsRise'
  BY <1>4, ReadRises DEF OInv, IInv
<1>6. ASSUME NEW s \in Requests PROVE Told(s)'
  <2>1. CASE s = r
    BY <1>1, <1>2, <1>3, <2>1, ToldMore
  <2>2. CASE s # r
    BY <1>1, <1>3, <2>2, ToldStays DEF OInv, Keeps
  <2> QED
    BY <2>1, <2>2
<1>7. ASSUME NEW q \in Peer, NEW g \in Range(wire'[q]) PROVE ItemOK(g)'
  <2>1. g \in Range(wire[q])
    BY <1>4, ReadFrames DEF OInv, IInv
  <2>2. ItemOK(g) /\ g \in Frame /\ g.req \in Requests
    BY <2>1, WireType DEF OInv, IInv, ItemsOK, Frame
  <2>3. CASE g.req # r
    BY <1>1, <1>3, <2>2, <2>3, ItemStays
  <2>4. CASE g.req = r /\ ~Carries(g)
    BY <2>2, <2>4 DEF ItemOK, Carries, Last
  <2>5. CASE g.req = r /\ Carries(g)
    <3>1. q = p
      BY <1>1, <2>1, <2>5 DEF OInv, IInv, FramesOK, FrameOK, AnswerFrameOK, Carries
    <3>2. Carries(f) => f.item < g.item
      <4>1. PICK k \in 1..Len(wire'[p]) : g = wire'[p][k]
        <5>1. wire'[p] \in Seq(Frame)
          BY <1>4, ReadsType DEF OInv, IInv
        <5> QED
          BY <1>7, <3>1, <5>1 DEF Range
      <4>2. /\ 1 \in 1..Len(wire[p]) /\ f = wire[p][1] /\ k + 1 \in 1..Len(wire[p])
            /\ g = wire[p][k + 1]
        BY <1>4, <4>1, ReadWire DEF OInv, IInv
      <4>3. 1 < k + 1
        BY <4>1
      <4> QED
        BY <1>1, <2>5, <4>2, <4>3 DEF OInv, ItemsRise, Carries
    <3>3. \A j \in 1..Len(signals'[r]) : signals'[r][j].on = "Next" => signals'[r][j].item < g.item
      <4> SUFFICES ASSUME NEW j \in 1..Len(signals'[r]), signals'[r][j].on = "Next"
                   PROVE  signals'[r][j].item < g.item
        OBVIOUS
      <4>1. \/ j \in 1..Len(signals[r]) /\ signals'[r][j] = signals[r][j]
            \/ Carries(f) /\ signals'[r][j].item = f.item
        BY <1>1, <1>2, <1>3, OnlyNews
      <4>2. CASE j \in 1..Len(signals[r]) /\ signals'[r][j] = signals[r][j]
        BY <2>2, <2>5, <4>2 DEF ItemOK
      <4>3. CASE Carries(f) /\ signals'[r][j].item = f.item
        BY <3>2, <4>3
      <4> QED
        BY <4>1, <4>2, <4>3
    <3> QED
      BY <1>1, <2>2, <2>5, <3>3 DEF ItemOK, Last, Carries
  <2> QED
    BY <2>3, <2>4, <2>5
<1> QED
  BY <1>5, <1>6, <1>7 DEF ItemsOK

-----------------------------------------------------------------------------
(* Every step                                                              *)

LEMMA SkipOrder ==
    ASSUME OInv, NEW p \in Peer, HandleRequest(p) \/ IgnoreRequest(p) \/ Drop(p)
    PROVE  ItemsOK' /\ ItemsRise' /\ \A s \in Requests : Told(s)'
<1> USE DEF callVars, uploadVars, handlerVars
<1>1. PICK types : Reads(p, types)
  BY DEF HandleRequest, IgnoreRequest, Drop
<1>2. signals' = signals /\ emitted' = emitted /\ call' = call
  BY DEF HandleRequest, IgnoreRequest, Drop
<1>3. ItemsRise' /\ \A q \in Peer : Range(wire'[q]) \subseteq Range(wire[q])
  BY <1>1, ReadRises, ReadFrames DEF OInv, IInv
<1> QED
  BY <1>2, <1>3, ReadQuiet

LEMMA DisconnectOrder ==
    ASSUME OInv, NEW p \in Peer, Disconnect(p)
    PROVE  ItemsOK' /\ ItemsRise' /\ \A s \in Requests : Told(s)'
<1> DEFINE o == Other(p)
<1>1. PICK n \in 0..Len(wire[o]) : wire' = [wire EXCEPT ![o] = SubSeq(@, 1, n)]
  BY DEF Disconnect
<1>2. signals' = signals /\ emitted' = emitted /\ call' = call
  BY DEF Disconnect, callVars, handlerVars
<1>3. /\ o \in Peer /\ wire[o] \in Seq(Frame)
      /\ wire'[o] = SubSeq(wire[o], 1, n) /\ \A q \in Peer : q # o => wire'[q] = wire[q]
  BY <1>1, OtherPeer DEF OInv, IInv, TypeOK
<1>4. /\ Len(wire'[o]) = n /\ n <= Len(wire[o]) /\ Len(wire[o]) \in Nat
      /\ \A k \in 1..n : wire'[o][k] = wire[o][k] /\ k \in 1..Len(wire[o])
  BY <1>3
<1>5. ASSUME NEW q \in Peer
      PROVE  \A k \in 1..Len(wire'[q]) : k + 0 \in 1..Len(wire[q]) /\ wire'[q][k] = wire[q][k + 0]
  BY <1>3, <1>4
<1>6. ItemsRise'
  BY <1>5, LessRises DEF OInv, IInv
<1>7. \A q \in Peer : Range(wire'[q]) \subseteq Range(wire[q])
  BY <1>3, RangeOfPrefix
<1> QED
  BY <1>2, <1>6, <1>7, ReadQuiet

LEMMA NextOInv == OInv /\ [Next]_vars => OInv'
<1> SUFFICES ASSUME OInv, [Next]_vars PROVE OInv'
  OBVIOUS
<1>1. IInv' /\ AnswersOK'
  BY NextIInv, NextAnswers DEF OInv
<1>2. SUFFICES ItemsOK' /\ ItemsRise' /\ \A s \in Requests : Told(s)'
  BY <1>1 DEF OInv
<1>3. ASSUME NEW r \in Requests, Call(r) PROVE ItemsOK' /\ ItemsRise' /\ \A s \in Requests : Told(s)'
  BY <1>3, CallOrder, WrittenOrder
<1>4. ASSUME NEW r \in Requests, Handle(r) PROVE ItemsOK' /\ ItemsRise' /\ \A s \in Requests : Told(s)'
  BY <1>4, ProduceOrder, EndOrder DEF Handle
<1>5. ASSUME NEW p \in Peer, Receive(p) \/ Disconnect(p)
      PROVE  ItemsOK' /\ ItemsRise' /\ \A s \in Requests : Told(s)'
  BY <1>5, SkipOrder, ReceiveOrder, DisconnectOrder DEF Receive
<1>6. CASE UNCHANGED vars
  <2>1. signals' = signals /\ emitted' = emitted /\ call' = call /\ wire' = wire
    BY <1>6 DEF vars, callVars, handlerVars
  <2>2. ItemsRise'
    BY <2>1 DEF OInv, ItemsRise, Carries
  <2> QED
    BY <2>1, <2>2, ReadQuiet
<1> QED
  BY <1>3, <1>4, <1>5, <1>6 DEF Next

\* Whatever the interleaving, the identifiers that come round and the breaks of
\* the connection: a subscriber is told onSubscribe first and once, nothing
\* after its end, and a promise is settled once.
THEOREM SignalsAreOrdered == Spec => []SignalOrder
<1>1. OInv => SignalOrder
  <2> SUFFICES ASSUME OInv, NEW r \in Requests, NEW k \in 1..Len(signals[r])
               PROVE  /\ signals[r][k].on \in Terminal => k = Len(signals[r])
                      /\ IF Kind[r] = "response" THEN k = 1
                         ELSE signals[r][k].on = "Subscribe" <=> k = 1
    BY DEF SignalOrder
  <2>1. Progress(r) /\ signals[r] \in Seq(Signal)
    BY DEF OInv, Told, IInv, TypeOK
  <2> QED
    BY <2>1 DEF Progress
<1> QED
  BY <1>1, InitOInv, NextOInv, PTL DEF Spec

\* A requester gets its handler's payloads in their order, none twice and none
\* that its handler did not produce.
THEOREM PayloadsAreInOrder == Spec => []InOrder
<1>1. OInv => InOrder
  BY DEF OInv, Told, OrderAt, InOrder
<1> QED
  BY <1>1, InitOInv, NextOInv, PTL DEF Spec

-----------------------------------------------------------------------------
(* What has not been told yet.  From here on answers are read in turn: an  *)
(* answer that arrives before its request's write has resolved is dropped. *)

Got(r, i) == \E j \in 1..Len(signals[r]) : signals[r][j].on = "Next" /\ signals[r][j].item = i
Completed(r) == \E j \in 1..Len(signals[r]) : signals[r][j].on = "Complete"

\* Of the first n payloads that r's handler has produced each is told or among
\* the first k frames on the way to r's end.
OnWay(r, i, k) ==
    \E j \in 1..k : LET f == wire[Owner[r]][j] IN Carries(f) /\ f.req = r /\ f.item = i
AllThere(r, n, k) ==
    \A i \in 1..n : emitted[r][i] => Got(r, i) \/ OnWay(r, i, k)

\* A frame of r's handler, and how many of its payloads it does not precede.
Answers(r, f) == f.by = "handler" /\ f.req = r
SoFar(r, f) ==
    IF Last(f) THEN Len(emitted[r]) ELSE IF Carries(f) THEN f.item ELSE 0

HasNoneYet(r) ==
    handler[r] = "none" \/ (Kind[r] = "response" /\ handler[r] = "running")

Arriving(r) ==
    /\ HasNoneYet(r) => emitted[r] = <<>>
    /\ Completed(r) => AllThere(r, Len(emitted[r]), 0)
    /\ handler[r] = "running" /\ link[Responder(r)] = "up" =>
          AllThere(r, Len(emitted[r]), Len(wire[Owner[r]]))
    /\ \A k \in 1..Len(wire[Owner[r]]) :
          LET f == wire[Owner[r]][k] IN Answers(r, f) => AllThere(r, SoFar(r, f), k)

AInv == AckFirst /\ OInv /\ \A r \in Requests : Arriving(r)

LEMMA InitAInv == AckFirst /\ Init => AInv
<1> SUFFICES ASSUME AckFirst, Init PROVE AInv
  OBVIOUS
<1>1. \A r \in Requests : /\ emitted[r] = <<>> /\ signals[r] = <<>> /\ handler[r] = "none"
                          /\ wire[Owner[r]] = <<>>
  BY OwnerPeer DEF Init
<1>2. \A r \in Requests : Arriving(r)
  BY <1>1 DEF Arriving, Completed
<1> QED
  BY <1>2, InitOInv DEF AInv

\* What r has been told stays told.
Kept(r) == \A i : Got(r, i) => Got(r, i)'

LEMMA StaysThere ==
    ASSUME NEW r \in Requests, NEW n, NEW k \in Nat, NEW m \in Nat, k <= m,
           AllThere(r, n, k), emitted'[r] = emitted[r], Kept(r),
           \A j \in 1..k : wire'[Owner[r]][j] = wire[Owner[r]][j]
    PROVE  AllThere(r, n, m)'
BY DEF AllThere, OnWay, Carries, Kept

\* A frame comes after as many payloads as before while none is produced.
LEMMA SoFarStays ==
    ASSUME NEW r \in Requests, NEW f, emitted'[r] = emitted[r]
    PROVE  SoFar(r, f)' = SoFar(r, f)
BY DEF SoFar, Last, Carries

\* A step that produces nothing of r, tells it of no completion, and puts nothing
\* of its handler's on the wire.
LEMMA ArrivesStill ==
    ASSUME TypeOK, TypeOK', NEW r \in Requests, Arriving(r), Kept(r),
           Completed(r)' => Completed(r),
           emitted'[r] = emitted[r], handler'[r] = handler[r],
           link'[Responder(r)] = "up" => link[Responder(r)] = "up",
           NEW w, w = wire[Owner[r]], NEW v, v = wire'[Owner[r]],
           link'[Responder(r)] = "up" => Len(w) <= Len(v),
           \A k \in 1..Len(w) : k <= Len(v) => v[k] = w[k],
           \A k \in 1..Len(v) : k > Len(w) => ~Answers(r, v[k])
    PROVE  Arriving(r)'
<1>0. Len(w) \in Nat /\ Len(v) \in Nat
  <2>1. w \in Seq(Frame) /\ v \in Seq(Frame)
    BY OwnerPeer DEF TypeOK
  <2> QED
    BY <2>1
<1>1. ASSUME NEW n, NEW k \in 0..Len(w), NEW m \in Nat, k <= m, k <= Len(v),
             AllThere(r, n, k)
      PROVE  AllThere(r, n, m)'
  <2>1. \A j \in 1..k : wire'[Owner[r]][j] = wire[Owner[r]][j]
    BY <1>0, <1>1
  <2>2. k \in Nat
    BY <1>0
  <2> QED
    BY <1>1, <2>1, <2>2, StaysThere
<1>2. HasNoneYet(r)' => emitted'[r] = <<>>
  BY DEF Arriving, HasNoneYet
<1>a. PICK N : N = Len(emitted[r]) /\ N = Len(emitted'[r])
  OBVIOUS
<1>3. Completed(r)' => AllThere(r, N, 0)'
  BY <1>0, <1>1, <1>a DEF Arriving
<1>4. handler'[r] = "running" /\ link'[Responder(r)] = "up" => AllThere(r, N, Len(wire[Owner[r]]))'
  <2> SUFFICES ASSUME handler'[r] = "running" /\ link'[Responder(r)] = "up"
               PROVE  AllThere(r, N, Len(wire[Owner[r]]))'
    OBVIOUS
  <2>1. AllThere(r, N, Len(w)) /\ Len(w) <= Len(v)
    BY <1>a DEF Arriving
  <2>2. AllThere(r, N, Len(v))'
    BY <1>0, <1>1, <2>1
  <2> QED
    BY <2>2 DEF AllThere, OnWay, Carries
<1>5. ASSUME NEW k \in 1..Len(v), Answers(r, v[k]) PROVE AllThere(r, SoFar(r, v[k]), k)'
  <2>1. k \in 1..Len(w) /\ v[k] = w[k]
    BY <1>0, <1>5
  <2>2. PICK n : n = SoFar(r, v[k]) /\ n = SoFar(r, v[k])'
    BY SoFarStays DEF SoFar, Last, Carries
  <2>3. AllThere(r, n, k)
    BY <1>5, <2>1, <2>2 DEF Arriving
  <2>4. AllThere(r, n, k)'
    BY <1>0, <1>1, <1>5, <2>1, <2>3
  <2> QED
    BY <2>2, <2>4 DEF AllThere
<1> QED
  <2>1. Completed(r)' => AllThere(r, Len(emitted[r]), 0)'
    BY <1>3, <1>a DEF AllThere
  <2>2. handler'[r] = "running" /\ link'[Responder(r)] = "up" =>
            AllThere(r, Len(emitted[r]), Len(wire[Owner[r]]))'
    BY <1>4, <1>a DEF AllThere
  <2> QED
    BY <1>2, <1>5, <2>1, <2>2 DEF Arriving, Answers, HasNoneYet

\* A step that reads a frame, and tells r what that frame brings it.
LEMMA ReadArrives ==
    ASSUME TypeOK, NEW p \in Peer, NEW types, Reads(p, types),
           NEW f, f = Head(wire[p]),
           NEW r \in Requests, Arriving(r), Kept(r), emitted'[r] = emitted[r],
           Owner[r] = p /\ f.req = r /\ Carries(f) => Got(r, f.item)',
           Completed(r)' => Completed(r) \/ (Owner[r] = p /\ Answers(r, f) /\ f.complete),
           handler'[r] = handler[r] \/ (handler[r] = "none" /\ handler'[r] = "running"),
           link' = link
    PROVE  Arriving(r)'
<1>0. /\ 1 \in 1..Len(wire[p]) /\ f = wire[p][1]
      /\ Len(wire'[p]) = Len(wire[p]) - 1
      /\ \A k \in 1..Len(wire'[p]) : k + 1 \in 1..Len(wire[p]) /\ wire'[p][k] = wire[p][k + 1]
      /\ \A q \in Peer : q # p => wire'[q] = wire[q]
  BY ReadWire
<1>1. Owner[r] \in Peer /\ \A q \in Peer : Len(wire[q]) \in Nat
  <2>1. \A q \in Peer : wire[q] \in Seq(Frame)
    BY DEF TypeOK
  <2> QED
    BY <2>1, OwnerPeer
<1>2. ASSUME Owner[r] # p, NEW n, NEW k \in 0..Len(wire[Owner[r]]), AllThere(r, n, k)
      PROVE  AllThere(r, n, k)'
  <2>1. k \in Nat /\ \A j \in 1..k : wire'[Owner[r]][j] = wire[Owner[r]][j]
    BY <1>0, <1>1, <1>2
  <2> QED
    BY <1>2, <2>1, StaysThere
<1>3. ASSUME Owner[r] = p, NEW n, NEW k \in 1..Len(wire[p]), AllThere(r, n, k)
      PROVE  AllThere(r, n, k - 1)'
  <2> SUFFICES ASSUME NEW i \in 1..n, emitted[r][i], ~Got(r, i)'
               PROVE  OnWay(r, i, k - 1)'
    BY DEF AllThere
  <2>1. ~Got(r, i)
    BY DEF Kept
  <2>2. PICK j \in 1..k : Carries(wire[p][j]) /\ wire[p][j].req = r /\ wire[p][j].item = i
    BY <1>3, <2>1 DEF AllThere, OnWay
  <2>3. j # 1
    BY <1>0, <1>3, <2>2
  <2>4. j - 1 \in 1..(k - 1) /\ j - 1 \in 1..Len(wire'[p])
    BY <1>0, <1>1, <2>2, <2>3
  <2>5. wire'[p][j - 1] = wire[p][(j - 1) + 1] /\ (j - 1) + 1 = j
    BY <1>0, <1>1, <1>3, <2>4
  <2> QED
    BY <1>3, <2>2, <2>4, <2>5 DEF OnWay, Carries
<1>4. ASSUME Owner[r] = p, NEW n, AllThere(r, n, 0) PROVE AllThere(r, n, 0)'
  <2>1. 0 \in Nat /\ \A j \in 1..0 : wire'[Owner[r]][j] = wire[Owner[r]][j]
    OBVIOUS
  <2> QED
    BY <1>4, <2>1, StaysThere
<1>5. HasNoneYet(r)' => emitted'[r] = <<>>
  BY DEF Arriving, HasNoneYet
<1>a. PICK N : N = Len(emitted[r]) /\ N = Len(emitted'[r])
  OBVIOUS
<1>6. Completed(r)' => AllThere(r, N, 0)'
  <2>1. CASE Completed(r)
    BY <1>1, <1>2, <1>4, <1>a, <2>1 DEF Arriving
  <2>2. CASE Owner[r] = p /\ Answers(r, f) /\ f.complete
    <3>1. AllThere(r, N, 1)
      BY <1>0, <1>a, <2>2 DEF Arriving, SoFar, Last
    <3>2. AllThere(r, N, 1 - 1)' /\ 1 - 1 = 0
      BY <1>0, <1>3, <2>2, <3>1
    <3> QED
      BY <3>2
  <2> QED
    BY <2>1, <2>2
<1>7. handler'[r] = "running" /\ link'[Responder(r)] = "up" => AllThere(r, N, Len(wire[Owner[r]]))'
  <2> SUFFICES ASSUME handler'[r] = "running", link'[Responder(r)] = "up"
               PROVE  AllThere(r, N, Len(wire[Owner[r]]))'
    OBVIOUS
  <2>1. CASE handler[r] = "none"
    <3>1. emitted'[r] = <<>>
      BY <2>1 DEF Arriving, HasNoneYet
    <3>2. N = 0
      BY <1>a, <3>1
    <3> QED
      BY <3>2 DEF AllThere
  <2>2. CASE handler[r] = "running"
    <3>1. AllThere(r, N, Len(wire[Owner[r]]))
      BY <1>a, <2>2 DEF Arriving
    <3>2. CASE Owner[r] = p
      <4>1. PICK k \in 1..Len(wire[p]) : k = Len(wire[p])
        BY <1>0, <1>1
      <4>2. AllThere(r, N, k - 1)' /\ Len(wire'[Owner[r]]) = k - 1
        BY <1>0, <1>3, <3>1, <3>2, <4>1
      <4> QED
        BY <4>2 DEF AllThere, OnWay, Carries
    <3>3. CASE Owner[r] # p
      <4>1. PICK k \in 0..Len(wire[Owner[r]]) : k = Len(wire[Owner[r]])
        BY <1>1
      <4>2. AllThere(r, N, k)' /\ Len(wire'[Owner[r]]) = k
        BY <1>0, <1>1, <1>2, <3>1, <3>3, <4>1
      <4> QED
        BY <4>2 DEF AllThere, OnWay, Carries
    <3> QED
      BY <3>2, <3>3
  <2> QED
    BY <2>1, <2>2
<1>8. ASSUME NEW k \in 1..Len(wire'[Owner[r]]), NEW g, g = wire'[Owner[r]][k], Answers(r, g),
             NEW n, n = SoFar(r, g)
      PROVE  AllThere(r, n, k)'
  <2>1. CASE Owner[r] = p
    <3>1. k + 1 \in 1..Len(wire[p]) /\ g = wire[p][k + 1]
      BY <1>0, <1>8, <2>1
    <3>2. AllThere(r, n, k + 1)
      BY <1>8, <2>1, <3>1 DEF Arriving
    <3>3. AllThere(r, n, (k + 1) - 1)'
      BY <1>3, <2>1, <3>1, <3>2
    <3>4. (k + 1) - 1 = k
      BY <3>1
    <3> QED
      BY <3>3, <3>4
  <2>2. CASE Owner[r] # p
    <3>1. k \in 1..Len(wire[Owner[r]]) /\ wire'[Owner[r]] = wire[Owner[r]]
      BY <1>0, <1>1, <1>8, <2>2
    <3>2. AllThere(r, n, k)
      BY <1>8, <3>1 DEF Arriving
    <3> QED
      BY <1>1, <1>2, <2>2, <3>1, <3>2
  <2> QED
    BY <2>1, <2>2
<1>9. ASSUME NEW k \in 1..Len(wire'[Owner[r]]), Answers(r, wire'[Owner[r]][k])
      PROVE  AllThere(r, SoFar(r, wire[Owner[r]][k]), k)'
  <2>1. PICK g : g = wire'[Owner[r]][k]
    OBVIOUS
  <2>2. PICK n : n = SoFar(r, g) /\ n = SoFar(r, g)'
    BY SoFarStays
  <2>3. AllThere(r, n, k)'
    BY <1>8, <1>9, <2>1, <2>2
  <2> QED
    BY <2>1, <2>2, <2>3 DEF AllThere, SoFar, Last, Carries
<1> QED
  <2>1. Completed(r)' => AllThere(r, Len(emitted[r]), 0)'
    BY <1>6, <1>a DEF AllThere
  <2>2. handler'[r] = "running" /\ link'[Responder(r)] = "up" =>
            AllThere(r, Len(emitted[r]), Len(wire[Owner[r]]))'
    BY <1>7, <1>a DEF AllThere
  <2> QED
    BY <1>5, <1>9, <2>1, <2>2 DEF Arriving, Answers

\* A step of r's handler that writes f, or fails to and takes its process with it.
LEMMA HandlerArrives ==
    ASSUME TypeOK, TypeOK', NEW r \in Requests, Arriving(r), handler[r] = "running",
           ~Completed(r), signals' = signals, handler'[r] # "none",
           HasNoneYet(r)' => emitted'[r] = <<>>,
           NEW f \in Frame, Answers(r, f), Carries(f) => f.item \in 1..Len(emitted'[r]),
           Write(Responder(r), f),
           \A i \in 1..Len(emitted[r]) : i \in 1..Len(emitted'[r]) /\ emitted'[r][i] = emitted[r][i],
           \A i \in 1..Len(emitted'[r]) :
               i \in 1..Len(emitted[r]) \/ (emitted'[r][i] => Carries(f) /\ f.item = i),
           \A k \in 1..Len(wire[Owner[r]]) : Answers(r, wire[Owner[r]][k]) =>
               ~Last(wire[Owner[r]][k]) /\ SoFar(r, wire[Owner[r]][k]) \in 0..Len(emitted[r])
    PROVE  Arriving(r)'
<1>0. Responder(r) \in Peer /\ Owner[r] \in Peer /\ Other(Responder(r)) = Owner[r]
  BY OwnerPeer, OtherPeer DEF Responder, Other, Peer
<1>1. ~Completed(r)'
  BY DEF Completed
<1>2. PICK w : w = wire[Owner[r]]
  OBVIOUS
<1>3. PICK v : v = wire'[Owner[r]]
  OBVIOUS
<1>4. w \in Seq(Frame) /\ Len(w) \in Nat
  <2>1. w \in Seq(Frame)
    BY <1>0, <1>2 DEF TypeOK
  <2> QED
    BY <2>1
<1>5. Len(emitted[r]) \in Nat /\ Len(emitted'[r]) \in Nat
  <2>1. emitted[r] \in Seq(BOOLEAN) /\ emitted'[r] \in Seq(BOOLEAN)
    BY DEF TypeOK
  <2> QED
    BY <2>1
\* What was there for a frame on the wire before is there still.
<1>6. ASSUME NEW k \in 1..Len(w), Answers(r, w[k]), \A j \in 1..Len(w) : v[j] = w[j]
      PROVE  AllThere(r, SoFar(r, wire[Owner[r]][k]), k)'
  <2>1. PICK n : n = SoFar(r, w[k])
    OBVIOUS
  <2>2. ~Last(w[k]) /\ n \in 0..Len(emitted[r]) /\ AllThere(r, n, k)
    BY <1>2, <1>6, <2>1 DEF Arriving
  <2>3. SoFar(r, wire[Owner[r]][k])' = n
    BY <1>3, <1>6, <2>1, <2>2 DEF SoFar, Last, Carries
  <2>4. ASSUME NEW i \in 1..n, emitted'[r][i] PROVE Got(r, i)' \/ OnWay(r, i, k)'
    <3>1. i \in 1..Len(emitted[r]) /\ emitted[r][i]
      BY <1>5, <2>2, <2>4
    <3>2. Got(r, i) \/ OnWay(r, i, k)
      BY <2>2, <2>4, <3>1 DEF AllThere
    <3>3. \A j \in 1..k : j \in 1..Len(w)
      BY <1>4
    <3> QED
      BY <1>2, <1>3, <1>6, <3>2, <3>3 DEF Got, OnWay, Carries
  <2> QED
    BY <2>3, <2>4 DEF AllThere
<1>7. CASE link[Responder(r)] = "up" /\ Send(Responder(r), f)
  <2>1. v = Append(w, f)
    BY <1>0, <1>2, <1>3, <1>7 DEF Send, TypeOK
  <2>2. /\ Len(v) = Len(w) + 1 /\ v[Len(w) + 1] = f
        /\ \A k \in 1..Len(w) : v[k] = w[k]
    BY <1>4, <2>1
  <2>3. AllThere(r, Len(emitted[r]), Len(w))
    BY <1>2, <1>7 DEF Arriving
  <2>4. ASSUME NEW i \in 1..Len(emitted'[r]), emitted'[r][i]
        PROVE  Got(r, i)' \/ OnWay(r, i, Len(w) + 1)'
    <3>1. CASE i \in 1..Len(emitted[r])
      <4>1. Got(r, i) \/ OnWay(r, i, Len(w))
        BY <2>3, <2>4, <3>1 DEF AllThere
      <4>2. \A j \in 1..Len(w) : j \in 1..(Len(w) + 1)
        BY <1>4
      <4> QED
        BY <1>2, <1>3, <2>2, <4>1, <4>2 DEF Got, OnWay, Carries
    <3>2. CASE Carries(f) /\ f.item = i
      <4>1. Len(w) + 1 \in 1..(Len(w) + 1)
        BY <1>4
      <4> QED
        BY <1>3, <2>2, <3>2, <4>1 DEF OnWay, Carries, Answers
    <3> QED
      BY <2>4, <3>1, <3>2
  <2>5. AllThere(r, Len(emitted[r]), Len(wire[Owner[r]]))'
    BY <1>3, <2>2, <2>4 DEF AllThere
  <2>6. ASSUME NEW k \in 1..Len(v), Answers(r, v[k])
        PROVE  AllThere(r, SoFar(r, wire[Owner[r]][k]), k)'
    <3>1. CASE k \in 1..Len(w)
      BY <1>6, <2>2, <2>6, <3>1
    <3>2. CASE k = Len(w) + 1
      <4>1. SoFar(r, wire[Owner[r]][k])' \in 0..Len(emitted'[r])
        BY <1>3, <1>5, <2>2, <3>2 DEF SoFar, Carries, Last
      <4>2. \A i \in 1..SoFar(r, wire[Owner[r]][k])' : i \in 1..Len(emitted'[r])
        BY <1>5, <4>1
      <4> QED
        BY <2>4, <3>2, <4>2 DEF AllThere
    <3> QED
      BY <1>4, <2>2, <2>6, <3>1, <3>2
  <2> QED
    BY <1>1, <1>3, <2>5, <2>6 DEF Arriving, Answers
<1>8. CASE link'[Responder(r)] = "dead" /\ wire' = wire
  <2>1. ASSUME NEW k \in 1..Len(v), Answers(r, v[k])
        PROVE  AllThere(r, SoFar(r, wire[Owner[r]][k]), k)'
    BY <1>2, <1>3, <1>6, <1>8, <2>1
  <2> QED
    BY <1>1, <1>3, <1>8, <2>1 DEF Arriving, Answers
<1> QED
  BY <1>0, <1>7, <1>8 DEF Write, TypeOK

\* A step that writes nothing of r's handler, if anything.
LEMMA SentStill ==
    ASSUME TypeOK, TypeOK', NEW r \in Requests, Arriving(r), Kept(r),
           Completed(r)' => Completed(r),
           emitted'[r] = emitted[r], handler'[r] = handler[r],
           link'[Responder(r)] = "up" => link[Responder(r)] = "up",
           NEW p \in Peer, NEW f \in Frame, ~Answers(r, f), Send(p, f) \/ wire' = wire
    PROVE  Arriving(r)'
<1>1. PICK w : w = wire[Owner[r]]
  OBVIOUS
<1>2. PICK v : v = wire'[Owner[r]]
  OBVIOUS
<1>3. w \in Seq(Frame) /\ Len(w) \in Nat
  <2>1. Owner[r] \in Peer /\ wire \in [Peer -> Seq(Frame)]
    BY OwnerPeer DEF TypeOK
  <2>2. w \in Seq(Frame)
    BY <1>1, <2>1
  <2> QED
    BY <2>2
<1>4. v = w \/ v = Append(w, f)
  <2>1. Owner[r] \in Peer /\ wire \in [Peer -> Seq(Frame)]
    BY OwnerPeer DEF TypeOK
  <2> QED
    BY <1>1, <1>2, <2>1 DEF Send
<1>5. /\ Len(w) <= Len(v)
      /\ \A k \in 1..Len(w) : k <= Len(v) => v[k] = w[k]
      /\ \A k \in 1..Len(v) : k > Len(w) => ~Answers(r, v[k])
  <2>1. CASE v = w
    BY <1>3, <2>1
  <2>2. CASE v = Append(w, f)
    <3>1. /\ Len(v) = Len(w) + 1 /\ v[Len(w) + 1] = f
          /\ \A k \in 1..Len(w) : v[k] = w[k]
      BY <1>3, <2>2
    <3>2. \A k \in 1..Len(v) : k > Len(w) => k = Len(w) + 1
      BY <1>3, <3>1
    <3> QED
      BY <1>3, <3>1, <3>2
  <2> QED
    BY <1>4, <2>1, <2>2
<1> QED
  BY <1>1, <1>2, <1>5, ArrivesStill

\* The links only get worse.
LEMMA LinksWorsen ==
    ASSUME TypeOK, [Next]_vars
    PROVE  \A p \in Peer : link'[p] = "up" => link[p] = "up"
<1> SUFFICES ASSUME NEW p \in Peer, link[p] # "up" PROVE link'[p] # "up"
  OBVIOUS
<1> USE DEF TypeOK
<1>1. ASSUME NEW r \in Requests, Call(r) PROVE link'[p] # "up"
  BY <1>1, OwnerPeer DEF Call, Request, MetadataPush, Written, Sent, WriteFails, UploadNext, UploadEnd, Write
<1>2. ASSUME NEW r \in Requests, Handle(r) PROVE link'[p] # "up"
  BY <1>2, OwnerPeer DEF Handle, Answer, EmitNext, EmitComplete, Fail, Swallow, Finish, Write
<1>3. ASSUME NEW q \in Peer, Receive(q) \/ Disconnect(q) PROVE link'[p] # "up"
  BY <1>3 DEF Receive, HandleRequest, IgnoreRequest, ReceivePayload, ReceiveError, Drop, Disconnect
<1> QED
  BY <1>1, <1>2, <1>3 DEF Next, vars

\* What a caller writes is no answer.
LEMMA CallWrites ==
    ASSUME TypeOK, NEW r \in Requests, Call(r)
    PROVE  \E p \in Peer, f \in Frame : f.by # "handler" /\ (Send(p, f) \/ wire' = wire)
<1> DEFINE p == Owner[r]
<1>0. p \in Peer /\ sid[r] \in 0..MASK /\ 0 \in 0..MASK /\ 0 \in 0..MaxItems
  BY OwnerPeer, MaskAssumption, RequestAssumption DEF TypeOK
<1>1. \A id \in 0..MASK : RequestFrame(r, id) \in Frame /\ RequestFrame(r, id).by # "handler"
  BY RequestAssumption DEF RequestFrame, Frame
<1>2. CASE Request(r)
  <2>1. PICK id \in IdsOf(Initial(p)) : Send(p, RequestFrame(r, id)) \/ wire' = wire
    BY <1>2 DEF Request
  <2>2. id \in 0..MASK
    BY <1>0, <2>1, IdsType
  <2> QED
    BY <1>0, <1>1, <2>1, <2>2
<1>3. CASE UploadNext(r) \/ UploadEnd(r)
  <2>1. CASE UploadNext(r)
    <3> DEFINE f == PayloadFrame(r, sid[r], "caller", uploaded[r] + 1, TRUE, FALSE)
    <3>1. uploaded[r] + 1 \in 0..MaxItems
      BY <2>1, RequestAssumption DEF UploadNext, TypeOK
    <3>2. f \in Frame
      BY <1>0, <3>1, FrameTypes
    <3>3. f.by # "handler"
      BY DEF PayloadFrame
    <3>4. Send(p, f) \/ wire' = wire
      BY <2>1 DEF UploadNext, Write
    <3> QED
      BY <1>0, <3>2, <3>3, <3>4
  <2>2. CASE UploadEnd(r)
    <3> DEFINE f == PayloadFrame(r, sid[r], "caller", 0, FALSE, TRUE)
               e == ErrorFrame(r, sid[r], "caller")
    <3>1. f \in Frame /\ e \in Frame
      BY <1>0, FrameTypes
    <3>2. f.by # "handler" /\ e.by # "handler"
      BY DEF PayloadFrame, ErrorFrame
    <3>3. Send(p, f) \/ Send(p, e) \/ wire' = wire
      BY <2>2 DEF UploadEnd, Write
    <3> QED
      BY <1>0, <3>1, <3>2, <3>3
  <2> QED
    BY <1>3, <2>1, <2>2
<1>4. CASE MetadataPush(r)
  BY <1>0, <1>1, <1>4 DEF MetadataPush
<1>5. CASE Written(r) \/ Sent(r) \/ WriteFails(r)
  BY <1>0, <1>1, <1>5 DEF Written, Sent, WriteFails
<1> QED
  BY <1>2, <1>3, <1>4, <1>5 DEF Call

LEMMA CallArrives ==
    ASSUME AInv, TypeOK', NEW s \in Requests, Call(s), NEW r \in Requests
    PROVE  Arriving(r)'
<1>0. TypeOK /\ Arriving(r) /\ signals[r] \in Seq(Signal)
  BY DEF AInv, OInv, IInv, TypeOK
<1>1. PICK p \in Peer, f \in Frame : f.by # "handler" /\ (Send(p, f) \/ wire' = wire)
  BY <1>0, CallWrites
<1>2. handler' = handler /\ emitted' = emitted
  BY DEF Call, Request, MetadataPush, Written, Sent, WriteFails, UploadNext, UploadEnd, handlerVars
<1>3. signals'[r] = signals[r] \/ signals'[r] = Append(signals[r], SubscribeSignal(r))
  <2>1. CASE Written(s)
    BY <1>0, <2>1 DEF Written, OnSubscribe, TypeOK
  <2>2. CASE ~Written(s)
    BY <2>2 DEF Call, Request, MetadataPush, Sent, WriteFails, UploadNext, UploadEnd, callVars
  <2> QED
    BY <2>1, <2>2
<1>4. \A j \in 1..Len(signals[r]) : j \in 1..Len(signals'[r]) /\ signals'[r][j] = signals[r][j]
  BY <1>0, <1>3
<1>5. \A j \in 1..Len(signals'[r]) : j \in 1..Len(signals[r]) \/ signals'[r][j] = SubscribeSignal(r)
  BY <1>0, <1>3
<1>6. Kept(r)
  BY <1>4 DEF Kept, Got
<1>7. Completed(r)' => Completed(r)
  BY <1>4, <1>5 DEF Completed, SubscribeSignal
<1>8. link'[Responder(r)] = "up" => link[Responder(r)] = "up"
  BY <1>0, LinksWorsen, OwnerPeer DEF Next
<1>9. ~Answers(r, f)
  BY <1>1 DEF Answers
<1> QED
  BY <1>0, <1>1, <1>2, <1>6, <1>7, <1>8, <1>9, SentStill

\* While its handler runs r is told of no completion, and no last frame of the
\* handler's is on the way.
LEMMA NotYet ==
    ASSUME OInv, NEW r \in Requests, handler[r] = "running"
    PROVE  /\ ~Completed(r)
           /\ \A k \in 1..Len(wire[Owner[r]]) : Answers(r, wire[Owner[r]][k]) =>
                 /\ ~Last(wire[Owner[r]][k])
                 /\ SoFar(r, wire[Owner[r]][k]) \in 0..Len(emitted[r])
                 /\ Kind[r] # "response"
<1>1. ASSUME NEW j \in 1..Len(signals[r]), signals[r][j].on = "Complete" PROVE FALSE
  <2>1. signals[r][j] \in TrueSignals(r)
    BY DEF OInv, AnswersOK
  <2> QED
    BY <1>1, <2>1 DEF TrueSignals
<1>2. ASSUME NEW k \in 1..Len(wire[Owner[r]]), Answers(r, wire[Owner[r]][k])
      PROVE  /\ ~Last(wire[Owner[r]][k])
             /\ SoFar(r, wire[Owner[r]][k]) \in 0..Len(emitted[r])
             /\ Kind[r] # "response"
  <2>1. wire[Owner[r]][k] \in Range(wire[Owner[r]])
    <3>1. wire[Owner[r]] \in Seq(Frame)
      BY OwnerPeer DEF OInv, IInv, TypeOK
    <3> QED
      BY <3>1 DEF Range
  <2>2. PICK f : f = wire[Owner[r]][k]
    OBVIOUS
  <2>3. AnswerFrameOK(Owner[r], f) /\ ItemOK(f) /\ Answers(r, f)
    BY <1>2, <2>1, <2>2, OwnerPeer DEF OInv, IInv, FramesOK, FrameOK, ItemsOK
  <2>4. ~Last(f)
    BY <2>3 DEF AnswerFrameOK, Answers, Last
  <2>5. Kind[r] # "response"
    BY <2>3, <2>4 DEF ItemOK, Answers
  <2>6. Len(emitted[r]) \in Nat
    <3>1. emitted[r] \in Seq(BOOLEAN)
      BY DEF OInv, IInv, TypeOK
    <3> QED
      BY <3>1
  <2>7. SoFar(r, f) \in 0..Len(emitted[r])
    BY <2>3, <2>4, <2>6 DEF SoFar, ItemOK, Answers
  <2> QED
    BY <2>2, <2>4, <2>5, <2>7
<1> QED
  BY <1>1, <1>2 DEF Completed

\* What r's handler has produced it has produced, and a promise resolves once.
KeepsItems(r) ==
    Kind[r] # "response" \/ emitted[r] = <<>> =>
        \A i \in 1..Len(emitted[r]) : i \in 1..Len(emitted'[r]) /\ emitted'[r][i] = emitted[r][i]

\* What a handler writes.
LEMMA HandleWrites ==
    ASSUME TypeOK, NEW s \in Requests, Handle(s)
    PROVE  /\ handler[s] = "running" /\ signals' = signals /\ call' = call
           /\ ~HasNoneYet(s)'
           /\ \A r \in Requests : r # s => emitted'[r] = emitted[r] /\ handler'[r] = handler[r]
           /\ \/ \E f \in Frame :
                   /\ Write(Responder(s), f) /\ f.by = "handler" /\ f.req = s
                   /\ \A i \in 1..Len(emitted'[s]) :
                         \/ i \in 1..Len(emitted[s]) /\ emitted'[s][i] = emitted[s][i]
                         \/ emitted'[s][i] => Carries(f) /\ f.item = i
                   /\ Carries(f) => f.item \in 1..Len(emitted'[s])
                   /\ KeepsItems(s)
                   /\ \/ handler'[s] = "running"
                      \/ handler'[s] \in {"completed", "failed"} /\ Last(f)
              \/ /\ wire' = wire /\ link' = link /\ emitted' = emitted
                 /\ \/ Kind[s] = "fnf" /\ handler'[s] \in {"completed", "failed"}
                    \/ s \in Throwing /\ handler'[s] = "swallowed"
<1> DEFINE p == Responder(s)
           id == replyTo[s]
<1> USE DEF callVars, uploadVars
<1>0. /\ p \in Peer /\ id \in 0..MASK /\ 0 \in 0..MaxItems /\ 1 \in 0..MaxItems
      /\ emitted \in [Requests -> Seq(BOOLEAN)] /\ emitted[s] \in Seq(BOOLEAN)
      /\ handler \in [Requests -> {"none", "running", "completed", "failed", "swallowed"}]
  BY OwnerPeer, RequestAssumption DEF TypeOK
<1>1. /\ handler[s] = "running" /\ signals' = signals /\ call' = call
      /\ \A r \in Requests : r # s => emitted'[r] = emitted[r] /\ handler'[r] = handler[r]
  BY <1>0 DEF Handle, Answer, EmitNext, EmitComplete, Fail, Swallow, Finish, Runs
<1>2. ASSUME NEW data \in BOOLEAN, Answer(s, data)
      PROVE  \E f \in Frame :
                   /\ Write(Responder(s), f) /\ f.by = "handler" /\ f.req = s
                   /\ \A i \in 1..Len(emitted'[s]) : emitted'[s][i] => Carries(f) /\ f.item = i
                   /\ Carries(f) => f.item \in 1..Len(emitted'[s])
                   /\ KeepsItems(s)
                   /\ handler'[s] \in {"completed", "failed"} /\ Last(f)
  <2> DEFINE f == PayloadFrame(s, id, "handler", 1, data, TRUE)
  <2>1. f \in Frame
    BY <1>0, FrameTypes
  <2>2. f.by = "handler" /\ f.req = s /\ f.item = 1 /\ f.data = data /\ f.type = "PAYLOAD" /\ f.complete
    BY DEF PayloadFrame
  <2>3. Write(p, f) /\ emitted'[s] = <<data>> /\ handler'[s] = "completed"
    BY <1>0, <1>2 DEF Answer
  <2> HIDE DEF f
  <2>4. \A i \in 1..Len(emitted'[s]) : i = 1 /\ emitted'[s][i] = data
    BY <2>3
  <2>5. 1 \in 1..Len(emitted'[s])
    BY <2>3
  <2>6. KeepsItems(s)
    BY <1>2 DEF KeepsItems, Answer, Runs
  <2> QED
    BY <2>1, <2>2, <2>3, <2>4, <2>5, <2>6 DEF Carries, Last
<1>3. ASSUME NEW data \in BOOLEAN, EmitNext(s, data)
      PROVE  \E f \in Frame :
                   /\ Write(Responder(s), f) /\ f.by = "handler" /\ f.req = s
                   /\ \A i \in 1..Len(emitted'[s]) :
                         \/ i \in 1..Len(emitted[s]) /\ emitted'[s][i] = emitted[s][i]
                         \/ emitted'[s][i] => Carries(f) /\ f.item = i
                   /\ Carries(f) => f.item \in 1..Len(emitted'[s])
                   /\ KeepsItems(s)
                   /\ handler'[s] = "running"
  <2> DEFINE n == Len(emitted[s])
             f == PayloadFrame(s, id, "handler", n + 1, data, FALSE)
  <2>1. n \in Nat /\ n + 1 \in 0..MaxItems
    BY <1>0, <1>3, RequestAssumption DEF EmitNext
  <2>2. f \in Frame
    BY <1>0, <2>1, FrameTypes
  <2>3. f.by = "handler" /\ f.req = s /\ f.item = n + 1 /\ f.data = data /\ f.type = "PAYLOAD"
    BY DEF PayloadFrame
  <2>4. Write(p, f) /\ emitted'[s] = Append(emitted[s], data) /\ handler'[s] = "running"
    BY <1>0, <1>1, <1>3 DEF EmitNext
  <2> HIDE DEF f
  <2>5. \A i \in 1..Len(emitted'[s]) :
            \/ i \in 1..n /\ emitted'[s][i] = emitted[s][i]
            \/ i = n + 1 /\ emitted'[s][i] = data
    BY <1>0, <2>1, <2>4
  <2>6. n + 1 \in 1..Len(emitted'[s])
    BY <1>0, <2>1, <2>4
  <2>7. \A i \in 1..n : i \in 1..Len(emitted'[s]) /\ emitted'[s][i] = emitted[s][i]
    BY <1>0, <2>1, <2>4
  <2> QED
    BY <2>2, <2>3, <2>4, <2>5, <2>6, <2>7 DEF Carries, KeepsItems
<1>4. ASSUME EmitComplete(s) \/ Fail(s)
      PROVE  \E f \in Frame :
                   /\ Write(Responder(s), f) /\ f.by = "handler" /\ f.req = s
                   /\ emitted' = emitted /\ ~Carries(f)
                   /\ handler'[s] \in {"completed", "failed"} /\ Last(f)
  <2> DEFINE f == PayloadFrame(s, id, "handler", 0, FALSE, TRUE)
             e == ErrorFrame(s, id, "handler")
  <2>1. f \in Frame /\ e \in Frame
    BY <1>0, FrameTypes
  <2>2. /\ f.by = "handler" /\ f.req = s /\ Last(f) /\ ~Carries(f)
        /\ e.by = "handler" /\ e.req = s /\ Last(e) /\ ~Carries(e)
    BY DEF PayloadFrame, ErrorFrame, Last, Carries
  <2>3. \/ Write(p, f) /\ handler'[s] = "completed"
        \/ Write(p, e) /\ handler'[s] = "failed"
    BY <1>0, <1>4 DEF EmitComplete, Fail
  <2>4. emitted' = emitted
    BY <1>4 DEF EmitComplete, Fail
  <2> HIDE DEF f, e
  <2> QED
    BY <2>1, <2>2, <2>3, <2>4
<1>5. ASSUME Swallow(s) \/ Finish(s)
      PROVE  /\ wire' = wire /\ link' = link /\ emitted' = emitted
             /\ \/ Kind[s] = "fnf" /\ handler'[s] \in {"completed", "failed"}
                \/ s \in Throwing /\ handler'[s] = "swallowed"
  BY <1>0, <1>5 DEF Swallow, Finish, Runs
<1>6. ~HasNoneYet(s)'
  BY <1>0 DEF HasNoneYet, Handle, Answer, EmitNext, EmitComplete, Fail, Swallow, Finish, Runs
<1>7. emitted' = emitted => KeepsItems(s)
  BY DEF KeepsItems
<1>8. \/ \E f \in Frame :
           /\ Write(Responder(s), f) /\ f.by = "handler" /\ f.req = s
           /\ \A i \in 1..Len(emitted'[s]) :
                 \/ i \in 1..Len(emitted[s]) /\ emitted'[s][i] = emitted[s][i]
                 \/ emitted'[s][i] => Carries(f) /\ f.item = i
           /\ Carries(f) => f.item \in 1..Len(emitted'[s])
           /\ KeepsItems(s)
           /\ \/ handler'[s] = "running"
              \/ handler'[s] \in {"completed", "failed"} /\ Last(f)
      \/ /\ wire' = wire /\ link' = link /\ emitted' = emitted
         /\ \/ Kind[s] = "fnf" /\ handler'[s] \in {"completed", "failed"}
            \/ s \in Throwing /\ handler'[s] = "swallowed"
  <2>1. CASE \E data \in BOOLEAN : Answer(s, data)
    BY <1>2, <2>1
  <2>2. CASE \E data \in BOOLEAN : EmitNext(s, data)
    BY <1>3, <2>2
  <2>3. CASE EmitComplete(s) \/ Fail(s)
    BY <1>4, <1>7, <2>3
  <2>4. CASE Swallow(s) \/ Finish(s)
    BY <1>5, <2>4
  <2> QED
    BY <2>1, <2>2, <2>3, <2>4 DEF Handle
<1> QED
  BY <1>1, <1>6, <1>8

LEMMA HandleArrives ==
    ASSUME AInv, TypeOK', NEW s \in Requests, Handle(s), NEW r \in Requests
    PROVE  Arriving(r)'
<1>0. TypeOK /\ OInv /\ Arriving(r)
  BY DEF AInv, OInv, IInv
<1>1. /\ handler[s] = "running" /\ signals' = signals
      /\ \A t \in Requests : t # s => emitted'[t] = emitted[t] /\ handler'[t] = handler[t]
      /\ ~HasNoneYet(s)'
  BY <1>0, HandleWrites
<1>2. Kept(r) /\ (Completed(r)' => Completed(r))
  BY <1>1 DEF Kept, Got, Completed
<1>3. link'[Responder(r)] = "up" => link[Responder(r)] = "up"
  BY <1>0, LinksWorsen, OwnerPeer DEF Next
<1>4. ASSUME NEW f \in Frame,
             Write(Responder(s), f) /\ f.by = "handler" /\ f.req = s,
             \A i \in 1..Len(emitted'[s]) :
                 \/ i \in 1..Len(emitted[s]) /\ emitted'[s][i] = emitted[s][i]
                 \/ emitted'[s][i] => Carries(f) /\ f.item = i,
             Carries(f) => f.item \in 1..Len(emitted'[s]),
             KeepsItems(s)
      PROVE  Arriving(r)'
  <2>1. CASE r = s
    <3>1. Kind[r] # "response" \/ emitted[r] = <<>>
      BY <1>0, <1>1, <2>1 DEF Arriving, HasNoneYet
    <3>2. \A i \in 1..Len(emitted[r]) : i \in 1..Len(emitted'[r]) /\ emitted'[r][i] = emitted[r][i]
      BY <1>4, <2>1, <3>1 DEF KeepsItems
    <3>3. Answers(r, f) /\ Write(Responder(r), f) /\ handler[r] = "running" /\ handler'[r] # "none"
      BY <1>1, <1>4, <2>1 DEF Answers, HasNoneYet
    <3>4. \A i \in 1..Len(emitted'[r]) :
              i \in 1..Len(emitted[r]) \/ (emitted'[r][i] => Carries(f) /\ f.item = i)
      BY <1>4, <2>1
    <3>5. ~HasNoneYet(r)' /\ (Carries(f) => f.item \in 1..Len(emitted'[r]))
      BY <1>1, <1>4, <2>1
    <3>6. /\ ~Completed(r)
          /\ \A k \in 1..Len(wire[Owner[r]]) : Answers(r, wire[Owner[r]][k]) =>
                ~Last(wire[Owner[r]][k]) /\ SoFar(r, wire[Owner[r]][k]) \in 0..Len(emitted[r])
      BY <1>0, <3>3, NotYet
    <3> QED
      BY <1>0, <1>1, <3>2, <3>3, <3>4, <3>5, <3>6, HandlerArrives
  <2>2. CASE r # s
    <3>1. ~Answers(r, f)
      BY <1>4, <2>2 DEF Answers
    <3>2. Send(Responder(s), f) \/ wire' = wire
      BY <1>4 DEF Write
    <3>3. emitted'[r] = emitted[r] /\ handler'[r] = handler[r] /\ Responder(s) \in Peer
      BY <1>1, <2>2, OwnerPeer
    <3> QED
      BY <1>0, <1>2, <1>3, <3>1, <3>2, <3>3, SentStill
  <2> QED
    BY <2>1, <2>2
<1>5. ASSUME wire' = wire, link' = link, emitted' = emitted,
             handler'[s] \in {"completed", "failed", "swallowed"}
      PROVE  Arriving(r)'
  <2>1. handler'[r] = handler[r] \/ handler'[r] \in {"completed", "failed", "swallowed"}
    BY <1>1, <1>5
  <2>2. HasNoneYet(r)' => HasNoneYet(r)
    BY <1>1 DEF HasNoneYet
  <2>3. ASSUME NEW n, NEW k, NEW m, n = m, AllThere(r, n, k) PROVE AllThere(r, m, k)'
    BY <1>1, <1>5, <2>3 DEF AllThere, OnWay, Got, Carries
  <2>4. AllThere(r, Len(emitted[r]), 0) => AllThere(r, Len(emitted[r]), 0)'
    BY <1>5, <2>3 DEF AllThere
  <2>5. AllThere(r, Len(emitted[r]), Len(wire[Owner[r]])) =>
            AllThere(r, Len(emitted[r]), Len(wire[Owner[r]]))'
    BY <1>1, <1>5 DEF AllThere, OnWay, Got, Carries
  <2>6. \A k : AllThere(r, SoFar(r, wire[Owner[r]][k]), k) =>
                AllThere(r, SoFar(r, wire[Owner[r]][k]), k)'
    BY <1>1, <1>5 DEF AllThere, OnWay, Got, Carries, SoFar, Last
  <2> QED
    BY <1>0, <1>2, <1>5, <2>1, <2>2, <2>4, <2>5, <2>6 DEF Arriving, Answers
<1> QED
  <2>1. \/ \E f \in Frame :
             /\ Write(Responder(s), f) /\ f.by = "handler" /\ f.req = s
             /\ \A i \in 1..Len(emitted'[s]) :
                   \/ i \in 1..Len(emitted[s]) /\ emitted'[s][i] = emitted[s][i]
                   \/ emitted'[s][i] => Carries(f) /\ f.item = i
             /\ Carries(f) => f.item \in 1..Len(emitted'[s])
             /\ KeepsItems(s)
        \/ /\ wire' = wire /\ link' = link /\ emitted' = emitted
           /\ handler'[s] \in {"completed", "failed", "swallowed"}
    BY <1>0, HandleWrites
  <2> QED
    BY <1>4, <1>5, <2>1

\* Read in turn no answer is dropped.
LEMMA DropsNoAnswer ==
    ASSUME AckFirst, IInv, NEW p \in Peer, Drop(p)
    PROVE  Head(wire[p]).by # "handler"
<1> DEFINE f == Head(wire[p])
<1> SUFFICES ASSUME f.by = "handler" PROVE FALSE
  OBVIOUS
<1>1. Reads(p, {"PAYLOAD", "ERROR"}) /\ InTurn(f) /\ Receiver(p) = NoRequest /\ link[p] = "up"
  BY DEF Drop, Reads
<1>2. f \in Frame /\ f \in Range(wire[p]) /\ f.req \in Requests
  BY <1>1, ReadsType, ReadFrames DEF IInv, Frame
<1>3. /\ p = Owner[f.req] /\ f.sid = sid[f.req] /\ Kind[f.req] \in {"response", "stream"}
      /\ call[f.req] \in {"open", "refused"}
  BY <1>1, <1>2 DEF IInv, FramesOK, FrameOK, AnswerFrameOK, InTurn
<1>4. call[f.req] = "open"
  BY <1>1, <1>2, <1>3 DEF IInv, CallsOK, CallOK, Answerable
<1>5. senders[p][f.sid] = f.req
  BY <1>2, <1>3, <1>4 DEF IInv, SendersAreOpen
<1> QED
  BY <1>1, <1>2, <1>5, RequestAssumption DEF Receiver

\* What the receiver of a frame has been told afterwards.
LEMMA ReceiveTells ==
    ASSUME OInv, NEW r \in Requests, call[r] = "open", Kind[r] \in {"response", "stream"},
           NEW f, NEW news, NewsOK(r, f, news), signals'[r] = Notified(r, news),
           f.by = "handler", f.req = r
    PROVE  /\ Kept(r)
           /\ Carries(f) => Got(r, f.item)'
           /\ Completed(r)' => Completed(r) \/ f.complete
<1>1. PICK old : old = signals[r]
  OBVIOUS
<1>2. PICK now : now = Notified(r, news)
  OBVIOUS
<1>3. news \in Seq(Signal) /\ old \in Seq(Signal) /\ (Kind[r] = "response" => old = <<>>)
  <2>1. news \in Seq(Signal)
    BY DEF NewsOK
  <2>2. signals[r] \in Seq(Signal)
    BY DEF OInv, IInv, TypeOK
  <2>3. Told(r)
    BY DEF OInv
  <2> QED
    BY <1>1, <2>1, <2>2, <2>3 DEF Told, Progress
<1>4. /\ now \in Seq(Signal)
      /\ Len(now) = Len(old) + (IF Kind[r] = "response" /\ news # <<>> THEN 1 ELSE Len(news))
      /\ \A k \in 1..Len(old) : now[k] = old[k]
      /\ \A k \in 1..Len(now) : k > Len(old) => k - Len(old) \in 1..Len(news) /\ now[k] = news[k - Len(old)]
  <2>1. /\ old \in Seq(Signal) /\ signals[r] = old /\ news \in Seq(Signal)
        /\ Kind[r] = "response" => old = <<>>
    BY <1>1, <1>3
  <2> QED
    BY <1>2, <2>1, NowTold
<1>5. Len(old) \in Nat /\ Len(now) \in Nat /\ Len(news) \in Nat
  BY <1>3, <1>4
<1>6. \A k \in 1..Len(old) : k \in 1..Len(now)
  BY <1>4, <1>5
<1>7. Kept(r)
  <2> SUFFICES ASSUME NEW i, NEW j \in 1..Len(old), old[j].on = "Next", old[j].item = i
               PROVE  \E k \in 1..Len(now) : now[k].on = "Next" /\ now[k].item = i
    BY <1>1, <1>2 DEF Kept, Got
  <2>1. j \in 1..Len(now) /\ now[j] = old[j]
    BY <1>4, <1>6
  <2> QED
    BY <2>1
<1>8. Carries(f) => Got(r, f.item)'
  <2> SUFFICES ASSUME Carries(f) PROVE Got(r, f.item)'
    OBVIOUS
  <2>1. news # <<>> /\ news[1].on = "Next" /\ Len(news) >= 1
    BY <1>3 DEF NewsOK
  <2>2. news[1].item = f.item
    BY <1>5, <2>1 DEF NewsOK
  <2>3. PICK k \in 1..Len(now) : k = Len(old) + 1
    BY <1>4, <1>5, <2>1
  <2>4. now[k] = news[1]
    BY <1>4, <1>5, <2>3
  <2> QED
    BY <1>2, <2>1, <2>2, <2>3, <2>4 DEF Got
<1>9. Completed(r)' => Completed(r) \/ f.complete
  <2> SUFFICES ASSUME NEW k \in 1..Len(now), now[k].on = "Complete"
               PROVE  Completed(r) \/ f.complete
    BY <1>2 DEF Completed
  <2>1. CASE k \in 1..Len(old)
    BY <1>1, <1>4, <2>1 DEF Completed
  <2>2. CASE k > Len(old)
    <3>1. PICK i \in 1..Len(news) : now[k] = news[i]
      BY <1>4, <2>2
    <3> QED
      BY <3>1 DEF NewsOK
  <2> QED
    BY <1>5, <2>1, <2>2
<1> QED
  BY <1>7, <1>8, <1>9

LEMMA ReceiveArrives ==
    ASSUME AInv, NEW p \in Peer, Receive(p), NEW r \in Requests
    PROVE  Arriving(r)'
<1> SUFFICES ASSUME NEW f, f = Head(wire[p]) PROVE Arriving(r)'
  OBVIOUS
<1>0. AckFirst /\ OInv /\ IInv /\ TypeOK /\ Arriving(r)
  BY DEF AInv, OInv, IInv
<1>1. PICK types : Reads(p, types) /\ types \subseteq {"REQUEST", "PAYLOAD", "ERROR"}
  BY DEF Receive, HandleRequest, IgnoreRequest, ReceivePayload, ReceiveError, Drop
<1>2. f \in Frame /\ f \in Range(wire[p]) /\ f.req \in Requests
  BY <1>0, <1>1, ReadsType, ReadFrames DEF IInv, Frame
<1>3. link' = link /\ emitted' = emitted
  BY DEF Receive, HandleRequest, IgnoreRequest, ReceivePayload, ReceiveError, Drop, handlerVars
<1>4. CASE HandleRequest(p) \/ IgnoreRequest(p) \/ Drop(p)
  <2>1. f.by # "handler"
    <3>1. CASE Drop(p)
      BY <1>0, <3>1, DropsNoAnswer
    <3>2. CASE HandleRequest(p) \/ IgnoreRequest(p)
      <4>1. f.type = "REQUEST"
        BY <3>2 DEF HandleRequest, IgnoreRequest, Reads
      <4> QED
        BY <1>0, <1>2, <4>1 DEF IInv, FramesOK, FrameOK, RequestFrameOK
    <3> QED
      BY <1>4, <3>1, <3>2
  <2>2. signals' = signals
    BY <1>4 DEF HandleRequest, IgnoreRequest, Drop, callVars
  <2>3. Kept(r) /\ (Completed(r)' => Completed(r))
    BY <2>2 DEF Kept, Got, Completed
  <2>4. handler'[r] = handler[r] \/ (handler[r] = "none" /\ handler'[r] = "running")
    <3>1. CASE HandleRequest(p)
      <4>1. f.type = "REQUEST" /\ handler' = [handler EXCEPT ![f.req] = "running"]
        BY <3>1 DEF HandleRequest, Reads
      <4>2. handler[f.req] = "none"
        BY <1>0, <1>2, <4>1 DEF IInv, FramesOK, FrameOK, RequestFrameOK
      <4> QED
        BY <1>0, <1>2, <4>1, <4>2 DEF TypeOK
    <3>2. CASE IgnoreRequest(p) \/ Drop(p)
      BY <3>2 DEF IgnoreRequest, Drop, handlerVars
    <3> QED
      BY <1>4, <3>1, <3>2
  <2>5. ~Carries(f)
    BY <2>1 DEF Carries
  <2> QED
    BY <1>0, <1>1, <1>3, <2>3, <2>4, <2>5, ReadArrives
<1>5. CASE ReceivePayload(p) \/ ReceiveError(p)
  <2>1. /\ f.by = "handler" /\ Owner[f.req] = p
        /\ call[f.req] = "open" /\ Kind[f.req] \in {"response", "stream"}
    BY <1>0, <1>5, ReceiveNews
  <2>2. PICK news : NewsOK(f.req, f, news) /\ signals' = [signals EXCEPT ![f.req] = Notified(f.req, news)]
    BY <1>0, <1>5, ReceiveNews
  <2>3. handler' = handler
    BY <1>5 DEF ReceivePayload, ReceiveError, handlerVars
  <2>4. signals \in [Requests -> Seq(Signal)]
    BY <1>0 DEF TypeOK
  <2>5. CASE r = f.req
    <3>1. signals'[r] = Notified(r, news)
      BY <2>2, <2>4, <2>5
    <3>2. /\ Kept(r)
          /\ Carries(f) => Got(r, f.item)'
          /\ Completed(r)' => Completed(r) \/ f.complete
      <4>1. /\ call[r] = "open" /\ Kind[r] \in {"response", "stream"} /\ NewsOK(r, f, news)
            /\ f.by = "handler" /\ f.req = r
        BY <2>1, <2>2, <2>5
      <4> QED
        BY <1>0, <3>1, <4>1, ReceiveTells
    <3> QED
      <4>1. Completed(r)' => Completed(r) \/ (Owner[r] = p /\ Answers(r, f) /\ f.complete)
        BY <2>1, <2>5, <3>2 DEF Answers
      <4>2. emitted'[r] = emitted[r] /\ handler'[r] = handler[r]
        BY <1>3, <2>3
      <4> QED
        BY <1>0, <1>1, <1>3, <3>2, <4>1, <4>2, ReadArrives
  <2>6. CASE r # f.req
    <3>1. signals'[r] = signals[r]
      BY <2>2, <2>4, <2>6
    <3>2. Kept(r) /\ (Completed(r)' => Completed(r))
      BY <3>1 DEF Kept, Got, Completed
    <3> QED
      <4>1. emitted'[r] = emitted[r] /\ handler'[r] = handler[r] /\ f.req # r
        BY <1>3, <2>3, <2>6
      <4> QED
        BY <1>0, <1>1, <1>3, <3>2, <4>1, ReadArrives
  <2> QED
    BY <2>5, <2>6
<1> QED
  BY <1>4, <1>5 DEF Receive

LEMMA DisconnectArrives ==
    ASSUME AInv, TypeOK', NEW p \in Peer, Disconnect(p), NEW r \in Requests
    PROVE  Arriving(r)'
<1> DEFINE o == Other(p)
<1>0. TypeOK /\ Arriving(r)
  BY DEF AInv, OInv, IInv
<1>1. PICK n \in 0..Len(wire[o]) : wire' = [wire EXCEPT ![o] = SubSeq(@, 1, n)]
  BY DEF Disconnect
<1>2. /\ signals' = signals /\ emitted' = emitted /\ handler' = handler
      /\ link[p] = "up" /\ link' = [link EXCEPT ![p] = "down"]
  BY DEF Disconnect, callVars, handlerVars
<1>3. /\ o \in Peer /\ Owner[r] \in Peer /\ Responder(r) = Other(Owner[r])
      /\ wire \in [Peer -> Seq(Frame)] /\ link \in [Peer -> {"up", "down", "dead"}]
  BY <1>0, OwnerPeer, OtherPeer DEF TypeOK, Responder
<1>4. PICK w : w = wire[Owner[r]]
  OBVIOUS
<1>5. PICK v : v = wire'[Owner[r]]
  OBVIOUS
<1>6. w \in Seq(Frame) /\ Len(w) \in Nat
  <2>1. w \in Seq(Frame)
    BY <1>3, <1>4
  <2> QED
    BY <2>1
<1>7. CASE Owner[r] = o
  <2>1. v = SubSeq(w, 1, n) /\ n \in 0..Len(w)
    BY <1>1, <1>3, <1>4, <1>5, <1>7
  <2>2. Len(v) = n /\ \A k \in 1..n : v[k] = w[k]
    BY <1>6, <2>1
  <2>3. Responder(r) = p /\ link'[p] = "down"
    BY <1>2, <1>3, <1>7, OtherPeer DEF Other, Peer
  <2>4. /\ link'[Responder(r)] # "up"
        /\ \A k \in 1..Len(w) : k <= Len(v) => v[k] = w[k]
        /\ \A k \in 1..Len(v) : ~(k > Len(w))
    BY <1>6, <2>1, <2>2, <2>3
  <2> QED
    BY <1>0, <1>2, <1>4, <1>5, <2>4, ArrivesStill DEF Kept, Got, Completed
<1>8. CASE Owner[r] # o
  <2>1. v = w
    BY <1>1, <1>3, <1>4, <1>5, <1>8
  <2>2. link'[Responder(r)] = "up" => link[Responder(r)] = "up"
    BY <1>2, <1>3, OtherPeer
  <2>3. /\ Len(w) <= Len(v)
        /\ \A k \in 1..Len(w) : k <= Len(v) => v[k] = w[k]
        /\ \A k \in 1..Len(v) : ~(k > Len(w))
    BY <1>6, <2>1
  <2> QED
    BY <1>0, <1>2, <1>4, <1>5, <2>2, <2>3, ArrivesStill DEF Kept, Got, Completed
<1> QED
  BY <1>7, <1>8

LEMMA NextAInv == AInv /\ [Next]_vars => AInv'
<1> SUFFICES ASSUME AInv, [Next]_vars PROVE AInv'
  OBVIOUS
<1>1. OInv' /\ AckFirst
  BY NextOInv DEF AInv
<1>2. TypeOK'
  BY <1>1 DEF OInv, IInv
<1>3. ASSUME NEW r \in Requests PROVE Arriving(r)'
  <2>1. ASSUME NEW s \in Requests, Call(s) PROVE Arriving(r)'
    BY <1>2, <2>1, CallArrives
  <2>2. ASSUME NEW s \in Requests, Handle(s) PROVE Arriving(r)'
    BY <1>2, <2>2, HandleArrives
  <2>3. ASSUME NEW p \in Peer, Receive(p) \/ Disconnect(p) PROVE Arriving(r)'
    BY <1>2, <2>3, ReceiveArrives, DisconnectArrives
  <2>4. CASE UNCHANGED vars
    <3>1. Arriving(r)
      BY DEF AInv
    <3>2. /\ signals' = signals /\ emitted' = emitted /\ handler' = handler
          /\ wire' = wire /\ link' = link
      BY <2>4 DEF vars, callVars, handlerVars
    <3> QED
      BY <3>1, <3>2 DEF Arriving, Completed, HasNoneYet, AllThere, OnWay, Got, SoFar, Carries,
         Last, Answers
  <2> QED
    BY <2>1, <2>2, <2>3, <2>4 DEF Next
<1> QED
  BY <1>1, <1>3 DEF AInv

\* Where answers are read in turn, a requester that is told of a completion has
\* had every payload with data that its handler produced: for any number of
\* payloads, any interleaving, and any break of the connection.
THEOREM NothingIsMissing == AckFirst /\ Spec => []NothingMissing
<1>1. AInv => NothingMissing
  <2> SUFFICES ASSUME AInv, NEW r \in Requests, Completed(r)
               PROVE  Received(r) = Indices(r)
    BY DEF NothingMissing, Completed
  <2>1. OrderAt(r) /\ AllThere(r, Len(emitted[r]), 0)
    BY DEF AInv, OInv, Told, Arriving
  <2>2. Received(r) \subseteq Indices(r)
    BY <2>1 DEF OrderAt, Received, Indices
  <2>3. \A i \in Indices(r) : Got(r, i)
    BY <2>1 DEF AllThere, OnWay, Indices
  <2>4. Indices(r) \subseteq Received(r)
    BY <2>3 DEF Got, Received
  <2> QED
    BY <2>2, <2>4
<1> QED
  BY <1>1, InitAInv, NextAInv, PTL DEF Spec

-----------------------------------------------------------------------------
(* The end of a request.  Here no requestStream handler throws either: such *)
(* a handler's error is swallowed.                                          *)

\* The frame by which r's handler ends.
EndOnWay(r) ==
    \E f \in Range(wire[Owner[r]]) : f.by = "handler" /\ f.req = r /\ Last(f)
Ending(r) ==
    /\ handler[r] # "swallowed"
    /\ handler[r] \in {"completed", "failed"} /\ Answerable(r) /\ ~Broken =>
          call[r] = "over" \/ EndOnWay(r)
EInv == AckFirst /\ Throwing = {} /\ OInv /\ \A r \in Requests : Ending(r)

LEMMA InitEInv == AckFirst /\ Throwing = {} /\ Init => EInv
BY InitOInv DEF Init, EInv, Ending

LEMMA MoreFrames ==
    ASSUME TypeOK, NEW p \in Peer, NEW q \in Peer, NEW f \in Frame, Send(p, f) \/ wire' = wire
    PROVE  /\ Range(wire[q]) \subseteq Range(wire'[q])
           /\ Send(p, f) /\ q = Other(p) => f \in Range(wire'[q])
<1>1. q = p \/ q = Other(p)
  BY DEF Other, Peer
<1> QED
  BY <1>1, SendFrames

\* Nothing mends the connection.
LEMMA BreaksForGood ==
    ASSUME TypeOK, [Next]_vars, ~Broken'
    PROVE  ~Broken
BY LinksWorsen DEF Broken

LEMMA CallEnds ==
    ASSUME EInv, NEW s \in Requests, Call(s), NEW r \in Requests
    PROVE  Ending(r)'
<1>0. TypeOK /\ Ending(r)
  BY DEF EInv, OInv, IInv
<1>1. PICK p \in Peer, f \in Frame : f.by # "handler" /\ (Send(p, f) \/ wire' = wire)
  BY <1>0, CallWrites
<1>2. handler' = handler
  BY DEF Call, Request, MetadataPush, Written, Sent, WriteFails, UploadNext, UploadEnd, handlerVars
<1>3. call[r] = "over" => call'[r] = "over"
  BY <1>0 DEF TypeOK, Call, Request, MetadataPush, Written, Sent, WriteFails, UploadNext, UploadEnd, callVars
<1>4. Range(wire[Owner[r]]) \subseteq Range(wire'[Owner[r]])
  BY <1>0, <1>1, OwnerPeer, MoreFrames
<1>5. EndOnWay(r) => EndOnWay(r)'
  BY <1>4 DEF EndOnWay, Last
<1>6. ~Broken' => ~Broken
  BY <1>0, BreaksForGood DEF Next
<1> QED
  BY <1>0, <1>2, <1>3, <1>5, <1>6 DEF Ending, Answerable

LEMMA HandleEnds ==
    ASSUME EInv, NEW s \in Requests, Handle(s), NEW r \in Requests
    PROVE  Ending(r)'
<1>0. TypeOK /\ Ending(r) /\ Throwing = {}
  BY DEF EInv, OInv, IInv
<1>1. /\ handler[s] = "running" /\ call' = call
      /\ \A t \in Requests : t # s => handler'[t] = handler[t]
  BY <1>0, HandleWrites
<1>2. ~Broken' => ~Broken
  BY <1>0, BreaksForGood DEF Next
<1>3. \/ \E f \in Frame :
           /\ Write(Responder(s), f) /\ f.by = "handler" /\ f.req = s
           /\ \/ handler'[s] = "running"
              \/ handler'[s] \in {"completed", "failed"} /\ Last(f)
      \/ /\ wire' = wire
         /\ handler'[s] \in {"completed", "failed"} /\ Kind[s] = "fnf"
  BY <1>0, HandleWrites
<1>4. ASSUME NEW f \in Frame,
             Write(Responder(s), f) /\ f.by = "handler" /\ f.req = s,
             handler'[s] = "running" \/ (handler'[s] \in {"completed", "failed"} /\ Last(f))
      PROVE  Ending(r)'
  <2>1. CASE Send(Responder(s), f)
    <3>1. Range(wire[Owner[r]]) \subseteq Range(wire'[Owner[r]])
      BY <1>0, <2>1, OwnerPeer, MoreFrames
    <3>2. EndOnWay(r) => EndOnWay(r)'
      BY <3>1 DEF EndOnWay, Last
    <3>3. CASE r = s
      <4>1. f \in Range(wire'[Owner[s]])
        <5>1. /\ Responder(s) \in Peer /\ Owner[s] \in Peer
              /\ Owner[s] = Other(Responder(s))
          BY OwnerPeer, OtherPeer DEF Responder, Other, Peer
        <5> QED
          BY <1>0, <2>1, <5>1, MoreFrames
      <4>2. Last(f) => EndOnWay(r)'
        BY <1>4, <3>3, <4>1 DEF EndOnWay, Last
      <4> QED
        BY <1>4, <3>3, <4>2 DEF Ending
    <3>4. CASE r # s
      BY <1>0, <1>1, <1>2, <3>2, <3>4 DEF Ending, Answerable
    <3> QED
      BY <3>3, <3>4
  <2>2. CASE Broken /\ wire' = wire
    BY <1>0, <1>1, <1>2, <1>4, <2>2 DEF Ending
  <2> QED
    BY <1>4, <2>1, <2>2 DEF Write
<1>5. ASSUME wire' = wire, handler'[s] \in {"completed", "failed"}, Kind[s] = "fnf"
      PROVE  Ending(r)'
  <2>1. EndOnWay(r) => EndOnWay(r)'
    BY <1>5 DEF EndOnWay, Last
  <2>2. CASE r = s
    BY <1>5, <2>2 DEF Ending, Answerable
  <2>3. CASE r # s
    BY <1>0, <1>1, <1>2, <2>1, <2>3 DEF Ending, Answerable
  <2> QED
    BY <2>2, <2>3
<1> QED
  BY <1>0, <1>3, <1>4, <1>5

LEMMA ReceiveEnds ==
    ASSUME EInv, NEW p \in Peer, Receive(p), NEW r \in Requests
    PROVE  Ending(r)'
<1> SUFFICES ASSUME NEW f, f = Head(wire[p]) PROVE Ending(r)'
  OBVIOUS
<1>0. AckFirst /\ OInv /\ IInv /\ TypeOK /\ Ending(r)
  BY DEF EInv, OInv, IInv
<1>1. PICK types : Reads(p, types) /\ types \subseteq {"REQUEST", "PAYLOAD", "ERROR"}
  BY DEF Receive, HandleRequest, IgnoreRequest, ReceivePayload, ReceiveError, Drop
<1>2. f \in Frame /\ f \in Range(wire[p]) /\ f.req \in Requests
  BY <1>0, <1>1, ReadsType, ReadFrames DEF IInv, Frame
<1>3. link' = link
  BY DEF Receive, HandleRequest, IgnoreRequest, ReceivePayload, ReceiveError, Drop
<1>4. \A q \in Peer : \A g \in Range(wire[q]) : g \in Range(wire'[q]) \/ (q = p /\ g = f)
  <2>1. /\ f = wire[p][1] /\ Len(wire'[p]) = Len(wire[p]) - 1
        /\ \A k \in 1..Len(wire'[p]) : k + 1 \in 1..Len(wire[p]) /\ wire'[p][k] = wire[p][k + 1]
        /\ \A q \in Peer : q # p => wire'[q] = wire[q]
    BY <1>0, <1>1, ReadWire
  <2>2. wire[p] \in Seq(Frame) /\ wire'[p] \in Seq(Frame)
    BY <1>0, <1>1, ReadsType DEF TypeOK
  <2>3. Len(wire[p]) \in Nat /\ DOMAIN wire[p] = 1..Len(wire[p]) /\ DOMAIN wire'[p] = 1..Len(wire'[p])
    BY <2>2
  <2>4. ASSUME NEW k \in 1..Len(wire[p]), k # 1 PROVE wire[p][k] \in Range(wire'[p])
    <3>1. k - 1 \in 1..Len(wire'[p])
      BY <2>1, <2>3, <2>4
    <3>2. wire'[p][k - 1] = wire[p][k]
      BY <2>1, <2>3, <3>1
    <3> QED
      BY <2>3, <3>1, <3>2 DEF Range
  <2>5. \A g \in Range(wire[p]) : g \in Range(wire'[p]) \/ g = f
    BY <2>1, <2>3, <2>4 DEF Range
  <2> QED
    BY <2>1, <2>5
<1>5. EndOnWay(r) => EndOnWay(r)' \/ (Owner[r] = p /\ f.by = "handler" /\ f.req = r /\ Last(f))
  BY <1>4, OwnerPeer DEF EndOnWay, Last
<1>6. CASE HandleRequest(p) \/ IgnoreRequest(p) \/ Drop(p)
  <2>1. f.by # "handler"
    <3>1. CASE Drop(p)
      BY <1>0, <3>1, DropsNoAnswer
    <3>2. CASE HandleRequest(p) \/ IgnoreRequest(p)
      <4>1. f.type = "REQUEST"
        BY <3>2 DEF HandleRequest, IgnoreRequest, Reads
      <4> QED
        BY <1>0, <1>2, <4>1 DEF IInv, FramesOK, FrameOK, RequestFrameOK
    <3> QED
      BY <1>6, <3>1, <3>2
  <2>2. call' = call
    BY <1>6 DEF HandleRequest, IgnoreRequest, Drop, callVars
  <2>3. handler'[r] = handler[r] \/ handler'[r] = "running"
    BY <1>0, <1>6 DEF HandleRequest, IgnoreRequest, Drop, handlerVars, TypeOK
  <2> QED
    BY <1>0, <1>3, <1>5, <2>1, <2>2, <2>3 DEF Ending, Broken, Answerable
<1>7. CASE ReceivePayload(p) \/ ReceiveError(p)
  <2>1. handler' = handler
    BY <1>7 DEF ReceivePayload, ReceiveError, handlerVars
  <2>2. /\ f.by = "handler" /\ call[f.req] = "open"
        /\ \A s \in Requests : s # f.req => call'[s] = call[s]
    BY <1>0, <1>7, ReceiveNews
  <2>3. Last(f) => call'[f.req] = "over"
    <3>1. Receiver(p) = f.req
      <4>1. Reads(p, {"PAYLOAD", "ERROR"}) /\ Receiver(p) # NoRequest
        BY <1>7 DEF ReceivePayload, ReceiveError, Reads
      <4> QED
        BY <1>0, <4>1, OwnFrame
    <3>2. CASE ReceivePayload(p)
      BY <1>0, <1>2, <3>1, <3>2 DEF ReceivePayload, Reads, Last, TypeOK
    <3>3. CASE ReceiveError(p)
      BY <1>0, <1>2, <3>1, <3>3 DEF ReceiveError, TypeOK
    <3> QED
      BY <1>7, <3>2, <3>3
  <2>4. call[r] = "over" => call'[r] = "over"
    BY <2>2
  <2> QED
    BY <1>0, <1>3, <1>5, <2>1, <2>3, <2>4 DEF Ending, Broken, Answerable
<1> QED
  BY <1>6, <1>7 DEF Receive

LEMMA NextEInv == EInv /\ [Next]_vars => EInv'
<1> SUFFICES ASSUME EInv, [Next]_vars PROVE EInv'
  OBVIOUS
<1>1. OInv' /\ AckFirst /\ Throwing = {}
  BY NextOInv DEF EInv
<1>2. ASSUME NEW r \in Requests PROVE Ending(r)'
  <2>1. ASSUME NEW s \in Requests, Call(s) PROVE Ending(r)'
    BY <2>1, CallEnds
  <2>2. ASSUME NEW s \in Requests, Handle(s) PROVE Ending(r)'
    BY <2>2, HandleEnds
  <2>3. ASSUME NEW p \in Peer, Receive(p) PROVE Ending(r)'
    BY <2>3, ReceiveEnds
  <2>4. ASSUME NEW p \in Peer, Disconnect(p) PROVE Ending(r)'
    <3>1. link \in [Peer -> {"up", "down", "dead"}] /\ Ending(r)
      BY DEF EInv, OInv, IInv, TypeOK
    <3>2. Broken' /\ handler' = handler
      BY <2>4, <3>1 DEF Disconnect, Broken, handlerVars
    <3> QED
      BY <3>1, <3>2 DEF Ending
  <2>5. CASE UNCHANGED vars
    BY <2>5 DEF EInv, Ending, EndOnWay, Last, Broken, Answerable, vars, callVars, handlerVars
  <2> QED
    BY <2>1, <2>2, <2>3, <2>4, <2>5 DEF Next
<1> QED
  BY <1>1, <1>2 DEF EInv

\* Where answers are read in turn and no requestStream throws, no caller is left
\* waiting for a handler that has ended while the connection is up and nothing
\* of the answer is on its way.
THEOREM NoneWaitsInVain == AckFirst /\ Throwing = {} /\ Spec => []NoAnswerLost
<1>1. EInv => NoAnswerLost
  <2> SUFFICES ASSUME EInv, NEW r \in Requests, AnswerLost(r) PROVE FALSE
    BY DEF NoAnswerLost
  <2>1. EndOnWay(r)
    BY DEF EInv, Ending, AnswerLost, Ended
  <2>2. wire[Owner[r]] \in Seq(Frame)
    BY OwnerPeer DEF EInv, OInv, IInv, TypeOK
  <2>3. \A f \in Range(wire[Owner[r]]) : f.req # r
    BY <2>2 DEF AnswerLost, Range
  <2> QED
    BY <2>1, <2>3 DEF EndOnWay
<1> QED
  BY <1>1, InitEInv, NextEInv, PTL DEF Spec
-----------------------------------------------------------------------------
(***************************************************************************)
(* The promise of one interaction.  The mapping of RSocketRequester takes  *)
(* the items that carry data, and those that were told, as sequences in    *)
(* the order of their indices.  This part proves first what such sequences *)
(* are, then what one step of the protocol does to them, and that it is    *)
(* one step of Interaction's or none.                                      *)
(***************************************************************************)

-----------------------------------------------------------------------------
(* Numbers in their order                                                  *)

LEMMA Smallest ==
    ASSUME NEW S, S \subseteq Nat, S # {}
    PROVE  \E n \in S : \A m \in S : n <= m
<1> DEFINE Less == OpToRel(<, Nat)
<1>1. IsWellFoundedOn(Less, Nat)
  BY NatLessThanWellFounded, Zenon
<1>2. \A x, y \in Nat : x < y => <<x, y>> \in Less
  BY DEF OpToRel
<1> HIDE DEF Less
<1>3. PICK n \in S : \A m \in S : <<m, n>> \notin Less
  BY <1>1, WFMin
<1>4. \A m \in S : ~(m < n)
  BY <1>2, <1>3
<1>5. \A m \in S : n <= m
  BY <1>4
<1> QED
  BY <1>5

Rises(s, m) == \A j, k \in 1..m : j < k => s[j] < s[k]
InOrderOf(s, m, S) == s \in [1..m -> S] /\ Range(s) = S /\ Rises(s, m)

\* Every set of numbers up to n has its members in their order.  (The least n
\* for which one had not would not be 0, and without its n it has.)
LEMMA AscendingExists ==
    ASSUME NEW n \in Nat, NEW S, S \subseteq 1..n
    PROVE  \E s : InOrderOf(s, Cardinality(S), S)
<1> DEFINE Bad == {i \in Nat : \E T \in SUBSET (1..i) : ~\E s : InOrderOf(s, Cardinality(T), T)}
<1> SUFFICES Bad = {}
  OBVIOUS
<1> SUFFICES ASSUME Bad # {} PROVE FALSE
  OBVIOUS
<1>1. PICK i \in Bad : \A j \in Bad : i <= j
  BY Smallest
<1>2. PICK T \in SUBSET (1..i) : ~\E s : InOrderOf(s, Cardinality(T), T)
  BY <1>1
<1>3. i \in Nat
  BY <1>1
<1>4. i # 0
  <2> SUFFICES ASSUME i = 0 PROVE FALSE
    OBVIOUS
  <2>0. T = {}
    OBVIOUS
  <2>1. T = {} /\ Cardinality(T) = 0
    BY <2>0, FS_EmptySet
  <2>2. <<>> \in [1..0 -> {}] /\ Range(<<>>) = {} /\ DOMAIN <<>> = {}
    BY DEF Range
  <2>3. InOrderOf(<<>>, Cardinality(T), T)
    BY <2>1, <2>2 DEF InOrderOf, Rises
  <2> QED
    BY <1>2, <2>3
<1>5. i - 1 \in Nat /\ i - 1 \notin Bad
  BY <1>1, <1>3, <1>4
<1> DEFINE R == T \ {i}
<1>6. R \in SUBSET (1..(i - 1))
  BY <1>3, <1>4
<1>7. PICK s : InOrderOf(s, Cardinality(R), R)
  BY <1>5, <1>6
<1>8. i \in T
  BY <1>2, <1>7
<1>9. IsFiniteSet(R)
  <2>1. IsFiniteSet(1..(i - 1))
    BY <1>5, FS_Interval
  <2> QED
    BY <1>6, <2>1, FS_Subset
<1> HIDE DEF R, Bad
<1>10. PICK m \in Nat : m = Cardinality(R) /\ Cardinality(T) = m + 1
  <2>1. R \cup {i} = T /\ i \notin R
    BY <1>8 DEF R
  <2>2. Cardinality(R) \in Nat /\ Cardinality(T) = Cardinality(R) + 1
    BY <1>9, <2>1, FS_AddElement, FS_CardinalityType
  <2> QED
    BY <2>2
<1> DEFINE t == [j \in 1..(m + 1) |-> IF j = m + 1 THEN i ELSE s[j]]
<1>11. s \in [1..m -> R] /\ Range(s) = R /\ Rises(s, m)
  BY <1>7, <1>10 DEF InOrderOf
<1>12. \A x \in R : x \in T /\ x < i
  BY <1>6, <1>3, <1>8 DEF R
<1>13. \A j \in 1..(m + 1) : j \in 1..m \/ j = m + 1
  OBVIOUS
<1>14. t \in [1..(m + 1) -> T]
  BY <1>8, <1>11, <1>12, <1>13
<1>15. Range(t) = T
  <2>1. ASSUME NEW x \in T PROVE \E j \in 1..(m + 1) : t[j] = x
    <3>1. CASE x = i
      <4>1. m + 1 \in 1..(m + 1) /\ t[m + 1] = i
        OBVIOUS
      <4> QED BY <3>1, <4>1
    <3>2. CASE x # i
      <4>1. PICK j \in 1..m : s[j] = x
        BY <1>11, <3>2 DEF R, Range
      <4>2. j \in 1..(m + 1) /\ t[j] = s[j]
        OBVIOUS
      <4> QED BY <4>1, <4>2
    <3> QED BY <3>1, <3>2
  <2> QED
    BY <1>14, <2>1 DEF Range
<1>16. Rises(t, m + 1)
  <2> SUFFICES ASSUME NEW j \in 1..(m + 1), NEW k \in 1..(m + 1), j < k PROVE t[j] < t[k]
    BY DEF Rises
  <2>1. j \in 1..m /\ t[j] = s[j] /\ s[j] \in R
    BY <1>11
  <2>2. CASE k = m + 1
    BY <1>12, <2>1, <2>2
  <2>3. CASE k \in 1..m
    BY <1>11, <2>1, <2>3 DEF Rises
  <2> QED
    BY <1>13, <2>2, <2>3
<1>17. InOrderOf(t, Cardinality(T), T)
  BY <1>10, <1>14, <1>15, <1>16 DEF InOrderOf
<1> QED
  BY <1>2, <1>17

LEMMA AscendingIs ==
    ASSUME NEW n \in Nat, NEW S, S \subseteq 1..n
    PROVE  /\ Cardinality(S) \in 0..n
           /\ InOrderOf(Ascending(S), Cardinality(S), S)
           /\ Ascending(S) \in Seq(S) /\ Len(Ascending(S)) = Cardinality(S)
<1>1. Cardinality(S) \in 0..n
  <2>1. IsFiniteSet(1..n) /\ Cardinality(1..n) = n
    BY FS_Interval
  <2>2. IsFiniteSet(S) /\ Cardinality(S) <= n
    BY <2>1, FS_Subset
  <2> QED
    BY <2>2, FS_CardinalityType
<1>2. PICK s : InOrderOf(s, Cardinality(S), S)
  BY AscendingExists
<1>3. InOrderOf(Ascending(S), Cardinality(S), S)
  BY <1>2 DEF InOrderOf, Rises, Ascending
<1>4. Ascending(S) \in [1..Cardinality(S) -> S] /\ Cardinality(S) \in Nat
  BY <1>1, <1>3 DEF InOrderOf
<1>5. Ascending(S) \in Seq(S) /\ Len(Ascending(S)) = Cardinality(S)
  BY <1>4
<1> QED
  BY <1>1, <1>3, <1>5

\* Two rising sequences: all numbers of the first are in the second, and none
\* of the second's that is less is missing.
Leads(a, m, b, n) ==
    /\ m \in Nat /\ n \in Nat
    /\ \A i \in 1..m : a[i] \in Nat
    /\ \A i \in 1..n : b[i] \in Nat
    /\ Rises(a, m) /\ Rises(b, n)
    /\ \A i \in 1..m : \E j \in 1..n : b[j] = a[i]
    /\ \A i \in 1..m : \A j \in 1..n : b[j] <= a[i] => \E k \in 1..m : a[k] = b[j]

\* The first begins the second.
LEMMA RisingPrefix ==
    ASSUME NEW m, NEW n, NEW a, NEW b, Leads(a, m, b, n)
    PROVE  m <= n /\ \A i \in 1..m : a[i] = b[i]
<1> USE DEF Leads
<1> DEFINE Bad == {i \in 1..m : i > n \/ a[i] # b[i]}
<1>1. Bad = {}
  <2> SUFFICES ASSUME Bad # {} PROVE FALSE
    OBVIOUS
  <2>0. Bad \subseteq Nat
    OBVIOUS
  <2>1. PICK i \in Bad : \A j \in Bad : i <= j
    BY <2>0, Smallest
  <2>2. \A k \in 1..m : k < i => k <= n /\ a[k] = b[k]
    BY <2>1
  <2>3. i \in 1..m /\ (i > n \/ a[i] # b[i])
    BY <2>1
  <2> HIDE DEF Bad
  <2>4. PICK j \in 1..n : b[j] = a[i]
    BY <2>3
  <2>5. ~(j < i)
    <3> SUFFICES ASSUME j < i PROVE FALSE
      OBVIOUS
    <3>1. j \in 1..m
      BY <2>3
    <3>2. a[j] = b[j] /\ a[j] < a[i]
      BY <2>2, <2>3, <3>1 DEF Rises
    <3> QED
      BY <2>3, <2>4, <3>2
  <2>6. i \in 1..n /\ i # j
    BY <2>3, <2>4, <2>5
  <2>7. b[i] < a[i]
    BY <2>4, <2>5, <2>6 DEF Rises
  <2>8. PICK k \in 1..m : a[k] = b[i]
    BY <2>3, <2>6, <2>7
  <2>9. k < i
    <3> SUFFICES ASSUME ~(k < i) PROVE FALSE
      OBVIOUS
    <3>1. k = i \/ i < k
      BY <2>3
    <3>2. a[k] >= a[i]
      BY <2>3, <3>1 DEF Rises
    <3> QED
      BY <2>3, <2>7, <2>8, <3>2
  <2>10. a[k] = b[k] /\ b[k] < b[i]
    BY <2>2, <2>6, <2>9 DEF Rises
  <2> QED
    BY <2>6, <2>8, <2>10
<1>2. \A i \in 1..m : i <= n /\ a[i] = b[i]
  BY <1>1
<1>3. m <= n
  <2>1. m = 0 \/ m \in 1..m
    OBVIOUS
  <2> QED
    BY <1>2, <2>1
<1> QED
  BY <1>2, <1>3

\* There is but one.
LEMMA OneOrder ==
    ASSUME NEW S, S \subseteq Nat, NEW m \in Nat, NEW n \in Nat,
           NEW a, NEW b, InOrderOf(a, m, S), InOrderOf(b, n, S)
    PROVE  m = n /\ a = b
<1>1. /\ \A i \in 1..m : a[i] \in S
      /\ \A i \in 1..n : b[i] \in S
      /\ \A x \in S : (\E i \in 1..m : a[i] = x) /\ (\E i \in 1..n : b[i] = x)
      /\ Rises(a, m) /\ Rises(b, n)
      /\ a \in [1..m -> S] /\ b \in [1..n -> S]
  BY DEF InOrderOf, Range
<1>2. m <= n /\ \A i \in 1..m : a[i] = b[i]
  <2>1. \A i \in 1..m : \A j \in 1..n : b[j] <= a[i] => \E k \in 1..m : a[k] = b[j]
    BY <1>1
  <2>2. \A i \in 1..m : \E j \in 1..n : b[j] = a[i]
    BY <1>1
  <2>3. (\A i \in 1..m : a[i] \in Nat) /\ \A i \in 1..n : b[i] \in Nat
    BY <1>1
  <2>4. Leads(a, m, b, n)
    BY <1>1, <2>1, <2>2, <2>3 DEF Leads
  <2> QED
    BY <2>4, RisingPrefix
<1>3. n <= m
  <2>1. \A i \in 1..n : \A j \in 1..m : a[j] <= b[i] => \E k \in 1..n : b[k] = a[j]
    BY <1>1
  <2>2. \A i \in 1..n : \E j \in 1..m : a[j] = b[i]
    BY <1>1
  <2>3. (\A i \in 1..m : a[i] \in Nat) /\ \A i \in 1..n : b[i] \in Nat
    BY <1>1
  <2>4. Leads(b, n, a, m)
    BY <1>1, <2>1, <2>2, <2>3 DEF Leads
  <2> QED
    BY <2>4, RisingPrefix
<1>4. m = n
  BY <1>2, <1>3
<1> QED
  BY <1>1, <1>2, <1>4

\* A greater number comes last.
LEMMA AscendingMore ==
    ASSUME NEW n \in Nat, NEW S, S \subseteq 1..n, NEW x \in Nat, x > n
    PROVE  Ascending(S \cup {x}) = Append(Ascending(S), x)
<1> DEFINE T == S \cup {x}
<1>1. T \subseteq 1..x
  OBVIOUS
<1>2. PICK s : s = Ascending(S)
  OBVIOUS
<1>3. PICK m \in Nat : m = Cardinality(S)
  <2>1. Cardinality(S) \in 0..n
    BY AscendingIs
  <2> QED
    BY <2>1
<1>4. /\ s \in [1..m -> S] /\ Range(s) = S /\ Rises(s, m)
      /\ s \in Seq(S) /\ Len(s) = m
  BY <1>2, <1>3, AscendingIs DEF InOrderOf
<1>5. PICK t : t = Append(s, x)
  OBVIOUS
<1>6. t \in [1..(m + 1) -> T] /\ t[m + 1] = x /\ \A j \in 1..m : t[j] = s[j]
  <2>1. s \in Seq(T)
    BY <1>4
  <2>2. t \in Seq(T) /\ Len(t) = m + 1 /\ t[m + 1] = x /\ \A j \in 1..m : t[j] = s[j]
    BY <1>4, <1>5, <2>1
  <2>3. DOMAIN t = 1..(m + 1)
    BY <2>2
  <2> QED
    BY <2>2, <2>3
<1>7. Range(t) = T
  <2>1. s \in Seq(T) /\ x \in T
    BY <1>4
  <2> QED
    BY <1>4, <1>5, <2>1, RangeOfAppend
<1>8. Rises(t, m + 1)
  <2> SUFFICES ASSUME NEW j \in 1..(m + 1), NEW k \in 1..(m + 1), j < k PROVE t[j] < t[k]
    BY DEF Rises
  <2>1. j \in 1..m /\ t[j] = s[j] /\ s[j] \in S
    BY <1>4, <1>6
  <2>2. CASE k = m + 1
    <3>1. s[j] \in 1..n /\ t[k] = x
      BY <1>6, <2>1, <2>2
    <3> QED
      BY <2>1, <3>1
  <2>3. CASE k \in 1..m
    BY <1>4, <1>6, <2>1, <2>3 DEF Rises
  <2> QED
    BY <2>2, <2>3
<1>9. InOrderOf(t, m + 1, T)
  BY <1>6, <1>7, <1>8 DEF InOrderOf
<1> HIDE DEF T
<1>10. InOrderOf(Ascending(T), Cardinality(T), T) /\ Cardinality(T) \in Nat
  <2>1. Cardinality(T) \in 0..x /\ InOrderOf(Ascending(T), Cardinality(T), T)
    BY <1>1, AscendingIs
  <2> QED
    BY <2>1
<1>11. T \subseteq Nat /\ m + 1 \in Nat
  BY <1>1
<1>12. t = Ascending(T)
  BY <1>9, <1>10, <1>11, OneOrder
<1> QED
  BY <1>2, <1>5, <1>12 DEF T

-----------------------------------------------------------------------------
(* What is produced and what is told, as sequences                         *)

LEMMA ItemsInAre ==
    ASSUME NEW told \in Seq(Signal), NEW at, at = Ascending(NextsIn(told)),
           NEW items, items = ItemsIn(told)
    PROVE  /\ items \in Seq(0..MaxItems) /\ Len(items) \in Nat
           /\ InOrderOf(at, Len(items), NextsIn(told))
           /\ \A k \in 1..Len(items) :
                 at[k] \in 1..Len(told) /\ told[at[k]].on = "Next" /\ items[k] = told[at[k]].item
           /\ \A j \in 1..Len(told) : told[j].on = "Next" =>
                 \E k \in 1..Len(items) : at[k] = j
<1>1. PICK n \in Nat : n = Len(told)
  OBVIOUS
<1>2. PICK N : N = NextsIn(told) /\ N \subseteq 1..n
  BY <1>1 DEF NextsIn
<1>3. PICK m \in Nat : m = Cardinality(N)
  <2>1. Cardinality(N) \in 0..n
    BY <1>2, AscendingIs
  <2> QED
    BY <2>1
<1>4. InOrderOf(at, m, N)
  BY <1>2, <1>3, AscendingIs
<1>5. at \in [1..m -> N] /\ Range(at) = N
  BY <1>4 DEF InOrderOf
<1>6. items = [k \in 1..m |-> told[at[k]].item]
  BY <1>5 DEF ItemsIn
<1>7. \A k \in 1..m : at[k] \in 1..Len(told) /\ told[at[k]].on = "Next" /\ told[at[k]] \in Signal
  BY <1>1, <1>2, <1>5 DEF NextsIn
<1>8. items \in [1..m -> 0..MaxItems]
  BY <1>6, <1>7 DEF Signal
<1>9. items \in Seq(0..MaxItems) /\ Len(items) = m
  <2> DEFINE T == 0..MaxItems
  <2> HIDE DEF T
  <2>1. items \in [1..m -> T]
    BY <1>8 DEF T
  <2>2. items \in Seq(T)
    BY <2>1
  <2>3. Len(items) = m
    BY <2>1
  <2> QED
    BY <2>2, <2>3 DEF T
<1>10. \A j \in 1..Len(told) : told[j].on = "Next" => \E k \in 1..m : at[k] = j
  <2> SUFFICES ASSUME NEW j \in 1..Len(told), told[j].on = "Next"
               PROVE  \E k \in 1..m : at[k] = j
    OBVIOUS
  <2>1. j \in Range(at)
    BY <1>2, <1>5 DEF NextsIn
  <2> QED
    BY <1>5, <2>1 DEF Range
<1> QED
  BY <1>2, <1>4, <1>6, <1>7, <1>9, <1>10

\* One more signal is one more item, or none.
LEMMA ItemsInMore ==
    ASSUME NEW told \in Seq(Signal), NEW x \in Signal
    PROVE  /\ Append(told, x) \in Seq(Signal)
           /\ ItemsIn(Append(told, x)) =
                 IF x.on = "Next" THEN Append(ItemsIn(told), x.item) ELSE ItemsIn(told)
<1>1. PICK more : more = Append(told, x)
  OBVIOUS
<1>2. PICK n \in Nat : n = Len(told)
  OBVIOUS
<1>3. /\ more \in Seq(Signal) /\ Len(more) = n + 1 /\ more[n + 1] = x
      /\ \A k \in 1..n : more[k] = told[k]
  BY <1>1, <1>2
<1>4. PICK at : at = Ascending(NextsIn(told))
  OBVIOUS
<1>5. PICK items : items = ItemsIn(told)
  OBVIOUS
<1>6. PICK m \in Nat : m = Len(items)
  BY <1>4, <1>5, ItemsInAre
<1>7. /\ items \in Seq(0..MaxItems) /\ InOrderOf(at, m, NextsIn(told))
      /\ \A k \in 1..m : at[k] \in 1..n /\ items[k] = told[at[k]].item
  BY <1>2, <1>4, <1>5, <1>6, ItemsInAre
<1>8. NextsIn(told) \subseteq 1..n /\ at \in [1..m -> NextsIn(told)]
  BY <1>2, <1>7 DEF NextsIn, InOrderOf
<1>9. CASE x.on = "Next"
  <2>1. NextsIn(more) = NextsIn(told) \cup {n + 1}
    BY <1>2, <1>3, <1>9 DEF NextsIn
  <2>2. n + 1 \in Nat /\ n + 1 > n
    OBVIOUS
  <2>3. Ascending(NextsIn(more)) = Append(at, n + 1)
    BY <1>4, <1>8, <2>1, <2>2, AscendingMore
  <2>4. PICK all : all = Append(at, n + 1)
    OBVIOUS
  <2>5. /\ DOMAIN all = 1..(m + 1) /\ all[m + 1] = n + 1
        /\ \A k \in 1..m : all[k] = at[k]
    <3>1. at \in [1..m -> 1..n]
      BY <1>8
    <3>2. at \in Seq(Nat) /\ Len(at) = m
      BY <3>1
    <3> QED
      BY <2>4, <3>2
  <2>6. ItemsIn(more) = [k \in 1..(m + 1) |-> more[all[k]].item]
    BY <2>3, <2>4, <2>5 DEF ItemsIn
  <2>7. x.item \in 0..MaxItems
    BY DEF Signal
  <2>8. PICK longer : longer = Append(items, x.item)
    OBVIOUS
  <2>9. /\ longer \in Seq(0..MaxItems) /\ Len(longer) = m + 1 /\ longer[m + 1] = x.item
        /\ \A k \in 1..m : longer[k] = items[k]
    BY <1>6, <1>7, <2>7, <2>8
  <2>10. \A k \in 1..(m + 1) : longer[k] = more[all[k]].item
    <3> SUFFICES ASSUME NEW k \in 1..(m + 1) PROVE longer[k] = more[all[k]].item
      OBVIOUS
    <3>1. CASE k = m + 1
      BY <1>3, <2>5, <2>9, <3>1
    <3>2. CASE k \in 1..m
      BY <1>3, <1>7, <2>5, <2>9, <3>2
    <3> QED
      BY <3>1, <3>2
  <2>11. longer = [k \in 1..(m + 1) |-> longer[k]]
    BY <2>9
  <2>12. ItemsIn(more) = longer
    BY <2>6, <2>10, <2>11
  <2> QED
    BY <1>1, <1>3, <1>5, <1>9, <2>8, <2>12
<1>10. CASE x.on # "Next"
  <2>1. NextsIn(more) = NextsIn(told)
    BY <1>2, <1>3, <1>10 DEF NextsIn
  <2>2. DOMAIN at = 1..m /\ \A k \in 1..m : more[at[k]] = told[at[k]]
    BY <1>3, <1>7, <1>8
  <2>3. ItemsIn(more) = ItemsIn(told)
    BY <1>4, <2>1, <2>2 DEF ItemsIn
  <2> QED
    BY <1>1, <1>3, <1>10, <2>3
<1> QED
  BY <1>9, <1>10

LEMMA ProducedIs ==
    ASSUME TypeOK, NEW r \in Requests, NEW items, items = ItemsWithData(r)
    PROVE  /\ Len(emitted[r]) \in 0..MaxItems
           /\ Len(items) \in 0..Len(emitted[r])
           /\ InOrderOf(items, Len(items), Indices(r))
           /\ items \in Seq(1..MaxItems)
<1>1. emitted[r] \in Seq(BOOLEAN) /\ Len(emitted[r]) <= MaxItems
  BY DEF TypeOK
<1>2. PICK n \in 0..MaxItems : n = Len(emitted[r])
  BY <1>1, RequestAssumption
<1>3. Indices(r) \subseteq 1..n /\ n \in Nat
  BY <1>2, RequestAssumption DEF Indices
<1>4. /\ Cardinality(Indices(r)) \in 0..n
      /\ InOrderOf(items, Cardinality(Indices(r)), Indices(r))
      /\ items \in Seq(Indices(r)) /\ Len(items) = Cardinality(Indices(r))
  BY <1>3, AscendingIs DEF ItemsWithData
<1>5. Indices(r) \subseteq 1..MaxItems
  BY <1>2, <1>3, RequestAssumption
<1>6. items \in Seq(1..MaxItems)
  <2> DEFINE T == 1..MaxItems
             S == Indices(r)
  <2> HIDE DEF T, S
  <2>1. items \in Seq(S) /\ S \subseteq T
    BY <1>4, <1>5 DEF S, T
  <2>2. items \in [1..Len(items) -> T] /\ Len(items) \in Nat
    BY <2>1
  <2>3. items \in Seq(T)
    BY <2>2
  <2> QED
    BY <2>3 DEF T
<1> QED
  BY <1>2, <1>4, <1>6

LEMMA ProducedMore ==
    ASSUME TypeOK, NEW r \in Requests, NEW data \in BOOLEAN,
           emitted'[r] = Append(emitted[r], data)
    PROVE  ItemsWithData(r)' = IF data THEN Append(ItemsWithData(r), Len(emitted[r]) + 1)
                               ELSE ItemsWithData(r)
<1>1. PICK old : old = emitted[r] /\ old \in Seq(BOOLEAN)
  BY DEF TypeOK
<1>2. PICK new : new = emitted'[r] /\ new = Append(old, data)
  BY <1>1
<1>3. PICK n \in Nat : n = Len(old)
  BY <1>1
<1>4. Len(new) = n + 1 /\ new[n + 1] = data /\ \A k \in 1..n : new[k] = old[k]
  BY <1>1, <1>2, <1>3
<1>5. Indices(r) = {k \in 1..n : old[k]} /\ Indices(r)' = {k \in 1..(n + 1) : new[k]}
  BY <1>1, <1>2, <1>3, <1>4 DEF Indices
<1>6. Indices(r)' = IF data THEN Indices(r) \cup {n + 1} ELSE Indices(r)
  <2>1. \A k : k \in 1..(n + 1) <=> k \in 1..n \/ k = n + 1
    BY <1>3
  <2>2. \A k : k \in Indices(r)' <=> (k \in Indices(r) \/ (k = n + 1 /\ data))
    BY <1>4, <1>5, <2>1
  <2> QED
    BY <2>2
<1>7. Indices(r) \subseteq 1..n /\ n + 1 \in Nat /\ n + 1 > n
  BY <1>5
<1>8. Ascending(Indices(r) \cup {n + 1}) = Append(Ascending(Indices(r)), n + 1)
  BY <1>7, AscendingMore
<1> QED
  BY <1>1, <1>3, <1>6, <1>8 DEF ItemsWithData

-----------------------------------------------------------------------------
(* The steps of one interaction                                            *)

Promise(r) ==
    INSTANCE Interaction WITH
        Items <- 1..MaxItems, broken <- Broken,
        produced <- ItemsWithData(r), ended <- EndOf(r),
        told <- ItemsTold(r), outcome <- OutcomeTold(r)

PromiseStep(r) == [Promise(r)!Next]_(Promise(r)!vars)

\* A step that shows nothing of r to the promise is no step of it, or a break.
LEMMA QuietStep ==
    ASSUME TypeOK, [Next]_vars, NEW r \in Requests,
           signals'[r] = signals[r], emitted'[r] = emitted[r], EndOf(r)' = EndOf(r)
    PROVE  PromiseStep(r)
<1>1. ItemsTold(r)' = ItemsTold(r) /\ OutcomeTold(r)' = OutcomeTold(r)
  BY DEF ItemsTold, OutcomeTold
<1>2. ItemsWithData(r)' = ItemsWithData(r)
  BY DEF ItemsWithData, Indices
<1>3. Broken \in BOOLEAN /\ Broken' \in BOOLEAN /\ (Broken => Broken')
  BY BreaksForGood DEF Broken
<1>4. CASE Broken' = Broken
  BY <1>1, <1>2, <1>4 DEF PromiseStep, Promise!vars
<1>5. CASE Broken' # Broken
  <2>1. ~Broken /\ Broken' = TRUE
    BY <1>3, <1>5
  <2>2. Promise(r)!Break
    BY <1>1, <1>2, <2>1 DEF Promise!Break
  <2> QED
    BY <2>2 DEF PromiseStep, Promise!Next
<1> QED
  BY <1>4, <1>5

\* The signals that settle the request of r.
Settles(r) == {"Error", "Complete"} \cup (IF Kind[r] = "response" THEN {"Next"} ELSE {})

LEMMA OutcomeIsOpen ==
    ASSUME NEW r \in Requests, signals[r] \in Seq(Signal),
           \A k \in 1..Len(signals[r]) : signals[r][k].on \notin Settles(r)
    PROVE  OutcomeTold(r) = "open"
<1>1. \A s \in Range(signals[r]) : s.on \notin Settles(r)
  BY DEF Range
<1> QED
  BY <1>1 DEF OutcomeTold, Settles

\* One more signal, of a request that has not settled.
LEMMA OutcomeMore ==
    ASSUME NEW r \in Requests, NEW told, told = signals[r], told \in Seq(Signal),
           \A k \in 1..Len(told) : told[k].on \notin Settles(r),
           NEW x \in Signal, signals'[r] = Append(told, x)
    PROVE  OutcomeTold(r)' = IF x.on \in Settles(r)
                             THEN (IF x.on = "Error" THEN "failed" ELSE "completed") ELSE "open"
<1>1. \A s \in Range(told) : s.on \notin Settles(r)
  BY DEF Range
<1>2. Range(signals'[r]) = Range(told) \cup {x}
  BY RangeOfAppend
<1>3. \A s \in Range(signals'[r]) : s = x \/ s.on \notin Settles(r)
  BY <1>1, <1>2
<1>4. x \in Range(signals'[r])
  BY <1>2
<1>5. CASE x.on = "Error"
  BY <1>3, <1>4, <1>5 DEF OutcomeTold, Settles
<1>6. CASE x.on \in Settles(r) /\ x.on # "Error"
  BY <1>3, <1>4, <1>6 DEF OutcomeTold, Settles
<1>7. CASE x.on \notin Settles(r)
  BY <1>3, <1>7 DEF OutcomeTold, Settles
<1>8. "Error" \in Settles(r)
  BY DEF Settles
<1> QED
  BY <1>5, <1>6, <1>7, <1>8

LEMMA CallIsQuiet ==
    ASSUME AInv, [Next]_vars, NEW s \in Requests, Call(s), NEW r \in Requests
    PROVE  PromiseStep(r)
<1>0. OInv /\ TypeOK /\ signals[r] \in Seq(Signal)
  BY DEF AInv, OInv, IInv, TypeOK
<1>1. handler' = handler /\ emitted' = emitted
  BY DEF Call, Request, MetadataPush, Written, Sent, WriteFails, UploadNext, UploadEnd, handlerVars
<1>2. EndOf(r)' = EndOf(r)
  BY <1>1 DEF EndOf
<1>3. CASE signals'[r] = signals[r]
  BY <1>0, <1>1, <1>2, <1>3, QuietStep
<1>4. CASE signals'[r] # signals[r]
  <2>1. s = r /\ Written(r) /\ signals'[r] = Append(signals[r], SubscribeSignal(r))
    <3>1. Written(s)
      BY <1>4 DEF Call, Request, MetadataPush, Sent, WriteFails, UploadNext, UploadEnd, callVars
    <3> QED
      BY <1>0, <1>4, <3>1 DEF Written, OnSubscribe, TypeOK
  <2>2. signals[r] = <<>>
    BY <1>0, <2>1 DEF OInv, Told, Progress, Written
  <2>3. SubscribeSignal(r) \in Signal /\ SubscribeSignal(r).on = "Subscribe"
    BY RequestAssumption DEF SubscribeSignal, Signal
  <2>4. ItemsTold(r)' = ItemsTold(r)
    BY <1>0, <2>1, <2>3, ItemsInMore DEF ItemsTold
  <2>5. OutcomeTold(r) = "open" /\ OutcomeTold(r)' = "open"
    <3>1. \A k \in 1..Len(signals[r]) : signals[r][k].on \notin Settles(r)
      BY <2>2
    <3>2. SubscribeSignal(r).on \notin Settles(r)
      BY <2>3 DEF Settles
    <3>3. OutcomeTold(r) = "open"
      BY <1>0, <3>1, OutcomeIsOpen
    <3>4. OutcomeTold(r)' = "open"
      BY <1>0, <2>1, <2>3, <3>1, <3>2, OutcomeMore
    <3> QED
      BY <3>3, <3>4
  <2>6. ItemsWithData(r)' = ItemsWithData(r)
    BY <1>1 DEF ItemsWithData, Indices
  <2>7. Broken' = Broken
    BY <2>1 DEF Written, Broken
  <2> QED
    BY <1>2, <2>4, <2>5, <2>6, <2>7 DEF PromiseStep, Promise!vars
<1> QED
  BY <1>3, <1>4

\* What r's handler does: it produces an item, ends, or both.
LEMMA HandlerWorks ==
    ASSUME AInv, NEW r \in Requests, Kind[r] \in {"response", "stream"}, Handle(r)
    PROVE  /\ signals' = signals /\ Broken' = Broken
           /\ EndOf(r) = "open" /\ EndOf(r)' \in {"open", "completed", "failed"}
           /\ \/ emitted'[r] = emitted[r]
              \/ /\ Len(emitted[r]) < MaxItems
                 /\ \E data \in BOOLEAN : emitted'[r] = Append(emitted[r], data)
<1>0. TypeOK /\ Arriving(r)
  BY DEF AInv, OInv, IInv
<1>1. handler[r] = "running" /\ signals' = signals
  BY <1>0, HandleWrites
<1>2. EndOf(r) = "open" /\ EndOf(r)' \in {"open", "completed", "failed"}
  BY <1>1 DEF EndOf
<1>3. Broken' = Broken
  <2>1. link' = link \/ (Broken /\ link' = [link EXCEPT ![Responder(r)] = "dead"])
    BY DEF Handle, Answer, EmitNext, EmitComplete, Fail, Swallow, Finish, Write
  <2>2. link \in [Peer -> {"up", "down", "dead"}] /\ Responder(r) \in Peer
    BY <1>0, OwnerPeer DEF TypeOK
  <2>3. ASSUME Broken, link' = [link EXCEPT ![Responder(r)] = "dead"] PROVE Broken'
    <3>1. link'[Responder(r)] # "up"
      BY <2>2, <2>3
    <3> QED
      BY <2>2, <3>1 DEF Broken
  <2> QED
    BY <2>1, <2>3 DEF Broken
<1>4. CASE \E data \in BOOLEAN : Answer(r, data)
  <2>1. PICK data \in BOOLEAN : Answer(r, data)
    BY <1>4
  <2>2. emitted[r] = <<>>
    <3>1. HasNoneYet(r)
      BY <2>1 DEF HasNoneYet, Answer, Runs
    <3> QED
      BY <1>0, <3>1 DEF Arriving
  <2>3. emitted'[r] = <<data>>
    BY <1>0, <2>1 DEF Answer, TypeOK
  <2>4. Len(emitted[r]) < MaxItems
    BY <2>2, RequestAssumption
  <2>5. emitted'[r] = Append(emitted[r], data)
    BY <2>2, <2>3
  <2> QED
    BY <1>1, <1>2, <1>3, <2>4, <2>5
<1>5. CASE \E data \in BOOLEAN : EmitNext(r, data)
  <2>1. PICK data \in BOOLEAN : EmitNext(r, data)
    BY <1>5
  <2>2. Len(emitted[r]) < MaxItems /\ emitted'[r] = Append(emitted[r], data)
    BY <1>0, <2>1 DEF EmitNext, TypeOK
  <2> QED
    BY <1>1, <1>2, <1>3, <2>2
<1>6. CASE EmitComplete(r) \/ Fail(r) \/ Swallow(r) \/ Finish(r)
  <2>1. emitted'[r] = emitted[r]
    BY <1>6 DEF EmitComplete, Fail, Swallow, Finish
  <2> QED
    BY <1>1, <1>2, <1>3, <2>1
<1> QED
  BY <1>4, <1>5, <1>6 DEF Handle

LEMMA HandleKeepsPromise ==
    ASSUME AInv, [Next]_vars, NEW s \in Requests, Handle(s),
           NEW r \in Requests, Kind[r] \in {"response", "stream"}
    PROVE  PromiseStep(r)
<1>0. TypeOK
  BY DEF AInv, OInv, IInv
<1>1. CASE r # s
  <2>1. signals' = signals /\ emitted'[r] = emitted[r] /\ handler'[r] = handler[r]
    BY <1>0, <1>1, HandleWrites
  <2>2. EndOf(r)' = EndOf(r)
    BY <2>1 DEF EndOf
  <2> QED
    BY <1>0, <2>1, <2>2, QuietStep
<1>2. CASE r = s
  <2>1. /\ signals' = signals /\ Broken' = Broken
        /\ EndOf(r) = "open" /\ EndOf(r)' \in {"open", "completed", "failed"}
        /\ \/ emitted'[r] = emitted[r]
           \/ /\ Len(emitted[r]) < MaxItems
              /\ \E data \in BOOLEAN : emitted'[r] = Append(emitted[r], data)
    BY <1>2, HandlerWorks
  <2>2. ItemsTold(r)' = ItemsTold(r) /\ OutcomeTold(r)' = OutcomeTold(r)
    BY <2>1 DEF ItemsTold, OutcomeTold
  <2>3. PICK items : items = ItemsWithData(r)
    OBVIOUS
  <2>4. Len(emitted[r]) \in 0..MaxItems /\ Len(items) \in 0..Len(emitted[r])
    BY <1>0, <2>3, ProducedIs
  <2>5. \/ ItemsWithData(r)' = items
        \/ /\ Len(items) < MaxItems
           /\ \E item \in 1..MaxItems : ItemsWithData(r)' = Append(items, item)
    <3>1. CASE emitted'[r] = emitted[r]
      BY <2>3, <3>1 DEF ItemsWithData, Indices
    <3>2. CASE emitted'[r] # emitted[r]
      <4>1. Len(emitted[r]) < MaxItems
        BY <2>1, <3>2
      <4>2. PICK data \in BOOLEAN : emitted'[r] = Append(emitted[r], data)
        BY <2>1, <3>2
      <4>3. ItemsWithData(r)' = IF data THEN Append(items, Len(emitted[r]) + 1) ELSE items
        BY <1>0, <2>3, <4>2, ProducedMore
      <4>4. Len(items) < MaxItems /\ Len(emitted[r]) + 1 \in 1..MaxItems
        BY <2>4, <4>1, RequestAssumption
      <4> QED
        BY <4>3, <4>4
    <3> QED
      BY <3>1, <3>2
  <2>6. Promise(r)!Work
    BY <2>1, <2>2, <2>3, <2>5 DEF Promise!Work
  <2> QED
    BY <2>6 DEF PromiseStep, Promise!Next
<1> QED
  BY <1>1, <1>2

-----------------------------------------------------------------------------
(* The frame that tells                                                    *)

\* A subscriber is told items of this handler's, in their order.
ToldInOrder(told, made) ==
    \A k \in 1..Len(told) :
        told[k].on = "Next" =>
            /\ told[k].item \in 1..Len(made) /\ made[told[k].item]
            /\ \A j \in 1..(k - 1) : told[j].item < told[k].item

Includes(told, i) == \E j \in 1..Len(told) : told[j].on = "Next" /\ told[j].item = i

LEMMA ItemsInRise ==
    ASSUME NEW told \in Seq(Signal), NEW made \in Seq(BOOLEAN), ToldInOrder(told, made),
           NEW items, items = ItemsIn(told)
    PROVE  /\ items \in Seq(0..MaxItems) /\ Len(items) \in Nat
           /\ Rises(items, Len(items))
           /\ \A k \in 1..Len(items) : items[k] \in {i \in 1..Len(made) : made[i]}
           /\ \A j \in 1..Len(told) : told[j].on = "Next" =>
                 \E k \in 1..Len(items) : items[k] = told[j].item
<1>1. PICK at : at = Ascending(NextsIn(told))
  OBVIOUS
<1>2. PICK m : m = Len(items)
  OBVIOUS
<1>3. /\ items \in Seq(0..MaxItems) /\ m \in Nat
      /\ InOrderOf(at, m, NextsIn(told))
      /\ \A k \in 1..m :
            at[k] \in 1..Len(told) /\ told[at[k]].on = "Next" /\ items[k] = told[at[k]].item
      /\ \A j \in 1..Len(told) : told[j].on = "Next" => \E k \in 1..m : at[k] = j
  BY <1>1, <1>2, ItemsInAre
<1>4. Rises(at, m)
  BY <1>3 DEF InOrderOf
<1>5. Rises(items, m)
  <2> SUFFICES ASSUME NEW j \in 1..m, NEW k \in 1..m, j < k PROVE items[j] < items[k]
    BY DEF Rises
  <2>1. at[j] < at[k]
    BY <1>4 DEF Rises
  <2>2. at[j] \in 1..Len(told) /\ at[k] \in 1..Len(told) /\ Len(told) \in Nat
    BY <1>3
  <2>3. at[j] \in 1..(at[k] - 1)
    BY <2>1, <2>2
  <2> QED
    BY <1>3, <2>2, <2>3 DEF ToldInOrder
<1>6. \A k \in 1..m : items[k] \in {i \in 1..Len(made) : made[i]}
  BY <1>3 DEF ToldInOrder
<1>7. \A j \in 1..Len(told) : told[j].on = "Next" => \E k \in 1..m : items[k] = told[j].item
  BY <1>3
<1> QED
  BY <1>2, <1>3, <1>5, <1>6, <1>7

HasAll(items, n, told) ==
    \A j \in 1..Len(told) : told[j].on = "Next" => \E k \in 1..n : items[k] = told[j].item

LEMMA ToldRises ==
    ASSUME TypeOK, NEW r \in Requests, NEW told \in Seq(Signal), ToldInOrder(told, emitted[r]),
           NEW a, a = ItemsIn(told), NEW m, m = Len(a)
    PROVE  /\ a \in Seq(0..MaxItems) /\ m \in Nat /\ Rises(a, m)
           /\ \A k \in 1..m : a[k] \in Indices(r)
           /\ HasAll(a, m, told)
<1>1. PICK made \in Seq(BOOLEAN) : made = emitted[r]
  BY DEF TypeOK
<1>2. ToldInOrder(told, made)
  BY <1>1
<1>3. a \in Seq(0..MaxItems) /\ m \in Nat
  BY <1>2, ItemsInRise
<1>4. Rises(a, m)
  BY <1>2, ItemsInRise
<1>5. \A k \in 1..m : a[k] \in {i \in 1..Len(made) : made[i]}
  BY <1>2, ItemsInRise
<1>6. HasAll(a, m, told)
  BY <1>2, ItemsInRise DEF HasAll
<1> QED
  BY <1>1, <1>3, <1>4, <1>5, <1>6 DEF Indices

\* Who has been told of everything has been told what was produced.
LEMMA AllIsTold ==
    ASSUME TypeOK, NEW r \in Requests, NEW told \in Seq(Signal), ToldInOrder(told, emitted[r]),
           \A i \in Indices(r) : Includes(told, i)
    PROVE  ItemsIn(told) = ItemsWithData(r)
<1>1. PICK a : a = ItemsIn(told)
  OBVIOUS
<1>2. PICK b : b = ItemsWithData(r)
  OBVIOUS
<1>3. PICK S : S = Indices(r)
  OBVIOUS
<1>4. emitted[r] \in Seq(BOOLEAN)
  BY DEF TypeOK
<1>5. Len(b) \in Nat /\ InOrderOf(b, Len(b), S)
  <2>1. Len(emitted[r]) \in 0..MaxItems /\ Len(b) \in 0..Len(emitted[r]) /\ InOrderOf(b, Len(b), S)
    BY <1>2, <1>3, ProducedIs
  <2> QED
    BY <2>1
<1>6. PICK m : m = Len(a)
  OBVIOUS
<1>7. /\ a \in Seq(0..MaxItems) /\ m \in Nat /\ Rises(a, m)
      /\ \A k \in 1..m : a[k] \in S
      /\ \A j \in 1..Len(told) : told[j].on = "Next" => \E k \in 1..m : a[k] = told[j].item
  <2>1. S = {i \in 1..Len(emitted[r]) : emitted[r][i]}
    BY <1>3 DEF Indices
  <2> QED
    BY <1>1, <1>4, <1>6, <2>1, ItemsInRise
<1>8. \A i \in S : \E k \in 1..m : a[k] = i
  BY <1>3, <1>7 DEF Includes
<1>9. a \in [1..m -> S] /\ Range(a) = S
  <2>1. DOMAIN a = 1..m /\ a = [k \in 1..m |-> a[k]]
    BY <1>6, <1>7
  <2>2. a \in [1..m -> S]
    BY <1>7, <2>1
  <2> QED
    BY <1>8, <2>2 DEF Range
<1>10. InOrderOf(a, m, S)
  BY <1>7, <1>9 DEF InOrderOf
<1>11. S \subseteq Nat
  BY <1>3, <1>4 DEF Indices
<1>12. a = b
  BY <1>5, <1>7, <1>10, <1>11, OneOrder
<1> QED
  BY <1>1, <1>2, <1>12

\* Who is told of an item after all that was produced before it is told the
\* next of them.
LEMMA NextIsTold ==
    ASSUME TypeOK, NEW r \in Requests, NEW told \in Seq(Signal), NEW now \in Seq(Signal),
           ToldInOrder(now, emitted[r]), NEW item \in 0..MaxItems,
           ItemsIn(now) = Append(ItemsIn(told), item),
           \A i \in Indices(r) : i <= item => Includes(now, i)
    PROVE  LET n == Len(ItemsIn(told)) IN
           n < Len(ItemsWithData(r)) /\ item = ItemsWithData(r)[n + 1]
<1>1. PICK a : a = ItemsIn(now)
  OBVIOUS
<1>2. PICK b : b = ItemsWithData(r)
  OBVIOUS
<1>3. PICK S : S = Indices(r)
  OBVIOUS
<1>4. PICK c : c = ItemsIn(told)
  OBVIOUS
<1>5. PICK n : n = Len(c)
  OBVIOUS
<1>6. emitted[r] \in Seq(BOOLEAN) /\ S = {i \in 1..Len(emitted[r]) : emitted[r][i]}
  BY <1>3 DEF TypeOK, Indices
<1>7. c \in Seq(0..MaxItems) /\ n \in Nat
  BY <1>4, <1>5, ItemsInAre
<1>8. Len(a) = n + 1 /\ a[n + 1] = item
  BY <1>1, <1>4, <1>5, <1>7
<1>9. PICK m \in Nat : m = n + 1
  BY <1>7
<1>10. /\ Rises(a, m)
       /\ \A k \in 1..m : a[k] \in S
       /\ \A j \in 1..Len(now) : now[j].on = "Next" => \E k \in 1..m : a[k] = now[j].item
  <2>1. PICK k : k = Len(a)
    OBVIOUS
  <2>2. k = m
    BY <1>8, <1>9, <2>1
  <2>3. Rises(a, k)
    BY <1>1, <2>1, ToldRises
  <2>4. \A i \in 1..k : a[i] \in Indices(r)
    BY <1>1, <2>1, ToldRises
  <2>5. HasAll(a, k, now)
    BY <1>1, <2>1, ToldRises
  <2> QED
    BY <1>3, <2>2, <2>3, <2>4, <2>5 DEF HasAll
<1>11. PICK l : l = Len(b)
  OBVIOUS
<1>12. l \in Nat /\ InOrderOf(b, l, S)
  <2>1. Len(emitted[r]) \in 0..MaxItems /\ Len(b) \in 0..Len(emitted[r]) /\ InOrderOf(b, Len(b), S)
    BY <1>2, <1>3, ProducedIs
  <2> QED
    BY <1>11, <2>1
<1>13. S \subseteq Nat
  BY <1>6
<1>14. \A k \in 1..m : a[k] <= item
  <2> SUFFICES ASSUME NEW k \in 1..m PROVE a[k] <= item
    OBVIOUS
  <2>1. k = m \/ (k < m /\ m \in 1..m)
    BY <1>7, <1>9
  <2>2. a[k] \in Nat
    BY <1>10, <1>13
  <2>3. a[m] = item /\ item \in Nat
    BY <1>8, <1>9, RequestAssumption
  <2> QED
    BY <1>10, <2>1, <2>2, <2>3 DEF Rises
<1>15. b \in [1..l -> S] /\ Range(b) = S /\ Rises(b, l)
  BY <1>12 DEF InOrderOf
<1>16. Leads(a, m, b, l)
  <2>1. (\A i \in 1..m : a[i] \in Nat) /\ (\A i \in 1..l : b[i] \in Nat)
    BY <1>10, <1>13, <1>15
  <2>2. \A i \in 1..m : \E j \in 1..l : b[j] = a[i]
    BY <1>10, <1>15 DEF Range
  <2>3. ASSUME NEW i \in 1..m, NEW j \in 1..l, b[j] <= a[i] PROVE \E k \in 1..m : a[k] = b[j]
    <3>1. b[j] \in S /\ b[j] <= item
      BY <1>14, <1>15, <2>1, <2>3
    <3>2. PICK k \in 1..Len(now) : now[k].on = "Next" /\ now[k].item = b[j]
      BY <1>3, <3>1 DEF Includes
    <3> QED
      BY <1>10, <3>2
  <2> QED
    BY <1>10, <1>12, <1>15, <2>1, <2>2, <2>3 DEF Leads
<1>17. m <= l /\ \A i \in 1..m : a[i] = b[i]
  BY <1>16, RisingPrefix
<1>18. n < l /\ item = b[n + 1]
  <2>1. n + 1 \in 1..m
    BY <1>7, <1>9
  <2> QED
    BY <1>7, <1>8, <1>9, <1>12, <1>17, <2>1
<1> QED
  BY <1>2, <1>4, <1>5, <1>11, <1>18

LEMMA OneMore ==
    ASSUME NEW S, NEW s \in Seq(S), NEW x \in S
    PROVE  /\ s \o <<x>> = Append(s, x)
           /\ s = <<>> => <<x>> = Append(s, x)
           /\ <<x>> # <<>> /\ Head(<<x>>) = x
<1>1. s \o <<x>> = Append(s, x)
  OBVIOUS
<1>2. <<>> \o <<x>> = <<x>>
  <2>1. <<x>> \in Seq(S) /\ <<>> \in Seq(S)
    OBVIOUS
  <2>2. Len(<<>> \o <<x>>) = 1 /\ (<<>> \o <<x>>)[1] = x
    BY <2>1
  <2> QED
    BY <2>1, <2>2
<1>3. <<x>> # <<>> /\ Head(<<x>>) = x
  OBVIOUS
<1> QED
  BY <1>1, <1>2, <1>3

LEMMA TwoMore ==
    ASSUME NEW S, NEW s \in Seq(S), NEW x \in S, NEW y \in S
    PROVE  /\ <<x>> \o <<y>> = <<x, y>> /\ <<x, y>> \in Seq(S)
           /\ <<x, y>> # <<>> /\ Head(<<x, y>>) = x
           /\ s \o <<x, y>> = Append(Append(s, x), y)
<1>1. <<x, y>> \in Seq(S) /\ Len(<<x, y>>) = 2 /\ <<x, y>>[1] = x /\ <<x, y>>[2] = y
  OBVIOUS
<1>2. <<x, y>> # <<>> /\ Head(<<x, y>>) = x
  BY <1>1
<1>3. <<x>> \o <<y>> = <<x, y>>
  <2>1. <<x>> \in Seq(S)
    OBVIOUS
  <2>2. <<x>> \o <<y>> = Append(<<x>>, y)
    BY <2>1, OneMore
  <2>3. PICK l : l = Append(<<x>>, y)
    OBVIOUS
  <2>4. l \in Seq(S) /\ Len(l) = 2 /\ l[1] = x /\ l[2] = y
    BY <2>1, <2>3
  <2>5. l = <<x, y>>
    BY <1>1, <2>4
  <2> QED
    BY <2>2, <2>3, <2>5
<1>4. s \o <<x, y>> = Append(Append(s, x), y)
  <2>1. PICK t : t = <<x, y>>
    OBVIOUS
  <2>2. t \in Seq(S) /\ Len(t) = 2 /\ t[1] = x /\ t[2] = y
    BY <1>1, <2>1
  <2>3. PICK n \in Nat : n = Len(s)
    OBVIOUS
  <2>4. PICK l : l = s \o t
    OBVIOUS
  <2>5. /\ l \in Seq(S) /\ Len(l) = n + 2 /\ l[n + 1] = x /\ l[n + 2] = y
        /\ \A k \in 1..n : l[k] = s[k]
    <3>0. /\ s \o t \in Seq(S) /\ Len(s \o t) = Len(s) + Len(t)
          /\ \A k \in 1..(Len(s) + Len(t)) :
                (s \o t)[k] = IF k <= Len(s) THEN s[k] ELSE t[k - Len(s)]
      BY <2>2, ConcatProperties
    <3>1. l \in Seq(S) /\ Len(l) = n + 2
      BY <2>2, <2>3, <2>4, <3>0
    <3>2. \A k \in 1..n : l[k] = s[k]
      BY <2>2, <2>3, <2>4, <3>0
    <3>3. l[n + 1] = t[1]
      <4>1. (n + 1) \in 1..(n + 2) /\ ~(n + 1 <= n) /\ n + 1 - n = 1
        OBVIOUS
      <4> QED
        BY <2>2, <2>3, <2>4, <3>0, <4>1
    <3>4. l[n + 2] = t[2]
      <4>1. (n + 2) \in 1..(n + 2) /\ ~(n + 2 <= n) /\ n + 2 - n = 2
        OBVIOUS
      <4> QED
        BY <2>2, <2>3, <2>4, <3>0, <4>1
    <3> QED
      BY <2>2, <3>1, <3>2, <3>3, <3>4
  <2>6. PICK m : m = Append(Append(s, x), y)
    OBVIOUS
  <2>7. /\ m \in Seq(S) /\ Len(m) = n + 2 /\ m[n + 1] = x /\ m[n + 2] = y
        /\ \A k \in 1..n : m[k] = s[k]
    BY <2>3, <2>6
  <2>8. \A k \in 1..(n + 2) : l[k] = m[k]
    <3>1. \A k \in 1..(n + 2) : k \in 1..n \/ k = n + 1 \/ k = n + 2
      BY <2>3
    <3> QED
      BY <2>5, <2>7, <3>1
  <2>9. l = m
    BY <2>5, <2>7, <2>8
  <2> QED
    BY <2>1, <2>4, <2>6, <2>9
<1> QED
  BY <1>1, <1>2, <1>3, <1>4

\* What the signals of a frame do to what its request, open until then, has
\* been told; a promise takes the first of them.
Brings(r, f) ==
    LET told == signals[r]
        Told1(on) == Append(told, SignalOf(on, f))
    IN
    \/ f.type = "ERROR" /\ signals'[r] = Told1("Error")
    \/ /\ f.type = "PAYLOAD" /\ f.data /\ f.complete /\ Kind[r] # "response"
       /\ signals'[r] = Append(Told1("Next"), SignalOf("Complete", f))
    \/ /\ f.type = "PAYLOAD" /\ f.data /\ (f.complete <=> Kind[r] = "response")
       /\ signals'[r] = Told1("Next")
    \/ /\ f.type = "PAYLOAD" /\ ~f.data /\ f.complete
       /\ signals'[r] = Told1("Complete")
    \/ /\ f.type = "PAYLOAD" /\ ~f.data /\ ~f.complete
       /\ signals'[r] = told

LEMMA FrameBrings ==
    ASSUME OInv, NEW p \in Peer, ReceivePayload(p) \/ ReceiveError(p)
    PROVE  Brings(Head(wire[p]).req, Head(wire[p]))
<1> DEFINE f == Head(wire[p])
           r == f.req
           a == SignalOf("Next", f)
           b == SignalOf("Complete", f)
           e == SignalOf("Error", f)
<1>0. TypeOK /\ signals \in [Requests -> Seq(Signal)]
  BY DEF OInv, IInv, TypeOK
<1>1. Reads(p, {"PAYLOAD", "ERROR"}) /\ Receiver(p) # NoRequest
  BY DEF ReceivePayload, ReceiveError, Reads
<1>2. /\ f \in Frame /\ f \in Range(wire[p]) /\ r \in Requests /\ f.by = "handler"
      /\ Receiver(p) = r /\ call[r] = "open" /\ Kind[r] \in {"response", "stream"}
  BY <1>1, OwnFrame DEF OInv, AnswerFrameOK
<1>3. PICK told \in Seq(Signal) : told = signals[r]
  BY <1>0, <1>2
<1>4. Kind[r] = "response" => told = <<>>
  BY <1>2, <1>3 DEF OInv, Told, Progress
<1>5. f.data \in BOOLEAN /\ f.complete \in BOOLEAN
  BY <1>2 DEF Frame
<1>6. a \in Signal /\ b \in Signal /\ e \in Signal
  BY <1>2 DEF SignalOf, Signal, Frame
<1>7. CASE ReceiveError(p)
  <2>1. f.type = "ERROR" /\ signals'[r] = Notified(r, <<e>>)
    BY <1>0, <1>2, <1>7 DEF ReceiveError, Reads
  <2> HIDE DEF e
  <2>2. Notified(r, <<e>>) = Append(told, e)
    BY <1>3, <1>4, <1>6, OneMore DEF Notified, Settled
  <2> QED
    BY <1>3, <2>1, <2>2 DEF Brings, e
<1>8. CASE ReceivePayload(p)
  <2>1. f.type = "PAYLOAD" /\ signals'[r] = Notified(r, PayloadSignals(f))
    BY <1>0, <1>2, <1>8 DEF ReceivePayload, Reads
  <2>2. Kind[r] = "response" => f.complete
    <3>1. Kind[r] = "response" => Last(f)
      BY <1>2 DEF OInv, ItemsOK, ItemOK
    <3> QED
      BY <2>1, <3>1 DEF Last
  <2>3. CASE f.data /\ f.complete
    <3>1. PayloadSignals(f) = <<a>> \o <<b>>
      BY <2>3 DEF PayloadSignals
    <3> HIDE DEF a, b
    <3>2. /\ <<a>> \o <<b>> = <<a, b>> /\ <<a, b>> # <<>> /\ Head(<<a, b>>) = a
          /\ told \o <<a, b>> = Append(Append(told, a), b)
      BY <1>6, TwoMore
    <3>3. CASE Kind[r] = "response"
      <4>1. Notified(r, <<a, b>>) = Append(told, a)
        BY <1>3, <1>4, <1>6, <3>2, <3>3, OneMore DEF Notified, Settled
      <4> QED
        BY <1>3, <2>1, <2>3, <3>1, <3>2, <3>3, <4>1 DEF Brings, a
    <3>4. CASE Kind[r] # "response"
      <4>1. Notified(r, <<a, b>>) = Append(Append(told, a), b)
        BY <1>3, <3>2, <3>4 DEF Notified
      <4> QED
        BY <1>3, <2>1, <2>3, <3>1, <3>2, <3>4, <4>1 DEF Brings, a, b
    <3> QED
      BY <3>3, <3>4
  <2>4. CASE f.data /\ ~f.complete
    <3>1. PayloadSignals(f) = <<a>> \o <<>>
      BY <2>4 DEF PayloadSignals
    <3> HIDE DEF a
    <3>2. <<a>> \o <<>> = <<a>>
      BY <1>6
    <3>3. Notified(r, <<a>>) = Append(told, a)
      BY <1>3, <1>6, <2>2, <2>4, OneMore DEF Notified
    <3> QED
      BY <1>3, <2>1, <2>2, <2>4, <3>1, <3>2, <3>3 DEF Brings, a
  <2>5. CASE ~f.data /\ f.complete
    <3>1. PayloadSignals(f) = <<>> \o <<b>>
      BY <2>5 DEF PayloadSignals
    <3> HIDE DEF b
    <3>2. <<>> \o <<b>> = <<b>>
      BY <1>6, OneMore
    <3>3. Notified(r, <<b>>) = Append(told, b)
      BY <1>3, <1>4, <1>6, OneMore DEF Notified, Settled
    <3> QED
      BY <1>3, <2>1, <2>5, <3>1, <3>2, <3>3 DEF Brings, b
  <2>6. CASE ~f.data /\ ~f.complete
    <3>1. PayloadSignals(f) = <<>> \o <<>> /\ <<>> \o <<>> = <<>>
      BY <2>6 DEF PayloadSignals
    <3>2. Notified(r, <<>>) = told
      BY <1>3 DEF Notified, Settled
    <3> QED
      BY <1>3, <2>1, <2>6, <3>1, <3>2 DEF Brings
  <2> QED
    BY <1>5, <2>3, <2>4, <2>5, <2>6
<1> QED
  BY <1>7, <1>8

\* A request that has not settled has not been told that it has.
LEMMA NotSettled ==
    ASSUME OInv, NEW r \in Requests, call[r] = "open", Kind[r] \in {"response", "stream"}
    PROVE  \A k \in 1..Len(signals[r]) : signals[r][k].on \notin Settles(r)
<1>1. Progress(r) /\ signals[r] \in Seq(Signal)
  BY DEF OInv, Told, IInv, TypeOK
<1>2. CASE Kind[r] = "response"
  BY <1>1, <1>2 DEF Progress
<1>3. CASE Kind[r] # "response"
  BY <1>1, <1>3 DEF Progress, Settles, Terminal
<1> QED
  BY <1>2, <1>3

\* What r has been told once it has read f: of the items that f follows all.
LEMMA AllSoFar ==
    ASSUME AInv, NEW p \in Peer, ReceivePayload(p) \/ ReceiveError(p),
           NEW f, f = Head(wire[p]), NEW r \in Requests, r = f.req
    PROVE  \A i \in Indices(r) : i <= SoFar(r, f) => Got(r, i)'
<1>0. OInv /\ TypeOK /\ Arriving(r)
  BY DEF AInv, OInv, IInv
<1>1. /\ f.by = "handler" /\ Owner[r] = p
      /\ call[r] = "open" /\ Kind[r] \in {"response", "stream"}
  BY <1>0, ReceiveNews
<1>2. PICK news : NewsOK(r, f, news) /\ signals' = [signals EXCEPT ![r] = Notified(r, news)]
  BY <1>0, ReceiveNews
<1>3. signals'[r] = Notified(r, news)
  BY <1>0, <1>2 DEF TypeOK
<1>4. Kept(r) /\ (Carries(f) => Got(r, f.item)')
  BY <1>0, <1>1, <1>2, <1>3, ReceiveTells
<1>5. 1 \in 1..Len(wire[Owner[r]]) /\ wire[Owner[r]][1] = f
  <2>1. Reads(p, {"PAYLOAD", "ERROR"})
    BY DEF ReceivePayload, ReceiveError, Reads
  <2> QED
    BY <1>0, <1>1, <2>1, ReadWire
<1>6. AllThere(r, SoFar(r, f), 1)
  BY <1>0, <1>1, <1>5 DEF Arriving, Answers
<1>7. ASSUME NEW i \in Indices(r), i <= SoFar(r, f) PROVE Got(r, i)'
  <2>1. i \in Nat /\ i >= 1 /\ emitted[r][i]
    BY <1>0 DEF Indices, TypeOK
  <2>2. SoFar(r, f) \in Int
    <3>1. f \in Frame
      BY <1>0, ReceiveNews
    <3> QED
      BY <1>0, <3>1, RequestAssumption DEF SoFar, Frame, TypeOK
  <2>3. i \in 1..SoFar(r, f)
    BY <1>7, <2>1, <2>2
  <2>4. Got(r, i) \/ OnWay(r, i, 1)
    BY <1>6, <2>1, <2>3 DEF AllThere
  <2>5. OnWay(r, i, 1) => Carries(f) /\ f.item = i
    BY <1>5 DEF OnWay
  <2> QED
    BY <1>4, <2>4, <2>5 DEF Kept
<1> QED
  BY <1>7

\* What the frame f shows of r to the promise.
LEMMA FrameTells ==
    ASSUME AInv, OInv', NEW p \in Peer, ReceivePayload(p) \/ ReceiveError(p),
           NEW f, f = Head(wire[p]), NEW r \in Requests, r = f.req
    PROVE  /\ OutcomeTold(r) = "open"
           /\ OutcomeTold(r)' = IF Last(f) THEN EndOf(r) ELSE "open"
           /\ Last(f) => EndOf(r) # "open"
           /\ ItemsTold(r)' = IF Carries(f) THEN Append(ItemsTold(r), f.item) ELSE ItemsTold(r)
<1>0. OInv /\ IInv /\ TypeOK /\ signals[r] \in Seq(Signal)
  BY DEF AInv, OInv, IInv, TypeOK
<1>1. /\ f \in Frame /\ f.by = "handler" /\ f \in Range(wire[p])
      /\ call[r] = "open" /\ Kind[r] \in {"response", "stream"} /\ AnswerFrameOK(p, f)
      /\ ItemOK(f)
  <2>1. Reads(p, {"PAYLOAD", "ERROR"}) /\ Receiver(p) # NoRequest
    BY DEF ReceivePayload, ReceiveError, Reads
  <2>2. f \in Range(wire[p]) /\ AnswerFrameOK(p, f)
    BY <1>0, <2>1, OwnFrame
  <2> QED
    BY <1>0, <2>2, ReceiveNews
<1>2. Brings(r, f)
  BY <1>0, FrameBrings
<1>3. PICK told \in Seq(Signal) : told = signals[r]
  BY <1>0
<1>4. \A k \in 1..Len(told) : told[k].on \notin Settles(r)
  BY <1>0, <1>1, <1>3, NotSettled
<1>5. OutcomeTold(r) = "open"
  BY <1>0, <1>3, <1>4, OutcomeIsOpen
<1>6. PICK a : a = SignalOf("Next", f)
  OBVIOUS
<1>7. PICK b : b = SignalOf("Complete", f)
  OBVIOUS
<1>8. PICK e : e = SignalOf("Error", f)
  OBVIOUS
<1>9. /\ a \in Signal /\ b \in Signal /\ e \in Signal
      /\ a.on = "Next" /\ b.on = "Complete" /\ e.on = "Error" /\ a.item = f.item
  BY <1>1, <1>6, <1>7, <1>8 DEF SignalOf, Signal, Frame
<1>10. /\ f.type = "ERROR" => handler[r] = "failed"
       /\ f.complete => handler[r] = "completed"
  BY <1>1 DEF AnswerFrameOK
<1>11. /\ b.on \in Settles(r) /\ e.on \in Settles(r)
       /\ a.on \in Settles(r) <=> Kind[r] = "response"
  BY <1>9 DEF Settles
<1>12. f.complete \in BOOLEAN /\ f.data \in BOOLEAN
  BY <1>1 DEF Frame
<1>13. PICK items : items = ItemsIn(told)
  OBVIOUS
<1>14. CASE f.type = "ERROR" /\ signals'[r] = Append(told, e)
  <2>1. Last(f) /\ ~Carries(f)
    BY <1>14 DEF Last, Carries
  <2>2. EndOf(r) = "failed"
    BY <1>10, <1>14 DEF EndOf
  <2>3. OutcomeTold(r)' = "failed"
    BY <1>3, <1>4, <1>9, <1>11, <1>14, OutcomeMore
  <2>4. ItemsTold(r)' = items
    BY <1>9, <1>13, <1>14, ItemsInMore DEF ItemsTold
  <2> QED
    BY <1>3, <1>5, <1>13, <2>1, <2>2, <2>3, <2>4 DEF ItemsTold
<1>15. CASE /\ f.type = "PAYLOAD" /\ f.data /\ f.complete /\ Kind[r] # "response"
            /\ signals'[r] = Append(Append(told, a), b)
  <2>1. Last(f) /\ Carries(f)
    BY <1>1, <1>15 DEF Last, Carries
  <2>2. EndOf(r) = "completed"
    BY <1>10, <1>15 DEF EndOf
  <2>3. PICK more : more = Append(told, a)
    OBVIOUS
  <2>4. more \in Seq(Signal) /\ ItemsIn(more) = Append(items, f.item)
    BY <1>9, <1>13, <2>3, ItemsInMore
  <2>5. ItemsTold(r)' = ItemsIn(more)
    BY <1>9, <1>15, <2>3, <2>4, ItemsInMore DEF ItemsTold
  <2>6. OutcomeTold(r)' = "completed"
    <3>1. /\ Len(more) = Len(told) + 1 /\ more[Len(told) + 1] = a
          /\ \A k \in 1..Len(told) : more[k] = told[k]
      BY <1>9, <2>3
    <3>2. PICK l : l = signals'[r]
      OBVIOUS
    <3>3. Range(l) = Range(told) \cup {a, b}
      <4>1. Range(more) = Range(told) \cup {a}
        BY <1>9, <2>3, RangeOfAppend
      <4>2. l = Append(more, b)
        BY <1>15, <2>3, <3>2
      <4>3. Range(l) = Range(more) \cup {b}
        BY <1>9, <2>4, <4>2, RangeOfAppend
      <4> QED
        BY <4>1, <4>3
    <3>4. \A s \in Range(told) : s.on \notin Settles(r)
      BY <1>3, <1>4 DEF Range
    <3>5. \A s \in Range(l) : s.on # "Error"
      BY <1>9, <3>3, <3>4 DEF Settles
    <3>6. \E s \in Range(l) : s.on = "Complete"
      BY <1>9, <3>3
    <3> QED
      BY <3>2, <3>5, <3>6 DEF OutcomeTold
  <2> QED
    BY <1>3, <1>5, <1>13, <2>1, <2>2, <2>4, <2>5, <2>6 DEF ItemsTold
<1>16. CASE /\ f.type = "PAYLOAD" /\ f.data /\ (f.complete <=> Kind[r] = "response")
            /\ signals'[r] = Append(told, a)
  <2>1. (Last(f) <=> f.complete) /\ Carries(f)
    BY <1>1, <1>16 DEF Last, Carries
  <2>2. f.complete => EndOf(r) = "completed"
    BY <1>10, <1>16 DEF EndOf
  <2>3. OutcomeTold(r)' = IF f.complete THEN "completed" ELSE "open"
    BY <1>3, <1>4, <1>9, <1>11, <1>12, <1>16, OutcomeMore
  <2>4. ItemsTold(r)' = Append(items, f.item)
    BY <1>9, <1>13, <1>16, ItemsInMore DEF ItemsTold
  <2> QED
    BY <1>3, <1>5, <1>12, <1>13, <2>1, <2>2, <2>3, <2>4 DEF ItemsTold
<1>17. CASE f.type = "PAYLOAD" /\ ~f.data /\ f.complete /\ signals'[r] = Append(told, b)
  <2>1. Last(f) /\ ~Carries(f)
    BY <1>1, <1>17 DEF Last, Carries
  <2>2. EndOf(r) = "completed"
    BY <1>10, <1>17 DEF EndOf
  <2>3. OutcomeTold(r)' = "completed"
    BY <1>3, <1>4, <1>9, <1>11, <1>17, OutcomeMore
  <2>4. ItemsTold(r)' = items
    BY <1>9, <1>13, <1>17, ItemsInMore DEF ItemsTold
  <2> QED
    BY <1>3, <1>5, <1>13, <2>1, <2>2, <2>3, <2>4 DEF ItemsTold
<1>18. CASE f.type = "PAYLOAD" /\ ~f.data /\ ~f.complete /\ signals'[r] = told
  <2>1. ~Last(f) /\ ~Carries(f)
    BY <1>1, <1>18 DEF Last, Carries
  <2>2. OutcomeTold(r)' = "open" /\ ItemsTold(r)' = ItemsTold(r)
    BY <1>3, <1>5, <1>18 DEF OutcomeTold, ItemsTold
  <2> QED
    BY <1>5, <2>1, <2>2
<1> QED
  BY <1>2, <1>3, <1>6, <1>7, <1>8, <1>14, <1>15, <1>16, <1>17, <1>18 DEF Brings

LEMMA ReceiverIsTold ==
    ASSUME AInv, OInv', NEW p \in Peer, ReceivePayload(p) \/ ReceiveError(p),
           NEW r \in Requests, r = Head(wire[p]).req
    PROVE  PromiseStep(r)
<1>1. PICK f : f = Head(wire[p])
  OBVIOUS
<1>2. OInv /\ TypeOK /\ signals[r] \in Seq(Signal) /\ signals'[r] \in Seq(Signal)
  BY DEF AInv, OInv, IInv, TypeOK
<1>3. link' = link /\ emitted' = emitted /\ handler' = handler
  BY DEF ReceivePayload, ReceiveError, handlerVars
<1>4. PICK a : a = ItemsTold(r)
  OBVIOUS
<1>5. PICK b : b = ItemsWithData(r)
  OBVIOUS
<1>6. PICK c : c = ItemsTold(r)'
  OBVIOUS
<1>7. ItemsWithData(r)' = b /\ EndOf(r)' = EndOf(r) /\ Broken' = Broken
  BY <1>3, <1>5 DEF ItemsWithData, Indices, EndOf, Broken
<1>8. /\ OutcomeTold(r) = "open"
      /\ OutcomeTold(r)' = IF Last(f) THEN EndOf(r) ELSE "open"
      /\ Last(f) => EndOf(r) # "open"
      /\ c = IF Carries(f) THEN Append(a, f.item) ELSE a
  BY <1>1, <1>4, <1>6, FrameTells
<1>9. PICK now : now = signals'[r]
  OBVIOUS
<1>10. ToldInOrder(now, emitted[r])
  BY <1>3, <1>9 DEF OInv, Told, OrderAt, ToldInOrder
<1>11. \A i \in Indices(r) : i <= SoFar(r, f) => Includes(now, i)
  <2>1. r = f.req
    BY <1>1
  <2>2. \A i \in Indices(r) : i <= SoFar(r, f) => Got(r, i)'
    BY <1>1, <2>1, AllSoFar
  <2> QED
    BY <1>9, <2>2 DEF Got, Includes
<1>12. f \in Frame
  BY <1>1, <1>2, ReceiveNews
<1>13. Last(f) => c = b
  <2> SUFFICES ASSUME Last(f) PROVE c = b
    OBVIOUS
  <2>1. SoFar(r, f) = Len(emitted[r])
    BY DEF SoFar
  <2>2. \A i \in Indices(r) : i <= Len(emitted[r])
    BY <1>2 DEF Indices, TypeOK
  <2>3. \A i \in Indices(r) : Includes(now, i)
    BY <1>11, <2>1, <2>2
  <2>4. now \in Seq(Signal)
    BY <1>2, <1>9
  <2>5. ItemsIn(now) = ItemsWithData(r)
    BY <1>2, <1>10, <2>3, <2>4, AllIsTold
  <2> QED
    BY <1>5, <1>6, <1>9, <2>5 DEF ItemsTold
<1>14. Carries(f) => Len(a) < Len(b) /\ f.item = b[Len(a) + 1]
  <2> SUFFICES ASSUME Carries(f) PROVE Len(a) < Len(b) /\ f.item = b[Len(a) + 1]
    OBVIOUS
  <2>1. PICK told \in Seq(Signal) : told = signals[r]
    BY <1>2
  <2>2. now \in Seq(Signal) /\ f.item \in 0..MaxItems
    BY <1>2, <1>9, <1>12 DEF Frame
  <2>3. a = ItemsIn(told) /\ ItemsIn(now) = Append(ItemsIn(told), f.item)
    BY <1>4, <1>6, <1>8, <1>9, <2>1 DEF ItemsTold
  <2>4. \A i \in Indices(r) : i <= f.item => i <= SoFar(r, f)
    BY <1>2 DEF SoFar, Indices, TypeOK
  <2>5. \A i \in Indices(r) : i <= f.item => Includes(now, i)
    BY <1>11, <2>4
  <2>6. /\ Len(ItemsIn(told)) < Len(ItemsWithData(r))
        /\ f.item = ItemsWithData(r)[Len(ItemsIn(told)) + 1]
    BY <1>2, <1>10, <2>2, <2>3, <2>5, NextIsTold
  <2> QED
    BY <1>5, <2>3, <2>6
<1>15. CASE Carries(f)
  <2>1. Promise(r)!Deliver
    BY <1>4, <1>5, <1>6, <1>8, <1>14, <1>15 DEF Promise!Deliver
  <2>2. CASE Last(f)
    <3>1. Promise(r)!Conclude
      BY <1>5, <1>6, <1>8, <1>13, <2>2 DEF Promise!Conclude
    <3> QED
      BY <1>5, <1>7, <1>8, <2>1, <3>1 DEF PromiseStep, Promise!Next, Promise!Tell
  <2>3. CASE ~Last(f)
    BY <1>5, <1>7, <1>8, <2>1, <2>3 DEF PromiseStep, Promise!Next, Promise!Tell
  <2> QED
    BY <2>2, <2>3
<1>16. CASE ~Carries(f)
  <2>1. ItemsTold(r)' = ItemsTold(r)
    BY <1>4, <1>6, <1>8, <1>16
  <2>2. CASE Last(f)
    <3>1. Promise(r)!Conclude
      BY <1>5, <1>6, <1>8, <1>13, <2>2 DEF Promise!Conclude
    <3> QED
      BY <1>5, <1>7, <1>8, <2>1, <3>1 DEF PromiseStep, Promise!Next, Promise!Tell
  <2>3. CASE ~Last(f)
    BY <1>5, <1>7, <1>8, <2>1, <2>3 DEF PromiseStep, Promise!vars
  <2> QED
    BY <2>2, <2>3
<1> QED
  BY <1>15, <1>16

LEMMA ReceiveKeepsPromise ==
    ASSUME AInv, [Next]_vars, OInv', NEW p \in Peer, Receive(p), NEW r \in Requests
    PROVE  PromiseStep(r)
<1>0. OInv /\ IInv /\ TypeOK
  BY DEF AInv, OInv, IInv
<1>1. emitted' = emitted
  BY DEF Receive, HandleRequest, IgnoreRequest, ReceivePayload, ReceiveError, Drop, handlerVars
<1>2. CASE HandleRequest(p) \/ IgnoreRequest(p) \/ Drop(p)
  <2>1. signals' = signals
    BY <1>2 DEF HandleRequest, IgnoreRequest, Drop, callVars
  <2>2. EndOf(r)' = EndOf(r)
    <3>1. CASE HandleRequest(p)
      <4>1. PICK f : f = Head(wire[p])
        OBVIOUS
      <4>2. f.type = "REQUEST" /\ handler' = [handler EXCEPT ![f.req] = "running"]
        BY <3>1, <4>1 DEF HandleRequest, Reads
      <4>3. f \in Range(wire[p])
        BY <1>0, <3>1, <4>1, ReadFrames DEF HandleRequest, IInv
      <4>4. handler[f.req] = "none"
        BY <1>0, <4>2, <4>3 DEF IInv, FramesOK, FrameOK, RequestFrameOK
      <4> QED
        BY <1>0, <4>2, <4>4 DEF TypeOK, EndOf
    <3>2. CASE IgnoreRequest(p) \/ Drop(p)
      BY <3>2 DEF IgnoreRequest, Drop, handlerVars, EndOf
    <3> QED
      BY <1>2, <3>1, <3>2
  <2> QED
    BY <1>0, <1>1, <2>1, <2>2, QuietStep
<1>3. CASE ReceivePayload(p) \/ ReceiveError(p)
  <2>1. PICK f : f = Head(wire[p])
    OBVIOUS
  <2>2. CASE r = f.req
    BY <1>3, <2>1, <2>2, ReceiverIsTold
  <2>3. CASE r # f.req
    <3>1. \E news : signals' = [signals EXCEPT ![f.req] = Notified(f.req, news)]
      BY <1>0, <1>3, <2>1, ReceiveNews
    <3>2. signals'[r] = signals[r]
      BY <1>0, <2>3, <3>1 DEF TypeOK
    <3>3. EndOf(r)' = EndOf(r)
      BY <1>3 DEF ReceivePayload, ReceiveError, handlerVars, EndOf
    <3> QED
      BY <1>0, <1>1, <3>2, <3>3, QuietStep
  <2> QED
    BY <2>2, <2>3
<1> QED
  BY <1>2, <1>3 DEF Receive

LEMMA InitPromise ==
    ASSUME Init, NEW r \in Requests
    PROVE  Promise(r)!Init
<1>1. emitted[r] = <<>> /\ signals[r] = <<>> /\ handler[r] = "none" /\ \A p \in Peer : link[p] = "up"
  BY DEF Init
<1>2. \A S : S = {} => Ascending(S) = <<>>
  <2> SUFFICES ASSUME NEW S, S = {} PROVE Ascending(S) = <<>>
    OBVIOUS
  <2>1. S \subseteq 1..0 /\ 0 \in Nat
    OBVIOUS
  <2>2. Cardinality(S) \in 0..0 /\ Ascending(S) \in Seq(S) /\ Len(Ascending(S)) = Cardinality(S)
    BY <2>1, AscendingIs
  <2> QED
    BY <2>2
<1>3. ItemsWithData(r) = <<>>
  <2>1. Indices(r) = {}
    BY <1>1 DEF Indices
  <2> QED
    BY <1>2, <2>1 DEF ItemsWithData
<1>4. ItemsTold(r) = <<>>
  <2>1. NextsIn(signals[r]) = {}
    BY <1>1 DEF NextsIn
  <2>2. Ascending(NextsIn(signals[r])) = <<>> /\ DOMAIN <<>> = {}
    BY <1>2, <2>1
  <2> QED
    BY <2>2 DEF ItemsTold, ItemsIn
<1>5. OutcomeTold(r) = "open"
  <2>1. Range(signals[r]) = {}
    BY <1>1 DEF Range
  <2> QED
    BY <2>1 DEF OutcomeTold
<1>6. EndOf(r) = "open" /\ Broken = FALSE
  BY <1>1 DEF EndOf, Broken
<1> QED
  BY <1>3, <1>4, <1>5, <1>6 DEF Promise!Init

LEMMA NextKeepsPromise ==
    ASSUME AInv, [Next]_vars, NEW r \in Requests, Kind[r] \in {"response", "stream"}
    PROVE  PromiseStep(r)
<1>0. OInv' /\ OInv /\ TypeOK
  BY NextOInv DEF AInv, OInv, IInv
<1>1. ASSUME NEW s \in Requests, Call(s) PROVE PromiseStep(r)
  BY <1>1, CallIsQuiet
<1>2. ASSUME NEW s \in Requests, Handle(s) PROVE PromiseStep(r)
  BY <1>2, HandleKeepsPromise
<1>3. ASSUME NEW p \in Peer, Receive(p) PROVE PromiseStep(r)
  BY <1>0, <1>3, ReceiveKeepsPromise
<1>4. ASSUME NEW p \in Peer, Disconnect(p) PROVE PromiseStep(r)
  <2>1. signals' = signals /\ emitted' = emitted /\ handler' = handler
    BY <1>4 DEF Disconnect, callVars, handlerVars
  <2> QED
    BY <1>0, <2>1, QuietStep DEF EndOf
<1>5. CASE UNCHANGED vars
  <2>1. signals' = signals /\ emitted' = emitted /\ handler' = handler
    BY <1>5 DEF vars, callVars, handlerVars
  <2> QED
    BY <1>0, <2>1, QuietStep DEF EndOf
<1> QED
  BY <1>1, <1>2, <1>3, <1>4, <1>5 DEF Next

\* Where answers are read in turn the protocol implements, for each
\* requestResponse and each requestStream, what RSocket.ts promises of it, for
\* any requests beside it, any number of payloads, any turns of the identifiers
\* and any break of the connection: the caller is told what its handler has
\* produced, in order, all of it before it is told how the handler has ended,
\* and never anything else.
THEOREM PromiseIsKept ==
    AckFirst /\ Spec =>
        \A r \in Requests : Kind[r] \in {"response", "stream"} => Promise(r)!Safe
<1> SUFFICES ASSUME NEW r \in Requests, Kind[r] \in {"response", "stream"}
             PROVE  AckFirst /\ Spec => Promise(r)!Safe
  OBVIOUS
<1>1. Init => Promise(r)!Init
  BY InitPromise
<1>2. AInv /\ [Next]_vars => [Promise(r)!Next]_(Promise(r)!vars)
  BY NextKeepsPromise DEF PromiseStep
<1> QED
  BY <1>1, <1>2, InitAInv, NextAInv, PTL DEF Spec, Promise!Safe
=============================================================================
