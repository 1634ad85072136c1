---------------------------- MODULE LifecycleProofs ----------------------------
(***************************************************************************)
(* Proofs about Lifecycle for any bounds, any losses and both transports.  *)
(***************************************************************************)
EXTENDS Lifecycle, SequenceTheorems, TLAPS

LEMMA OtherPeer ==
    ASSUME NEW p \in Peer
    PROVE  Other(p) \in Peer /\ Other(p) # p
BY PeerAssumption DEF Other, Peer

LEMMA FrameType ==
    ASSUME NEW type \in Types
    PROVE  F(type) \in Frame
BY DEF F, Frame

-----------------------------------------------------------------------------
(* Type correctness                                                        *)

LEMMA SendType ==
    ASSUME TypeOK, NEW p \in Peer, NEW f \in Frame
    PROVE  [wire EXCEPT ![Other(p)] = Append(@, f)] \in [Peer -> Seq(Frame)]
<1>1. wire[Other(p)] \in Seq(Frame)
  BY OtherPeer DEF TypeOK
<1>2. Append(wire[Other(p)], f) \in Seq(Frame)
  BY <1>1
<1> QED
  BY <1>2, OtherPeer DEF TypeOK

LEMMA WriteType ==
    ASSUME TypeOK, NEW p \in Peer, NEW f \in Frame, Write(p, f)
    PROVE  wire' \in [Peer -> Seq(Frame)] /\ alive' \in [Peer -> BOOLEAN]
<1>1. wire' \in [Peer -> Seq(Frame)]
  <2>1. [wire EXCEPT ![Other(p)] = Append(@, f)] \in [Peer -> Seq(Frame)]
    BY SendType
  <2>2. wire \in [Peer -> Seq(Frame)]
    BY DEF TypeOK
  <2> QED
    BY <2>1, <2>2 DEF Write
<1>2. alive' \in [Peer -> BOOLEAN]
  BY DEF Write, TypeOK
<1> QED
  BY <1>1, <1>2

LEMMA HangUpType ==
    ASSUME TypeOK, NEW p \in Peer, HangUp(p)
    PROVE  /\ wire' \in [Peer -> Seq(Frame)]
           /\ socket' \in [Peer -> {"none", "open", "lost", "closing", "closed"}]
<1>1. F("CLOSE") \in Frame
  BY FrameType DEF Types
<1>2. wire' \in [Peer -> Seq(Frame)]
  <2>1. [wire EXCEPT ![Other(p)] = Append(@, F("CLOSE"))] \in [Peer -> Seq(Frame)]
    BY <1>1, SendType
  <2>2. wire \in [Peer -> Seq(Frame)]
    BY DEF TypeOK
  <2> QED
    BY <2>1, <2>2 DEF HangUp
<1>3. socket' \in [Peer -> {"none", "open", "lost", "closing", "closed"}]
  BY DEF HangUp, TypeOK
<1> QED
  BY <1>2, <1>3

\* What a step of the parser makes of a chunk: frames that it finds, which are as
\* early as the one it leaves, and what is left from the k-th on.
LEMMA NextFrameParts ==
    ASSUME TypeOK, NEW p \in Peer, chunk[p] # <<>>, NextFrame(p)
    PROVE  \E found \in Seq(Frame) : \E k \in 2..(Len(chunk[p]) + 1) :
               /\ chunk' = [chunk EXCEPT ![p] = found \o SubSeq(@, k, Len(@))]
               /\ SubSeq(chunk[p], k, Len(chunk[p])) \in Seq(Frame)
               /\ \A i \in 1..Len(found) : found[i].early = Head(chunk[p]).early
               /\ setupLost' = (setupLost \/ (p = Server /\ HasSetup(SubSeq(chunk[p], 2, k - 1))))
               /\ foreign' \in 0..MaxForeign
<1>1. chunk[p] \in Seq(Frame) /\ foreign \in 0..MaxForeign
  BY DEF TypeOK
<1>2. Head(chunk[p]) \in Frame
  BY <1>1
<1>3. PICK n \in 0..(MaxForeign - foreign) : \E found \in [1..n -> Stray(p)] :
          \E k \in 2..(Len(chunk[p]) + 1) :
              /\ chunk' = [chunk EXCEPT ![p] = found \o SubSeq(@, k, Len(@))]
              /\ foreign' = foreign + n
              /\ setupLost' = (setupLost \/ (p = Server /\ HasSetup(SubSeq(chunk[p], 2, k - 1))))
  BY DEF NextFrame
<1>4. PICK found \in [1..n -> Stray(p)], k \in 2..(Len(chunk[p]) + 1) :
          /\ chunk' = [chunk EXCEPT ![p] = found \o SubSeq(@, k, Len(@))]
          /\ foreign' = foreign + n
          /\ setupLost' = (setupLost \/ (p = Server /\ HasSetup(SubSeq(chunk[p], 2, k - 1))))
  BY <1>3
<1>5. n \in Nat /\ foreign' \in 0..MaxForeign
  BY <1>1, <1>4, BoundAssumption
<1>6. Stray(p) \subseteq Frame
  BY <1>2 DEF Stray, Frame, Types
<1>7. found \in [1..n -> Frame]
  BY <1>4, <1>6
<1>8. found \in Seq(Frame) /\ Len(found) = n
  BY <1>5, <1>7, SeqDef
<1>9. \A i \in 1..Len(found) : found[i].early = Head(chunk[p]).early
  BY <1>4, <1>8 DEF Stray
<1>10. SubSeq(chunk[p], k, Len(chunk[p])) \in Seq(Frame)
  BY <1>1, <1>4, SubSeqProperties
<1> QED
  BY <1>4, <1>5, <1>8, <1>9, <1>10

LEMMA NextFrameType ==
    ASSUME TypeOK, NEW p \in Peer, chunk[p] # <<>>, NextFrame(p)
    PROVE  /\ chunk' \in [Peer -> Seq(Frame)] /\ Head(chunk[p]) \in Frame
           /\ foreign' \in 0..MaxForeign /\ setupLost' \in BOOLEAN
<1>1. chunk[p] \in Seq(Frame) /\ setupLost \in BOOLEAN
  BY DEF TypeOK
<1>2. Head(chunk[p]) \in Frame
  BY <1>1
<1>3. PICK found \in Seq(Frame), k \in 2..(Len(chunk[p]) + 1) :
          /\ chunk' = [chunk EXCEPT ![p] = found \o SubSeq(@, k, Len(@))]
          /\ SubSeq(chunk[p], k, Len(chunk[p])) \in Seq(Frame)
          /\ setupLost' = (setupLost \/ (p = Server /\ HasSetup(SubSeq(chunk[p], 2, k - 1))))
          /\ foreign' \in 0..MaxForeign
  BY NextFrameParts
<1>4. found \o SubSeq(chunk[p], k, Len(chunk[p])) \in Seq(Frame)
  BY <1>3, ConcatProperties
<1>5. chunk' \in [Peer -> Seq(Frame)]
  BY <1>3, <1>4 DEF TypeOK
<1>6. setupLost' \in BOOLEAN
  BY <1>1, <1>3 DEF HasSetup
<1> QED
  BY <1>2, <1>3, <1>5, <1>6

LEMMA InitType == Init => TypeOK
<1> SUFFICES ASSUME Init PROVE TypeOK
  OBVIOUS
<1>1. <<>> \in Seq(Frame)
  OBVIOUS
<1>2. chunk \in [Peer -> Seq(Frame)] /\ wire \in [Peer -> Seq(Frame)]
  BY <1>1 DEF Init
<1>3. requests \in [Peer -> 0..MaxRequests] /\ foreign \in 0..MaxForeign
  BY BoundAssumption DEF Init
<1> QED
  BY <1>2, <1>3 DEF Init, TypeOK

LEMMA ConnectingType ==
    ASSUME TypeOK,
           \/ \E early \in EarlyRequests : Connect(early)
           \/ ConnectRefused \/ SetupWritten \/ SetupFails
    PROVE  TypeOK'
<1> USE DEF ioVars, countVars, parseVars
<1>1. ASSUME NEW early \in EarlyRequests, Connect(early) PROVE TypeOK'
  <2>1. \A type \in RequestTypes : F(type) \in Frame
    BY FrameType DEF Types, FrameTypes
  <2>2. FirstFrames(early) \in Seq(Frame)
    <3>1. F("SETUP") \in Frame
      BY FrameType DEF Types, FrameTypes
    <3>2. early \in Seq(Frame)
      <4>1. CASE early = <<>>
        BY <4>1
      <4>2. ASSUME NEW type \in RequestTypes, early = <<F(type)>>
            PROVE  early \in Seq(Frame)
        <5>1. F(type) \in Frame
          BY <2>1
        <5> QED
          BY <4>2, <5>1
      <4> QED
        BY <4>1, <4>2 DEF EarlyRequests
    <3>3. <<F("SETUP")>> \in Seq(Frame)
      BY <3>1
    <3> QED
      BY <3>2, <3>3, ConcatProperties DEF FirstFrames
  <2>3. wire' \in [Peer -> Seq(Frame)]
    BY <1>1, <2>2 DEF Connect, TypeOK, Peer
  <2> QED
    BY <1>1, <2>3 DEF Connect, TypeOK
<1>2. CASE ConnectRefused
  BY <1>2 DEF ConnectRefused, TypeOK
<1>3. CASE SetupWritten
  BY <1>3 DEF SetupWritten, TypeOK
<1>4. CASE SetupFails
  BY <1>4 DEF SetupFails, TypeOK
<1> QED
  BY <1>1, <1>2, <1>3, <1>4

LEMMA UseType ==
    ASSUME TypeOK, NEW p \in Peer, Request(p) \/ Close(p) \/ Closed(p) \/ Tick
    PROVE  TypeOK'
<1> USE DEF connVars, countVars, parseVars
<1>1. (\A type \in RequestTypes : F(type) \in Frame) /\ F("KEEPALIVE") \in Frame
  BY FrameType DEF Types, FrameTypes
<1>2. CASE Request(p)
  <2>1. wire' \in [Peer -> Seq(Frame)] /\ alive' \in [Peer -> BOOLEAN]
    BY <1>1, <1>2, WriteType DEF Request, TypeOK
  <2>2. requests' \in [Peer -> 0..MaxRequests]
    BY <1>2, BoundAssumption DEF Request, TypeOK
  <2> QED
    BY <1>2, <2>1, <2>2 DEF Request, TypeOK
<1>3. CASE Close(p)
  BY <1>3, HangUpType DEF Close, TypeOK
<1>4. CASE Closed(p)
  BY <1>4 DEF Closed, TypeOK
<1>5. CASE Tick
  <2>1. wire' \in [Peer -> Seq(Frame)] /\ alive' \in [Peer -> BOOLEAN]
    BY <1>1, <1>5, WriteType DEF Tick, TypeOK, Peer
  <2> QED
    BY <1>5, <2>1 DEF Tick, TypeOK
<1> QED
  BY <1>2, <1>3, <1>4, <1>5

\* The frames that a read takes and those that it leaves.
LEMMA Parts ==
    ASSUME NEW s \in Seq(Frame), NEW n \in 1..Len(s)
    PROVE  /\ SubSeq(s, 1, n) \in Seq(Frame) /\ Len(SubSeq(s, 1, n)) = n
           /\ SubSeq(s, n + 1, Len(s)) \in Seq(Frame)
           /\ Len(SubSeq(s, n + 1, Len(s))) = Len(s) - n
           /\ \A k \in 1..n : SubSeq(s, 1, n)[k] = s[k]
           /\ \A k \in 1..(Len(s) - n) : SubSeq(s, n + 1, Len(s))[k] = s[n + k]
OBVIOUS

LEMMA LoopType ==
    ASSUME TypeOK, NEW p \in Peer, Read(p) \/ EndOfFile(p) \/ ReadFails(p) \/ WsEnds(p)
    PROVE  TypeOK'
<1> USE DEF connVars, countVars, parseVars
<1>1. wire[p] \in Seq(Frame) /\ F("CLOSE") \in Frame
  BY FrameType DEF TypeOK, Types
<1>2. CASE Read(p)
  <2>1. PICK n \in 1..Len(wire[p]) :
          /\ chunk' = [chunk EXCEPT ![p] = SubSeq(wire[p], 1, n)]
          /\ wire' = [wire EXCEPT ![p] = SubSeq(@, n + 1, Len(@))]
    BY <1>2 DEF Read
  <2>2. chunk' \in [Peer -> Seq(Frame)] /\ wire' \in [Peer -> Seq(Frame)]
    BY <1>1, <2>1, Parts DEF TypeOK
  <2> QED
    BY <1>2, <2>2 DEF Read, TypeOK
<1>3. CASE EndOfFile(p)
  BY <1>3 DEF EndOfFile, TypeOK
<1>4. CASE ReadFails(p)
  BY <1>4 DEF ReadFails, TypeOK
<1>5. CASE WsEnds(p)
  <2>1. ASSUME wire[p] # <<>>
        PROVE  [wire EXCEPT ![p] = Tail(@), ![Other(p)] = Append(@, F("CLOSE"))]
                   \in [Peer -> Seq(Frame)]
    <3>1. Tail(wire[p]) \in Seq(Frame)
      BY <1>1, <2>1
    <3>2. Append(wire[Other(p)], F("CLOSE")) \in Seq(Frame)
      BY <1>1, OtherPeer DEF TypeOK
    <3> QED
      BY <3>1, <3>2, OtherPeer DEF TypeOK
  <2>2. wire' \in [Peer -> Seq(Frame)]
    BY <1>5, <2>1 DEF WsEnds, TypeOK
  <2> QED
    BY <1>5, <2>2 DEF WsEnds, AfterIteration, TypeOK
<1> QED
  BY <1>2, <1>3, <1>4, <1>5

LEMMA TakeType ==
    ASSUME TypeOK, NEW p \in Peer, AcceptSetup \/ RefuseSetup \/ DropFrame \/ Take(p)
    PROVE  TypeOK'
<1> USE DEF connVars, parseVars, Takes, Peer
<1>1. F("KEEPALIVE") \in Frame /\ F("TEXT") \in Frame
  BY FrameType DEF Types, FrameTypes
<1>2. CASE AcceptSetup
  BY <1>2, NextFrameType DEF AcceptSetup, Accepted, TypeOK, countVars
<1>3. CASE RefuseSetup
  BY <1>3, HangUpType DEF RefuseSetup, TypeOK, countVars
<1>4. CASE DropFrame
  BY <1>4, NextFrameType DEF DropFrame, TypeOK
<1>5. CASE ServeFrame(p)
  BY <1>5, NextFrameType DEF ServeFrame, TypeOK, countVars
<1>6. CASE ServePing(p)
  BY <1>1, <1>6, NextFrameType, WriteType DEF ServePing, ReplyType, TypeOK, countVars
<1>7. CASE TakeText(p)
  <2>1. wire' \in [Peer -> Seq(Frame)]
    BY <1>1, <1>7, OtherPeer DEF TakeText, TypeOK
  <2> QED
    BY <1>7, <2>1, NextFrameType DEF TakeText, TypeOK, countVars
<1> QED
  BY <1>2, <1>3, <1>4, <1>5, <1>6, <1>7 DEF Take

LEMMA EnvironmentType ==
    ASSUME TypeOK, NEW p \in Peer, Foreign(p) \/ Lose(p)
    PROVE  TypeOK'
<1> USE DEF connVars, parseVars
<1>1. CASE Foreign(p)
  <2>1. PICK type \in {"PING", "SETUP", "ERROR", "TEXT"} :
          wire' = [wire EXCEPT ![Other(p)] = Append(@, F(type))]
    BY <1>1 DEF Foreign
  <2>2. F(type) \in Frame
    BY FrameType DEF Types, FrameTypes
  <2>3. wire' \in [Peer -> Seq(Frame)]
    BY <2>1, <2>2, OtherPeer DEF TypeOK
  <2>4. foreign' \in 0..MaxForeign
    BY <1>1, BoundAssumption DEF Foreign, TypeOK
  <2> QED
    BY <1>1, <2>3, <2>4 DEF Foreign, TypeOK, countVars
<1>2. CASE Lose(p)
  BY <1>2 DEF Lose, TypeOK, countVars
<1> QED
  BY <1>1, <1>2

LEMMA NextType == TypeOK /\ [Next]_vars => TypeOK'
<1> SUFFICES ASSUME TypeOK, [Next]_vars PROVE TypeOK'
  OBVIOUS
<1>1. CASE UNCHANGED vars
  BY <1>1 DEF vars, connVars, ioVars, countVars, parseVars, TypeOK
<1>2. Client \in Peer
  BY DEF Peer
<1>3. CASE Next
  BY <1>2, <1>3, ConnectingType, UseType, LoopType, TakeType, EnvironmentType DEF Next
<1> QED
  BY <1>1, <1>3

\* Every variable keeps its type: TypeOK, for any bounds.
THEOREM TypeCorrect == Spec => []TypeOK
BY InitType, NextType, PTL DEF Spec

-----------------------------------------------------------------------------
(* The server's loop meets its SETUP first                                 *)

LEMMA AppendKeeps ==
    ASSUME NEW s \in Seq(Frame), NEW f \in Frame
    PROVE  /\ HasSetup(s) => HasSetup(Append(s, f))
           /\ SetupFirst(s) /\ (f.early \/ HasSetup(s)) => SetupFirst(Append(s, f))
<1> DEFINE t == Append(s, f)
<1>1. /\ Len(s) \in Nat /\ Len(t) = Len(s) + 1
      /\ \A k \in 1..Len(s) : t[k] = s[k]
      /\ t[Len(s) + 1] = f
  OBVIOUS
<1>2. HasSetup(s) => HasSetup(t)
  BY <1>1 DEF HasSetup
<1>3. ASSUME SetupFirst(s), f.early \/ HasSetup(s), NEW k \in 1..Len(t)
      PROVE  t[k].early \/ \E j \in 1..(k - 1) : t[j].type = "SETUP"
  <2>1. CASE k \in 1..Len(s)
    BY <1>1, <1>3, <2>1 DEF SetupFirst
  <2>2. CASE k = Len(s) + 1
    BY <1>1, <1>3, <2>2 DEF HasSetup
  <2> QED
    BY <1>1, <2>1, <2>2
<1> QED
  BY <1>2, <1>3 DEF SetupFirst

LEMMA TailKeeps ==
    ASSUME NEW s \in Seq(Frame), s # <<>>, Head(s).type # "SETUP"
    PROVE  /\ HasSetup(s) => HasSetup(Tail(s))
           /\ SetupFirst(s) => SetupFirst(Tail(s))
<1> DEFINE t == Tail(s)
<1>1. /\ Len(s) \in Nat \ {0} /\ Len(t) = Len(s) - 1
      /\ \A k \in 1..Len(t) : t[k] = s[k + 1]
      /\ s[1].type # "SETUP"
  OBVIOUS
<1>2. ASSUME HasSetup(s) PROVE HasSetup(t)
  <2>1. PICK k \in 1..Len(s) : s[k].type = "SETUP"
    BY <1>2 DEF HasSetup
  <2>2. k - 1 \in 1..Len(t) /\ t[k - 1] = s[k]
    BY <1>1, <2>1
  <2> QED
    BY <2>1, <2>2 DEF HasSetup
<1>3. ASSUME SetupFirst(s), NEW k \in 1..Len(t)
      PROVE  t[k].early \/ \E j \in 1..(k - 1) : t[j].type = "SETUP"
  <2>1. k + 1 \in 1..Len(s) /\ t[k] = s[k + 1]
    BY <1>1
  <2>2. CASE \E i \in 1..k : s[i].type = "SETUP"
    <3>1. PICK i \in 1..k : s[i].type = "SETUP"
      BY <2>2
    <3>2. i - 1 \in 1..(k - 1) /\ t[i - 1] = s[i]
      BY <1>1, <3>1
    <3> QED
      BY <3>1, <3>2
  <2>3. CASE s[k + 1].early
    BY <2>1, <2>3
  <2> QED
    BY <1>3, <2>1, <2>2, <2>3 DEF SetupFirst
<1> QED
  BY <1>2, <1>3 DEF SetupFirst

\* A step of the parser behind a frame that is no SETUP: what it finds is as
\* early as that one, and unless it misses a SETUP what it leaves keeps its order.
LEMMA ParseKeeps ==
    ASSUME NEW s \in Seq(Frame), s # <<>>, Head(s).type # "SETUP",
           NEW found \in Seq(Frame), NEW k \in 2..(Len(s) + 1),
           \A i \in 1..Len(found) : found[i].early = Head(s).early,
           ~HasSetup(SubSeq(s, 2, k - 1)),
           SubSeq(s, k, Len(s)) \in Seq(Frame)
    PROVE  LET t == found \o SubSeq(s, k, Len(s))
           IN  /\ HasSetup(s) => HasSetup(t)
               /\ SetupFirst(s) => SetupFirst(t)
<1> DEFINE n == Len(found)
           rest == SubSeq(s, k, Len(s))
           t == found \o rest
           missed == SubSeq(s, 2, k - 1)
<1>1. Len(s) \in Nat \ {0} /\ k \in Int /\ n \in Nat /\ s[1] = Head(s)
  OBVIOUS
<1>2. Len(rest) = Len(s) - k + 1 /\ \A i \in 1..(Len(s) - k + 1) : rest[i] = s[k + i - 1]
  <2>1. \A i \in k..Len(s) : s[i] \in Frame
    BY <1>1
  <2> QED
    BY <1>1, <2>1, SubSeqProperties
<1>3. Len(missed) = k - 2 /\ \A i \in 1..(k - 2) : missed[i] = s[i + 1]
  <2>1. \A i \in 2..(k - 1) : s[i] \in Frame
    BY <1>1
  <2> QED
    BY <1>1, <2>1, SubSeqProperties
<1>4. /\ Len(t) = n + Len(s) - k + 1
      /\ \A i \in 1..n : t[i] = found[i]
      /\ \A i \in 1..(Len(s) - k + 1) : t[n + i] = s[k + i - 1]
  <2> HIDE DEF rest
  <2>1. /\ Len(t) = n + Len(rest)
        /\ \A i \in 1..(n + Len(rest)) : t[i] = IF i <= n THEN found[i] ELSE rest[i - n]
    BY ConcatProperties DEF rest
  <2> QED
    BY <1>1, <1>2, <2>1
<1> HIDE DEF t, rest, missed, n
<1>5. ASSUME NEW j \in 1..Len(s), s[j].type = "SETUP"
      PROVE  j >= k
  <2>1. j # 1
    BY <1>1, <1>5
  <2>2. j - 1 \in 1..(k - 2) => missed[j - 1].type = "SETUP"
    BY <1>1, <1>3, <1>5
  <2>3. ~(j - 1 \in 1..Len(missed) /\ missed[j - 1].type = "SETUP")
    BY DEF HasSetup, missed
  <2> QED
    BY <1>1, <1>3, <2>1, <2>2, <2>3
<1>6. ASSUME NEW j \in 1..Len(s), s[j].type = "SETUP"
      PROVE  n + j - k + 1 \in (n + 1)..Len(t) /\ t[n + j - k + 1].type = "SETUP"
  <2>1. j >= k
    BY <1>5, <1>6
  <2>2. j - k + 1 \in 1..(Len(s) - k + 1) /\ k + (j - k + 1) - 1 = j
    BY <1>1, <2>1
  <2>3. t[n + (j - k + 1)] = s[j]
    BY <1>4, <2>2
  <2>4. n + (j - k + 1) = n + j - k + 1
    BY <1>1
  <2> QED
    BY <1>1, <1>4, <1>6, <2>2, <2>3, <2>4
<1>7. ASSUME HasSetup(s) PROVE HasSetup(t)
  <2>1. PICK j \in 1..Len(s) : s[j].type = "SETUP"
    BY <1>7 DEF HasSetup
  <2>2. n + j - k + 1 \in 1..Len(t) /\ t[n + j - k + 1].type = "SETUP"
    BY <1>1, <1>6, <2>1
  <2> QED
    BY <2>2 DEF HasSetup
<1>8. ASSUME SetupFirst(s), NEW i \in 1..Len(t)
      PROVE  t[i].early \/ \E j \in 1..(i - 1) : t[j].type = "SETUP"
  <2>1. CASE i <= n
    <3>1. s[1].early
      BY <1>1, <1>8 DEF SetupFirst
    <3>2. t[i] = found[i] /\ found[i].early = s[1].early
      BY <1>1, <1>4, <2>1 DEF n
    <3> QED
      BY <3>1, <3>2
  <2>2. CASE i > n
    <3>1. i - n \in 1..(Len(s) - k + 1) /\ n + (i - n) = i
      BY <1>1, <1>4, <2>2
    <3>2. t[i] = s[k + (i - n) - 1] /\ k + (i - n) - 1 \in 1..Len(s)
      <4>1. t[n + (i - n)] = s[k + (i - n) - 1]
        BY <1>4, <3>1
      <4>2. k + (i - n) - 1 \in 1..Len(s)
        BY <1>1, <3>1
      <4> QED
        BY <3>1, <4>1, <4>2
    <3>3. CASE \E j \in 1..(k + (i - n) - 2) : s[j].type = "SETUP"
      <4>1. PICK j \in 1..(k + (i - n) - 2) : s[j].type = "SETUP"
        BY <3>3
      <4>2. j \in 1..Len(s)
        BY <1>1, <3>2, <4>1
      <4>3. n + j - k + 1 \in 1..(i - 1) /\ t[n + j - k + 1].type = "SETUP"
        BY <1>1, <1>6, <3>1, <4>1, <4>2
      <4> QED
        BY <4>3
    <3>4. CASE s[k + (i - n) - 1].early
      BY <3>2, <3>4
    <3> QED
      BY <1>1, <1>8, <3>1, <3>2, <3>3, <3>4 DEF SetupFirst
  <2> QED
    BY <1>1, <2>1, <2>2
<1> QED
  BY <1>7, <1>8 DEF SetupFirst, t, rest

\* A read moves the frames from one sequence to the other.
LEMMA SplitKeeps ==
    ASSUME NEW s \in Seq(Frame), NEW n \in 1..Len(s), SetupFirst(s)
    PROVE  LET front == SubSeq(s, 1, n)
               rest  == SubSeq(s, n + 1, Len(s))
           IN  /\ SetupFirst(front)
               /\ HasSetup(front) \/ SetupFirst(rest)
               /\ HasSetup(s) => HasSetup(front) \/ HasSetup(rest)
<1> DEFINE front == SubSeq(s, 1, n)
           rest == SubSeq(s, n + 1, Len(s))
<1> HIDE DEF front, rest
<1>1. /\ Len(s) \in Nat /\ Len(front) = n /\ Len(rest) = Len(s) - n
      /\ \A k \in 1..n : front[k] = s[k]
      /\ \A k \in 1..(Len(s) - n) : rest[k] = s[n + k]
  BY Parts DEF front, rest
<1>2. SetupFirst(front)
  BY <1>1 DEF SetupFirst
<1>3. ASSUME ~HasSetup(front), NEW k \in 1..Len(rest)
      PROVE  rest[k].early \/ \E j \in 1..(k - 1) : rest[j].type = "SETUP"
  <2>1. n + k \in 1..Len(s) /\ rest[k] = s[n + k]
    BY <1>1
  <2>2. CASE s[n + k].early
    BY <2>1, <2>2
  <2>3. CASE \E i \in 1..(n + k - 1) : s[i].type = "SETUP"
    <3>1. PICK i \in 1..(n + k - 1) : s[i].type = "SETUP"
      BY <2>3
    <3>2. i > n
      BY <1>1, <1>3, <3>1 DEF HasSetup
    <3>3. i - n \in 1..(k - 1) /\ rest[i - n] = s[i]
      BY <1>1, <3>1, <3>2
    <3> QED
      BY <3>1, <3>3
  <2> QED
    BY <2>1, <2>2, <2>3 DEF SetupFirst
<1>4. ASSUME HasSetup(s) PROVE HasSetup(front) \/ HasSetup(rest)
  <2>1. PICK k \in 1..Len(s) : s[k].type = "SETUP"
    BY <1>4 DEF HasSetup
  <2>2. CASE k <= n
    BY <1>1, <2>1, <2>2 DEF HasSetup
  <2>3. CASE k > n
    <3>1. k - n \in 1..Len(rest) /\ rest[k - n] = s[k]
      BY <1>1, <2>1, <2>3
    <3> QED
      BY <2>1, <3>1 DEF HasSetup
  <2> QED
    BY <1>1, <2>1, <2>2, <2>3
<1> QED
  BY <1>2, <1>3, <1>4 DEF SetupFirst, front, rest

\* A step that only adds to what is on its way to the server.
Grows ==
    \/ wire'[Server] = wire[Server]
    \/ \E f \in Frame : /\ wire'[Server] = Append(wire[Server], f)
                        /\ f.early \/ connecting = "resolved"

LEMMA GrowsKeeps ==
    ASSUME TypeOK, SetupAhead, Grows,
           UNCHANGED <<requester, refused>>, setupLost => setupLost',
           chunk'[Server] = chunk[Server],
           connecting' \in {"writing", "resolved"} => connecting \in {"writing", "resolved"}
    PROVE  SetupAhead'
<1> SUFFICES ASSUME requester = "none", ~refused, ~setupLost PROVE SetupAhead'
  BY DEF SetupAhead
<1>1. wire[Server] \in Seq(Frame) /\ chunk[Server] \in Seq(Frame)
  BY DEF TypeOK, Peer
<1>2. CASE wire'[Server] = wire[Server]
  BY <1>2 DEF SetupAhead
<1>3. CASE \E f \in Frame : /\ wire'[Server] = Append(wire[Server], f)
                            /\ f.early \/ connecting = "resolved"
  <2>1. PICK f \in Frame : /\ wire'[Server] = Append(wire[Server], f)
                           /\ f.early \/ connecting = "resolved"
    BY <1>3
  <2>2. /\ HasSetup(wire[Server]) => HasSetup(wire'[Server])
        /\ SetupFirst(wire[Server]) /\ (f.early \/ HasSetup(wire[Server])) =>
               SetupFirst(wire'[Server])
    BY <1>1, <2>1, AppendKeeps
  <2> QED
    BY <2>1, <2>2 DEF SetupAhead
<1> QED
  BY <1>2, <1>3 DEF Grows

LEMMA FrameGrows ==
    ASSUME NEW type \in Types
    PROVE  F(type) \in Frame /\ (F(type).early \/ connecting = "resolved")
BY FrameType DEF F

LEMMA WriteGrows ==
    ASSUME TypeOK, NEW p \in Peer, NEW type \in Types,
           \/ Write(p, F(type))
           \/ wire' = [wire EXCEPT ![Other(p)] = Append(@, F(type))]
           \/ wire' = wire
    PROVE  Grows
<1>1. CASE wire' = wire
  BY <1>1 DEF Grows
<1>2. CASE wire' = [wire EXCEPT ![Other(p)] = Append(@, F(type))]
  <2>1. wire \in [Peer -> Seq(Frame)]
    BY DEF TypeOK
  <2>2. CASE p = Client
    <3>1. wire'[Server] = Append(wire[Server], F(type))
      BY <1>2, <2>1, <2>2 DEF Other, Peer
    <3> QED
      BY <3>1, FrameGrows DEF Grows
  <2>3. CASE p = Server
    BY <1>2, <2>1, <2>3, PeerAssumption DEF Other, Peer, Grows
  <2> QED
    BY <2>2, <2>3 DEF Peer
<1> QED
  BY <1>1, <1>2 DEF Write

LEMMA InitSetup == Init => SetupAhead /\ RefusedIsClosed /\ OnlyEarlyDropped
<1> SUFFICES ASSUME Init PROVE SetupAhead /\ RefusedIsClosed /\ OnlyEarlyDropped
  OBVIOUS
<1>1. /\ chunk[Server] = <<>> /\ wire[Server] = <<>> /\ socket[Server] = "none"
      /\ connecting = "idle" /\ ~refused /\ ~lateDropped
      /\ requester = "none" /\ loop[Server] = "off"
  BY DEF Init, Peer
<1> QED
  BY <1>1 DEF SetupAhead, RefusedIsClosed, OnlyEarlyDropped, SetupFirst

LEMMA ConnectSetup ==
    ASSUME TypeOK, RefusedIsClosed, NEW early \in EarlyRequests, Connect(early)
    PROVE  SetupAhead'
<1>1. /\ chunk'[Server] = <<>> /\ wire'[Server] = FirstFrames(early)
      /\ (\A type \in RequestTypes : F(type).early) /\ F("SETUP").early
  BY DEF Connect, RefusedIsClosed, TypeOK, F, Peer
<1>2. SetupFirst(<<>>)
  BY DEF SetupFirst
<1>3. HasSetup(FirstFrames(early)) /\ SetupFirst(FirstFrames(early))
  <2>1. CASE early # <<>>
    <3>0. PICK type \in RequestTypes : early = <<F(type)>>
      BY <2>1 DEF EarlyRequests
    <3>1. F(type) \in Frame /\ F("SETUP") \in Frame
      BY FrameType DEF Types, FrameTypes
    <3>2. F("SETUP").type = "SETUP"
      BY DEF F
    <3>3. /\ Len(FirstFrames(early)) = 2 /\ FirstFrames(early)[1] = F(type)
          /\ FirstFrames(early)[2] = F("SETUP")
      <4>1. <<F(type)>> \in Seq(Frame) /\ <<F("SETUP")>> \in Seq(Frame)
        BY <3>1
      <4> HIDE DEF F
      <4> QED
        BY <3>0, <4>1, ConcatProperties DEF FirstFrames
    <3>4. \A k \in 1..2 : FirstFrames(early)[k].early
      BY <1>1, <3>3
    <3> QED
      BY <3>2, <3>3, <3>4 DEF HasSetup, SetupFirst
  <2>2. CASE early = <<>>
    <3>1. FirstFrames(early) = <<F("SETUP")>>
      BY <2>2 DEF FirstFrames
    <3>2. F("SETUP").type = "SETUP"
      BY DEF F
    <3>3. Len(FirstFrames(early)) = 1 /\ FirstFrames(early)[1] = F("SETUP")
      BY <3>1
    <3>4. \A k \in 1..1 : FirstFrames(early)[k].early
      BY <1>1, <3>3
    <3>5. HasSetup(FirstFrames(early))
      BY <3>2, <3>3 DEF HasSetup
    <3>6. SetupFirst(FirstFrames(early))
      BY <3>3, <3>4 DEF SetupFirst
    <3> QED
      BY <3>5, <3>6
  <2> QED
    BY <2>1, <2>2
<1> QED
  BY <1>1, <1>2, <1>3 DEF SetupAhead

\* The server takes a frame that is no SETUP.
LEMMA TakenSetup ==
    ASSUME TypeOK, SetupAhead, chunk[Server] # <<>>, Head(chunk[Server]).type # "SETUP",
           NextFrame(Server), wire'[Server] = wire[Server],
           UNCHANGED <<requester, refused, connecting>>
    PROVE  SetupAhead'
<1> SUFFICES ASSUME requester = "none", ~refused, ~setupLost' PROVE SetupAhead'
  BY DEF SetupAhead
<1>1. chunk[Server] \in Seq(Frame) /\ Server \in Peer
  BY DEF TypeOK, Peer
<1>2. PICK found \in Seq(Frame), k \in 2..(Len(chunk[Server]) + 1) :
          /\ chunk' = [chunk EXCEPT ![Server] = found \o SubSeq(@, k, Len(@))]
          /\ SubSeq(chunk[Server], k, Len(chunk[Server])) \in Seq(Frame)
          /\ \A i \in 1..Len(found) : found[i].early = Head(chunk[Server]).early
          /\ setupLost' = (setupLost \/ (Server = Server /\ HasSetup(SubSeq(chunk[Server], 2, k - 1))))
  BY <1>1, NextFrameParts
<1>3. ~setupLost /\ ~HasSetup(SubSeq(chunk[Server], 2, k - 1))
  BY <1>2
<1>4. chunk'[Server] = found \o SubSeq(chunk[Server], k, Len(chunk[Server]))
  BY <1>1, <1>2 DEF TypeOK
<1>5. /\ HasSetup(chunk[Server]) => HasSetup(chunk'[Server])
      /\ SetupFirst(chunk[Server]) => SetupFirst(chunk'[Server])
  BY <1>1, <1>2, <1>3, <1>4, ParseKeeps
<1> QED
  BY <1>3, <1>5 DEF SetupAhead

LEMMA ReadSetup ==
    ASSUME TypeOK, SetupAhead, NEW p \in Peer, Read(p)
    PROVE  SetupAhead'
<1> SUFFICES ASSUME requester = "none", ~refused, ~setupLost PROVE SetupAhead'
  BY DEF SetupAhead, Read, connVars, parseVars
<1>1. PICK n \in 1..Len(wire[p]) :
        /\ chunk' = [chunk EXCEPT ![p] = SubSeq(wire[p], 1, n)]
        /\ wire' = [wire EXCEPT ![p] = SubSeq(@, n + 1, Len(@))]
  BY DEF Read
<1>2. UNCHANGED <<requester, refused, connecting, setupLost>>
  BY DEF Read, connVars, parseVars
<1>3. CASE p = Client
  <2>1. wire'[Server] = wire[Server] /\ chunk'[Server] = chunk[Server]
    BY <1>1, <1>3, PeerAssumption DEF TypeOK, Peer
  <2> QED
    BY <1>2, <2>1 DEF SetupAhead
<1>4. CASE p = Server
  <2>1. wire[Server] \in Seq(Frame) /\ chunk[Server] = <<>>
    BY <1>4 DEF Read, Reading, Idle, TypeOK
  <2>2. /\ chunk'[Server] = SubSeq(wire[Server], 1, n)
        /\ wire'[Server] = SubSeq(wire[Server], n + 1, Len(wire[Server]))
    BY <1>1, <1>4 DEF TypeOK
  <2>3. ~HasSetup(chunk[Server])
    BY <2>1 DEF HasSetup
  <2>4. SetupFirst(wire[Server])
    BY <2>3 DEF SetupAhead
  <2>5. /\ SetupFirst(chunk'[Server])
        /\ HasSetup(chunk'[Server]) \/ SetupFirst(wire'[Server])
        /\ HasSetup(wire[Server]) => HasSetup(chunk'[Server]) \/ HasSetup(wire'[Server])
    BY <1>1, <1>4, <2>1, <2>2, <2>4, SplitKeeps
  <2> QED
    BY <1>2, <2>3, <2>5 DEF SetupAhead
<1> QED
  BY <1>3, <1>4 DEF Peer

LEMMA WsEndsSetup ==
    ASSUME TypeOK, SetupAhead, NEW p \in Peer, WsEnds(p)
    PROVE  SetupAhead'
<1>1. UNCHANGED <<requester, refused, connecting, chunk, setupLost>>
  BY DEF WsEnds, connVars, parseVars
<1>2. CASE wire' = wire
  BY <1>1, <1>2, GrowsKeeps DEF Grows
<1>3. CASE /\ wire[p] # <<>> /\ Head(wire[p]).type = "CLOSE"
           /\ wire' = [wire EXCEPT ![p] = Tail(@), ![Other(p)] = Append(@, F("CLOSE"))]
  <2>1. CASE p = Client
    <3>1. wire'[Server] = Append(wire[Server], F("CLOSE"))
      BY <1>3, <2>1, PeerAssumption DEF TypeOK, Other, Peer
    <3>2. F("CLOSE") \in Frame /\ (F("CLOSE").early \/ connecting = "resolved")
      BY FrameGrows DEF Types
    <3> QED
      BY <1>1, <3>1, <3>2, GrowsKeeps DEF Grows
  <2>2. CASE p = Server
    <3>1. wire'[Server] = Tail(wire[Server]) /\ wire[Server] \in Seq(Frame)
      BY <1>3, <2>2, PeerAssumption DEF TypeOK, Other, Peer
    <3>2. /\ HasSetup(wire[Server]) => HasSetup(wire'[Server])
          /\ SetupFirst(wire[Server]) => SetupFirst(wire'[Server])
      BY <1>3, <2>2, <3>1, TailKeeps
    <3> QED
      BY <1>1, <3>2 DEF SetupAhead
  <2> QED
    BY <2>1, <2>2 DEF Peer
<1> QED
  BY <1>2, <1>3 DEF WsEnds

\* A step of the application, a timer or the environment, at either end.
LEMMA OutsideSetup ==
    ASSUME TypeOK, SetupAhead, NEW p \in Peer,
           \/ Request(p) \/ Close(p) \/ Closed(p) \/ EndOfFile(p) \/ ReadFails(p)
           \/ Foreign(p) \/ Lose(p)
    PROVE  SetupAhead'
<1> USE DEF connVars, countVars, parseVars
<1>1. UNCHANGED <<requester, refused, connecting, chunk, setupLost>>
  BY DEF Request, Close, Closed, EndOfFile, ReadFails, Foreign, Lose
<1>2. PICK type \in Types :
        \/ Write(p, F(type))
        \/ wire' = [wire EXCEPT ![Other(p)] = Append(@, F(type))]
        \/ wire' = wire
  BY DEF Request, Close, Closed, EndOfFile, ReadFails, Foreign, Lose, HangUp, Types,
     FrameTypes
<1> QED
  BY <1>1, <1>2, WriteGrows, GrowsKeeps

LEMMA TakeSetup ==
    ASSUME TypeOK, SetupAhead, NEW p \in Peer, Take(p)
    PROVE  SetupAhead'
<1> USE DEF connVars, countVars
<1>1. UNCHANGED <<requester, refused, connecting>> /\ NextFrame(p) /\ chunk[p] # <<>>
  BY DEF Take, ServeFrame, ServePing, TakeText, Takes
<1>2. CASE p = Client
  <2>1. chunk'[Server] = chunk[Server] /\ (setupLost => setupLost')
    BY <1>1, <1>2, PeerAssumption DEF NextFrame, TypeOK, Peer
  <2>2. wire' = wire \/ Write(p, F("KEEPALIVE"))
    BY <1>2, PeerAssumption DEF Take, ServeFrame, ServePing, TakeText, ReplyType
  <2>3. Grows
    BY <2>2, WriteGrows DEF Types, FrameTypes
  <2> QED
    BY <1>1, <2>1, <2>3, GrowsKeeps
<1>3. CASE p = Server
  <2>1. CASE ServeFrame(p) \/ ServePing(p)
    BY <1>1, <1>3, <2>1 DEF ServeFrame, ServePing, HasRequester, SetupAhead
  <2>2. CASE TakeText(p)
    <3>1. wire'[Server] = wire[Server]
      BY <1>3, <2>2, PeerAssumption DEF TakeText, Other, TypeOK, Peer
    <3> QED
      BY <1>1, <1>3, <2>2, <3>1, TakenSetup DEF TakeText, Takes
  <2> QED
    BY <2>1, <2>2 DEF Take
<1> QED
  BY <1>2, <1>3 DEF Peer

LEMMA NextSetup == TypeOK /\ RefusedIsClosed /\ SetupAhead /\ [Next]_vars => SetupAhead'
<1> SUFFICES ASSUME TypeOK, RefusedIsClosed, SetupAhead, [Next]_vars PROVE SetupAhead'
  OBVIOUS
<1> USE DEF connVars, ioVars, countVars, parseVars
<1>1. CASE UNCHANGED vars
  BY <1>1 DEF vars, SetupAhead
<1>2. CASE ConnectRefused \/ SetupWritten \/ SetupFails
  <2>1. Grows /\ UNCHANGED <<requester, refused, chunk, setupLost>>
    BY <1>2 DEF Grows, ConnectRefused, SetupWritten, SetupFails
  <2>2. connecting' \in {"writing", "resolved"} => connecting \in {"writing", "resolved"}
    BY <1>2 DEF ConnectRefused, SetupWritten, SetupFails
  <2> QED
    BY <2>1, <2>2, GrowsKeeps
<1>3. CASE Tick
  <2>1. wire' = wire \/ Write(Client, F("KEEPALIVE"))
    BY <1>3 DEF Tick
  <2>2. Grows
    BY <2>1, WriteGrows DEF Types, FrameTypes, Peer
  <2> QED
    BY <1>3, <2>2, GrowsKeeps DEF Tick
<1>4. CASE AcceptSetup \/ RefuseSetup
  BY <1>4 DEF AcceptSetup, Accepted, RefuseSetup, SetupAhead
<1>5. CASE DropFrame
  BY <1>5, TakenSetup DEF DropFrame, Takes
<1>6. ASSUME NEW p \in Peer,
             \/ Request(p) \/ Close(p) \/ Closed(p) \/ EndOfFile(p) \/ ReadFails(p)
             \/ Foreign(p) \/ Lose(p) \/ Read(p) \/ WsEnds(p) \/ Take(p)
      PROVE  SetupAhead'
  BY <1>6, OutsideSetup, ReadSetup, WsEndsSetup, TakeSetup
<1> QED
  BY <1>1, <1>2, <1>3, <1>4, <1>5, <1>6, ConnectSetup DEF Next

-----------------------------------------------------------------------------
(* Refused connections                                                     *)

\* A TCP socket that the server has closed stays closed.
LEMMA HangUpCloses ==
    ASSUME TypeOK, RefusedIsClosed, NEW p \in Peer, HangUp(p), transport = "tcp"
    PROVE  /\ socket'[p] = "closed" \/ p = Client
           /\ socket'[Server] # "closing"
           /\ socket[Server] = "closed" => socket'[Server] = "closed"
<1>1. socket' = [socket EXCEPT ![p] = IF @ = "closing" THEN @ ELSE "closed"]
  BY DEF HangUp
<1>2. socket[Server] # "closing"
  BY DEF RefusedIsClosed
<1> QED
  BY <1>1, <1>2 DEF TypeOK, Peer

LEMMA NextRefused == TypeOK /\ RefusedIsClosed /\ [Next]_vars => RefusedIsClosed'
<1> SUFFICES ASSUME TypeOK, RefusedIsClosed, [Next]_vars PROVE RefusedIsClosed'
  OBVIOUS
<1> USE DEF connVars, ioVars, countVars, parseVars
<1>0. socket \in [Peer -> {"none", "open", "lost", "closing", "closed"}]
      /\ chunk \in [Peer -> Seq(Frame)] /\ Server \in Peer /\ Client \in Peer
  BY DEF TypeOK, Peer
<1>1. CASE UNCHANGED vars
  BY <1>1 DEF vars, RefusedIsClosed
<1>2. CASE (\E early \in EarlyRequests : Connect(early)) \/ ConnectRefused
  BY <1>0, <1>2 DEF Connect, ConnectRefused, RefusedIsClosed
<1>3. CASE SetupWritten \/ SetupFails \/ Tick
  BY <1>3 DEF SetupWritten, SetupFails, Tick, RefusedIsClosed
<1>4. CASE AcceptSetup
  <2>1. chunk[Server] # <<>>
    BY <1>4 DEF AcceptSetup, Takes
  <2> QED
    BY <1>4, <2>1 DEF AcceptSetup, RefusedIsClosed
<1>5. CASE RefuseSetup
  <2>1. chunk[Server] # <<>> /\ chunk'[Server] = <<>>
    BY <1>0, <1>5 DEF RefuseSetup, Takes
  <2>2. transport = "tcp" => socket'[Server] = "closed"
    BY <1>0, <1>5, HangUpCloses, PeerAssumption DEF RefuseSetup
  <2> QED
    BY <1>5, <2>1, <2>2 DEF RefuseSetup, RefusedIsClosed
<1>6. CASE DropFrame
  <2>1. chunk[Server] # <<>>
    BY <1>6 DEF DropFrame, Takes
  <2> QED
    BY <1>6, <2>1 DEF DropFrame, RefusedIsClosed
<1>7. ASSUME NEW p \in Peer, Next, Request(p) \/ Foreign(p) PROVE RefusedIsClosed'
  BY <1>7 DEF Request, Foreign, RefusedIsClosed
<1>8. ASSUME NEW p \in Peer, Close(p) PROVE RefusedIsClosed'
  <2>1. UNCHANGED <<refused, chunk, connecting, transport>> /\ HangUp(p)
    BY <1>8 DEF Close
  <2>2. connecting # "idle"
    <3>1. CASE p = Client
      BY <1>8, <3>1 DEF Close, HasRSocket
    <3>2. CASE p = Server
      BY <1>8, <3>2, PeerAssumption DEF Close, HasRSocket, RefusedIsClosed
    <3> QED
      BY <3>1, <3>2 DEF Peer
  <2> QED
    BY <2>1, <2>2, HangUpCloses DEF RefusedIsClosed
<1>9. ASSUME NEW p \in Peer, Closed(p) \/ ReadFails(p) \/ Lose(p) \/ EndOfFile(p) \/ WsEnds(p)
      PROVE  RefusedIsClosed'
  <2>1. loop \in [Peer -> {"off", "reading", "spinning", "starving", "ended"}]
    BY DEF TypeOK
  <2>2. CASE Closed(p) \/ Lose(p)
    BY <1>0, <2>2 DEF Closed, Lose, RefusedIsClosed
  <2>3. CASE ReadFails(p) \/ EndOfFile(p)
    BY <1>0, <2>1, <2>3 DEF ReadFails, EndOfFile, Over, Reading, RefusedIsClosed
  <2>4. CASE WsEnds(p)
    BY <1>0, <2>1, <2>4 DEF WsEnds, Over, Reading, RefusedIsClosed
  <2> QED
    BY <1>9, <2>2, <2>3, <2>4
<1>10. ASSUME NEW p \in Peer, Read(p) PROVE RefusedIsClosed'
  BY <1>0, <1>10 DEF Read, RefusedIsClosed
<1>11. ASSUME NEW p \in Peer, Take(p) PROVE RefusedIsClosed'
  <2>1. /\ UNCHANGED <<refused, requester, connecting, transport, socket, loop>>
        /\ chunk[p] # <<>> /\ NextFrame(p)
    BY <1>11 DEF Take, ServeFrame, ServePing, TakeText, Takes
  <2>2. CASE p = Client
    <3>1. chunk'[Server] = chunk[Server]
      BY <1>0, <2>1, <2>2, PeerAssumption DEF NextFrame
    <3> QED
      BY <2>1, <3>1 DEF RefusedIsClosed
  <2>3. CASE p = Server
    BY <2>1, <2>3 DEF RefusedIsClosed
  <2> QED
    BY <2>2, <2>3 DEF Peer
<1> QED
  BY <1>1, <1>2, <1>3, <1>4, <1>5, <1>6, <1>7, <1>8, <1>9, <1>10, <1>11 DEF Next

-----------------------------------------------------------------------------
(* Theorems                                                                *)

IInv == TypeOK /\ RefusedIsClosed /\ SetupAhead

LEMMA NextIInv == IInv /\ [Next]_vars => IInv'
BY NextType, NextRefused, NextSetup DEF IInv

LEMMA InvariantHolds == Spec => []IInv
<1>1. Init => IInv
  BY InitType, InitSetup DEF IInv
<1> QED
  BY <1>1, NextIInv, PTL DEF Spec

LEMMA NextDropped == IInv /\ OnlyEarlyDropped /\ [Next]_vars => OnlyEarlyDropped'
<1> SUFFICES ASSUME IInv, OnlyEarlyDropped, [Next]_vars PROVE OnlyEarlyDropped'
  OBVIOUS
<1> USE DEF connVars, ioVars, countVars, parseVars
<1>0. setupLost => setupLost'
  BY DEF Next, vars, Connect, ConnectRefused, SetupWritten, SetupFails, Tick,
     AcceptSetup, RefuseSetup, Request, Close, Closed, Read, EndOfFile, ReadFails, WsEnds,
     DropFrame, Take, ServeFrame, ServePing, TakeText, Foreign, Lose, NextFrame
<1>1. CASE DropFrame
  <2>1. chunk[Server] \in Seq(Frame) /\ chunk[Server] # <<>>
    BY <1>1 DEF DropFrame, Takes, IInv, TypeOK, Peer
  <2>2. /\ UNCHANGED <<transport, refused>>
        /\ lateDropped' = (lateDropped \/ ~Head(chunk[Server]).early)
    BY <1>1 DEF DropFrame
  <2>3. CASE refused
    BY <2>1, <2>2, <2>3, BoundAssumption DEF IInv, RefusedIsClosed, TypeOK, OnlyEarlyDropped
  <2>4. CASE ~refused /\ ~setupLost
    <3>1. SetupFirst(chunk[Server])
      BY <1>1, <2>4 DEF DropFrame, IInv, SetupAhead
    <3>2. 1 \in 1..Len(chunk[Server]) /\ Head(chunk[Server]) = chunk[Server][1]
      BY <2>1
    <3>3. Head(chunk[Server]).early
      BY <3>1, <3>2 DEF SetupFirst
    <3> QED
      BY <1>0, <2>2, <3>3 DEF OnlyEarlyDropped
  <2>5. CASE setupLost
    BY <1>0, <2>5 DEF OnlyEarlyDropped
  <2> QED
    BY <2>3, <2>4, <2>5
<1>2. CASE ~DropFrame
  <2>1. UNCHANGED <<lateDropped, transport>> /\ (refused => refused')
    <3>1. CASE UNCHANGED vars
      BY <3>1 DEF vars
    <3>2. CASE \/ \E early \in EarlyRequests : Connect(early)
               \/ ConnectRefused \/ SetupWritten \/ SetupFails \/ Tick
               \/ AcceptSetup \/ RefuseSetup
      BY <3>2 DEF Connect, ConnectRefused, SetupWritten, SetupFails, Tick, AcceptSetup,
         RefuseSetup
    <3>3. ASSUME NEW p \in Peer,
                 \/ Request(p) \/ Close(p) \/ Closed(p) \/ Read(p) \/ EndOfFile(p)
                 \/ ReadFails(p) \/ WsEnds(p) \/ Take(p) \/ Foreign(p) \/ Lose(p)
          PROVE  UNCHANGED <<lateDropped, transport>> /\ (refused => refused')
      BY <3>3 DEF Request, Close, Closed, Read, EndOfFile, ReadFails, WsEnds,
         Take, ServeFrame, ServePing, TakeText, Foreign, Lose
    <3> QED
      BY <1>2, <3>1, <3>2, <3>3 DEF Next
  <2> QED
    BY <1>0, <2>1 DEF OnlyEarlyDropped
<1> QED
  BY <1>1, <1>2

\* OnlyEarlyDropped: whatever the parser makes of a chunk, nothing written after
\* connect() has resolved is dropped for want of a requester, unless the SETUP was
\* lost behind an early request, or refused on a WebSocket.
THEOREM LateRequestsServed == Spec => []OnlyEarlyDropped
<1>1. Init => OnlyEarlyDropped
  BY InitSetup
<1> QED
  BY <1>1, InvariantHolds, NextDropped, PTL DEF Spec

\* RefusedServesNothing: a refused TCP connection serves nothing more.
THEOREM RefusedIsQuiet == Spec => RefusedServesNothing
<1>1. ASSUME IInv, refused, Take(Server)
      PROVE  transport = "ws" /\ (requester # "none" \/ TakeText(Server))
  <2>1. chunk[Server] # <<>>
    BY <1>1 DEF Take, ServeFrame, ServePing, TakeText, Takes
  <2> QED
    BY <1>1, <2>1, BoundAssumption DEF IInv, RefusedIsClosed, TypeOK, Take, ServeFrame, ServePing, HasRequester
<1>2. IInv /\ [Next]_vars =>
          [refused /\ Take(Server) => transport = "ws" /\ (requester # "none" \/ TakeText(Server))]_vars
  BY <1>1
<1> QED
  BY <1>2, InvariantHolds, PTL DEF Spec, RefusedServesNothing
=============================================================================
