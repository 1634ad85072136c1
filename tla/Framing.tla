------------------------------- MODULE Framing -------------------------------
(***************************************************************************)
(* rsocket/frame/frame.ts: the encoders and parseFrames, one turn of its   *)
(* loop per step, over the chunks that a connection yields (the two        *)
(* transports of rsocket/DuplexConnection.ts).  Every chunk gets a buffer  *)
(* of its own and nothing is kept from the one before, so a step that      *)
(* reads a chunk starts afresh.                                            *)
(*                                                                         *)
(* A frame is its type, its stream identifier, its numbers (`fixed`), one  *)
(* flag (a PAYLOAD's COMPLETE, a KEEPALIVE's RESPOND) and its payload's    *)
(* two parts; an ERROR's message is its data, and the MIME types of a      *)
(* SETUP are left out of the frame, not out of its bytes.                  *)
(***************************************************************************)
EXTENDS ByteBuffers

CONSTANTS
    NoFrame,    \* what the default case of parseFrames gives
    Written,    \* the frames that may be written
    MaxFrames,  \* bound: whole frames in one chunk
    CutFrames   \* those inside which a chunk may begin or end

FrameType == [SETUP |-> 1, LEASE |-> 2, KEEPALIVE |-> 3, REQUEST_RESPONSE |-> 4,
              REQUEST_FNF |-> 5, REQUEST_STREAM |-> 6, REQUEST_CHANNEL |-> 7,
              REQUEST_N |-> 8, CANCEL |-> 9, PAYLOAD |-> 10, ERROR |-> 11,
              METADATA_PUSH |-> 12]

MetadataMimeType == <<109>>  \* one byte stands for the text of each MIME type
DataMimeType == <<100>>

Optional == Seq(Bytes) \cup {Undefined}
Frame == [type : 0..63, streamId : Nat, fixed : Seq(Nat \cup {Undefined}),
          flag : BOOLEAN, metadata : Optional, data : Optional]

ASSUME NoFrameAssumption == NoFrame \notin Frame
ASSUME MaxFramesAssumption == MaxFrames \in Nat

VARIABLES
    buffer,  \* parseFrames' byteBuffer
    chunk,   \* the frames the chunk was made of, <<>> if it was cut (history)
    parsed   \* what parseFrames has yielded from it (history)

vars == <<buffer, chunk, parsed>>

TypeOK ==
    /\ InBounds(buffer)
    /\ chunk \in Seq(Written)
    /\ parsed \in Seq(Frame)

Init ==
    /\ buffer = Alloc(0)
    /\ chunk = <<>>
    /\ parsed = <<>>

-----------------------------------------------------------------------------
(* Encoders                                                                *)

IsPresent(part) == part # Undefined
PartBytes(part) == IF IsPresent(part) THEN part ELSE <<>>

\* writePayload
PayloadBytes(f) ==
    (IF IsPresent(f.metadata)
     THEN ToByteArray(Len(f.metadata), 3) \o f.metadata ELSE <<>>)
        \o PartBytes(f.data)

\* What each encoder writes between the header and the payload.
FixedBytes(f) ==
    CASE f.type = FrameType.SETUP ->
             ToByteArray(1, 2) \o ToByteArray(0, 2)
                 \o ToByteArray(f.fixed[1], 4) \o ToByteArray(f.fixed[2], 4)
                 \o <<Len(MetadataMimeType)>> \o MetadataMimeType
                 \o <<Len(DataMimeType)>> \o DataMimeType
      [] f.type = FrameType.KEEPALIVE -> I64ToByteArray(f.fixed[1])
      [] f.fixed = <<>> -> <<>>
      [] OTHER -> ToByteArray(f.fixed[1], 4)

BodyBytes(f) ==
    IF f.type = FrameType.METADATA_PUSH THEN PartBytes(f.metadata)
    ELSE FixedBytes(f) \o PayloadBytes(f)

FlagsByte(f) ==
    CASE f.type = FrameType.PAYLOAD -> IF f.flag THEN 64 ELSE 32
      [] f.type = FrameType.KEEPALIVE -> IF f.flag THEN 128 ELSE 0
      [] OTHER -> 0

\* writeTFrameTypeAndFlags and the encoders that write these bytes themselves.
TypeByte(f) == f.type * 4 + (IF IsPresent(f.metadata) THEN 1 ELSE 0)

\* What alloc is called with: the length of the frame without variable parts.
AllocSize(type) ==
    CASE type = FrameType.SETUP -> 21
      [] type = FrameType.KEEPALIVE -> 17
      [] type \in {FrameType.REQUEST_STREAM, FrameType.REQUEST_CHANNEL,
                   FrameType.REQUEST_N} -> 13
      [] OTHER -> 9

RefillFrameLength(b) ==
    WriteBytes(ResetWriterIndex(b), ToByteArray(Len(b.data) - 3, 3))

\* Every encoder; encodeCancelFrame alone leaves the length 0.
Encode(f) ==
    LET b == WriteBytes(Alloc(AllocSize(f.type)),
                 ToByteArray(0, 3) \o ToByteArray(f.streamId, 4)
                     \o <<TypeByte(f), FlagsByte(f)>> \o BodyBytes(f))
    IN  IF f.type = FrameType.CANCEL THEN b.data ELSE RefillFrameLength(b).data

\* What the encoders are given: streams and numbers of 31 bits, the intervals of
\* a SETUP not 0 (which its decoder takes for none), the position 0 that every
\* KEEPALIVE of this library starts from, parts where the encoder has them.
\* Nothing in the code keeps a frame within the 24 bits of its length.
MaxInt == 2147483647
MaxLength == 16777215
Int31 == 0..MaxInt
Writable(f) ==
    /\ f \in Frame /\ f.streamId \in Int31 /\ \A i \in DOMAIN f.fixed : f.fixed[i] \in Int31
    /\ f.type \in 1..12 \ {FrameType.LEASE}
    /\ Len(f.fixed) =
          CASE f.type = FrameType.SETUP -> 2
            [] f.type \in {FrameType.KEEPALIVE, FrameType.REQUEST_STREAM, FrameType.ERROR,
                           FrameType.REQUEST_CHANNEL, FrameType.REQUEST_N} -> 1
            [] OTHER -> 0
    /\ f.type = FrameType.SETUP => f.fixed[1] # 0 /\ f.fixed[2] # 0
    /\ f.type = FrameType.KEEPALIVE => f.fixed[1] = 0
    /\ f.flag => f.type \in {FrameType.KEEPALIVE, FrameType.PAYLOAD}
    /\ IsPresent(f.metadata) => f.type \notin {FrameType.KEEPALIVE, FrameType.REQUEST_N,
                                             FrameType.CANCEL, FrameType.ERROR}
    /\ IsPresent(f.data) => f.type \notin {FrameType.KEEPALIVE, FrameType.REQUEST_N,
                                         FrameType.CANCEL, FrameType.METADATA_PUSH}
    /\ Len(Encode(f)) <= MaxLength

ASSUME WrittenAssumption == CutFrames \subseteq Written /\ \A f \in Written : Writable(f)

-----------------------------------------------------------------------------
(* Decoders: each reads what it wants from the buffer, there or not        *)

OrDefault(value, default) == IF value \in {Undefined, 0} THEN default ELSE value
OrZero(value) == OrDefault(value, 0)
Bit(byte, weight) == (byte \div weight) % 2 = 1

\* Slip: a header that is not whole is left for the next chunk.
HeaderIfWhole(b) ==
    [frameLength |-> 0, streamId |-> 0, metaPresent |-> FALSE, flags |-> 0,
     type |-> IF Holds(b, 9) THEN ToNumber(SubSeq(b.data, b.reader + 8, b.reader + 8)) \div 4
              ELSE 0,
     body |-> IF Holds(b, 9) THEN Skip(b, 9) ELSE b]

\* RSocketHeader, and the buffer behind it as `body`.
Header(b) ==
    LET b1 == Skip(b, 3)
        b2 == Skip(b1, 4)
        b3 == Skip(b2, 1)
        typeByte == OrZero(ReadNumber(b2, 1))
    IN  [frameLength |-> OrZero(ReadNumber(b, 3)),
         streamId |-> OrZero(ReadNumber(b1, 4)),
         type |-> typeByte \div 4,
         metaPresent |-> Bit(typeByte, 1),
         flags |-> OrZero(ReadNumber(b3, 1)),
         body |-> Skip(b3, 1)]

\* Slip: the three bytes of the metadata's length are not counted.
DataLengthWithPrefix(frameLength, metadataLength) == frameLength - 6 - metadataLength

DataLength(frameLength, metadataLength) == frameLength - 6 - 3 - metadataLength

\* decodePayload: the two parts and the buffer behind them.
DecodePayload(b, metaPresent, frameLength) ==
    LET length == IF metaPresent THEN ReadNumber(b, 3) ELSE Undefined
        b1 == IF metaPresent THEN Skip(b, 3) ELSE b
        hasMetadata == length \notin {Undefined, 0}
        b2 == IF hasMetadata THEN Skip(b1, length) ELSE b1
        rest == IF length = Undefined THEN frameLength - 6
                ELSE DataLength(frameLength, length)
    IN  [metadata |-> IF hasMetadata THEN ReadBytes(b1, length) ELSE Undefined,
         data |-> IF rest > 0 THEN ReadBytes(b2, rest) ELSE Undefined,
         after |-> IF rest > 0 THEN Skip(b2, rest) ELSE b2]

NoPayload(b) == [metadata |-> Undefined, data |-> Undefined, after |-> b]

\* The decoders' `if (header && header.frameLength)`.
PayloadOf(h, b) ==
    IF h.frameLength = 0 THEN NoPayload(b)
    ELSE DecodePayload(b, h.metaPresent, h.frameLength)

\* A length of w bytes and as many bytes as it says, if it is not 0: the
\* buffer behind both.
SkipBlock(b, w) ==
    LET length == ReadNumber(b, w)
    IN  IF length \in {Undefined, 0} THEN Skip(b, w) ELSE Skip(Skip(b, w), length)

Decoded(h, fixed, flag, payload) ==
    [frame |-> [type |-> h.type, streamId |-> h.streamId, fixed |-> fixed,
                flag |-> flag, metadata |-> payload.metadata, data |-> payload.data],
     after |-> payload.after]

DecodeSetup(h) ==
    LET b1 == Skip(Skip(h.body, 2), 2)
        b2 == Skip(b1, 4)
        b3 == Skip(b2, 4)
        b4 == IF Bit(h.flags, 128) THEN SkipBlock(b3, 2) ELSE b3
        b5 == SkipBlock(SkipBlock(b4, 1), 1)
    IN  Decoded(h, <<OrDefault(ReadNumber(b1, 4), 20), OrDefault(ReadNumber(b2, 4), 90)>>,
                FALSE, DecodePayload(b5, h.metaPresent, h.frameLength))

DecodeLease(h) ==
    LET b == Skip(h.body, 4)
    IN  Decoded(h, <<OrZero(ReadNumber(h.body, 4)), OrZero(ReadNumber(b, 4))>>,
                FALSE, NoPayload(Skip(b, 4)))

\* KeepAliveFrame reads four bytes of a position of eight.
DecodeKeepAlive(h) ==
    Decoded(h, <<OrZero(ReadNumber(h.body, 4))>>, Bit(h.flags, 128),
            PayloadOf(h, Skip(h.body, 4)))

DecodeRequest(h) == Decoded(h, <<>>, FALSE, PayloadOf(h, h.body))

\* REQUEST_STREAM and REQUEST_CHANNEL: decodePayload is not told of the four
\* bytes of initialRequestN.
DecodeRequestWithN(h) ==
    Decoded(h, <<ReadNumber(h.body, 4)>>, FALSE, PayloadOf(h, Skip(h.body, 4)))

DecodeRequestN(h) ==
    Decoded(h, <<ReadNumber(h.body, 4)>>, FALSE, NoPayload(Skip(h.body, 4)))

DecodeCancel(h) == Decoded(h, <<>>, FALSE, NoPayload(h.body))

DecodePayloadFrame(h) == Decoded(h, <<>>, Bit(h.flags, 64), PayloadOf(h, h.body))

DecodeError(h) ==
    LET b == Skip(h.body, 4)
        rest == h.frameLength - 10
    IN  Decoded(h, <<OrZero(ReadNumber(h.body, 4))>>, FALSE,
                [metadata |-> Undefined,
                 data |-> IF rest > 0 THEN ReadBytes(b, rest) ELSE Undefined,
                 after |-> IF rest > 0 THEN Skip(b, rest) ELSE b])

\* The default case, METADATA_PUSH included: nothing is yielded, and too
\* little is skipped.
SkipFrame(h) ==
    [frame |-> NoFrame,
     after |-> IF h.frameLength > 9 THEN Skip(h.body, h.frameLength - 9) ELSE h.body]

\* The switch of parseFrames.
Decode(b) ==
    LET h == Header(b)
    IN  CASE h.type = FrameType.SETUP -> DecodeSetup(h)
          [] h.type = FrameType.LEASE -> DecodeLease(h)
          [] h.type = FrameType.KEEPALIVE -> DecodeKeepAlive(h)
          [] h.type \in {FrameType.REQUEST_RESPONSE, FrameType.REQUEST_FNF} ->
                 DecodeRequest(h)
          [] h.type \in {FrameType.REQUEST_STREAM, FrameType.REQUEST_CHANNEL} ->
                 DecodeRequestWithN(h)
          [] h.type = FrameType.REQUEST_N -> DecodeRequestN(h)
          [] h.type = FrameType.CANCEL -> DecodeCancel(h)
          [] h.type = FrameType.PAYLOAD -> DecodePayloadFrame(h)
          [] h.type = FrameType.ERROR -> DecodeError(h)
          [] OTHER -> SkipFrame(h)

-----------------------------------------------------------------------------
(* Chunks                                                                  *)

Arrives(bytes, frames) ==
    /\ ~IsReadable(buffer)
    /\ buffer' = FromUint8Array(bytes)
    /\ chunk' = frames
    /\ parsed' = <<>>

Joined(frames) ==
    LET upTo[n \in 0..Len(frames)] ==
            IF n = 0 THEN <<>> ELSE upTo[n - 1] \o Encode(frames[n])
    IN  upTo[Len(frames)]

\* TCP, with the boundaries of frames respected: some frames as written.
ReadFrames ==
    \E n \in 1..MaxFrames : \E frames \in [1..n -> Written] :
        Arrives(Joined(frames), frames)

\* Slip: the received message is not given its length back.
MessageUnprefixed(f) == SubSeq(Encode(f), 4, Len(Encode(f)))

\* WebSocket: write cuts the length off, the receiver puts back that of the message.
Message(f) ==
    LET sent == SubSeq(Encode(f), 4, Len(Encode(f)))
    IN  ToByteArray(Len(sent), 3) \o sent

ReadMessage == \E f \in Written : Arrives(Message(f), <<f>>)

\* TCP, with a frame that began in the chunk before or ends in the next.
ReadCut ==
    \E f \in CutFrames : \E n \in 1..Len(Encode(f)) - 1 :
        \/ Arrives(SubSeq(Encode(f), 1, n), <<>>)
        \/ Arrives(SubSeq(Encode(f), n + 1, Len(Encode(f))), <<>>)

\* One turn of parseFrames' loop.
Parse ==
    LET next == Decode(buffer)
    IN  /\ IsReadable(buffer)
        /\ buffer' = next.after
        /\ parsed' = IF next.frame = NoFrame THEN parsed ELSE Append(parsed, next.frame)
        /\ UNCHANGED chunk

Next == ReadFrames \/ ReadMessage \/ ReadCut \/ Parse

Spec == Init /\ [][Next]_vars

-----------------------------------------------------------------------------
(* Properties                                                              *)

\* An empty part is written like one that is missing, but for its flag.
Normal(f) ==
    [f EXCEPT !.metadata = IF @ = <<>> THEN Undefined ELSE @,
              !.data = IF @ = <<>> THEN Undefined ELSE @]

\* The frames whose decoder takes as many bytes as their encoder wrote.
TakesItsBytes(f) == f.type \in {FrameType.REQUEST_RESPONSE, FrameType.REQUEST_FNF,
    FrameType.REQUEST_N, FrameType.CANCEL, FrameType.PAYLOAD, FrameType.ERROR}

\* A chunk of whole frames of the types that TakesItsBytes names is parsed into
\* just these frames, in order, with their payloads, however many there are and
\* whatever the chunk before did to the parser (encoders, parseFrames).
ChunkFaithful ==
    (~IsReadable(buffer) /\ chunk # <<>> /\ \A i \in DOMAIN chunk : TakesItsBytes(chunk[i]))
        => parsed = [i \in DOMAIN chunk |-> Normal(chunk[i])]

\* Of any chunk that begins with a frame, that frame is recognised: its type,
\* stream, numbers, flag and metadata are what was written, even where its
\* data or what follows is lost (the decoders; METADATA_PUSH has none).
FirstFrameRecognised ==
    (chunk # <<>> /\ parsed # <<>> /\ chunk[1].type # FrameType.METADATA_PUSH)
        => [parsed[1] EXCEPT !.data = Undefined]
               = [Normal(chunk[1]) EXCEPT !.data = Undefined]

\* As long as bytes are left every turn of the loop takes at least one of them,
\* whatever they are and wherever the chunk was cut, so the loop, which nothing
\* can interrupt, ends (parseFrames, and reads past the end that do not move).
TurnsTakeBytes == IsReadable(buffer) => Decode(buffer).after.reader > buffer.reader

\* "[x] REQUEST_STREAM" (README.md): a stream's request that has a chunk of its
\* own reaches the responder with its data.
StreamRequestFaithful ==
    (~IsReadable(buffer) /\ Len(chunk) = 1 /\ chunk[1].type = FrameType.REQUEST_STREAM)
        => parsed # <<>> /\ parsed[1] = Normal(chunk[1])
=============================================================================
