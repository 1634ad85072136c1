------------------------------ MODULE CodecProofs ------------------------------
(***************************************************************************)
(* A ByteBuffer stays in bounds and gives back every number written to it, *)
(* whatever is written, inserted, read and reset, in any order and for any *)
(* sizes and numbers.  The second needs a stronger invariant: where a      *)
(* number was written, the data holds its bytes one by one.                *)
(*                                                                         *)
(* parseFrames ends on every chunk: whatever its bytes are, each turn of   *)
(* the loop takes at least one, and stays inside the buffer.  And what the *)
(* encoders write the decoders read: by the bytes that each of them writes *)
(* one behind the other (EncodeIs) and that the reads of a decoder go over *)
(* in turn (DecodesFrame), a chunk of whole frames is taken apart frame by *)
(* frame (TurnTakesFrame), whatever the frames are and however many.       *)
(***************************************************************************)
EXTENDS Framing, ByteBuffer, ByteBuffersLemmas

-----------------------------------------------------------------------------
(* BufferTypeOK                                                                  *)

LEMMA BufferInitTypeOK == BufferInit => BufferTypeOK
<1> SUFFICES ASSUME BufferInit PROVE BufferTypeOK
  OBVIOUS
<1>1. PICK n \in Sizes : byteBuffer = Alloc(n)
  BY DEF BufferInit
<1>2. n \in Nat
  BY <1>1, SizesAssumption
<1> DEFINE zeros == [i \in 1..n |-> 0]
<1>3. zeros \in Seq(Bytes) /\ Len(zeros) = n
  BY <1>2, BytesAreNumbers
<1> HIDE DEF zeros
<1>4. byteBuffer = [data |-> zeros, reader |-> 0, writer |-> 0, capacity |-> n]
  BY <1>1, <1>3 DEF Alloc, FromUint8Array, zeros
<1>5. InBounds(byteBuffer)
  BY <1>2, <1>3, <1>4 DEF InBounds, Buffer
<1> QED
  BY <1>5 DEF BufferInit, BufferTypeOK

LEMMA WidthsAre == Widths = 1..4
BY DEF Widths

LEMMA BufferNextTypeOK == BufferTypeOK /\ [BufferNext]_bufferVars => BufferTypeOK'
<1> SUFFICES ASSUME BufferTypeOK, [BufferNext]_bufferVars PROVE BufferTypeOK'
  OBVIOUS
<1>1. InBounds(byteBuffer) /\ fields \subseteq Field /\ Numbers \subseteq Nat
  BY NumbersAssumption DEF BufferTypeOK
<1>2. byteBuffer.writer \in Nat
  BY <1>1 DEF InBounds, Buffer
<1>3. ASSUME NEW value \in Numbers, NEW w \in Widths, Write(value, w)
      PROVE  BufferTypeOK'
  <2>1. value \in Nat /\ w \in 1..4
    BY <1>1, WidthsAre
  <2>2. InBounds(byteBuffer')
    BY <1>1, <1>3, <2>1, ToByteArrayType, WriteBytesType DEF Write
  <2>3. [at |-> byteBuffer.writer, width |-> w, value |-> value] \in Field
    BY <1>2 DEF Field
  <2>4. fields' \subseteq Field
    BY <1>1, <1>3, <2>3 DEF Write, Kept
  <2> QED
    BY <2>2, <2>4 DEF BufferTypeOK
<1>4. ASSUME NEW value \in Numbers, WriteI64(value)
      PROVE  BufferTypeOK'
  <2>1. InBounds(byteBuffer')
    BY <1>1, <1>4, I64ToByteArrayType, WriteBytesType DEF WriteI64
  <2>2. fields' \subseteq Field
    BY <1>1, <1>4 DEF WriteI64, Kept
  <2> QED
    BY <2>1, <2>2 DEF BufferTypeOK
<1>5. ASSUME NEW value \in Numbers, InsertI24(value)
      PROVE  BufferTypeOK'
  <2>1. InBounds(byteBuffer')
    BY <1>1, <1>5, ToByteArrayType, InsertBytesType DEF InsertI24
  <2>2. [at |-> byteBuffer.writer, width |-> 3, value |-> value] \in Field
    BY <1>2, WidthsAre DEF Field
  <2>3. \A f \in Field : [f EXCEPT !.at = @ + 3] \in Field
    BY DEF Field
  <2>4. fields' \subseteq Field
    BY <1>1, <1>5, <2>2, <2>3 DEF InsertI24
  <2> QED
    BY <2>1, <2>4 DEF BufferTypeOK
<1>6. ASSUME NEW n \in Widths \cup {8}, Read(n)
      PROVE  BufferTypeOK'
  <2>1. n \in Nat
    BY WidthsAre
  <2> QED
    BY <1>1, <1>6, <2>1, OtherCallsType DEF Read, BufferTypeOK
<1>7. CASE Remain
  BY <1>1, <1>7, OtherCallsType DEF Remain, BufferTypeOK
<1>8. CASE Reset
  BY <1>1, <1>8, OtherCallsType DEF Reset, BufferTypeOK
<1>9. CASE UNCHANGED bufferVars
  BY <1>9 DEF bufferVars, BufferTypeOK
<1> QED
  BY <1>3, <1>4, <1>5, <1>6, <1>7, <1>8, <1>9 DEF BufferNext

\* The data is a sequence of bytes, the indices stay inside it and the capacity
\* is its length, after any calls in any order (ByteBuffer.ts, autoGrow above all).
THEOREM BufferTypeCorrect == BufferSpec => []BufferTypeOK
BY BufferInitTypeOK, BufferNextTypeOK, PTL DEF BufferSpec

-----------------------------------------------------------------------------
(* FieldsIntact                                                            *)

\* The bytes of the field stand where it was written.
Stands(b, f) ==
    /\ f.at + f.width <= Len(b.data)
    /\ \A i \in 1..f.width : b.data[f.at + i] = ToByteArray(f.value, f.width)[i]

FieldsStand == \A f \in fields : Fits(f.value, f.width) /\ Stands(byteBuffer, f)

BufferInv == BufferTypeOK /\ FieldsStand

\* Reading the bytes of a field gives its number.
LEMMA ReadBack ==
    ASSUME NEW b, InBounds(b), NEW f \in Field, Fits(f.value, f.width), Stands(b, f)
    PROVE  ReadNumber([b EXCEPT !.reader = f.at], f.width) = f.value
<1> DEFINE c == [b EXCEPT !.reader = f.at]
           read == SubSeq(b.data, f.at + 1, f.at + f.width)
           written == ToByteArray(f.value, f.width)
<1>1. f.at \in Nat /\ f.width \in 1..4 /\ f.value \in Nat
  BY NumbersAssumption, WidthsAre DEF Field
<1>2. b.data \in Seq(Bytes) /\ b.capacity = Len(b.data)
  BY DEF InBounds, Buffer
<1>3. c.reader = f.at /\ c.data = b.data /\ c.capacity = b.capacity
  BY DEF InBounds, Buffer
<1>4. f.at + f.width <= Len(b.data) /\ \A i \in 1..f.width : b.data[f.at + i] = written[i]
  BY DEF Stands
<1>5. written \in Seq(Bytes) /\ Len(written) = f.width
  BY <1>1, ToByteArrayType
<1> HIDE DEF c, written
<1>6. f.width \in Nat /\ f.at + f.width <= Len(b.data)
  BY <1>1, <1>4
<1>7. /\ read \in Seq(Bytes) /\ Len(read) = f.width
      /\ \A i \in 1..f.width : read[i] = b.data[f.at + i]
  BY <1>1, <1>2, <1>6, PartOf
<1> HIDE DEF read
<1>8. read = written
  BY <1>4, <1>5, <1>7
<1>9. ReadNumber(c, f.width) = ToNumber(read)
  BY <1>2, <1>3, <1>4 DEF ReadNumber, Holds, ReadBytes, read
<1> QED
  BY <1>1, <1>8, <1>9, RoundTrip DEF c, written

LEMMA FieldNumbers ==
    ASSUME NEW f \in Field
    PROVE  /\ f.at \in Nat /\ f.width \in 1..4 /\ f.value \in Nat
           /\ ToByteArray(f.value, f.width) \in Seq(Bytes)
           /\ Len(ToByteArray(f.value, f.width)) = f.width
<1>1. f.at \in Nat /\ f.width \in 1..4 /\ f.value \in Nat
  BY NumbersAssumption, WidthsAre DEF Field
<1> QED
  BY <1>1, ToByteArrayType

\* A field stands where its bytes have just been written or inserted.
LEMMA WrittenStands ==
    ASSUME NEW b, InBounds(b), NEW f \in Field, f.at = b.writer
    PROVE  /\ Stands(WriteBytes(b, ToByteArray(f.value, f.width)), f)
           /\ Stands(InsertBytes(b, ToByteArray(f.value, f.width)), f)
<1> DEFINE bytes == ToByteArray(f.value, f.width)
           written == WriteBytes(b, bytes).data
           inserted == InsertBytes(b, bytes).data
<1>1. /\ bytes \in Seq(Bytes) /\ Len(bytes) = f.width
      /\ b.writer \in Nat /\ Len(b.data) \in Nat /\ b.writer <= Len(b.data)
  BY FieldNumbers DEF InBounds, Buffer
<1> HIDE DEF bytes
<1>2. /\ b.writer + Len(bytes) <= Len(written)
      /\ \A i \in 1..Len(bytes) : written[b.writer + i] = bytes[i]
  BY <1>1, WriteBytesData
<1>3. /\ Len(inserted) = Len(b.data) + Len(bytes)
      /\ \A i \in 1..Len(bytes) : inserted[b.writer + i] = bytes[i]
  BY <1>1, InsertBytesData
<1> HIDE DEF written, inserted
<1>4. b.writer + f.width <= Len(written) /\ b.writer + f.width <= Len(inserted)
  BY <1>1, <1>2, <1>3, FieldNumbers
<1> QED
  BY <1>1, <1>2, <1>3, <1>4 DEF Stands, bytes, written, inserted

\* A write leaves the fields before it and behind it where they stand.
LEMMA KeptStands ==
    ASSUME NEW b, InBounds(b), NEW bytes \in Seq(Bytes), NEW f \in Field, Stands(b, f),
           f.at + f.width <= b.writer \/ b.writer + Len(bytes) <= f.at
    PROVE  Stands(WriteBytes(b, bytes), f)
<1> DEFINE data == WriteBytes(b, bytes).data
           n == Len(bytes)
<1>1. /\ n \in Nat /\ b.writer \in Nat /\ Len(b.data) \in Nat
      /\ f.at \in Nat /\ f.width \in 1..4
      /\ f.at + f.width <= Len(b.data)
  BY FieldNumbers DEF InBounds, Buffer, Stands
<1>2. /\ Len(b.data) <= Len(data) /\ Len(data) \in Int
      /\ \A i \in 1..Len(b.data) :
             i <= b.writer \/ b.writer + n < i => data[i] = b.data[i]
  <2>1. WriteBytes(b, bytes).data \in Seq(Bytes)
    BY WriteBytesType DEF InBounds, Buffer
  <2>2. Len(data) \in Int
    BY <2>1
  <2> QED
    BY <2>2, WriteBytesData
<1> HIDE DEF data, n
<1>3. ASSUME NEW i \in 1..f.width
      PROVE  data[f.at + i] = b.data[f.at + i]
  <2>1. f.at + i \in 1..Len(b.data)
    BY <1>1
  <2>2. f.at + i <= b.writer \/ b.writer + n < f.at + i
    BY <1>1 DEF n
  <2> QED
    BY <1>2, <2>1, <2>2
<1>4. f.at + f.width <= Len(data)
  BY <1>1, <1>2
<1> QED
  BY <1>3, <1>4 DEF Stands, data

\* An insertion leaves the fields before it and moves up those behind it.
LEMMA MovedStands ==
    ASSUME NEW b, InBounds(b), NEW bytes \in Seq(Bytes), NEW f \in Field, Stands(b, f)
    PROVE  /\ f.at + f.width <= b.writer => Stands(InsertBytes(b, bytes), f)
           /\ b.writer <= f.at =>
                  Stands(InsertBytes(b, bytes), [f EXCEPT !.at = @ + Len(bytes)])
<1> DEFINE data == InsertBytes(b, bytes).data
           n == Len(bytes)
           g == [f EXCEPT !.at = @ + n]
<1>1. /\ n \in Nat /\ b.writer \in Nat /\ Len(b.data) \in Nat /\ b.writer <= Len(b.data)
      /\ f.at \in Nat /\ f.width \in 1..4
      /\ f.at + f.width <= Len(b.data)
  BY FieldNumbers DEF InBounds, Buffer, Stands
<1>2. /\ Len(data) = Len(b.data) + n
      /\ \A i \in 1..b.writer : data[i] = b.data[i]
      /\ \A i \in b.writer + 1..Len(b.data) : data[i + n] = b.data[i]
  BY InsertBytesData
<1>3. g.at = f.at + n /\ g.width = f.width /\ g.value = f.value
  BY DEF Field
<1> HIDE DEF data, n, g
<1>4. ASSUME f.at + f.width <= b.writer
      PROVE  Stands(InsertBytes(b, bytes), f)
  <2>1. ASSUME NEW i \in 1..f.width
        PROVE  data[f.at + i] = b.data[f.at + i]
    <3>1. f.at + i \in 1..b.writer
      BY <1>1, <1>4
    <3> QED
      BY <1>2, <3>1
  <2>2. f.at + f.width <= Len(data)
    BY <1>1, <1>2
  <2> QED
    BY <2>1, <2>2 DEF Stands, data
<1>5. ASSUME b.writer <= f.at
      PROVE  Stands(InsertBytes(b, bytes), g)
  <2>1. ASSUME NEW i \in 1..f.width
        PROVE  data[f.at + n + i] = b.data[f.at + i]
    <3>1. f.at + i \in b.writer + 1..Len(b.data)
      BY <1>1, <1>5
    <3>2. f.at + n + i = f.at + i + n
      BY <1>1
    <3> QED
      BY <1>2, <3>1, <3>2
  <2>2. f.at + n + f.width <= Len(data)
    BY <1>1, <1>2
  <2> QED
    BY <1>3, <2>1, <2>2 DEF Stands, data
<1> QED
  BY <1>4, <1>5 DEF g, n

LEMMA FieldsReadBack == BufferInv => FieldsIntact
BY ReadBack DEF BufferInv, BufferTypeOK, FieldsStand, FieldsIntact

LEMMA InitStand == BufferInit => FieldsStand
BY DEF BufferInit, FieldsStand

LEMMA NextStand == BufferInv /\ [BufferNext]_bufferVars => FieldsStand'
<1> SUFFICES ASSUME BufferInv, [BufferNext]_bufferVars PROVE FieldsStand'
  OBVIOUS
<1>1. /\ InBounds(byteBuffer) /\ fields \subseteq Field /\ Numbers \subseteq Nat
      /\ \A f \in fields : Fits(f.value, f.width) /\ Stands(byteBuffer, f)
  BY NumbersAssumption DEF BufferInv, BufferTypeOK, FieldsStand
<1>2. byteBuffer.writer \in Nat
  BY <1>1 DEF InBounds, Buffer
<1>3. ASSUME NEW value \in Numbers, NEW w \in Widths, Write(value, w)
      PROVE  FieldsStand'
  <2> DEFINE new == [at |-> byteBuffer.writer, width |-> w, value |-> value]
             bytes == ToByteArray(value, w)
  <2>1. /\ new \in Field /\ new.at = byteBuffer.writer /\ new.width = w /\ new.value = value
        /\ Fits(value, w)
    BY <1>2, <1>3 DEF Field, Write
  <2>2. bytes \in Seq(Bytes) /\ Len(bytes) = w
    BY <1>1, ToByteArrayType, WidthsAre
  <2>3. byteBuffer' = WriteBytes(byteBuffer, bytes) /\ fields' = Kept(w) \cup {new}
    BY <1>3 DEF Write
  <2> HIDE DEF new
  <2>4. Stands(byteBuffer', new)
    BY <1>1, <2>1, <2>3, WrittenStands
  <2> HIDE DEF bytes
  <2>5. ASSUME NEW f \in Kept(w)
        PROVE  Fits(f.value, f.width) /\ Stands(byteBuffer', f)
    BY <1>1, <2>2, <2>3, KeptStands DEF Kept
  <2> QED
    BY <2>1, <2>3, <2>4, <2>5 DEF FieldsStand
<1>4. ASSUME NEW value \in Numbers, WriteI64(value)
      PROVE  FieldsStand'
  <2> DEFINE bytes == I64ToByteArray(value)
  <2>1. bytes \in Seq(Bytes) /\ Len(bytes) = 8
    BY <1>1, I64ToByteArrayType
  <2>2. byteBuffer' = WriteBytes(byteBuffer, bytes) /\ fields' = Kept(8)
    BY <1>4 DEF WriteI64
  <2> HIDE DEF bytes
  <2>3. ASSUME NEW f \in Kept(8)
        PROVE  Fits(f.value, f.width) /\ Stands(byteBuffer', f)
    BY <1>1, <2>1, <2>2, KeptStands DEF Kept
  <2> QED
    BY <2>2, <2>3 DEF FieldsStand
<1>5. ASSUME NEW value \in Numbers, InsertI24(value)
      PROVE  FieldsStand'
  <2> DEFINE new == [at |-> byteBuffer.writer, width |-> 3, value |-> value]
             bytes == ToByteArray(value, 3)
             before == {f \in fields : f.at + f.width <= byteBuffer.writer}
             behind == {f \in fields : byteBuffer.writer <= f.at}
             Moved(f) == [f EXCEPT !.at = @ + 3]
  <2>1. /\ new \in Field /\ new.at = byteBuffer.writer /\ new.width = 3 /\ new.value = value
        /\ Fits(value, 3)
    BY <1>2, <1>5, WidthsAre DEF Field, InsertI24
  <2>2. bytes \in Seq(Bytes) /\ Len(bytes) = 3
    BY <1>1, ToByteArrayType
  <2>3. /\ byteBuffer' = InsertBytes(byteBuffer, bytes)
        /\ fields' = before \cup {Moved(f) : f \in behind} \cup {new}
    BY <1>5 DEF InsertI24
  <2> HIDE DEF new
  <2>4. Stands(byteBuffer', new)
    BY <1>1, <2>1, <2>3, WrittenStands
  <2> HIDE DEF bytes
  <2>5. ASSUME NEW f \in before
        PROVE  Fits(f.value, f.width) /\ Stands(byteBuffer', f)
    BY <1>1, <2>2, <2>3, MovedStands
  <2>6. ASSUME NEW f \in behind
        PROVE  Fits(Moved(f).value, Moved(f).width) /\ Stands(byteBuffer', Moved(f))
    <3>1. f \in Field /\ Stands(byteBuffer, f) /\ Fits(f.value, f.width) /\ byteBuffer.writer <= f.at
      BY <1>1
    <3>2. Stands(InsertBytes(byteBuffer, bytes), [f EXCEPT !.at = @ + Len(bytes)])
      BY <1>1, <2>2, <3>1, MovedStands
    <3>3. Moved(f).value = f.value /\ Moved(f).width = f.width
      BY <3>1 DEF Field
    <3> QED
      BY <2>2, <2>3, <3>1, <3>2, <3>3
  <2> HIDE DEF before, behind, Moved
  <2> QED
    BY <2>1, <2>3, <2>4, <2>5, <2>6 DEF FieldsStand
\* No read and no reset touches the data.
<1>6. ASSUME byteBuffer'.data = byteBuffer.data, fields' = fields
      PROVE  FieldsStand'
  BY <1>1, <1>6 DEF FieldsStand, Stands
<1>7. ASSUME NEW n \in Widths \cup {8}, Read(n)
      PROVE  FieldsStand'
  BY <1>1, <1>6, <1>7 DEF Read, Skip, InBounds, Buffer
<1>8. CASE Remain
  BY <1>1, <1>6, <1>8 DEF Remain, SkipRemain, InBounds, Buffer
<1>9. CASE Reset
  BY <1>1, <1>6, <1>9
     DEF Reset, Rewind, ResetWriterIndex, ResetReaderIndex, InBounds, Buffer
<1>10. CASE UNCHANGED bufferVars
  BY <1>6, <1>10 DEF bufferVars
<1> QED
  BY <1>3, <1>4, <1>5, <1>7, <1>8, <1>9, <1>10 DEF BufferNext

\* Every number of at most four bytes that was written is read back as it was
\* from where it was written, until it is written over or cut in two (the
\* conversions, writeBytes, insertBytes and autoGrow).
THEOREM FieldsCorrect == BufferSpec => []FieldsIntact
<1>1. BufferInit => BufferInv
  BY BufferInitTypeOK, InitStand DEF BufferInv
<1>2. BufferInv /\ [BufferNext]_bufferVars => BufferInv'
  BY BufferNextTypeOK, NextStand DEF BufferInv
<1> QED
  BY <1>1, <1>2, FieldsReadBack, PTL DEF BufferSpec

-----------------------------------------------------------------------------
(* The parser                                                              *)

LEMMA OrDefaultType ==
    ASSUME NEW b, InBounds(b), NEW w \in 1..4, NEW default \in Nat
    PROVE  OrDefault(ReadNumber(b, w), default) \in Nat
BY ReadNumberType DEF OrDefault

-----------------------------------------------------------------------------
(* Decoders                                                                *)

LEMMA SkipBlockAhead ==
    ASSUME NEW b, InBounds(b), NEW w \in 1..4
    PROVE  Ahead(b, SkipBlock(b, w))
<1> DEFINE length == ReadNumber(b, w)
<1>1. Ahead(b, Skip(b, w))
  BY SkipAhead
<1>2. length \in Nat => Ahead(Skip(b, w), Skip(Skip(b, w), length))
  BY <1>1, SkipAhead DEF Ahead
<1>3. length \in Nat \cup {Undefined}
  BY ReadNumberType
<1> QED
  BY <1>1, <1>2, <1>3, AheadOfAhead DEF SkipBlock

LEMMA DecodePayloadAhead ==
    ASSUME NEW b, InBounds(b), NEW metaPresent, NEW frameLength \in Nat
    PROVE  Ahead(b, DecodePayload(b, metaPresent, frameLength).after)
<1> DEFINE length == IF metaPresent THEN ReadNumber(b, 3) ELSE Undefined
           b1 == IF metaPresent THEN Skip(b, 3) ELSE b
           b2 == IF length \notin {Undefined, 0} THEN Skip(b1, length) ELSE b1
           rest == IF length = Undefined THEN frameLength - 6
                   ELSE DataLength(frameLength, length)
           after == IF rest > 0 THEN Skip(b2, rest) ELSE b2
<1>1. DecodePayload(b, metaPresent, frameLength).after = after
  BY DEF DecodePayload
<1>2. length \in Nat \cup {Undefined}
  BY ReadNumberType
<1>3. Ahead(b, b1) /\ InBounds(b1)
  BY SkipAhead, AheadOfItself DEF Ahead
<1> HIDE DEF length, b1
<1>4. Ahead(b1, b2) /\ InBounds(b2)
  BY <1>2, <1>3, SkipAhead, AheadOfItself DEF Ahead
<1>5. rest \in Int
  BY <1>2 DEF DataLength
<1> HIDE DEF b2, rest
<1>6. Ahead(b2, after)
  BY <1>4, <1>5, SkipAhead, AheadOfItself
<1> HIDE DEF after
<1>7. Ahead(b, b2)
  BY <1>3, <1>4, AheadOfAhead
<1> QED
  BY <1>1, <1>6, <1>7, AheadOfAhead

\* What the decoders rely on in a header.
IsHeader(h) == InBounds(h.body) /\ h.frameLength \in Nat

LEMMA HeaderProgress ==
    ASSUME NEW b, InBounds(b), IsReadable(b)
    PROVE  /\ IsHeader(Header(b))
           /\ Ahead(b, Header(b).body)
           /\ Header(b).body.reader > b.reader
<1> DEFINE b1 == Skip(b, 3)
           b2 == Skip(b1, 4)
           b3 == Skip(b2, 1)
           b4 == Skip(b3, 1)
<1>1. Header(b).body = b4 /\ Header(b).frameLength = OrZero(ReadNumber(b, 3))
  BY DEF Header
<1>2. Ahead(b, b1) /\ InBounds(b1)
  BY SkipAhead DEF Ahead
<1>3. Ahead(b1, b2) /\ InBounds(b2)
  BY <1>2, SkipAhead DEF Ahead
<1>4. Ahead(b2, b3) /\ InBounds(b3)
  BY <1>3, SkipAhead DEF Ahead
<1>5. Ahead(b3, b4) /\ InBounds(b4)
  BY <1>4, SkipAhead DEF Ahead
\* If three bytes and four are not there, one is.
<1>6. b3.reader > b.reader
  <2>1. CASE b2.reader > b.reader
    BY <2>1, <1>4, <1>3 DEF Ahead, InBounds, Buffer
  <2>2. CASE b2.reader = b.reader
    <3>1. b2.capacity = b.capacity /\ Holds(b2, 1)
      BY <2>2, <1>2, <1>3 DEF Ahead, InBounds, Buffer, IsReadable, Holds
    <3> QED
      BY <2>2, <3>1, <1>3 DEF Skip, InBounds, Buffer
  <2> QED
    BY <2>1, <2>2, <1>2, <1>3 DEF Ahead, InBounds, Buffer
<1> HIDE DEF b1, b2, b3, b4
<1>7. Ahead(b, b4) /\ b4.reader > b.reader
  BY <1>2, <1>3, <1>4, <1>5, <1>6 DEF Ahead, InBounds, Buffer
<1>8. OrZero(ReadNumber(b, 3)) \in Nat
  BY OrDefaultType DEF OrZero
<1> QED
  BY <1>1, <1>5, <1>7, <1>8 DEF IsHeader

LEMMA PayloadOfAhead ==
    ASSUME NEW h, IsHeader(h), NEW b, InBounds(b)
    PROVE  Ahead(b, PayloadOf(h, b).after)
BY DecodePayloadAhead, AheadOfItself DEF PayloadOf, NoPayload, IsHeader

LEMMA DecodeSetupAhead ==
    ASSUME NEW h, IsHeader(h)
    PROVE  Ahead(h.body, DecodeSetup(h).after)
<1> DEFINE b0 == Skip(h.body, 2)
           b1 == Skip(b0, 2)
           b2 == Skip(b1, 4)
           b3 == Skip(b2, 4)
           b4 == IF Bit(h.flags, 128) THEN SkipBlock(b3, 2) ELSE b3
           b5 == SkipBlock(b4, 1)
           b6 == SkipBlock(b5, 1)
           b7 == DecodePayload(b6, h.metaPresent, h.frameLength).after
<1>1. DecodeSetup(h).after = b7
  BY DEF DecodeSetup, Decoded
<1>2. Ahead(h.body, b0) /\ InBounds(b0)
  BY SkipAhead DEF Ahead, IsHeader
<1>3. Ahead(b0, b1) /\ InBounds(b1)
  BY <1>2, SkipAhead DEF Ahead
<1>4. Ahead(b1, b2) /\ InBounds(b2)
  BY <1>3, SkipAhead DEF Ahead
<1>5. Ahead(b2, b3) /\ InBounds(b3)
  BY <1>4, SkipAhead DEF Ahead
<1>6. Ahead(b3, b4) /\ InBounds(b4)
  BY <1>5, SkipBlockAhead, AheadOfItself DEF Ahead
<1>7. Ahead(b4, b5) /\ InBounds(b5)
  BY <1>6, SkipBlockAhead DEF Ahead
<1>8. Ahead(b5, b6) /\ InBounds(b6)
  BY <1>7, SkipBlockAhead DEF Ahead
<1>9. Ahead(b6, b7) /\ InBounds(b7)
  BY <1>8, DecodePayloadAhead DEF Ahead, IsHeader
<1> HIDE DEF b0, b1, b2, b3, b4, b5, b6, b7
<1>10. InBounds(h.body)
  BY DEF IsHeader
<1>11. Ahead(h.body, b2)
  BY <1>2, <1>3, <1>4, <1>10, AheadOfAhead
<1>12. Ahead(h.body, b4)
  BY <1>5, <1>6, <1>10, <1>11, AheadOfAhead
<1>13. Ahead(h.body, b6)
  BY <1>7, <1>8, <1>10, <1>12, AheadOfAhead
<1> QED
  BY <1>1, <1>9, <1>10, <1>13, AheadOfAhead

\* The decoders that read four bytes and then a payload or nothing.
LEMMA DecodeNumberAhead ==
    ASSUME NEW h, IsHeader(h)
    PROVE  /\ Ahead(h.body, DecodeKeepAlive(h).after)
           /\ Ahead(h.body, DecodeRequestWithN(h).after)
           /\ Ahead(h.body, DecodeRequestN(h).after)
           /\ Ahead(h.body, DecodeLease(h).after)
<1> DEFINE b == Skip(h.body, 4)
<1>1. InBounds(h.body) /\ Ahead(h.body, b) /\ InBounds(b)
  BY SkipAhead DEF Ahead, IsHeader
<1>2. Ahead(b, PayloadOf(h, b).after)
  BY <1>1, PayloadOfAhead
<1>3. Ahead(b, Skip(b, 4))
  BY <1>1, SkipAhead
<1>4. /\ DecodeKeepAlive(h).after = PayloadOf(h, b).after
      /\ DecodeRequestWithN(h).after = PayloadOf(h, b).after
      /\ DecodeRequestN(h).after = b
      /\ DecodeLease(h).after = Skip(b, 4)
  BY DEF DecodeKeepAlive, DecodeRequestWithN, DecodeRequestN, DecodeLease, Decoded, NoPayload
<1> HIDE DEF b
<1> QED
  BY <1>1, <1>2, <1>3, <1>4, AheadOfAhead

\* Those that read a payload or nothing.
LEMMA DecodePlainAhead ==
    ASSUME NEW h, IsHeader(h)
    PROVE  /\ Ahead(h.body, DecodeRequest(h).after)
           /\ Ahead(h.body, DecodePayloadFrame(h).after)
           /\ Ahead(h.body, DecodeCancel(h).after)
<1>1. /\ DecodeRequest(h).after = PayloadOf(h, h.body).after
      /\ DecodePayloadFrame(h).after = PayloadOf(h, h.body).after
      /\ DecodeCancel(h).after = h.body
  BY DEF DecodeRequest, DecodePayloadFrame, DecodeCancel, Decoded, NoPayload
<1> QED
  BY <1>1, PayloadOfAhead, AheadOfItself DEF IsHeader

\* An ERROR and what the default case skips: their own arithmetic.
LEMMA DecodeRestAhead ==
    ASSUME NEW h, IsHeader(h)
    PROVE  /\ Ahead(h.body, DecodeError(h).after)
           /\ Ahead(h.body, SkipFrame(h).after)
<1> DEFINE b == Skip(h.body, 4)
           rest == h.frameLength - 10
           after == IF rest > 0 THEN Skip(b, rest) ELSE b
<1>1. InBounds(h.body) /\ Ahead(h.body, b) /\ InBounds(b) /\ h.frameLength \in Nat
  BY SkipAhead DEF Ahead, IsHeader
<1>2. DecodeError(h).after = after
  BY DEF DecodeError, Decoded
<1>3. rest \in Int
  BY <1>1
<1> HIDE DEF b, rest
<1>4. Ahead(b, after)
  BY <1>1, <1>3, SkipAhead, AheadOfItself
<1> HIDE DEF after
<1>5. Ahead(h.body, SkipFrame(h).after)
  <2>1. CASE h.frameLength > 9
    <3>1. h.frameLength - 9 \in Nat
      BY <1>1, <2>1
    <3> QED
      BY <1>1, <2>1, <3>1, SkipAhead DEF SkipFrame
  <2>2. CASE ~(h.frameLength > 9)
    BY <1>1, <2>2, AheadOfItself DEF SkipFrame
  <2> QED
    BY <2>1, <2>2
<1> QED
  BY <1>1, <1>2, <1>4, <1>5, AheadOfAhead

LEMMA DecodeAhead ==
    ASSUME NEW b, InBounds(b), IsReadable(b)
    PROVE  Ahead(b, Decode(b).after) /\ Decode(b).after.reader > b.reader
<1> DEFINE h == Header(b)
           after == Decode(b).after
<1>1. IsHeader(h) /\ Ahead(b, h.body) /\ h.body.reader > b.reader
  BY HeaderProgress
<1> HIDE DEF h
<1>2. Ahead(h.body, after)
  BY <1>1, DecodeSetupAhead, DecodeNumberAhead, DecodePlainAhead, DecodeRestAhead
     DEF Decode, h
<1> HIDE DEF after
<1>3. Ahead(b, after) /\ after.reader > b.reader
  BY <1>1, <1>2 DEF Ahead, InBounds, Buffer
<1> QED
  BY <1>3 DEF after

-----------------------------------------------------------------------------
LEMMA TurnTakesBytes == InBounds(buffer) => TurnsTakeBytes
BY DecodeAhead DEF TurnsTakeBytes

\* A turn stays inside the chunk it was given, and there is less left of it
\* afterwards, so that the turns on a chunk are no more than its bytes.
THEOREM ParserStaysInside ==
    InBounds(buffer) /\ Parse =>
        /\ InBounds(buffer')
        /\ buffer'.capacity = buffer.capacity
        /\ buffer'.capacity - buffer'.reader < buffer.capacity - buffer.reader
<1> SUFFICES ASSUME InBounds(buffer), Parse
             PROVE  /\ InBounds(buffer')
                    /\ buffer'.capacity = buffer.capacity
                    /\ buffer'.capacity - buffer'.reader < buffer.capacity - buffer.reader
  OBVIOUS
<1>1. Ahead(buffer, buffer') /\ buffer'.reader > buffer.reader
  BY DecodeAhead DEF Parse
<1> QED
  BY <1>1 DEF Ahead, InBounds, Buffer

\* parseFrames with any bytes for a chunk, not only those that Spec's encoders
\* write: a peer may send what it likes.
AnyChunk == \E bytes \in Seq(Bytes) : Arrives(bytes, <<>>)
BufferInBounds == InBounds(buffer)
AnySpec == Init /\ [][AnyChunk \/ Parse]_vars

\* parseFrames ends on every chunk: whatever bytes came before, and whatever
\* lengths they claim, each turn of its loop takes at least one.
THEOREM ParserEnds == AnySpec => []TurnsTakeBytes
<1>1. Init => BufferInBounds
  <2>1. [i \in 1..0 |-> 0] = <<>> /\ <<>> \in Seq(Bytes)
    OBVIOUS
  <2> QED
    BY <2>1, ChunkInBounds DEF Init, Alloc, BufferInBounds
<1>2. BufferInBounds /\ [AnyChunk \/ Parse]_vars => BufferInBounds'
  <2> SUFFICES ASSUME InBounds(buffer), [AnyChunk \/ Parse]_vars PROVE InBounds(buffer')
    BY DEF BufferInBounds
  <2>1. CASE AnyChunk
    BY <2>1, ChunkInBounds DEF AnyChunk, Arrives
  <2>2. CASE Parse
    BY <2>2, ParserStaysInside
  <2>3. CASE UNCHANGED vars
    BY <2>3 DEF vars
  <2> QED
    BY <2>1, <2>2, <2>3
<1>3. BufferInBounds => TurnsTakeBytes
  BY TurnTakesBytes DEF BufferInBounds
<1> QED
  BY <1>1, <1>2, <1>3, PTL DEF AnySpec

-----------------------------------------------------------------------------
(* What the decoders give back is a frame                                  *)

LEMMA ReadBytesType ==
    ASSUME NEW b, InBounds(b), NEW n \in Nat
    PROVE  ReadBytes(b, n) \in Optional
<1>1. CASE Holds(b, n)
  <2>1. b.reader \in Nat /\ b.reader + n <= Len(b.data) /\ b.data \in Seq(Bytes)
    BY <1>1 DEF Holds, InBounds, Buffer
  <2>2. SubSeq(b.data, b.reader + 1, b.reader + n) \in Seq(Bytes)
    BY <2>1, PartOf
  <2> QED
    BY <1>1, <2>2 DEF ReadBytes, Optional
<1>2. CASE ~Holds(b, n)
  BY <1>2 DEF ReadBytes, Optional
<1> QED
  BY <1>1, <1>2

\* A payload that a decoder gives back.
IsPayload(payload) == payload.metadata \in Optional /\ payload.data \in Optional

\* What a frame takes from its header.
IsTyped(h) == h.type \in 0..63 /\ h.streamId \in Nat

LEMMA HeaderType ==
    ASSUME NEW b, InBounds(b)
    PROVE  IsTyped(Header(b))
<1> DEFINE b1 == Skip(b, 3)
           b2 == Skip(b1, 4)
           byte == OrZero(ReadNumber(b2, 1))
<1>1. InBounds(b1)
  BY SkipAhead DEF Ahead
<1>2. InBounds(b2)
  BY <1>1, SkipAhead DEF Ahead
<1>3. Header(b).type = byte \div 4 /\ Header(b).streamId = OrZero(ReadNumber(b1, 4))
  BY DEF Header
<1> HIDE DEF b1, b2
<1>4. byte \in 0..255
  BY <1>2, ReadByteType DEF OrZero, OrDefault, Bytes
<1> HIDE DEF byte
<1>5. byte \div 4 \in 0..63
  BY <1>4
<1>6. OrZero(ReadNumber(b1, 4)) \in Nat
  BY <1>1, OrDefaultType DEF OrZero
<1> QED
  BY <1>3, <1>5, <1>6 DEF IsTyped

LEMMA DecodePayloadType ==
    ASSUME NEW b, InBounds(b), NEW metaPresent, NEW frameLength \in Nat
    PROVE  IsPayload(DecodePayload(b, metaPresent, frameLength))
<1> DEFINE length == IF metaPresent THEN ReadNumber(b, 3) ELSE Undefined
           b1 == IF metaPresent THEN Skip(b, 3) ELSE b
           hasMetadata == length \notin {Undefined, 0}
           b2 == IF hasMetadata THEN Skip(b1, length) ELSE b1
           rest == IF length = Undefined THEN frameLength - 6
                   ELSE DataLength(frameLength, length)
           payload == DecodePayload(b, metaPresent, frameLength)
<1>1. /\ payload.metadata = IF hasMetadata THEN ReadBytes(b1, length) ELSE Undefined
      /\ payload.data = IF rest > 0 THEN ReadBytes(b2, rest) ELSE Undefined
  BY DEF DecodePayload
<1>2. length \in Nat \cup {Undefined}
  BY ReadNumberType
<1>3. InBounds(b1)
  BY SkipAhead DEF Ahead
<1> HIDE DEF length, b1, payload
<1>4. InBounds(b2)
  BY <1>2, <1>3, SkipAhead DEF Ahead
<1>5. rest \in Int
  BY <1>2 DEF DataLength
<1> HIDE DEF b2, rest
<1>6. payload.metadata \in Optional
  BY <1>1, <1>2, <1>3, ReadBytesType DEF Optional
<1>7. payload.data \in Optional
  BY <1>1, <1>4, <1>5, ReadBytesType DEF Optional
<1> QED
  BY <1>6, <1>7 DEF IsPayload, payload

LEMMA PayloadOfType ==
    ASSUME NEW h, IsHeader(h), NEW b, InBounds(b)
    PROVE  IsPayload(PayloadOf(h, b)) /\ IsPayload(NoPayload(b))
<1>1. IsPayload(NoPayload(b))
  BY DEF IsPayload, NoPayload, Optional
<1> QED
  BY <1>1, DecodePayloadType DEF PayloadOf, IsHeader

LEMMA DecodedType ==
    ASSUME NEW h, IsTyped(h), NEW fixed \in Seq(Nat \cup {Undefined}), NEW flag \in BOOLEAN,
           NEW payload, IsPayload(payload)
    PROVE  Decoded(h, fixed, flag, payload).frame \in Frame
BY DEF IsTyped, IsPayload, Decoded, Frame

LEMMA NumbersType ==
    ASSUME NEW m \in Nat \cup {Undefined}, NEW n \in Nat \cup {Undefined}
    PROVE  /\ <<>> \in Seq(Nat \cup {Undefined})
           /\ <<m>> \in Seq(Nat \cup {Undefined})
           /\ <<m, n>> \in Seq(Nat \cup {Undefined})
OBVIOUS

LEMMA DecodersType ==
    ASSUME NEW h, IsHeader(h), IsTyped(h)
    PROVE  /\ DecodeLease(h).frame \in Frame
           /\ DecodeKeepAlive(h).frame \in Frame
           /\ DecodeRequest(h).frame \in Frame
           /\ DecodeRequestWithN(h).frame \in Frame
           /\ DecodeRequestN(h).frame \in Frame
           /\ DecodeCancel(h).frame \in Frame
           /\ DecodePayloadFrame(h).frame \in Frame
<1> DEFINE b == Skip(h.body, 4)
           m == OrZero(ReadNumber(h.body, 4))
           n == OrZero(ReadNumber(b, 4))
           k == ReadNumber(h.body, 4)
<1>1. InBounds(h.body) /\ InBounds(b)
  BY SkipAhead DEF IsHeader, Ahead
<1>2. m \in Nat \cup {Undefined} /\ n \in Nat \cup {Undefined} /\ k \in Nat \cup {Undefined}
  BY <1>1, OrDefaultType, ReadNumberType DEF OrZero
<1>3. /\ IsPayload(PayloadOf(h, h.body)) /\ IsPayload(PayloadOf(h, b))
      /\ IsPayload(NoPayload(h.body)) /\ IsPayload(NoPayload(b))
  BY <1>1, PayloadOfType
<1>4. IsPayload(NoPayload(Skip(b, 4)))
  BY DEF IsPayload, NoPayload, Optional
<1>5. Bit(h.flags, 128) \in BOOLEAN /\ Bit(h.flags, 64) \in BOOLEAN
  BY DEF Bit
<1>6. /\ DecodeLease(h) = Decoded(h, <<m, n>>, FALSE, NoPayload(Skip(b, 4)))
      /\ DecodeKeepAlive(h) = Decoded(h, <<m>>, Bit(h.flags, 128), PayloadOf(h, b))
      /\ DecodeRequest(h) = Decoded(h, <<>>, FALSE, PayloadOf(h, h.body))
      /\ DecodeRequestWithN(h) = Decoded(h, <<k>>, FALSE, PayloadOf(h, b))
      /\ DecodeRequestN(h) = Decoded(h, <<k>>, FALSE, NoPayload(b))
      /\ DecodeCancel(h) = Decoded(h, <<>>, FALSE, NoPayload(h.body))
      /\ DecodePayloadFrame(h) = Decoded(h, <<>>, Bit(h.flags, 64), PayloadOf(h, h.body))
  BY DEF DecodeLease, DecodeKeepAlive, DecodeRequest, DecodeRequestWithN, DecodeRequestN,
         DecodeCancel, DecodePayloadFrame
<1> HIDE DEF b, m, n, k
<1>7. /\ <<m, n>> \in Seq(Nat \cup {Undefined}) /\ <<m>> \in Seq(Nat \cup {Undefined})
      /\ <<k>> \in Seq(Nat \cup {Undefined}) /\ <<>> \in Seq(Nat \cup {Undefined})
  BY <1>2, NumbersType
<1>8. DecodeLease(h).frame \in Frame
  BY <1>4, <1>6, <1>7, DecodedType
<1>9. DecodeKeepAlive(h).frame \in Frame
  BY <1>3, <1>5, <1>6, <1>7, DecodedType
<1>10. DecodeRequest(h).frame \in Frame /\ DecodeCancel(h).frame \in Frame
  BY <1>3, <1>6, <1>7, DecodedType
<1>11. DecodeRequestWithN(h).frame \in Frame /\ DecodeRequestN(h).frame \in Frame
  BY <1>3, <1>6, <1>7, DecodedType
<1>12. DecodePayloadFrame(h).frame \in Frame
  BY <1>3, <1>5, <1>6, <1>7, DecodedType
<1> QED
  BY <1>8, <1>9, <1>10, <1>11, <1>12

LEMMA DecodeSetupType ==
    ASSUME NEW h, IsHeader(h), IsTyped(h)
    PROVE  DecodeSetup(h).frame \in Frame
<1> DEFINE b1 == Skip(Skip(h.body, 2), 2)
           b2 == Skip(b1, 4)
           b3 == Skip(b2, 4)
           b4 == IF Bit(h.flags, 128) THEN SkipBlock(b3, 2) ELSE b3
           b5 == SkipBlock(SkipBlock(b4, 1), 1)
           m == OrDefault(ReadNumber(b1, 4), 20)
           n == OrDefault(ReadNumber(b2, 4), 90)
           payload == DecodePayload(b5, h.metaPresent, h.frameLength)
<1>1. DecodeSetup(h) = Decoded(h, <<m, n>>, FALSE, payload)
  BY DEF DecodeSetup
<1>2. InBounds(h.body) /\ h.frameLength \in Nat
  BY DEF IsHeader
<1>3. InBounds(b1)
  BY <1>2, SkipAhead DEF Ahead
<1>4. InBounds(b2)
  BY <1>3, SkipAhead DEF Ahead
<1>5. InBounds(b3)
  BY <1>4, SkipAhead DEF Ahead
<1>6. InBounds(b4)
  BY <1>5, SkipBlockAhead DEF Ahead
<1>7. InBounds(b5)
  BY <1>6, SkipBlockAhead DEF Ahead
<1>8. m \in Nat \cup {Undefined} /\ n \in Nat \cup {Undefined}
  <2>1. ReadNumber(b1, 4) \in Nat \cup {Undefined} /\ ReadNumber(b2, 4) \in Nat \cup {Undefined}
    BY <1>3, <1>4, ReadNumberType
  <2> QED
    BY <2>1 DEF OrDefault
<1>9. IsPayload(payload)
  BY <1>2, <1>7, DecodePayloadType
<1> HIDE DEF b1, b2, b3, b4, b5, m, n, payload
<1>10. <<m, n>> \in Seq(Nat \cup {Undefined})
  BY <1>8, NumbersType
<1> QED
  BY <1>1, <1>9, <1>10, DecodedType

LEMMA DecodeErrorType ==
    ASSUME NEW h, IsHeader(h), IsTyped(h)
    PROVE  DecodeError(h).frame \in Frame
<1> DEFINE b == Skip(h.body, 4)
           rest == h.frameLength - 10
           m == OrZero(ReadNumber(h.body, 4))
           payload == [metadata |-> Undefined,
                       data |-> IF rest > 0 THEN ReadBytes(b, rest) ELSE Undefined,
                       after |-> IF rest > 0 THEN Skip(b, rest) ELSE b]
<1>1. InBounds(h.body) /\ InBounds(b) /\ h.frameLength \in Nat
  BY SkipAhead DEF IsHeader, Ahead
<1>2. m \in Nat \cup {Undefined}
  BY <1>1, OrDefaultType DEF OrZero
<1>3. DecodeError(h) = Decoded(h, <<m>>, FALSE, payload)
  BY DEF DecodeError
<1>4. rest \in Int
  BY <1>1
<1> HIDE DEF b, m, rest
<1>5. IsPayload(payload)
  BY <1>1, <1>4, ReadBytesType DEF IsPayload, Optional
<1>6. <<m>> \in Seq(Nat \cup {Undefined})
  BY <1>2, NumbersType
<1> HIDE DEF payload
<1> QED
  BY <1>3, <1>5, <1>6, DecodedType

LEMMA DecodeType ==
    ASSUME NEW b, InBounds(b), IsReadable(b)
    PROVE  Decode(b).frame \in Frame \cup {NoFrame}
<1> DEFINE h == Header(b)
<1>1. IsHeader(h) /\ IsTyped(h)
  BY HeaderProgress, HeaderType
<1> HIDE DEF h
<1>2. SkipFrame(h).frame = NoFrame
  BY DEF SkipFrame
<1> QED
  BY <1>1, <1>2, DecodersType, DecodeSetupType, DecodeErrorType DEF Decode, h

-----------------------------------------------------------------------------
(* A payload                                                               *)

NormalPart(part) == IF part = <<>> THEN Undefined ELSE part

LEMMA PartIs ==
    ASSUME NEW part \in Optional
    PROVE  /\ PartBytes(part) \in Seq(Bytes)
           /\ IsPresent(part) => part \in Seq(Bytes) /\ PartBytes(part) = part
           /\ Len(PartBytes(part)) = 0 <=> NormalPart(part) = Undefined
           /\ Len(PartBytes(part)) > 0 => NormalPart(part) = PartBytes(part)
<1>1. <<>> \in Seq(Bytes) /\ Len(<<>>) = 0 /\ \A s \in Seq(Bytes) : Len(s) = 0 => s = <<>>
  OBVIOUS
<1>2. CASE part = Undefined
  BY <1>1, <1>2, UndefinedIsNoSequence DEF PartBytes, IsPresent, NormalPart
<1>3. CASE part \in Seq(Bytes)
  BY <1>1, <1>3, UndefinedIsNoSequence DEF PartBytes, IsPresent, NormalPart
<1> QED
  BY <1>2, <1>3 DEF Optional

\* The bytes of the metadata, with their length.
MetadataBytes(metadata) ==
    IF IsPresent(metadata) THEN ToByteArray(Len(metadata), 3) \o metadata ELSE <<>>

\* A payload's parts are there, the metadata no longer than its three bytes can say.
HasParts(f) ==
    /\ f.metadata \in Optional /\ f.data \in Optional
    /\ IsPresent(f.metadata) => Len(f.metadata) <= MaxLength

LEMMA FitsThree ==
    ASSUME NEW n \in Nat, n <= MaxLength
    PROVE  Fits(n, 3)
<1>1. Weight[3] = 65536
  BY SMT DEF Weight
<1>2. n \div 65536 < 256
  BY SMT DEF MaxLength
<1> QED
  BY <1>1, <1>2, SMT DEF Fits

LEMMA FitsFour ==
    ASSUME NEW n \in Int31
    PROVE  n \in Nat /\ Fits(n, 4)
<1>1. MaxInt \in Int
  BY SMT DEF MaxInt
<1>2. n \in Nat /\ n <= MaxInt
  BY <1>1 DEF Int31
<1>3. n \div 16777216 < 256
  BY <1>2, SMT DEF MaxInt
<1>4. Weight[4] = 16777216
  BY SMT DEF Weight
<1> QED
  BY <1>2, <1>3, <1>4, SMT DEF Fits

LEMMA MetadataBytesType ==
    ASSUME NEW metadata \in Optional
    PROVE  /\ MetadataBytes(metadata) \in Seq(Bytes)
           /\ Len(MetadataBytes(metadata))
                 = IF IsPresent(metadata) THEN 3 + Len(metadata) ELSE 0
<1>1. CASE IsPresent(metadata)
  <2>1. metadata \in Seq(Bytes) /\ Len(metadata) \in Nat
    BY <1>1, PartIs
  <2>2. /\ ToByteArray(Len(metadata), 3) \in Seq(Bytes)
        /\ Len(ToByteArray(Len(metadata), 3)) = 3
    BY <2>1, ToByteArrayType
  <2> DEFINE n == ToByteArray(Len(metadata), 3)
  <2>3. MetadataBytes(metadata) = n \o metadata
    BY <1>1 DEF MetadataBytes
  <2> HIDE DEF n
  <2>4. n \o metadata \in Seq(Bytes) /\ Len(n \o metadata) = Len(n) + Len(metadata)
    BY <2>1, <2>2, ConcatProperties DEF n
  <2> QED
    BY <1>1, <2>2, <2>3, <2>4 DEF n
<1>2. CASE ~IsPresent(metadata)
  BY <1>2 DEF MetadataBytes
<1> QED
  BY <1>1, <1>2

\* decodePayload gives back what writePayload wrote: the metadata whatever the
\* length of the frame, the data if that is as it should be.
LEMMA DecodesPayload ==
    ASSUME NEW b, NEW f, HasParts(f), Follows(b, PayloadBytes(f)), NEW frameLength \in Nat
    PROVE  LET payload == DecodePayload(b, IsPresent(f.metadata), frameLength)
           IN  /\ payload.metadata = NormalPart(f.metadata)
               /\ frameLength = 6 + Len(PayloadBytes(f)) =>
                     /\ payload.data = NormalPart(f.data)
                     /\ IsBehind(payload.after, b, Len(PayloadBytes(f)))
<1> DEFINE metaPresent == IsPresent(f.metadata)
           length == IF metaPresent THEN ReadNumber(b, 3) ELSE Undefined
           b1 == IF metaPresent THEN Skip(b, 3) ELSE b
           hasMetadata == length \notin {Undefined, 0}
           b2 == IF hasMetadata THEN Skip(b1, length) ELSE b1
           rest == IF length = Undefined THEN frameLength - 6
                   ELSE DataLength(frameLength, length)
           payload == DecodePayload(b, metaPresent, frameLength)
           m == MetadataBytes(f.metadata)
           d == PartBytes(f.data)
<1>1. /\ payload.metadata = IF hasMetadata THEN ReadBytes(b1, length) ELSE Undefined
      /\ payload.data = IF rest > 0 THEN ReadBytes(b2, rest) ELSE Undefined
      /\ payload.after = IF rest > 0 THEN Skip(b2, rest) ELSE b2
  BY DEF DecodePayload
<1>2. /\ m \in Seq(Bytes) /\ Len(m) = IF metaPresent THEN 3 + Len(f.metadata) ELSE 0
      /\ d \in Seq(Bytes) /\ Len(d) \in Nat
  BY MetadataBytesType, PartIs DEF HasParts
<1>3. PayloadBytes(f) = m \o d
  BY DEF PayloadBytes, MetadataBytes
<1>4. Len(m \o d) = Len(m) + Len(d) /\ InBounds(b)
  BY <1>2, <1>3, ConcatProperties DEF Follows
<1>5. Follows(b, m) /\ Follows(Skip(b, Len(m)), d) /\ IsBehind(Skip(b, Len(m)), b, Len(m))
  BY <1>2, <1>3, FollowsParts
<1>6. /\ b2 = Skip(b, Len(m)) \/ (IsBehind(b2, b, Len(m)) /\ Follows(b2, d))
      /\ payload.metadata = NormalPart(f.metadata)
      /\ rest = frameLength - 6 - Len(m)
  <2>1. CASE metaPresent
    <3>1. f.metadata \in Seq(Bytes) /\ Len(f.metadata) \in Nat /\ Len(f.metadata) <= MaxLength
      BY <2>1, PartIs DEF HasParts
    <3> DEFINE n == ToByteArray(Len(f.metadata), 3)
    <3>2. n \in Seq(Bytes) /\ Len(n) = 3
      BY <3>1, ToByteArrayType
    <3>3. m = n \o f.metadata
      BY <2>1 DEF MetadataBytes
    <3>4. Follows(b, n \o f.metadata)
      BY <1>5, <3>3
    <3> HIDE DEF n
    <3>5. Follows(b, n) /\ Follows(Skip(b, 3), f.metadata) /\ IsBehind(Skip(b, 3), b, 3)
      BY <3>1, <3>2, <3>4, FollowsParts
    <3>6. length = Len(f.metadata)
      BY <2>1, <3>1, <3>5, FitsThree, ReadsNumber DEF n
    <3>7. length # Undefined /\ b1 = Skip(b, 3)
      BY <2>1, <3>1, <3>6, UndefinedAssumption
    <3> HIDE DEF length, b1, metaPresent, m, d
    <3>8. rest = frameLength - 6 - Len(m)
      <4>1. Len(m) = 3 + Len(f.metadata)
        BY <1>2, <2>1 DEF metaPresent
      <4> QED
        BY <3>1, <3>6, <3>7, <4>1 DEF DataLength
    <3>9. CASE Len(f.metadata) = 0
      <4>1. ~hasMetadata
        BY <3>6, <3>9
      <4>2. NormalPart(f.metadata) = Undefined
        BY <3>1, <3>9 DEF NormalPart
      <4>3. Len(m) = 3
        BY <1>2, <2>1, <3>9 DEF metaPresent
      <4>4. b2 = Skip(b, Len(m))
        BY <3>7, <4>1, <4>3
      <4> QED
        BY <1>1, <3>8, <4>1, <4>2, <4>4
    <3>10. CASE Len(f.metadata) # 0
      <4>1. hasMetadata
        BY <3>6, <3>7, <3>10
      <4>2. ReadBytes(b1, length) = f.metadata
        BY <3>5, <3>6, <3>7, ReadsBytes
      <4>3. NormalPart(f.metadata) = f.metadata
        BY <3>1, <3>10 DEF NormalPart
      <4>4. b2 = Skip(Skip(b, 3), Len(f.metadata)) /\ Len(m) = 3 + Len(f.metadata)
        BY <1>2, <2>1, <3>6, <3>7, <4>1 DEF metaPresent
      <4>5. Skip(Skip(b, 3), Len(f.metadata)) = Skip(b, Len(m))
        <5> DEFINE k == Len(f.metadata)
        <5>1. /\ Holds(Skip(b, 3), k) /\ Holds(b, 3) /\ Holds(b, 3 + k)
              /\ b \in Buffer /\ k \in Nat /\ Len(m) = 3 + k
          BY <1>4, <1>5, <3>1, <3>2, <3>5, <4>4 DEF Follows, InBounds
        <5> HIDE DEF k
        <5>2. Skip(b, 3) = [b EXCEPT !.reader = @ + 3]
          BY <5>1 DEF Skip
        <5>3. Skip(Skip(b, 3), k) = [b EXCEPT !.reader = @ + (3 + k)]
          <6> DEFINE c == [b EXCEPT !.reader = @ + 3]
          <6>1. c \in Buffer /\ c = [b EXCEPT !.reader = b.reader + 3] /\ c.reader = b.reader + 3
            BY <5>1 DEF Buffer
          <6>2. Skip(c, k) = [c EXCEPT !.reader = b.reader + 3 + k]
            BY <5>1, <5>2, <6>1 DEF Skip
          <6>3. b.reader + 3 + k = b.reader + (3 + k)
            BY <5>1 DEF Buffer
          <6> QED
            BY <5>1, <5>2, <6>1, <6>2, <6>3 DEF Buffer
        <5> QED
          BY <5>1, <5>3 DEF Skip, k
      <4> QED
        BY <1>1, <3>8, <4>1, <4>2, <4>3, <4>4, <4>5
    <3> QED
      BY <3>9, <3>10
  <2>2. CASE ~metaPresent
    <3>1. length = Undefined /\ b1 = b /\ b2 = b /\ rest = frameLength - 6
      BY <2>2
    <3>2. Len(m) = 0 /\ m = <<>>
      BY <1>2, <2>2 DEF MetadataBytes
    <3>3. payload.metadata = Undefined
      BY <1>1, <3>1
    <3>4. NormalPart(f.metadata) = Undefined
      BY <2>2, UndefinedIsNoSequence DEF NormalPart, IsPresent
    <3>5. IsBehind(b, b, 0) /\ Follows(b, d)
      BY <1>3, <1>2, <3>2, ConcatEmptySeq, <1>4 DEF IsBehind, InBounds, Buffer
    <3> HIDE DEF length, b1, b2, rest, payload, m, d
    <3> QED
      BY <3>1, <3>2, <3>3, <3>4, <3>5
  <2> QED
    BY <2>1, <2>2
<1>7. IsBehind(b2, b, Len(m)) /\ Follows(b2, d)
  BY <1>5, <1>6
<1> HIDE DEF b2, rest, payload, m, d, hasMetadata, length
<1>8. ASSUME frameLength = 6 + Len(PayloadBytes(f))
      PROVE  payload.data = NormalPart(f.data) /\ IsBehind(payload.after, b, Len(PayloadBytes(f)))
  <2>1. rest = Len(d)
    BY <1>2, <1>3, <1>4, <1>6, <1>8
  <2>2. CASE Len(d) = 0
    <3>1. payload.data = Undefined /\ payload.after = b2 /\ NormalPart(f.data) = Undefined
      BY <1>1, <2>1, <2>2, PartIs DEF HasParts, d
    <3>2. Len(PayloadBytes(f)) = Len(m)
      BY <1>2, <1>3, <1>4, <2>2
    <3> QED
      BY <1>7, <3>1, <3>2
  <2>3. CASE Len(d) > 0
    <3>1. payload.data = ReadBytes(b2, Len(d)) /\ payload.after = Skip(b2, Len(d))
      BY <1>1, <2>1, <2>3
    <3>2. ReadBytes(b2, Len(d)) = d
      BY <1>7, ReadsBytes
    <3>3. NormalPart(f.data) = d
      BY <2>3, PartIs DEF HasParts, d
    <3>4. IsBehind(Skip(b2, Len(d)), b, Len(m) + Len(d))
      <4>1. /\ Holds(b2, Len(d)) /\ InBounds(b2) /\ b.reader \in Nat
        BY <1>4, <1>7 DEF Follows, InBounds, Buffer
      <4>2. InBounds(Skip(b2, Len(d)))
        BY <1>2, <4>1, SkipAhead DEF Ahead
      <4> QED
        BY <1>2, <1>7, <4>1, <4>2 DEF IsBehind, Skip, InBounds, Buffer
    <3> QED
      BY <1>3, <1>4, <3>1, <3>2, <3>3, <3>4
  <2> QED
    BY <1>2, <2>2, <2>3
<1> QED
  BY <1>6, <1>8 DEF payload

-----------------------------------------------------------------------------
(* What the encoders write                                                 *)

\* A frame's bytes behind its length, one part behind the other, and the frame
\* with a length of n.
Behind(f) ==
    Cat(ToByteArray(f.streamId, 4),
        Cat(One(TypeByte(f)), Cat(One(FlagsByte(f)), BodyBytes(f))))
WithLength(f, n) == Cat(ToByteArray(n, 3), Behind(f))

LEMMA FixedNumbers ==
    ASSUME NEW f, Writable(f)
    PROVE  /\ f.fixed \in Seq(Nat) /\ f.streamId \in Nat /\ Fits(f.streamId, 4)
           /\ \A i \in 1..Len(f.fixed) : f.fixed[i] \in Nat /\ Fits(f.fixed[i], 4)
<1>1. /\ f.fixed \in Seq(Nat \cup {Undefined}) /\ f.streamId \in Int31
      /\ \A i \in DOMAIN f.fixed : f.fixed[i] \in Int31
  BY DEF Writable, Frame
<1>2. /\ DOMAIN f.fixed = 1..Len(f.fixed) /\ Len(f.fixed) \in Nat
      /\ f.fixed = [i \in 1..Len(f.fixed) |-> f.fixed[i]]
  BY <1>1
<1>3. \A i \in 1..Len(f.fixed) : f.fixed[i] \in Nat /\ Fits(f.fixed[i], 4)
  BY <1>1, <1>2, FitsFour
<1> QED
  BY <1>1, <1>2, <1>3, FitsFour

TypeNumbers == FrameType.SETUP = 1 /\ FrameType.LEASE = 2 /\ FrameType.KEEPALIVE = 3
    /\ FrameType.REQUEST_RESPONSE = 4 /\ FrameType.REQUEST_FNF = 5
    /\ FrameType.REQUEST_STREAM = 6 /\ FrameType.REQUEST_CHANNEL = 7
    /\ FrameType.REQUEST_N = 8 /\ FrameType.CANCEL = 9 /\ FrameType.PAYLOAD = 10
    /\ FrameType.ERROR = 11 /\ FrameType.METADATA_PUSH = 12

LEMMA TypesAre == TypeNumbers
BY DEF TypeNumbers, FrameType

\* How many bytes an encoder writes between the header and the payload.
FixedSize(type) ==
    CASE type = FrameType.SETUP -> 16
      [] type = FrameType.KEEPALIVE -> 8
      [] type \in {FrameType.REQUEST_STREAM, FrameType.REQUEST_CHANNEL,
                   FrameType.REQUEST_N, FrameType.ERROR} -> 4
      [] OTHER -> 0

\* The numbers and types of a SETUP, one behind the other.
SetupBytes(m, n) ==
    Cat(ToByteArray(1, 2), Cat(ToByteArray(0, 2), Cat(ToByteArray(m, 4),
        Cat(ToByteArray(n, 4), Cat(One(1), Cat(One(109), Cat(One(1), One(100))))))))

LEMMA SetupBytesType ==
    ASSUME NEW m \in Nat, NEW n \in Nat
    PROVE  IsBytes(SetupBytes(m, n), 16)
<1>1. 1 \in Bytes /\ 109 \in Bytes /\ 100 \in Bytes
  BY DEF Bytes
<1> DEFINE g == Cat(One(1), One(100))
           f == Cat(One(109), g)
           e == Cat(One(1), f)
           d == Cat(ToByteArray(n, 4), e)
           c == Cat(ToByteArray(m, 4), d)
           b == Cat(ToByteArray(0, 2), c)
           a == Cat(ToByteArray(1, 2), b)
<1>2. IsBytes(g, 1 + 1)
  BY <1>1, OneBytes, CatBytes
<1> HIDE DEF g
<1>3. IsBytes(f, 1 + (1 + 1))
  BY <1>1, <1>2, OneBytes, CatBytes
<1> HIDE DEF f
<1>4. IsBytes(e, 1 + (1 + (1 + 1)))
  BY <1>1, <1>3, OneBytes, CatBytes
<1> HIDE DEF e
<1>5. IsBytes(d, 4 + (1 + (1 + (1 + 1))))
  BY <1>4, NumberBytes, CatBytes
<1> HIDE DEF d
<1>6. IsBytes(c, 4 + (4 + (1 + (1 + (1 + 1)))))
  <2>1. IsBytes(ToByteArray(m, 4), 4)
    BY NumberBytes
  <2> QED
    BY <1>5, <2>1, CatBytes
<1> HIDE DEF c
<1>7. IsBytes(b, 2 + (4 + (4 + (1 + (1 + (1 + 1))))))
  <2>1. IsBytes(ToByteArray(0, 2), 2)
    BY NumberBytes
  <2> QED
    BY <1>6, <2>1, CatBytes
<1> HIDE DEF b
<1>8. IsBytes(a, 2 + (2 + (4 + (4 + (1 + (1 + (1 + 1)))))))
  <2>1. IsBytes(ToByteArray(1, 2), 2)
    BY NumberBytes
  <2> QED
    BY <1>7, <2>1, CatBytes
<1>9. SetupBytes(m, n) = a
  BY DEF SetupBytes, a, b, c, d, e, f, g
<1>10. 2 + (2 + (4 + (4 + (1 + (1 + (1 + 1)))))) = 16
  OBVIOUS
<1> QED
  BY <1>8, <1>9, <1>10

\* What every encoder writes between the header and the payload.
LEMMA FixedBytesIs ==
    ASSUME NEW f, Writable(f)
    PROVE  /\ IsBytes(FixedBytes(f), FixedSize(f.type))
           /\ f.type = FrameType.SETUP => FixedBytes(f) = SetupBytes(f.fixed[1], f.fixed[2])
           /\ f.type = FrameType.KEEPALIVE => FixedBytes(f) = I64ToByteArray(f.fixed[1])
           /\ FixedSize(f.type) = 4 => FixedBytes(f) = ToByteArray(f.fixed[1], 4)
<1>1. TypeNumbers /\ f.type \in 1..12 /\ f.type # 2
  BY TypesAre DEF Writable, TypeNumbers
<1>2. f.fixed \in Seq(Nat)
  BY FixedNumbers
<1>3. CASE f.type = 1
  <2>1. Len(f.fixed) = 2
    BY <1>1, <1>3 DEF Writable, TypeNumbers
  <2>2. f.fixed[1] \in Nat /\ f.fixed[2] \in Nat
    BY <1>2, <2>1
  <2> DEFINE a == ToByteArray(1, 2)
             b == ToByteArray(0, 2)
             c == ToByteArray(f.fixed[1], 4)
             d == ToByteArray(f.fixed[2], 4)
             e == One(1)
             g == One(109)
             h == One(1)
             i == One(100)
  <2>3. /\ a \in Seq(Bytes) /\ b \in Seq(Bytes) /\ c \in Seq(Bytes) /\ d \in Seq(Bytes)
    BY <2>2, ToByteArrayType
  <2>4. /\ e \in Seq(Bytes) /\ g \in Seq(Bytes) /\ h \in Seq(Bytes) /\ i \in Seq(Bytes)
    BY OneBytes DEF Bytes, IsBytes
  <2>5. FixedBytes(f) = a \o b \o c \o d \o e \o g \o h \o i
    <3>1. MetadataMimeType = <<109>> /\ DataMimeType = <<100>>
      BY DEF MetadataMimeType, DataMimeType
    <3>2. Len(MetadataMimeType) = 1 /\ Len(DataMimeType) = 1
      BY <3>1
    <3>3. FixedBytes(f) = a \o b \o c \o d \o <<Len(MetadataMimeType)>> \o MetadataMimeType
                              \o <<Len(DataMimeType)>> \o DataMimeType
      <4>1. f.type = FrameType.SETUP /\ f.type # FrameType.KEEPALIVE
        BY <1>1, <1>3 DEF TypeNumbers
      <4>2. f.fixed # <<>>
        BY <1>2, <2>1
      <4> QED
        BY <4>1, <4>2, Zenon DEF FixedBytes
    <3>4. e = <<Len(MetadataMimeType)>> /\ h = <<Len(DataMimeType)>>
      BY <3>2 DEF One
    <3>5. g = MetadataMimeType /\ i = DataMimeType
      BY <3>1 DEF One
    <3> HIDE DEF a, b, c, d, e, g, h, i
    <3> QED
      BY <3>3, <3>4, <3>5
  <2>6. SetupBytes(f.fixed[1], f.fixed[2])
            = Cat(a, Cat(b, Cat(c, Cat(d, Cat(e, Cat(g, Cat(h, i)))))))
    BY DEF SetupBytes
  <2> HIDE DEF a, b, c, d, e, g, h, i
  <2>7. Cat(Cat(Cat(Cat(Cat(Cat(Cat(a, b), c), d), e), g), h), i)
            = Cat(a, Cat(b, Cat(c, Cat(d, Cat(e, Cat(g, Cat(h, i)))))))
    <3>1. PICK p : p = Cat(Cat(Cat(a, b), c), d)
      OBVIOUS
    <3>2. PICK q : q = Cat(e, Cat(g, Cat(h, i)))
      OBVIOUS
    <3>3. p \in Seq(Bytes) /\ q \in Seq(Bytes)
      BY <2>3, <2>4, <3>1, <3>2, CatType
    <3>4. Cat(Cat(Cat(Cat(p, e), g), h), i) = Cat(p, q)
      BY <2>4, <3>2, <3>3, FiveParts
    <3>5. Cat(p, q) = Cat(a, Cat(b, Cat(c, Cat(d, q))))
      BY <2>3, <3>1, <3>3, FiveParts
    <3> QED
      BY <3>1, <3>2, <3>4, <3>5
  <2>8. FixedBytes(f) = Cat(Cat(Cat(Cat(Cat(Cat(Cat(a, b), c), d), e), g), h), i)
    BY <2>5 DEF Cat
  <2>9. FixedBytes(f) = SetupBytes(f.fixed[1], f.fixed[2])
    BY <2>6, <2>7, <2>8
  <2>10. FixedSize(f.type) = 16
    BY <1>1, <1>3 DEF FixedSize, TypeNumbers
  <2>11. IsBytes(FixedBytes(f), 16)
    BY <2>2, <2>9, SetupBytesType
  <2> QED
    BY <1>1, <1>3, <2>9, <2>10, <2>11 DEF TypeNumbers
<1>4. CASE f.type = 3
  <2>1. Len(f.fixed) = 1
    BY <1>1, <1>4 DEF Writable, TypeNumbers
  <2>2. f.fixed[1] \in Nat /\ f.fixed # <<>>
    BY <1>2, <2>1
  <2>3. FixedBytes(f) = I64ToByteArray(f.fixed[1])
    <3>1. f.type # FrameType.SETUP /\ f.type = FrameType.KEEPALIVE
      BY <1>1, <1>4 DEF TypeNumbers
    <3> QED
      BY <2>2, <3>1, Zenon DEF FixedBytes
  <2>4. FixedSize(f.type) = 8
    BY <1>1, <1>4 DEF FixedSize, TypeNumbers
  <2>5. IsBytes(FixedBytes(f), 8)
    BY <2>2, <2>3, I64ToByteArrayType DEF IsBytes
  <2> QED
    BY <1>1, <1>4, <2>3, <2>4, <2>5 DEF TypeNumbers
<1>5. CASE f.type \in {6, 7, 8, 11}
  <2>1. Len(f.fixed) = 1
    BY <1>1, <1>5 DEF Writable, TypeNumbers
  <2>2. f.fixed[1] \in Nat /\ f.fixed # <<>>
    BY <1>2, <2>1
  <2>3. FixedBytes(f) = ToByteArray(f.fixed[1], 4) /\ FixedSize(f.type) = 4
    BY <1>1, <1>5, <2>2 DEF FixedBytes, FixedSize, TypeNumbers
  <2>4. IsBytes(FixedBytes(f), 4)
    BY <2>2, <2>3, NumberBytes
  <2> QED
    BY <1>1, <1>5, <2>3, <2>4 DEF TypeNumbers
<1>6. CASE f.type \in {4, 5, 9, 10, 12}
  <2>1. Len(f.fixed) = 0
    BY <1>1, <1>6 DEF Writable, TypeNumbers
  <2>2. f.fixed = <<>>
    BY <1>2, <2>1
  <2>3. FixedBytes(f) = <<>> /\ FixedSize(f.type) = 0
    BY <1>1, <1>6, <2>2 DEF FixedBytes, FixedSize, TypeNumbers
  <2>4. IsBytes(FixedBytes(f), 0)
    BY <2>3 DEF IsBytes
  <2> QED
    BY <1>1, <1>6, <2>3, <2>4 DEF TypeNumbers
<1> QED
  BY <1>1, <1>3, <1>4, <1>5, <1>6

LEMMA BodyBytesType ==
    ASSUME NEW f, Writable(f)
    PROVE  /\ IsBytes(BodyBytes(f), Len(BodyBytes(f)))
           /\ IsBytes(PayloadBytes(f), Len(PayloadBytes(f)))
           /\ FixedSize(f.type) <= Len(BodyBytes(f))
           /\ f.type # FrameType.METADATA_PUSH =>
                 /\ BodyBytes(f) = Cat(FixedBytes(f), PayloadBytes(f))
                 /\ Len(BodyBytes(f)) = FixedSize(f.type) + Len(PayloadBytes(f))
<1>1. f.metadata \in Optional /\ f.data \in Optional
  BY DEF Writable, Frame
<1> DEFINE m == MetadataBytes(f.metadata)
           d == PartBytes(f.data)
           q == PartBytes(f.metadata)
<1>2. /\ m \in Seq(Bytes) /\ d \in Seq(Bytes) /\ q \in Seq(Bytes)
      /\ PayloadBytes(f) = Cat(m, d)
  BY <1>1, MetadataBytesType, PartIs DEF PayloadBytes, MetadataBytes, Cat
<1> HIDE DEF m, d
<1>3. PayloadBytes(f) \in Seq(Bytes)
  BY <1>2, CatType
<1>4. /\ IsBytes(q, Len(q)) /\ Len(q) \in Nat
      /\ IsBytes(PayloadBytes(f), Len(PayloadBytes(f)))
  BY <1>2, <1>3 DEF IsBytes
<1>5. CASE f.type = FrameType.METADATA_PUSH
  <2>1. BodyBytes(f) = q
    BY <1>5 DEF BodyBytes
  <2>2. FixedSize(f.type) = 0
    BY <1>5, TypesAre DEF FixedSize, TypeNumbers
  <2> HIDE DEF q
  <2> QED
    BY <1>4, <1>5, <2>1, <2>2
<1>6. CASE f.type # FrameType.METADATA_PUSH
  <2>1. PICK s : s = FixedBytes(f)
    OBVIOUS
  <2>2. PICK t : t = PayloadBytes(f)
    OBVIOUS
  <2>3. BodyBytes(f) = Cat(s, t)
    BY <1>6, <2>1, <2>2, Zenon DEF BodyBytes, Cat
  <2>4. IsBytes(s, FixedSize(f.type)) /\ IsBytes(t, Len(t))
    BY <1>4, <2>1, <2>2, FixedBytesIs
  <2>5. IsBytes(Cat(s, t), FixedSize(f.type) + Len(t))
    BY <2>4, CatBytes
  <2>6. /\ Len(Cat(s, t)) = FixedSize(f.type) + Len(t) /\ IsBytes(Cat(s, t), Len(Cat(s, t)))
        /\ FixedSize(f.type) \in Nat /\ Len(t) \in Nat
    BY <2>4, <2>5 DEF IsBytes
  <2>7. FixedSize(f.type) <= Len(Cat(s, t))
    BY <2>6
  <2> QED
    BY <1>4, <1>6, <2>1, <2>2, <2>3, <2>6, <2>7
<1> QED
  BY <1>5, <1>6

LEMMA TypeAndFlags ==
    ASSUME NEW f, Writable(f)
    PROVE  /\ TypeByte(f) \in Bytes /\ FlagsByte(f) \in Bytes
           /\ TypeByte(f) # 0
           /\ TypeByte(f) \div 4 = f.type
           /\ Bit(TypeByte(f), 1) <=> IsPresent(f.metadata)
<1>1. f.type \in 1..12
  BY DEF Writable
<1>2. FlagsByte(f) \in Bytes
  BY DEF FlagsByte, Bytes
<1>3. PICK n : n = f.type
  OBVIOUS
<1>4. n \in 1..12
  BY <1>1, <1>3
<1>5. n * 4 \in Bytes /\ n * 4 + 1 \in Bytes /\ n * 4 # 0 /\ n * 4 + 1 # 0
  BY <1>4 DEF Bytes
<1>6. (n * 4) \div 4 = n /\ (n * 4 + 1) \div 4 = n
  BY <1>4
<1>7. ~ Bit(n * 4, 1) /\ Bit(n * 4 + 1, 1)
  <2>1. (n * 4) \div 1 = n * 4 /\ (n * 4 + 1) \div 1 = n * 4 + 1
    BY <1>4
  <2>2. (n * 4) % 2 = 0 /\ (n * 4 + 1) % 2 = 1
    BY <1>4
  <2> QED
    BY <2>1, <2>2 DEF Bit
<1>8. CASE IsPresent(f.metadata)
  <2>1. TypeByte(f) = n * 4 + 1
    BY <1>3, <1>8 DEF TypeByte
  <2>2. Bit(TypeByte(f), 1)
    BY <1>7, <2>1
  <2> QED
    BY <1>2, <1>3, <1>5, <1>6, <1>8, <2>1, <2>2, Zenon DEF Bit
<1>9. CASE ~IsPresent(f.metadata)
  <2>1. TypeByte(f) = n * 4
    BY <1>3, <1>4, <1>9 DEF TypeByte
  <2>2. ~Bit(TypeByte(f), 1)
    BY <1>7, <2>1
  <2> QED
    BY <1>2, <1>3, <1>5, <1>6, <1>9, <2>1, <2>2, Zenon DEF Bit
<1> QED
  BY <1>8, <1>9

LEMMA BehindType ==
    ASSUME NEW f, Writable(f)
    PROVE  /\ IsBytes(One(TypeByte(f)), 1)
           /\ IsBytes(One(FlagsByte(f)), 1)
           /\ IsBytes(ToByteArray(f.streamId, 4), 4)
           /\ Cat(One(FlagsByte(f)), BodyBytes(f)) \in Seq(Bytes)
           /\ Cat(One(TypeByte(f)), Cat(One(FlagsByte(f)), BodyBytes(f))) \in Seq(Bytes)
           /\ IsBytes(Behind(f), 6 + Len(BodyBytes(f)))
           /\ Len(BodyBytes(f)) \in Nat
<1>1. /\ IsBytes(BodyBytes(f), Len(BodyBytes(f)))
      /\ IsBytes(One(TypeByte(f)), 1)
      /\ IsBytes(One(FlagsByte(f)), 1)
      /\ IsBytes(ToByteArray(f.streamId, 4), 4)
  BY BodyBytesType, TypeAndFlags, OneBytes, FixedNumbers, NumberBytes
<1> DEFINE n == Len(BodyBytes(f))
           gb == Cat(One(FlagsByte(f)), BodyBytes(f))
           tgb == Cat(One(TypeByte(f)), gb)
<1>2. n \in Nat
  BY <1>1 DEF IsBytes
<1> HIDE DEF n
<1>3. IsBytes(gb, 1 + n)
  BY <1>1, CatBytes DEF n
<1> HIDE DEF gb
<1>4. IsBytes(tgb, 1 + (1 + n))
  BY <1>1, <1>3, CatBytes
<1> HIDE DEF tgb
<1>5. IsBytes(Cat(ToByteArray(f.streamId, 4), tgb), 4 + (1 + (1 + n)))
  BY <1>1, <1>4, CatBytes
<1>6. 4 + (1 + (1 + n)) = 6 + n
  BY <1>2
<1>7. IsBytes(Behind(f), 6 + n)
  BY <1>5, <1>6 DEF Behind, gb, tgb
<1>8. gb \in Seq(Bytes) /\ tgb \in Seq(Bytes)
  BY <1>3, <1>4 DEF IsBytes
<1> QED
  BY <1>1, <1>2, <1>7, <1>8 DEF gb, tgb, n

LEMMA PairIs ==
    ASSUME NEW m \in Bytes, NEW n \in Bytes
    PROVE  <<m, n>> = Cat(One(m), One(n))
<1>1. PICK s : s = <<m>>
  OBVIOUS
<1>2. PICK t : t = <<n>>
  OBVIOUS
<1>3. PICK p : p = <<m, n>>
  OBVIOUS
<1>4. /\ s \in Seq(Bytes) /\ Len(s) = 1 /\ s[1] = m
      /\ t \in Seq(Bytes) /\ Len(t) = 1 /\ t[1] = n
      /\ p \in Seq(Bytes) /\ Len(p) = 2 /\ p[1] = m /\ p[2] = n
  BY <1>1, <1>2, <1>3
<1>5. PICK q : q = s \o t
  OBVIOUS
<1>6. /\ q \in Seq(Bytes) /\ Len(q) = 2
      /\ \A i \in 1..1 : q[i] = s[i]
      /\ \A i \in 1..1 : q[1 + i] = t[i]
  BY <1>4, <1>5, ConcatProperties
<1>7. q[1] = m /\ q[2] = n
  BY <1>4, <1>6
<1>8. p = q
  BY <1>4, <1>6, <1>7
<1> QED
  BY <1>1, <1>2, <1>3, <1>5, <1>8 DEF Cat, One
\* The length that an encoder leaves in its frame.
LengthOf(f) == IF f.type = FrameType.CANCEL THEN 0 ELSE Len(Behind(f))

\* Every encoder writes its parts one behind the other and then their length.
LEMMA EncodeIs ==
    ASSUME NEW f, Writable(f)
    PROVE  Encode(f) = WithLength(f, LengthOf(f))
<1> DEFINE body == BodyBytes(f)
           t == One(TypeByte(f))
           g == One(FlagsByte(f))
           s == ToByteArray(f.streamId, 4)
           z == ToByteArray(0, 3)
           x == z \o s \o <<TypeByte(f), FlagsByte(f)>> \o body
           size == AllocSize(f.type)
           b == WriteBytes(Alloc(size), x)
           r == ResetWriterIndex(b)
           tail == Behind(f)
           n == Len(body)
<1>1. /\ IsBytes(body, n) /\ IsBytes(t, 1) /\ IsBytes(g, 1) /\ IsBytes(s, 4)
      /\ IsBytes(tail, 6 + n) /\ IsBytes(z, 3)
      /\ tail = Cat(s, Cat(t, Cat(g, body)))
  BY BehindType, BodyBytesType, NumberBytes DEF Behind
<1>2. <<TypeByte(f), FlagsByte(f)>> = Cat(t, g)
  BY TypeAndFlags, PairIs
<1>3. Encode(f) = IF f.type = FrameType.CANCEL THEN b.data
                  ELSE WriteBytes(r, ToByteArray(Len(b.data) - 3, 3)).data
  BY DEF Encode, RefillFrameLength
<1>4. size \in Nat /\ size <= 9 + n
  <2>1. FixedSize(f.type) <= n
    BY BodyBytesType
  <2>2. size \in Nat /\ size <= 9 + FixedSize(f.type) /\ FixedSize(f.type) \in Nat
    BY TypesAre DEF AllocSize, FixedSize, TypeNumbers
  <2>3. n \in Nat
    BY <1>1 DEF IsBytes
  <2> HIDE DEF size, n
  <2> QED
    BY <2>1, <2>2, <2>3
<1>5. x = Cat(Cat(Cat(z, s), Cat(t, g)), body)
  BY <1>2 DEF Cat
<1> HIDE DEF body, t, g, s, z, size, tail, x, n
<1>6. x = Cat(z, tail) /\ IsBytes(x, 9 + n)
  <2>1. /\ body \in Seq(Bytes) /\ t \in Seq(Bytes) /\ g \in Seq(Bytes) /\ s \in Seq(Bytes)
        /\ z \in Seq(Bytes) /\ n \in Nat
    BY <1>1 DEF IsBytes
  <2>2. PICK tg : tg = Cat(t, g)
    OBVIOUS
  <2>3. tg \in Seq(Bytes)
    BY <2>1, <2>2, CatType
  <2>4. Cat(Cat(Cat(z, s), tg), body) = Cat(z, Cat(s, Cat(tg, body)))
    BY <2>1, <2>3, FourParts
  <2>5. Cat(tg, body) = Cat(t, Cat(g, body))
    BY <2>1, <2>2, CatAgain
  <2>6. x = Cat(z, tail)
    BY <1>1, <1>5, <2>2, <2>4, <2>5
  <2>7. IsBytes(Cat(z, tail), 3 + (6 + n))
    BY <1>1, CatBytes
  <2>8. 3 + (6 + n) = 9 + n
    BY <2>1
  <2> QED
    BY <2>6, <2>7, <2>8
<1>7. /\ InBounds(Alloc(size)) /\ Alloc(size).writer = 0 /\ Len(Alloc(size).data) = size
  BY <1>4, AllocInBounds
<1>8. b.data = x /\ InBounds(b)
  <2>1. x \in Seq(Bytes) /\ Len(x) = 9 + n
    BY <1>6 DEF IsBytes
  <2> QED
    BY <1>4, <1>7, <2>1, WritesAll, WriteBytesType
<1>9. CASE f.type = FrameType.CANCEL
  BY <1>3, <1>6, <1>8, <1>9 DEF WithLength, LengthOf, z, tail
<1>10. CASE f.type # FrameType.CANCEL
  <2> HIDE DEF b
  <2>1. InBounds(r) /\ r.writer = 0 /\ r.data = b.data
    BY <1>8, OtherCallsType DEF ResetWriterIndex, InBounds, Buffer
  <2>2. Len(b.data) - 3 = Len(tail) /\ Len(tail) \in Nat /\ tail \in Seq(Bytes) /\ z \in Seq(Bytes)
        /\ Len(z) = 3
    BY <1>1, <1>6, <1>8 DEF IsBytes
  <2> DEFINE u == ToByteArray(Len(tail), 3)
  <2>3. u \in Seq(Bytes) /\ Len(u) = 3
    BY <2>2, ToByteArrayType
  <2> HIDE DEF r
  <2>4. Encode(f) = WriteBytes(r, u).data
    BY <1>3, <1>10, <2>2
  <2> HIDE DEF u
  <2>5. WriteBytes(r, u).data = Cat(u, tail)
    BY <1>6, <1>8, <2>1, <2>2, <2>3, WritesFront
  <2> QED
    BY <1>10, <2>4, <2>5 DEF u, tail, WithLength, LengthOf
<1> QED
  BY <1>9, <1>10

-----------------------------------------------------------------------------
(* What a decoder reads: numbers, and the header                           *)

LEMMA NumberStays ==
    ASSUME NEW n \in Nat
    PROVE  OrZero(n) = n
BY UndefinedAssumption DEF OrZero, OrDefault

\* What RSocketHeader makes of a frame that was written with a length of n.
HeaderOf(h, b, f, n) ==
    /\ h.frameLength = n /\ h.streamId = f.streamId /\ h.type = f.type
    /\ h.metaPresent <=> IsPresent(f.metadata)
    /\ h.metaPresent \in BOOLEAN
    /\ h.flags = FlagsByte(f)
    /\ Follows(h.body, BodyBytes(f))
    /\ IsBehind(h.body, b, 9)

LEMMA HeaderIs ==
    ASSUME NEW f, Writable(f), NEW n \in Nat, Fits(n, 3), NEW b, Follows(b, WithLength(f, n))
    PROVE  HeaderOf(Header(b), b, f, n)
<1> DEFINE b1 == Skip(b, 3)
           b2 == Skip(b1, 4)
           b3 == Skip(b2, 1)
           b4 == Skip(b3, 1)
           fb == Cat(One(FlagsByte(f)), BodyBytes(f))
           tfb == Cat(One(TypeByte(f)), fb)
           h == Header(b)
<1>1. /\ fb \in Seq(Bytes) /\ tfb \in Seq(Bytes) /\ Behind(f) \in Seq(Bytes)
      /\ BodyBytes(f) \in Seq(Bytes)
  BY BehindType, BodyBytesType DEF IsBytes
<1>2. Behind(f) = Cat(ToByteArray(f.streamId, 4), tfb)
  BY DEF Behind
<1>3. TypeByte(f) \in Bytes /\ FlagsByte(f) \in Bytes
  BY TypeAndFlags
<1> HIDE DEF fb, tfb
<1>4. ReadNumber(b, 3) = n /\ Follows(b1, Behind(f)) /\ IsBehind(b1, b, 3)
  <2>1. Follows(b, Cat(ToByteArray(n, 3), Behind(f)))
    BY DEF WithLength
  <2>2. Shows(b, n, 3, Behind(f))
    BY <1>1, <2>1 DEF Shows
  <2> QED
    BY <2>2, ReadsOn DEF IsRead
<1> HIDE DEF b1
<1>5. ReadNumber(b1, 4) = f.streamId /\ Follows(b2, tfb) /\ IsBehind(b2, b1, 4)
  <2>1. f.streamId \in Nat /\ Fits(f.streamId, 4)
    BY FixedNumbers
  <2>2. Shows(b1, f.streamId, 4, tfb)
    BY <1>1, <1>2, <1>4, <2>1 DEF Shows
  <2> QED
    BY <2>2, ReadsOn DEF IsRead, b2
<1> HIDE DEF b2
<1>6. ReadNumber(b2, 1) = TypeByte(f) /\ Follows(b3, fb) /\ IsBehind(b3, b2, 1)
  BY <1>1, <1>3, <1>5, ReadsByteOn DEF tfb
<1> HIDE DEF b3
<1>7. ReadNumber(b3, 1) = FlagsByte(f) /\ Follows(b4, BodyBytes(f)) /\ IsBehind(b4, b3, 1)
  BY <1>1, <1>3, <1>6, ReadsByteOn DEF fb
<1> HIDE DEF b4
<1>8. IsBehind(b4, b, 3 + (4 + (1 + 1)))
  <2>1. InBounds(b) /\ InBounds(b1) /\ InBounds(b2)
    BY <1>4, <1>5, FollowsBounds
  <2>2. IsBehind(b4, b2, 1 + 1)
    BY <1>6, <1>7, <2>1, BehindBehind
  <2>3. IsBehind(b4, b1, 4 + (1 + 1))
    BY <1>5, <2>1, <2>2, BehindBehind
  <2> QED
    BY <1>4, <2>1, <2>3, BehindBehind
<1>9. 3 + (4 + (1 + 1)) = 9
  OBVIOUS
<1>10. /\ OrZero(n) = n /\ OrZero(f.streamId) = f.streamId
       /\ OrZero(TypeByte(f)) = TypeByte(f) /\ OrZero(FlagsByte(f)) = FlagsByte(f)
  BY <1>3, NumberStays, FixedNumbers, BytesAreNumbers
<1>11. /\ h.frameLength = OrZero(ReadNumber(b, 3))
       /\ h.streamId = OrZero(ReadNumber(b1, 4))
       /\ h.type = OrZero(ReadNumber(b2, 1)) \div 4
       /\ h.metaPresent = Bit(OrZero(ReadNumber(b2, 1)), 1)
       /\ h.flags = OrZero(ReadNumber(b3, 1))
       /\ h.body = b4
  BY DEF Header, b1, b2, b3, b4
<1> HIDE DEF h
<1>12. h.frameLength = n /\ h.streamId = f.streamId /\ h.flags = FlagsByte(f) /\ h.body = b4
  BY <1>4, <1>5, <1>7, <1>10, <1>11
<1>13. h.type = f.type
  BY <1>6, <1>10, <1>11, TypeAndFlags
<1>14. h.metaPresent <=> IsPresent(f.metadata)
  <2>1. h.metaPresent = Bit(TypeByte(f), 1)
    BY <1>6, <1>10, <1>11
  <2>2. Bit(TypeByte(f), 1) <=> IsPresent(f.metadata)
    BY TypeAndFlags
  <2> QED
    BY <2>1, <2>2, Zenon
<1>15. h.metaPresent \in BOOLEAN
  BY <1>11 DEF Bit
<1> QED
  BY <1>7, <1>8, <1>9, <1>12, <1>13, <1>14, <1>15 DEF HeaderOf, h

\* The lengths that a frame may arrive with: a message is given its own back.
LengthOK(f, n) == n = Len(Behind(f)) \/ (n = 0 /\ f.type = FrameType.CANCEL)

LEMMA MetadataIsShort ==
    ASSUME NEW f, Writable(f), Len(BodyBytes(f)) <= MaxLength
    PROVE  HasParts(f)
<1>1. f.metadata \in Optional /\ f.data \in Optional
  BY DEF Writable, Frame
<1> SUFFICES ASSUME IsPresent(f.metadata) PROVE Len(f.metadata) <= MaxLength
  BY <1>1 DEF HasParts
<1>2. f.metadata \in Seq(Bytes) /\ PartBytes(f.metadata) = f.metadata /\ Len(f.metadata) \in Nat
  BY <1>1, PartIs
<1>3. MaxLength \in Nat
  BY SMT DEF MaxLength
<1>4. Len(f.metadata) <= Len(BodyBytes(f)) /\ Len(BodyBytes(f)) \in Nat
  <2>1. CASE f.type = FrameType.METADATA_PUSH
    BY <1>2, <2>1 DEF BodyBytes
  <2>2. CASE f.type # FrameType.METADATA_PUSH
    <3> DEFINE m == MetadataBytes(f.metadata)
               d == PartBytes(f.data)
    <3>1. m \in Seq(Bytes) /\ Len(m) = 3 + Len(f.metadata)
      BY <1>1, MetadataBytesType
    <3>2. d \in Seq(Bytes)
      BY <1>1, PartIs
    <3>3. PayloadBytes(f) = Cat(m, d)
      BY DEF PayloadBytes, MetadataBytes, Cat
    <3> HIDE DEF m, d
    <3>4. Len(PayloadBytes(f)) = 3 + Len(f.metadata) + Len(d) /\ Len(d) \in Nat
      BY <3>1, <3>2, <3>3, CatType
    <3>5. Len(BodyBytes(f)) = FixedSize(f.type) + Len(PayloadBytes(f)) /\ FixedSize(f.type) \in Nat
      BY <2>2, BodyBytesType, FixedBytesIs DEF IsBytes
    <3> QED
      BY <1>2, <3>4, <3>5
  <2> QED
    BY <2>1, <2>2
<1> QED
  BY <1>2, <1>3, <1>4

LEMMA Lengths ==
    ASSUME NEW f, Writable(f), NEW n, LengthOK(f, n)
    PROVE  /\ n \in Nat /\ Fits(n, 3) /\ HasParts(f)
           /\ IsBytes(WithLength(f, n), 9 + Len(BodyBytes(f)))
           /\ Len(BodyBytes(f)) \in Nat
           /\ f.type # FrameType.CANCEL => n = 6 + Len(BodyBytes(f))
<1>1. IsBytes(Behind(f), 6 + Len(BodyBytes(f))) /\ Len(BodyBytes(f)) \in Nat
  BY BehindType
<1>2. \A m \in Nat : IsBytes(WithLength(f, m), 9 + Len(BodyBytes(f)))
  <2> SUFFICES ASSUME NEW m \in Nat PROVE IsBytes(WithLength(f, m), 9 + Len(BodyBytes(f)))
    OBVIOUS
  <2>1. IsBytes(ToByteArray(m, 3), 3)
    BY NumberBytes
  <2>2. IsBytes(WithLength(f, m), 3 + (6 + Len(BodyBytes(f))))
    BY <1>1, <2>1, CatBytes DEF WithLength
  <2>3. 3 + (6 + Len(BodyBytes(f))) = 9 + Len(BodyBytes(f))
    BY <1>1
  <2> QED
    BY <2>2, <2>3
<1>3. Len(Behind(f)) = 6 + Len(BodyBytes(f))
  BY <1>1 DEF IsBytes
<1>4. n \in Nat /\ n <= 6 + Len(BodyBytes(f))
  BY <1>1, <1>3 DEF LengthOK
<1>5. 9 + Len(BodyBytes(f)) <= MaxLength /\ MaxLength \in Nat
  <2>1. Encode(f) = WithLength(f, LengthOf(f)) /\ Len(Encode(f)) <= MaxLength
    BY EncodeIs DEF Writable
  <2>2. LengthOf(f) \in Nat
    BY <1>1, <1>3 DEF LengthOf
  <2>3. Len(Encode(f)) = 9 + Len(BodyBytes(f))
    BY <1>2, <2>1, <2>2 DEF IsBytes
  <2>4. MaxLength \in Nat
    BY SMT DEF MaxLength
  <2> QED
    BY <2>1, <2>3, <2>4
<1>6. n <= MaxLength /\ Len(BodyBytes(f)) <= MaxLength
  BY <1>1, <1>4, <1>5
<1>7. Fits(n, 3) /\ HasParts(f)
  BY <1>4, <1>6, FitsThree, MetadataIsShort
<1>8. f.type # FrameType.CANCEL => n = 6 + Len(BodyBytes(f))
  BY <1>3 DEF LengthOK
<1> QED
  BY <1>1, <1>2, <1>4, <1>7, <1>8

\* All of f but its data.
Recognised(g, f) == [g EXCEPT !.data = Undefined] = [Normal(f) EXCEPT !.data = Undefined]

LEMMA NormalIs ==
    ASSUME NEW f, f \in Frame
    PROVE  Normal(f) = [type |-> f.type, streamId |-> f.streamId, fixed |-> f.fixed,
                        flag |-> f.flag, metadata |-> NormalPart(f.metadata),
                        data |-> NormalPart(f.data)]
<1>1. f = [type |-> f.type, streamId |-> f.streamId, fixed |-> f.fixed,
           flag |-> f.flag, metadata |-> f.metadata, data |-> f.data]
  BY DEF Frame
<1>2. PICK m : m = NormalPart(f.metadata)
  OBVIOUS
<1>3. PICK d : d = NormalPart(f.data)
  OBVIOUS
<1>4. Normal(f) = [f EXCEPT !.metadata = m, !.data = d]
  BY <1>1, <1>2, <1>3 DEF Normal, NormalPart
<1>5. PICK t, i, x, g, om, od :
          f = [type |-> t, streamId |-> i, fixed |-> x, flag |-> g, metadata |-> om, data |-> od]
  BY <1>1
<1>6. PICK e : e = [f EXCEPT !.metadata = m]
  OBVIOUS
<1>7. e = [type |-> t, streamId |-> i, fixed |-> x, flag |-> g, metadata |-> m, data |-> od]
  BY <1>5, <1>6
<1>8. [e EXCEPT !.data = d]
          = [type |-> t, streamId |-> i, fixed |-> x, flag |-> g, metadata |-> m, data |-> d]
  BY <1>7
<1>9. Normal(f) = [e EXCEPT !.data = d]
  BY <1>4, <1>6
<1>10. f.type = t /\ f.streamId = i /\ f.fixed = x /\ f.flag = g
  BY <1>5
<1> QED
  BY <1>2, <1>3, <1>8, <1>9, <1>10

LEMMA DecodedIs ==
    ASSUME NEW f, f \in Frame, NEW h, h.type = f.type, h.streamId = f.streamId,
           NEW fixed, fixed = f.fixed, NEW flag, flag = f.flag,
           NEW payload, payload.metadata = NormalPart(f.metadata)
    PROVE  /\ Recognised(Decoded(h, fixed, flag, payload).frame, f)
           /\ Decoded(h, fixed, flag, payload).after = payload.after
           /\ payload.data = NormalPart(f.data) =>
                  Decoded(h, fixed, flag, payload).frame = Normal(f)
<1>1. Decoded(h, fixed, flag, payload).frame
          = [type |-> f.type, streamId |-> f.streamId, fixed |-> f.fixed,
             flag |-> f.flag, metadata |-> NormalPart(f.metadata), data |-> payload.data]
  BY DEF Decoded
<1>2. Decoded(h, fixed, flag, payload).after = payload.after
  BY DEF Decoded
<1>3. PICK g : g = Decoded(h, fixed, flag, payload).frame
  OBVIOUS
<1>4. Recognised(g, f)
  BY <1>1, <1>3, NormalIs DEF Recognised
<1> QED
  BY <1>1, <1>2, <1>3, <1>4, NormalIs

\* The numbers behind the header, and the payload behind them.
LEMMA NumberThenPayload ==
    ASSUME NEW f, Writable(f), NEW b, Follows(b, BodyBytes(f)), FixedSize(f.type) = 4
    PROVE  /\ f.fixed = <<f.fixed[1]>> /\ f.fixed[1] \in Nat
           /\ ReadNumber(b, 4) = f.fixed[1]
           /\ Follows(Skip(b, 4), PayloadBytes(f))
           /\ IsBehind(Skip(b, 4), b, 4)
<1>1. TypeNumbers /\ f.type \in {6, 7, 8, 11}
  BY TypesAre DEF Writable, TypeNumbers, FixedSize
<1>2. f.fixed \in Seq(Nat) /\ Len(f.fixed) = 1
  BY <1>1, FixedNumbers DEF Writable, TypeNumbers
<1>3. f.fixed = <<f.fixed[1]>> /\ f.fixed[1] \in Nat
  BY <1>2
<1>4. Fits(f.fixed[1], 4)
  BY <1>2, FixedNumbers
<1>5. BodyBytes(f) = Cat(ToByteArray(f.fixed[1], 4), PayloadBytes(f))
  <2>1. f.type # FrameType.METADATA_PUSH
    BY <1>1 DEF TypeNumbers
  <2> QED
    BY <2>1, BodyBytesType, FixedBytesIs
<1>6. Shows(b, f.fixed[1], 4, PayloadBytes(f))
  BY <1>3, <1>4, <1>5, BodyBytesType DEF Shows, IsBytes
<1>7. IsRead(b, f.fixed[1], 4, PayloadBytes(f))
  BY <1>6, ReadsOn
<1> QED
  BY <1>3, <1>7 DEF IsRead

LEMMA OnlyPayload ==
    ASSUME NEW f, Writable(f), FixedSize(f.type) = 0, f.type # FrameType.METADATA_PUSH
    PROVE  f.fixed = <<>> /\ BodyBytes(f) = PayloadBytes(f)
<1>1. TypeNumbers /\ f.type \in {4, 5, 9, 10}
  BY TypesAre DEF Writable, TypeNumbers, FixedSize
<1>2. f.fixed \in Seq(Nat) /\ Len(f.fixed) = 0
  BY <1>1, FixedNumbers DEF Writable, TypeNumbers
<1>3. IsBytes(FixedBytes(f), 0)
  BY FixedBytesIs
<1>4. FixedBytes(f) = <<>>
  BY <1>3 DEF IsBytes
<1> QED
  BY <1>2, <1>4, BodyBytesType, CatEmpty DEF IsBytes

\* A payload behind a header that says it is n bytes less 6 long.
LEMMA PayloadIs ==
    ASSUME NEW f, Writable(f), HasParts(f), NEW h, NEW b, NEW n \in Nat, HeaderOf(h, b, f, n),
           NEW c, Follows(c, PayloadBytes(f))
    PROVE  /\ DecodePayload(c, h.metaPresent, h.frameLength).metadata = NormalPart(f.metadata)
           /\ n # 0 => PayloadOf(h, c) = DecodePayload(c, h.metaPresent, h.frameLength)
           /\ n = 6 + Len(PayloadBytes(f)) =>
                 /\ PayloadOf(h, c).data = NormalPart(f.data)
                 /\ PayloadOf(h, c).metadata = NormalPart(f.metadata)
                 /\ IsBehind(PayloadOf(h, c).after, c, Len(PayloadBytes(f)))
<1>1. h.metaPresent = IsPresent(f.metadata)
  BY DEF HeaderOf, IsPresent
<1>2. h.frameLength = n
  BY DEF HeaderOf
<1> DEFINE p == DecodePayload(c, IsPresent(f.metadata), n)
<1>3. /\ p.metadata = NormalPart(f.metadata)
      /\ n = 6 + Len(PayloadBytes(f)) =>
            p.data = NormalPart(f.data) /\ IsBehind(p.after, c, Len(PayloadBytes(f)))
  BY DecodesPayload
<1>4. DecodePayload(c, h.metaPresent, h.frameLength) = p
  BY <1>1, <1>2
<1> HIDE DEF p
<1>5. n # 0 => PayloadOf(h, c) = p
  BY <1>2, <1>4 DEF PayloadOf
<1>6. n = 6 + Len(PayloadBytes(f)) => n # 0
  BY BodyBytesType DEF IsBytes
<1> QED
  BY <1>3, <1>4, <1>5, <1>6

LEMMA NoParts ==
    ASSUME NEW f, f \in Frame, ~IsPresent(f.metadata), ~IsPresent(f.data)
    PROVE  /\ PayloadBytes(f) = <<>>
           /\ NormalPart(f.metadata) = Undefined /\ NormalPart(f.data) = Undefined
<1>0. <<>> \in Seq(Bytes)
  OBVIOUS
<1>1. f.metadata = Undefined /\ f.data = Undefined /\ Undefined # <<>>
  BY <1>0, UndefinedIsNoSequence, Zenon DEF IsPresent
<1>2. PayloadBytes(f) = <<>> \o <<>>
  BY <1>1 DEF PayloadBytes, PartBytes, IsPresent
<1>3. <<>> \o <<>> = <<>>
  OBVIOUS
<1> QED
  BY <1>1, <1>2, <1>3 DEF NormalPart

-----------------------------------------------------------------------------
(* What each decoder makes of its encoder's bytes                          *)

\* h is the header of a frame f that was written at b with the length n.
Arrived(f, n, h, b) ==
    /\ Writable(f) /\ LengthOK(f, n) /\ InBounds(b) /\ HeaderOf(h, b, f, n)
    /\ f.type # FrameType.METADATA_PUSH

\* What decoding f at b gives: all of it but its data, and for the types of
\* TakesItsBytes all of it, with the reader behind its last byte.
Decodes(out, f, b) ==
    /\ Recognised(out.frame, f)
    /\ TakesItsBytes(f) =>
          out.frame = Normal(f) /\ IsBehind(out.after, b, 9 + Len(BodyBytes(f)))

LEMMA FlagIs ==
    ASSUME NEW f, Writable(f)
    PROVE  /\ f.flag \in BOOLEAN
           /\ f.type \notin {FrameType.KEEPALIVE, FrameType.PAYLOAD} => f.flag = FALSE
           /\ f.type = FrameType.KEEPALIVE => Bit(FlagsByte(f), 128) = f.flag
           /\ f.type = FrameType.PAYLOAD => Bit(FlagsByte(f), 64) = f.flag
           /\ f.type = FrameType.SETUP => ~Bit(FlagsByte(f), 128)
<1>1. f.flag \in BOOLEAN /\ (f.flag => f.type \in {FrameType.KEEPALIVE, FrameType.PAYLOAD})
  BY DEF Writable, Frame
<1>2. /\ Bit(128, 128) = TRUE /\ Bit(0, 128) = FALSE /\ Bit(64, 64) = TRUE /\ Bit(32, 64) = FALSE
  <2>1. 128 \div 128 = 1 /\ 0 \div 128 = 0 /\ 64 \div 64 = 1 /\ 32 \div 64 = 0
    OBVIOUS
  <2>2. 1 % 2 = 1 /\ 0 % 2 = 0
    OBVIOUS
  <2> QED
    BY <2>1, <2>2 DEF Bit
<1>3. TypeNumbers
  BY TypesAre
<1>4. /\ f.type = FrameType.KEEPALIVE => FlagsByte(f) = IF f.flag THEN 128 ELSE 0
      /\ f.type = FrameType.PAYLOAD => FlagsByte(f) = IF f.flag THEN 64 ELSE 32
      /\ f.type = FrameType.SETUP => FlagsByte(f) = 0
  BY <1>3 DEF FlagsByte, TypeNumbers
<1>5. CASE f.flag = TRUE
  <2>1. /\ f.type = FrameType.KEEPALIVE => FlagsByte(f) = 128
        /\ f.type = FrameType.PAYLOAD => FlagsByte(f) = 64
    BY <1>4, <1>5
  <2>2. f.type # FrameType.SETUP
    BY <1>1, <1>3, <1>5 DEF TypeNumbers
  <2> QED
    BY <1>1, <1>2, <1>5, <2>1, <2>2, Zenon
<1>6. CASE f.flag = FALSE
  <2>1. /\ f.type = FrameType.KEEPALIVE => FlagsByte(f) = 0
        /\ f.type = FrameType.PAYLOAD => FlagsByte(f) = 32
    BY <1>4, <1>6
  <2> QED
    BY <1>1, <1>2, <1>4, <1>6, <2>1, Zenon
<1> QED
  BY <1>1, <1>5, <1>6

\* All that is needed of a payload frame, whatever its numbers.
LEMMA PayloadArrives ==
    ASSUME NEW f, NEW n, NEW h, NEW b, Arrived(f, n, h, b), f.type # FrameType.CANCEL,
           NEW c, Follows(c, PayloadBytes(f)),
           NEW fixed, fixed = f.fixed, NEW flag, flag = f.flag
    PROVE  /\ Recognised(Decoded(h, fixed, flag, PayloadOf(h, c)).frame, f)
           /\ Recognised(Decoded(h, fixed, flag, DecodePayload(c, h.metaPresent, h.frameLength)).frame, f)
           /\ (FixedSize(f.type) = 0 /\ c = h.body) =>
                  Decodes(Decoded(h, fixed, flag, PayloadOf(h, c)), f, b)
<1>1. /\ Writable(f) /\ LengthOK(f, n) /\ InBounds(b) /\ HeaderOf(h, b, f, n)
      /\ f.type # FrameType.METADATA_PUSH /\ f \in Frame
  BY DEF Arrived, Writable
<1>2. n \in Nat /\ HasParts(f) /\ n = 6 + Len(BodyBytes(f)) /\ Len(BodyBytes(f)) \in Nat
  BY <1>1, Lengths
<1>3. n # 0
  BY <1>2
<1>4. h.type = f.type /\ h.streamId = f.streamId
  BY <1>1 DEF HeaderOf
<1> DEFINE p == DecodePayload(c, h.metaPresent, h.frameLength)
<1>5. /\ p.metadata = NormalPart(f.metadata) /\ PayloadOf(h, c) = p
      /\ n = 6 + Len(PayloadBytes(f)) =>
            /\ PayloadOf(h, c).data = NormalPart(f.data)
            /\ IsBehind(PayloadOf(h, c).after, c, Len(PayloadBytes(f)))
  BY <1>1, <1>2, <1>3, PayloadIs
<1> HIDE DEF p
<1> DEFINE out == Decoded(h, fixed, flag, p)
<1>6. /\ Recognised(out.frame, f) /\ out.after = p.after
      /\ p.data = NormalPart(f.data) => out.frame = Normal(f)
  BY <1>1, <1>4, <1>5, DecodedIs
<1> HIDE DEF out
<1>7. ASSUME FixedSize(f.type) = 0, c = h.body
      PROVE  Decodes(out, f, b)
  <2>1. BodyBytes(f) = PayloadBytes(f)
    BY <1>1, <1>7, OnlyPayload
  <2>2. n = 6 + Len(PayloadBytes(f))
    BY <1>2, <2>1
  <2>3. p.data = NormalPart(f.data) /\ IsBehind(p.after, c, Len(BodyBytes(f)))
    BY <1>5, <2>1, <2>2
  <2>4. IsBehind(h.body, b, 9)
    BY <1>1 DEF HeaderOf
  <2>5. IsBehind(p.after, b, 9 + Len(BodyBytes(f)))
    BY <1>1, <1>2, <1>7, <2>3, <2>4, BehindBehind
  <2> QED
    BY <1>6, <2>3, <2>5 DEF Decodes
<1> QED
  BY <1>5, <1>6, <1>7 DEF out, p

\* The decoders that read nothing before the payload.
LEMMA DecodesRequest ==
    ASSUME NEW f, NEW n, NEW h, NEW b, Arrived(f, n, h, b),
           f.type \in {FrameType.REQUEST_RESPONSE, FrameType.REQUEST_FNF}
    PROVE  Decodes(DecodeRequest(h), f, b)
<1>1. Writable(f) /\ f.type # FrameType.METADATA_PUSH /\ HeaderOf(h, b, f, n)
  BY DEF Arrived
<1>2. FixedSize(f.type) = 0 /\ f.type # FrameType.CANCEL /\ f.type \notin {FrameType.KEEPALIVE, FrameType.PAYLOAD}
  BY TypesAre DEF FixedSize, TypeNumbers
<1>3. f.fixed = <<>> /\ BodyBytes(f) = PayloadBytes(f) /\ f.flag = FALSE
  BY <1>1, <1>2, OnlyPayload, FlagIs
<1>4. Follows(h.body, PayloadBytes(f))
  BY <1>1, <1>3 DEF HeaderOf
<1> QED
  BY <1>2, <1>3, <1>4, PayloadArrives DEF DecodeRequest

LEMMA DecodesPayloadFrame ==
    ASSUME NEW f, NEW n, NEW h, NEW b, Arrived(f, n, h, b), f.type = FrameType.PAYLOAD
    PROVE  Decodes(DecodePayloadFrame(h), f, b)
<1>1. Writable(f) /\ f.type # FrameType.METADATA_PUSH /\ HeaderOf(h, b, f, n)
  BY DEF Arrived
<1>2. FixedSize(f.type) = 0 /\ f.type # FrameType.CANCEL
  BY TypesAre DEF FixedSize, TypeNumbers
<1>3. f.fixed = <<>> /\ BodyBytes(f) = PayloadBytes(f)
  BY <1>1, <1>2, OnlyPayload
<1>4. Follows(h.body, PayloadBytes(f)) /\ h.flags = FlagsByte(f)
  BY <1>1, <1>3 DEF HeaderOf
<1>5. Bit(h.flags, 64) = f.flag
  <2>1. Bit(FlagsByte(f), 64) = f.flag
    BY <1>1, FlagIs
  <2> QED
    BY <1>4, <2>1
<1>6. PICK flag : flag = Bit(h.flags, 64)
  OBVIOUS
<1>7. flag = f.flag
  BY <1>5, <1>6
<1>8. Decodes(Decoded(h, <<>>, flag, PayloadOf(h, h.body)), f, b)
  BY <1>2, <1>3, <1>4, <1>7, PayloadArrives
<1> QED
  BY <1>6, <1>8 DEF DecodePayloadFrame

LEMMA DecodesRequestWithN ==
    ASSUME NEW f, NEW n, NEW h, NEW b, Arrived(f, n, h, b),
           f.type \in {FrameType.REQUEST_STREAM, FrameType.REQUEST_CHANNEL}
    PROVE  Decodes(DecodeRequestWithN(h), f, b)
<1>1. Writable(f) /\ HeaderOf(h, b, f, n)
  BY DEF Arrived
<1>2. /\ FixedSize(f.type) = 4 /\ f.type # FrameType.CANCEL
      /\ f.type \notin {FrameType.KEEPALIVE, FrameType.PAYLOAD} /\ ~TakesItsBytes(f)
  BY TypesAre DEF FixedSize, TypeNumbers, TakesItsBytes
<1>3. Follows(h.body, BodyBytes(f)) /\ f.flag = FALSE
  BY <1>1, <1>2, FlagIs DEF HeaderOf
<1>4. /\ f.fixed = <<f.fixed[1]>> /\ ReadNumber(h.body, 4) = f.fixed[1]
      /\ Follows(Skip(h.body, 4), PayloadBytes(f))
  BY <1>1, <1>2, <1>3, NumberThenPayload
<1>5. PICK fixed : fixed = <<ReadNumber(h.body, 4)>>
  OBVIOUS
<1>6. fixed = f.fixed
  BY <1>4, <1>5
<1>7. Recognised(Decoded(h, fixed, FALSE, PayloadOf(h, Skip(h.body, 4))).frame, f)
  BY <1>2, <1>3, <1>4, <1>6, PayloadArrives
<1> QED
  BY <1>2, <1>5, <1>7 DEF Decodes, DecodeRequestWithN

LEMMA DecodesRequestN ==
    ASSUME NEW f, NEW n, NEW h, NEW b, Arrived(f, n, h, b), f.type = FrameType.REQUEST_N
    PROVE  Decodes(DecodeRequestN(h), f, b)
<1>1. Writable(f) /\ HeaderOf(h, b, f, n) /\ f \in Frame /\ InBounds(b) /\ LengthOK(f, n)
  BY DEF Arrived, Writable
<1>2. /\ FixedSize(f.type) = 4 /\ f.type # FrameType.METADATA_PUSH
      /\ f.type \notin {FrameType.KEEPALIVE, FrameType.PAYLOAD}
  BY TypesAre DEF FixedSize, TypeNumbers
<1>3. Follows(h.body, BodyBytes(f)) /\ IsBehind(h.body, b, 9) /\ f.flag = FALSE
  BY <1>1, <1>2, FlagIs DEF HeaderOf
<1>4. /\ f.fixed = <<f.fixed[1]>> /\ ReadNumber(h.body, 4) = f.fixed[1]
      /\ IsBehind(Skip(h.body, 4), h.body, 4)
  BY <1>1, <1>2, <1>3, NumberThenPayload
<1>5. /\ PayloadBytes(f) = <<>>
      /\ NormalPart(f.metadata) = Undefined /\ NormalPart(f.data) = Undefined
  BY <1>1, NoParts DEF Writable
<1>6. Len(BodyBytes(f)) = 4
  <2>1. Len(BodyBytes(f)) = 4 + Len(PayloadBytes(f)) /\ Len(<<>>) = 0
    BY <1>1, <1>2, BodyBytesType
  <2> QED
    BY <1>5, <2>1
<1>7. IsBehind(Skip(h.body, 4), b, 9 + 4)
  BY <1>1, <1>3, <1>4, BehindBehind
<1>8. PICK fixed : fixed = <<ReadNumber(h.body, 4)>>
  OBVIOUS
<1>9. fixed = f.fixed
  BY <1>4, <1>8
<1>10. PICK p : p = NoPayload(Skip(h.body, 4))
  OBVIOUS
<1>11. p.metadata = NormalPart(f.metadata) /\ p.data = NormalPart(f.data) /\ p.after = Skip(h.body, 4)
  BY <1>5, <1>10 DEF NoPayload
<1>12. h.type = f.type /\ h.streamId = f.streamId
  BY <1>1 DEF HeaderOf
<1>flag. PICK flag : flag = FALSE
  OBVIOUS
<1>13. PICK out : out = Decoded(h, fixed, flag, p)
  OBVIOUS
<1>14. Recognised(out.frame, f) /\ out.after = p.after /\ out.frame = Normal(f)
  <2>1. flag = f.flag
    BY <1>3, <1>flag
  <2> QED
    BY <1>1, <1>9, <1>11, <1>12, <1>13, <2>1, DecodedIs
<1>15. Decodes(out, f, b)
  BY <1>6, <1>7, <1>11, <1>14 DEF Decodes
<1> QED
  BY <1>8, <1>10, <1>13, <1>15, <1>flag DEF DecodeRequestN

LEMMA DecodesCancel ==
    ASSUME NEW f, NEW n, NEW h, NEW b, Arrived(f, n, h, b), f.type = FrameType.CANCEL
    PROVE  Decodes(DecodeCancel(h), f, b)
<1>1. Writable(f) /\ HeaderOf(h, b, f, n) /\ f \in Frame /\ InBounds(b) /\ LengthOK(f, n)
  BY DEF Arrived, Writable
<1>2. /\ FixedSize(f.type) = 0 /\ f.type # FrameType.METADATA_PUSH
      /\ f.type \notin {FrameType.KEEPALIVE, FrameType.PAYLOAD}
  BY TypesAre DEF FixedSize, TypeNumbers
<1>3. IsBehind(h.body, b, 9) /\ f.flag = FALSE
  BY <1>1, <1>2, FlagIs DEF HeaderOf
<1>4. f.fixed = <<>> /\ BodyBytes(f) = PayloadBytes(f)
  BY <1>1, <1>2, OnlyPayload
<1>5. /\ PayloadBytes(f) = <<>>
      /\ NormalPart(f.metadata) = Undefined /\ NormalPart(f.data) = Undefined
  BY <1>1, NoParts DEF Writable
<1>6. 9 + Len(BodyBytes(f)) = 9
  BY <1>4, <1>5
<1>7. PICK p : p = NoPayload(h.body)
  OBVIOUS
<1>8. p.metadata = NormalPart(f.metadata) /\ p.data = NormalPart(f.data) /\ p.after = h.body
  BY <1>5, <1>7 DEF NoPayload
<1>9. h.type = f.type /\ h.streamId = f.streamId
  BY <1>1 DEF HeaderOf
<1>flag. PICK flag : flag = FALSE
  OBVIOUS
<1>10. PICK out : out = Decoded(h, <<>>, flag, p)
  OBVIOUS
<1>11. Recognised(out.frame, f) /\ out.after = p.after /\ out.frame = Normal(f)
  <2>1. flag = f.flag
    BY <1>3, <1>flag
  <2> QED
    BY <1>1, <1>4, <1>8, <1>9, <1>10, <2>1, DecodedIs
<1>12. Decodes(out, f, b)
  BY <1>3, <1>6, <1>8, <1>11 DEF Decodes
<1> QED
  BY <1>7, <1>10, <1>12, <1>flag DEF DecodeCancel

\* A part of s bytes, read if it is not empty.
LEMMA ReadsPart ==
    ASSUME NEW part \in Optional, NEW b, Follows(b, PartBytes(part)),
           NEW rest, rest = Len(PartBytes(part))
    PROVE  /\ (IF rest > 0 THEN ReadBytes(b, rest) ELSE Undefined) = NormalPart(part)
           /\ IsBehind(IF rest > 0 THEN Skip(b, rest) ELSE b, b, rest)
<1>1. PICK s : s = PartBytes(part)
  OBVIOUS
<1>2. s \in Seq(Bytes) /\ Len(s) \in Nat /\ rest = Len(s) /\ Follows(b, s) /\ InBounds(b)
  BY <1>1, PartIs, FollowsBounds
<1>3. CASE rest > 0
  <2>1. ReadBytes(b, rest) = s /\ IsBehind(Skip(b, rest), b, rest)
    BY <1>2, ReadsBytes, SkipBehind
  <2>2. NormalPart(part) = s
    BY <1>1, <1>2, <1>3, PartIs
  <2> QED
    BY <1>3, <2>1, <2>2
<1>4. CASE ~(rest > 0)
  <2>1. rest = 0
    BY <1>2, <1>4
  <2>2. NormalPart(part) = Undefined
    BY <1>1, <1>2, <2>1, PartIs
  <2>3. IsBehind(b, b, rest)
    BY <1>2, <2>1, FollowsNothing
  <2> QED
    BY <1>4, <2>2, <2>3
<1> QED
  BY <1>3, <1>4

LEMMA DecodesError ==
    ASSUME NEW f, NEW n, NEW h, NEW b, Arrived(f, n, h, b), f.type = FrameType.ERROR
    PROVE  Decodes(DecodeError(h), f, b)
<1>1. Writable(f) /\ HeaderOf(h, b, f, n) /\ f \in Frame /\ InBounds(b) /\ LengthOK(f, n)
  BY DEF Arrived, Writable
<1>2. /\ FixedSize(f.type) = 4 /\ f.type # FrameType.METADATA_PUSH /\ f.type # FrameType.CANCEL
      /\ f.type \notin {FrameType.KEEPALIVE, FrameType.PAYLOAD}
  BY TypesAre DEF FixedSize, TypeNumbers
<1>3. Follows(h.body, BodyBytes(f)) /\ IsBehind(h.body, b, 9) /\ f.flag = FALSE /\ h.frameLength = n
  BY <1>1, <1>2, FlagIs DEF HeaderOf
<1> DEFINE c == Skip(h.body, 4)
<1>4. /\ f.fixed = <<f.fixed[1]>> /\ f.fixed[1] \in Nat /\ ReadNumber(h.body, 4) = f.fixed[1]
      /\ IsBehind(c, h.body, 4) /\ Follows(c, PayloadBytes(f))
  BY <1>1, <1>2, <1>3, NumberThenPayload
<1>5. ~IsPresent(f.metadata) /\ f.data \in Optional
  BY <1>1 DEF Writable, Frame
<1>6. PayloadBytes(f) = PartBytes(f.data) /\ NormalPart(f.metadata) = Undefined
  <2>1. PartBytes(f.data) \in Seq(Bytes)
    BY <1>5, PartIs
  <2>2. PayloadBytes(f) = <<>> \o PartBytes(f.data)
    BY <1>5 DEF PayloadBytes
  <2>3. f.metadata = Undefined /\ <<>> \in Seq(Bytes)
    BY <1>5 DEF IsPresent
  <2>4. NormalPart(f.metadata) = Undefined
    BY <2>3, UndefinedIsNoSequence, Zenon DEF NormalPart
  <2> QED
    BY <2>1, <2>2, <2>4, ConcatEmptySeq
<1> DEFINE s == PartBytes(f.data)
           rest == h.frameLength - 10
<1>7. n = 6 + Len(BodyBytes(f)) /\ Len(BodyBytes(f)) = 4 + Len(s) /\ Len(s) \in Nat
  <2>1. n = 6 + Len(BodyBytes(f))
    BY <1>1, <1>2, Lengths
  <2>2. Len(BodyBytes(f)) = 4 + Len(PayloadBytes(f)) /\ Len(PayloadBytes(f)) \in Nat
    BY <1>1, <1>2, BodyBytesType DEF IsBytes
  <2> QED
    BY <1>6, <2>1, <2>2
<1> DEFINE p == [metadata |-> Undefined,
                 data |-> IF rest > 0 THEN ReadBytes(c, rest) ELSE Undefined,
                 after |-> IF rest > 0 THEN Skip(c, rest) ELSE c]
           fixed == <<OrZero(ReadNumber(h.body, 4))>>
           out == Decoded(h, fixed, FALSE, p)
<1>8. DecodeError(h) = out
  BY DEF DecodeError
<1> HIDE DEF c, s
<1>9. rest = Len(s)
  BY <1>3, <1>7
<1> HIDE DEF rest
<1>10. /\ p.metadata = NormalPart(f.metadata) /\ p.data = NormalPart(f.data)
       /\ IsBehind(p.after, c, Len(s))
  <2>1. /\ (IF rest > 0 THEN ReadBytes(c, rest) ELSE Undefined) = NormalPart(f.data)
        /\ IsBehind(IF rest > 0 THEN Skip(c, rest) ELSE c, c, rest)
    BY <1>4, <1>5, <1>6, <1>9, ReadsPart DEF s
  <2> QED
    BY <1>6, <1>9, <2>1
<1> HIDE DEF p
<1>11. fixed = f.fixed
  BY <1>4, NumberStays
<1> HIDE DEF fixed
<1>12. h.type = f.type /\ h.streamId = f.streamId
  BY <1>1 DEF HeaderOf
<1>13. Recognised(out.frame, f) /\ out.after = p.after /\ out.frame = Normal(f)
  <2>1. PICK flag : flag = FALSE
    OBVIOUS
  <2>2. flag = f.flag /\ out = Decoded(h, fixed, flag, p)
    BY <1>3, <2>1
  <2> HIDE DEF out
  <2>3. PICK q, x : q = p /\ x = fixed
    OBVIOUS
  <2>4. PICK o : o = Decoded(h, x, flag, q)
    OBVIOUS
  <2>5. Recognised(o.frame, f) /\ o.after = q.after /\ o.frame = Normal(f)
    BY <1>1, <1>10, <1>11, <1>12, <2>2, <2>3, <2>4, DecodedIs
  <2> QED
    BY <2>2, <2>3, <2>4, <2>5
<1> HIDE DEF out
<1>14. IsBehind(out.after, b, 9 + Len(BodyBytes(f)))
  <2>1. InBounds(h.body)
    BY <1>3, FollowsBounds
  <2>2. IsBehind(out.after, h.body, 4 + Len(s))
    BY <1>4, <1>7, <1>10, <1>13, <2>1, BehindBehind
  <2> QED
    BY <1>1, <1>3, <1>7, <2>2, BehindBehind
<1> QED
  BY <1>8, <1>13, <1>14 DEF Decodes

LEMMA ZeroBytes ==
    I64ToByteArray(0) = Cat(ToByteArray(0, 4), ToByteArray(0, 4))
<1>1. PICK z : z = ToByteArray(0, 4)
  OBVIOUS
<1>2. z \in Seq(Bytes) /\ Len(z) = 4
  BY <1>1, ToByteArrayType
<1>3. \A i \in 1..4 : z[i] = 0
  <2> SUFFICES ASSUME NEW i \in 1..4 PROVE z[i] = 0
    OBVIOUS
  <2>1. z[i] = (0 \div Weight[4 - i + 1]) % 256
    BY <1>1 DEF ToByteArray
  <2>2. 4 - i + 1 \in 1..4
    OBVIOUS
  <2>3. Weight[4 - i + 1] \in {1, 256, 65536, 16777216}
    BY <2>2 DEF Weight
  <2>4. 0 \div Weight[4 - i + 1] = 0
    BY <2>3
  <2> QED
    BY <2>1, <2>4
<1>4. PICK q : q = I64ToByteArray(0)
  OBVIOUS
<1>5. q \in Seq(Bytes) /\ Len(q) = 8 /\ \A i \in 1..8 : q[i] = 0
  <2>1. \A i \in 1..8 : q[i] = 0
    BY <1>4 DEF I64ToByteArray
  <2> QED
    BY <1>4, <2>1, I64ToByteArrayType
<1>6. PICK y : y = Cat(z, z)
  OBVIOUS
<1>7. /\ y \in Seq(Bytes) /\ Len(y) = 8
      /\ \A i \in 1..4 : y[i] = z[i]
      /\ \A i \in 1..4 : y[4 + i] = z[i]
  <2>1. y \in Seq(Bytes) /\ Len(y) = Len(z) + Len(z)
    BY <1>2, <1>6, CatType
  <2>2. \A i \in 1..Len(z) : y[i] = z[i]
    BY <1>2, <1>6, CatElements
  <2>3. \A i \in 1..Len(z) : y[Len(z) + i] = z[i]
    BY <1>2, <1>6, CatElements
  <2> QED
    BY <1>2, <2>1, <2>2, <2>3
<1>8. \A i \in 1..8 : y[i] = 0
  <2> SUFFICES ASSUME NEW i \in 1..8 PROVE y[i] = 0
    OBVIOUS
  <2>1. CASE i <= 4
    BY <1>3, <1>7, <2>1
  <2>2. CASE i > 4
    <3>1. i - 4 \in 1..4 /\ 4 + (i - 4) = i
      BY <2>2
    <3> QED
      BY <1>3, <1>7, <3>1
  <2> QED
    BY <2>1, <2>2
<1>9. q = y
  BY <1>5, <1>7, <1>8
<1> QED
  BY <1>1, <1>4, <1>6, <1>9

LEMMA DecodesKeepAlive ==
    ASSUME NEW f, NEW n, NEW h, NEW b, Arrived(f, n, h, b), f.type = FrameType.KEEPALIVE
    PROVE  Decodes(DecodeKeepAlive(h), f, b)
<1>1. Writable(f) /\ HeaderOf(h, b, f, n) /\ f \in Frame
  BY DEF Arrived, Writable
<1>2. TypeNumbers
  BY TypesAre
<1>3. /\ f.type # FrameType.METADATA_PUSH /\ f.type # FrameType.CANCEL /\ ~TakesItsBytes(f)
  BY <1>2 DEF TypeNumbers, TakesItsBytes
<1>4. f.fixed \in Seq(Nat) /\ Len(f.fixed) = 1 /\ f.fixed[1] = 0
  BY <1>1, <1>2, FixedNumbers DEF Writable, TypeNumbers
<1>5. f.fixed = <<0>>
  BY <1>4
<1>6. Follows(h.body, BodyBytes(f)) /\ h.flags = FlagsByte(f)
  BY <1>1 DEF HeaderOf
<1> DEFINE z == ToByteArray(0, 4)
           P == PayloadBytes(f)
<1>7. z \in Seq(Bytes) /\ P \in Seq(Bytes)
  BY <1>1, ToByteArrayType, BodyBytesType DEF IsBytes
<1>8. BodyBytes(f) = Cat(Cat(z, z), P)
  BY <1>1, <1>3, <1>4, BodyBytesType, FixedBytesIs, ZeroBytes
<1> HIDE DEF z, P
<1>9. BodyBytes(f) = Cat(z, Cat(z, P)) /\ Cat(z, P) \in Seq(Bytes)
  BY <1>7, <1>8, CatAgain, CatType
<1>10. Shows(h.body, 0, 4, Cat(z, P))
  <2>1. Fits(0, 4)
    <3>1. Weight[4] = 16777216
      BY SMT DEF Weight
    <3> QED
      BY <3>1, SMT DEF Fits
  <2> QED
    BY <1>6, <1>9, <2>1 DEF Shows, z
<1>11. ReadNumber(h.body, 4) = 0 /\ Follows(Skip(h.body, 4), Cat(z, P))
  BY <1>10, ReadsOn DEF IsRead
<1>12. Follows(Skip(h.body, 4), PayloadBytes(f))
  <2>1. ~IsPresent(f.metadata) /\ ~IsPresent(f.data)
    BY <1>1, <1>2 DEF Writable, TypeNumbers
  <2>2. PayloadBytes(f) = <<>>
    BY <1>1, <2>1, NoParts
  <2> QED
    BY <1>11, <2>2, FollowsBounds, FollowsNothing
<1>13. PICK fixed : fixed = <<OrZero(ReadNumber(h.body, 4))>>
  OBVIOUS
<1>14. fixed = f.fixed
  BY <1>5, <1>11, <1>13, NumberStays
<1>15. PICK flag : flag = Bit(h.flags, 128)
  OBVIOUS
<1>16. flag = f.flag
  BY <1>1, <1>6, <1>15, FlagIs
<1>17. Recognised(Decoded(h, fixed, flag, PayloadOf(h, Skip(h.body, 4))).frame, f)
  BY <1>3, <1>12, <1>14, <1>16, PayloadArrives
<1> QED
  BY <1>3, <1>13, <1>15, <1>17 DEF Decodes, DecodeKeepAlive

\* A length of w bytes, that is 1, and a byte: SkipBlock goes over both.
LEMMA SkipsOneByte ==
    ASSUME NEW b, NEW v \in Bytes, NEW t \in Seq(Bytes), Follows(b, Cat(One(1), Cat(One(v), t)))
    PROVE  Follows(SkipBlock(b, 1), t) /\ IsBehind(SkipBlock(b, 1), b, 2)
<1>1. 1 \in Bytes
  BY DEF Bytes
<1>2. One(v) \in Seq(Bytes)
  BY OneBytes DEF IsBytes
<1>3. Cat(One(v), t) \in Seq(Bytes)
  BY <1>2, CatType
<1>4. /\ ReadNumber(b, 1) = 1 /\ Follows(Skip(b, 1), Cat(One(v), t))
      /\ IsBehind(Skip(b, 1), b, 1)
  BY <1>1, <1>3, ReadsByteOn
<1>5. Follows(Skip(Skip(b, 1), 1), t) /\ IsBehind(Skip(Skip(b, 1), 1), Skip(b, 1), 1)
  BY <1>4, ReadsByteOn
<1>6. SkipBlock(b, 1) = Skip(Skip(b, 1), 1)
  BY <1>4, UndefinedAssumption DEF SkipBlock
<1>7. IsBehind(Skip(Skip(b, 1), 1), b, 1 + 1)
  <2>1. InBounds(b)
    BY FollowsBounds
  <2> QED
    BY <1>4, <1>5, <2>1, BehindBehind
<1> QED
  BY <1>5, <1>6, <1>7

LEMMA DecodesSetup ==
    ASSUME NEW f, NEW n, NEW h, NEW b, Arrived(f, n, h, b), f.type = FrameType.SETUP
    PROVE  Decodes(DecodeSetup(h), f, b)
<1>1. Writable(f) /\ HeaderOf(h, b, f, n) /\ f \in Frame
  BY DEF Arrived, Writable
<1>2. TypeNumbers
  BY TypesAre
<1>3. /\ f.type # FrameType.METADATA_PUSH /\ f.type # FrameType.CANCEL /\ ~TakesItsBytes(f)
      /\ f.type \notin {FrameType.KEEPALIVE, FrameType.PAYLOAD}
  BY <1>2 DEF TypeNumbers, TakesItsBytes
<1>4. f.fixed \in Seq(Nat) /\ Len(f.fixed) = 2 /\ f.fixed[1] # 0 /\ f.fixed[2] # 0
  <2>1. f.fixed \in Seq(Nat)
    BY <1>1, FixedNumbers
  <2>2. Len(f.fixed) = 2
    BY <1>1, <1>2 DEF Writable, TypeNumbers
  <2>3. f.fixed[1] # 0 /\ f.fixed[2] # 0
    BY <1>1 DEF Writable
  <2> QED
    BY <2>1, <2>2, <2>3
<1>5. PICK u : u = f.fixed[1]
  OBVIOUS
<1>6. PICK v : v = f.fixed[2]
  OBVIOUS
<1>7. /\ u \in Nat /\ v \in Nat /\ u # 0 /\ v # 0 /\ f.fixed = <<u, v>>
      /\ Fits(u, 4) /\ Fits(v, 4)
  <2>1. u \in Nat /\ v \in Nat /\ Fits(u, 4) /\ Fits(v, 4)
    BY <1>1, <1>4, <1>5, <1>6, FixedNumbers
  <2>2. f.fixed = <<u, v>>
    BY <1>4, <1>5, <1>6
  <2> QED
    BY <1>4, <1>5, <1>6, <2>1, <2>2
<1>8. Follows(h.body, BodyBytes(f)) /\ h.flags = FlagsByte(f)
  BY <1>1 DEF HeaderOf
<1> DEFINE P == PayloadBytes(f)
<1>9. P \in Seq(Bytes) /\ BodyBytes(f) = Cat(SetupBytes(u, v), P)
  BY <1>1, <1>3, <1>5, <1>6, BodyBytesType, FixedBytesIs DEF IsBytes
<1>10. IsBytes(SetupBytes(u, v), 16)
  BY <1>7, SetupBytesType
<1> HIDE DEF P
<1>11. /\ Follows(h.body, SetupBytes(u, v)) /\ Follows(Skip(h.body, 16), P)
       /\ IsBehind(Skip(h.body, 16), h.body, 16)
  <2>1. PICK s : s = SetupBytes(u, v)
    OBVIOUS
  <2>2. s \in Seq(Bytes) /\ Len(s) = 16
    BY <1>10, <2>1 DEF IsBytes
  <2>3. Follows(h.body, Cat(s, P))
    BY <1>8, <1>9, <2>1
  <2> QED
    BY <1>9, <2>1, <2>2, <2>3, FollowsCat
<1> DEFINE g == Cat(One(1), Cat(One(100), <<>>))
           e == Cat(One(1), Cat(One(109), g))
           d == Cat(ToByteArray(v, 4), e)
           c == Cat(ToByteArray(u, 4), d)
           z == Cat(ToByteArray(0, 2), c)
<1>12. SetupBytes(u, v) = Cat(ToByteArray(1, 2), z)
  <2>1. One(100) \in Seq(Bytes)
    BY OneBytes DEF IsBytes, Bytes
  <2>2. Cat(One(100), <<>>) = One(100)
    BY <2>1, CatEmpty
  <2> QED
    BY <2>2 DEF SetupBytes
<1>13. 1 \in Bytes /\ 109 \in Bytes /\ 100 \in Bytes /\ <<>> \in Seq(Bytes)
  BY DEF Bytes
<1>14. /\ One(1) \in Seq(Bytes) /\ One(109) \in Seq(Bytes) /\ One(100) \in Seq(Bytes)
       /\ ToByteArray(v, 4) \in Seq(Bytes) /\ ToByteArray(u, 4) \in Seq(Bytes)
       /\ ToByteArray(0, 2) \in Seq(Bytes)
  BY <1>7, <1>13, OneBytes, ToByteArrayType DEF IsBytes
<1>15. g \in Seq(Bytes)
  BY <1>13, <1>14, CatType
<1>16. e \in Seq(Bytes)
  BY <1>14, <1>15, CatType
<1> HIDE DEF g
<1>17. d \in Seq(Bytes)
  BY <1>14, <1>16, CatType
<1> HIDE DEF e
<1>18. c \in Seq(Bytes)
  BY <1>14, <1>17, CatType
<1> HIDE DEF d
<1>19. z \in Seq(Bytes)
  BY <1>14, <1>18, CatType
<1> HIDE DEF c
<1> DEFINE b0 == Skip(h.body, 2)
           b1 == Skip(b0, 2)
           b2 == Skip(b1, 4)
           b3 == Skip(b2, 4)
           b4 == SkipBlock(b3, 1)
           b5 == SkipBlock(b4, 1)
<1>20. Fits(1, 2) /\ Fits(0, 2)
  <2>1. Weight[2] = 256
    BY DEF Weight
  <2> QED
    BY <2>1 DEF Fits
<1>21. Follows(b0, z) /\ IsBehind(b0, h.body, 2)
  <2>1. Shows(h.body, 1, 2, z)
    BY <1>11, <1>12, <1>19, <1>20 DEF Shows
  <2> QED
    BY <2>1, ReadsOn DEF IsRead
<1> HIDE DEF b0
<1>22. Follows(b1, c) /\ IsBehind(b1, b0, 2)
  <2>1. Shows(b0, 0, 2, c)
    BY <1>18, <1>20, <1>21 DEF Shows, z
  <2> QED
    BY <2>1, ReadsOn DEF IsRead
<1> HIDE DEF b1
<1>23. ReadNumber(b1, 4) = u /\ Follows(b2, d) /\ IsBehind(b2, b1, 4)
  <2>1. Shows(b1, u, 4, d)
    BY <1>7, <1>17, <1>22 DEF Shows, c
  <2> QED
    BY <2>1, ReadsOn DEF IsRead
<1> HIDE DEF b2
<1>24. ReadNumber(b2, 4) = v /\ Follows(b3, e) /\ IsBehind(b3, b2, 4)
  <2>1. Shows(b2, v, 4, e)
    BY <1>7, <1>16, <1>23 DEF Shows, d
  <2> QED
    BY <2>1, ReadsOn DEF IsRead
<1> HIDE DEF b3
<1>25. Follows(b4, g) /\ IsBehind(b4, b3, 2)
  BY <1>13, <1>15, <1>24, SkipsOneByte DEF e
<1> HIDE DEF b4
<1>26. Follows(b5, <<>>) /\ IsBehind(b5, b4, 2)
  BY <1>13, <1>25, SkipsOneByte DEF g
<1> HIDE DEF b5
<1>27. IsBehind(b5, h.body, 2 + (2 + (4 + (4 + (2 + 2)))))
  <2>1. InBounds(h.body) /\ InBounds(b0) /\ InBounds(b1) /\ InBounds(b2) /\ InBounds(b3)
    BY <1>8, <1>21, <1>22, <1>23, <1>24, FollowsBounds
  <2>2. IsBehind(b5, b3, 2 + 2)
    BY <1>25, <1>26, <2>1, BehindBehind
  <2>3. IsBehind(b5, b2, 4 + (2 + 2))
    BY <1>24, <2>1, <2>2, BehindBehind
  <2>4. IsBehind(b5, b1, 4 + (4 + (2 + 2)))
    BY <1>23, <2>1, <2>3, BehindBehind
  <2>5. IsBehind(b5, b0, 2 + (4 + (4 + (2 + 2))))
    BY <1>22, <2>1, <2>4, BehindBehind
  <2> QED
    BY <1>21, <2>1, <2>5, BehindBehind
<1>28. IsBehind(b5, h.body, 16)
  <2>1. 2 + (2 + (4 + (4 + (2 + 2)))) = 16
    OBVIOUS
  <2> QED
    BY <1>27, <2>1
<1>29. Follows(b5, PayloadBytes(f))
  BY <1>11, <1>28, SameBehind DEF P
<1>30. PICK fixed : fixed = <<OrDefault(ReadNumber(b1, 4), 20), OrDefault(ReadNumber(b2, 4), 90)>>
  OBVIOUS
<1>31. fixed = f.fixed
  <2>1. OrDefault(u, 20) = u /\ OrDefault(v, 90) = v
    BY <1>7, UndefinedAssumption DEF OrDefault
  <2> QED
    BY <1>7, <1>23, <1>24, <1>30, <2>1
<1>32. PICK flag : flag = FALSE
  OBVIOUS
<1>33. flag = f.flag
  BY <1>1, <1>3, <1>32, FlagIs
<1>34. PICK p : p = DecodePayload(b5, h.metaPresent, h.frameLength)
  OBVIOUS
<1>35. Recognised(Decoded(h, fixed, flag, p).frame, f)
  BY <1>3, <1>29, <1>31, <1>33, <1>34, PayloadArrives
<1>36. DecodeSetup(h) = Decoded(h, fixed, FALSE, p)
  <2>1. ~Bit(h.flags, 128)
    BY <1>1, <1>8, FlagIs
  <2> QED
    BY <1>30, <1>34, <2>1 DEF DecodeSetup, b0, b1, b2, b3, b4, b5
<1> QED
  BY <1>3, <1>32, <1>35, <1>36 DEF Decodes

\* Whatever a frame was given as its length, parseFrames recognises it; if it
\* is of a type that takes its bytes nothing of it is lost.
LEMMA DecodesFrame ==
    ASSUME NEW f, Writable(f), f.type # FrameType.METADATA_PUSH, NEW n, LengthOK(f, n),
           NEW b, Follows(b, WithLength(f, n))
    PROVE  Decodes(Decode(b), f, b)
<1>1. PICK h : h = Header(b)
  OBVIOUS
<1>2. n \in Nat /\ Fits(n, 3) /\ InBounds(b)
  BY Lengths, FollowsBounds
<1>3. HeaderOf(h, b, f, n)
  BY <1>1, <1>2, HeaderIs
<1>4. Arrived(f, n, h, b)
  BY <1>2, <1>3 DEF Arrived
<1>5. TypeNumbers /\ f.type \in 1..12 /\ f.type # 2 /\ f.type # 12 /\ h.type = f.type
  BY <1>3, TypesAre DEF Writable, TypeNumbers, HeaderOf
<1> DEFINE out == Decode(b)
<1>6. out = CASE h.type = FrameType.SETUP -> DecodeSetup(h)
          [] h.type = FrameType.LEASE -> DecodeLease(h)
          [] h.type = FrameType.KEEPALIVE -> DecodeKeepAlive(h)
          [] h.type \in {FrameType.REQUEST_RESPONSE, FrameType.REQUEST_FNF} ->
                 DecodeRequest(h)
          [] h.type \in {FrameType.REQUEST_STREAM, FrameType.REQUEST_CHANNEL} ->
                 DecodeRequestWithN(h)
          [] h.type = FrameType.REQUEST_N -> DecodeRequestN(h)
          [] h.type = FrameType.CANCEL -> DecodeCancel(h)
          [] h.type = FrameType.PAYLOAD -> DecodePayloadFrame(h)
          [] h.type = FrameType.ERROR -> DecodeError(h)
          [] OTHER -> SkipFrame(h)
  BY <1>1 DEF Decode
<1> HIDE DEF out
<1>7. CASE f.type = 1
  <2>1. out = DecodeSetup(h)
    BY <1>5, <1>6, <1>7 DEF TypeNumbers
  <2> QED
    BY <1>4, <1>5, <1>7, <2>1, DecodesSetup DEF TypeNumbers, out
<1>8. CASE f.type = 3
  <2>1. out = DecodeKeepAlive(h)
    BY <1>5, <1>6, <1>8 DEF TypeNumbers
  <2> QED
    BY <1>4, <1>5, <1>8, <2>1, DecodesKeepAlive DEF TypeNumbers, out
<1>9. CASE f.type \in {4, 5}
  <2>1. out = DecodeRequest(h)
    BY <1>5, <1>6, <1>9 DEF TypeNumbers
  <2> QED
    BY <1>4, <1>5, <1>9, <2>1, DecodesRequest DEF TypeNumbers, out
<1>10. CASE f.type \in {6, 7}
  <2>1. out = DecodeRequestWithN(h)
    BY <1>5, <1>6, <1>10 DEF TypeNumbers
  <2> QED
    BY <1>4, <1>5, <1>10, <2>1, DecodesRequestWithN DEF TypeNumbers, out
<1>11. CASE f.type = 8
  <2>1. out = DecodeRequestN(h)
    BY <1>5, <1>6, <1>11 DEF TypeNumbers
  <2> QED
    BY <1>4, <1>5, <1>11, <2>1, DecodesRequestN DEF TypeNumbers, out
<1>12. CASE f.type = 9
  <2>1. out = DecodeCancel(h)
    BY <1>5, <1>6, <1>12 DEF TypeNumbers
  <2> QED
    BY <1>4, <1>5, <1>12, <2>1, DecodesCancel DEF TypeNumbers, out
<1>13. CASE f.type = 10
  <2>1. out = DecodePayloadFrame(h)
    BY <1>5, <1>6, <1>13 DEF TypeNumbers
  <2> QED
    BY <1>4, <1>5, <1>13, <2>1, DecodesPayloadFrame DEF TypeNumbers, out
<1>14. CASE f.type = 11
  <2>1. out = DecodeError(h)
    BY <1>5, <1>6, <1>14 DEF TypeNumbers
  <2> QED
    BY <1>4, <1>5, <1>14, <2>1, DecodesError DEF TypeNumbers, out
<1> QED
  BY <1>5, <1>7, <1>8, <1>9, <1>10, <1>11, <1>12, <1>13, <1>14

-----------------------------------------------------------------------------
(* Chunks: frames one behind the other                                     *)

LEMMA EncodeType ==
    ASSUME NEW f, Writable(f)
    PROVE  /\ LengthOK(f, LengthOf(f)) /\ Encode(f) = WithLength(f, LengthOf(f))
           /\ Encode(f) \in Seq(Bytes) /\ Len(Encode(f)) = 9 + Len(BodyBytes(f))
<1>1. LengthOK(f, LengthOf(f))
  BY DEF LengthOK, LengthOf
<1>2. PICK n : n = LengthOf(f)
  OBVIOUS
<1>3. IsBytes(WithLength(f, n), 9 + Len(BodyBytes(f)))
  BY <1>1, <1>2, Lengths
<1> QED
  BY <1>1, <1>2, <1>3, EncodeIs DEF IsBytes

\* A WebSocket message is given the length of what was left of the frame.
LEMMA MessageIs ==
    ASSUME NEW f, Writable(f)
    PROVE  LengthOK(f, Len(Behind(f))) /\ Message(f) = WithLength(f, Len(Behind(f)))
<1> DEFINE sent == SubSeq(Encode(f), 4, Len(Encode(f)))
<1>1. PICK s : s = ToByteArray(LengthOf(f), 3)
  OBVIOUS
<1>2. PICK t : t = Behind(f)
  OBVIOUS
<1>3. IsBytes(t, 6 + Len(BodyBytes(f))) /\ Len(BodyBytes(f)) \in Nat
  BY <1>2, BehindType
<1>4. t \in Seq(Bytes) /\ LengthOf(f) \in Nat
  BY <1>2, <1>3 DEF IsBytes, LengthOf
<1>5. IsBytes(s, 3)
  BY <1>1, <1>4, NumberBytes
<1>6. s \in Seq(Bytes) /\ Len(s) = 3
  BY <1>5 DEF IsBytes
<1>7. PICK e : e = Encode(f)
  OBVIOUS
<1>8. e = s \o t
  BY <1>1, <1>2, <1>7, EncodeIs DEF WithLength, Cat
<1>9. SubSeq(e, 4, Len(e)) = t
  <2>1. /\ e \in Seq(Bytes) /\ Len(e) = 3 + Len(t) /\ Len(t) \in Nat
        /\ \A i \in 1..Len(t) : e[3 + i] = t[i]
    <3>1. e = Cat(s, t)
      BY <1>8 DEF Cat
    <3>2. Cat(s, t) \in Seq(Bytes) /\ Len(Cat(s, t)) = Len(s) + Len(t) /\ Len(t) \in Nat
      BY <1>4, <1>6, CatType
    <3>3. \A i \in 1..Len(t) : Cat(s, t)[Len(s) + i] = t[i]
      BY <1>4, <1>6, SecondPart
    <3> QED
      BY <1>6, <3>1, <3>2, <3>3
  <2>2. 3 + 1 = 4 /\ 3 \in Nat /\ 3 <= Len(e)
    BY <2>1
  <2>3. PICK r : r = SubSeq(e, 4, Len(e))
    OBVIOUS
  <2>4. r \in Seq(Bytes) /\ Len(r) = Len(e) - 3 /\ \A i \in 1..Len(r) : r[i] = e[3 + i]
    BY <2>1, <2>2, <2>3, RestOf
  <2>5. Len(r) = Len(t) /\ \A i \in 1..Len(t) : r[i] = t[i]
    BY <2>1, <2>4
  <2>6. r = t
    BY <1>4, <2>4, <2>5
  <2> QED
    BY <2>3, <2>6
<1>10. Message(f) = ToByteArray(Len(t), 3) \o t
  BY <1>7, <1>9 DEF Message
<1> QED
  BY <1>2, <1>10 DEF WithLength, Cat, LengthOK

\* bytes are those of the frames, each with a length that it may arrive with.
Carries(u, w, bytes, frames) ==
    /\ Joins(u, w, Len(frames))
    /\ AreBytes(w, Len(frames))
    /\ \A i \in 1..Len(frames) :
          \E n : LengthOK(frames[i], n) /\ w[i] = WithLength(frames[i], n)
    /\ bytes = u[Len(frames)]

AreWritable(frames) == \A i \in 1..Len(frames) : Writable(frames[i])

LEMMA CarriesBytes ==
    ASSUME NEW u, NEW w, NEW bytes, NEW frames, Len(frames) \in Nat,
           Carries(u, w, bytes, frames)
    PROVE  bytes \in Seq(Bytes)
<1>1. PICK n : n = Len(frames)
  OBVIOUS
<1>2. n \in Nat /\ AreBytes(w, n) /\ Joins(u, w, n) /\ bytes = u[n]
  BY <1>1 DEF Carries
<1>3. \A i \in 0..n : u[i] \in Seq(Bytes)
  BY <1>2, JoinType
<1> QED
  BY <1>2, <1>3

LEMMA JoinedCarries ==
    ASSUME NEW frames, Len(frames) \in Nat, AreWritable(frames)
    PROVE  \E u, w : Carries(u, w, Joined(frames), frames)
<1>1. PICK N : N = Len(frames)
  OBVIOUS
<1>2. PICK w : w = [i \in 1..N |-> Encode(frames[i])]
  OBVIOUS
<1>3. \A i \in 1..N :
         /\ w[i] = Encode(frames[i]) /\ w[i] \in Seq(Bytes)
         /\ \E n : LengthOK(frames[i], n) /\ w[i] = WithLength(frames[i], n)
  <2> SUFFICES ASSUME NEW i \in 1..N
               PROVE  /\ w[i] = Encode(frames[i]) /\ w[i] \in Seq(Bytes)
                      /\ \E n : LengthOK(frames[i], n) /\ w[i] = WithLength(frames[i], n)
    OBVIOUS
  <2>1. w[i] = Encode(frames[i])
    BY <1>2
  <2>2. PICK f : f = frames[i]
    OBVIOUS
  <2>3. Writable(f)
    BY <1>1, <2>2 DEF AreWritable
  <2> QED
    BY <2>1, <2>2, <2>3, EncodeType
<1>4. AreBytes(w, N) /\ N \in Nat
  BY <1>1, <1>3 DEF AreBytes
<1>5. PICK u : Joins(u, w, N)
  BY <1>4, JoinExists
<1> DEFINE upTo == CHOOSE f : f = [n \in 0..Len(frames) |->
                      IF n = 0 THEN <<>> ELSE f[n - 1] \o Encode(frames[n])]
<1>6. PICK v : v = [n \in 0..N |-> u[n]]
  OBVIOUS
<1>7. v = [n \in 0..N |-> IF n = 0 THEN <<>> ELSE v[n - 1] \o Encode(frames[n])]
  <2>1. \A n \in 0..N : v[n] = IF n = 0 THEN <<>> ELSE v[n - 1] \o Encode(frames[n])
    <3> SUFFICES ASSUME NEW n \in 0..N
                 PROVE  v[n] = IF n = 0 THEN <<>> ELSE v[n - 1] \o Encode(frames[n])
      OBVIOUS
    <3>1. CASE n = 0
      BY <1>5, <1>6, <3>1 DEF Joins
    <3>2. CASE n # 0
      <4>1. n \in 1..N /\ n - 1 \in 0..N
        BY <1>4, <3>2
      <4>2. v[n] = u[n] /\ v[n - 1] = u[n - 1]
        BY <1>6, <4>1
      <4>3. u[n] = Cat(u[n - 1], w[n]) /\ w[n] = Encode(frames[n])
        BY <1>3, <1>5, <4>1 DEF Joins
      <4> QED
        BY <3>2, <4>2, <4>3 DEF Cat
    <3> QED
      BY <3>1, <3>2
  <2> QED
    BY <1>6, <2>1
<1>8. upTo = [n \in 0..Len(frames) |->
                 IF n = 0 THEN <<>> ELSE upTo[n - 1] \o Encode(frames[n])]
  <2>1. v = [n \in 0..Len(frames) |-> IF n = 0 THEN <<>> ELSE v[n - 1] \o Encode(frames[n])]
    BY <1>1, <1>7
  <2> QED
    BY <2>1
<1>9. Joined(frames) = upTo[Len(frames)]
  BY DEF Joined
<1> HIDE DEF upTo
<1>10. PICK g : g = upTo
  OBVIOUS
<1>11. g = [n \in 0..N |-> IF n = 0 THEN <<>> ELSE g[n - 1] \o Encode(frames[n])]
  BY <1>1, <1>8, <1>10
<1>12. Joins(g, w, N)
  <2>1. DOMAIN g = 0..N /\ 0 \in 0..N
    BY <1>4, <1>11
  <2>2. g[0] = <<>>
    BY <1>11, <2>1
  <2>3. ASSUME NEW i \in 1..N PROVE g[i] = Cat(g[i - 1], w[i])
    <3>1. i \in 0..N /\ i # 0
      BY <1>4
    <3>2. g[i] = g[i - 1] \o Encode(frames[i])
      BY <1>11, <3>1
    <3> QED
      BY <1>3, <3>2 DEF Cat
  <2> QED
    BY <2>1, <2>2, <2>3 DEF Joins
<1>13. Carries(g, w, Joined(frames), frames)
  BY <1>1, <1>3, <1>4, <1>9, <1>10, <1>12 DEF Carries
<1> QED
  BY <1>13

LEMMA MessageCarries ==
    ASSUME NEW f, Writable(f)
    PROVE  \E u, w : Carries(u, w, Message(f), <<f>>)
<1>1. PICK frames : frames = <<f>>
  OBVIOUS
<1>2. Len(frames) = 1 /\ frames[1] = f
  BY <1>1
<1>3. PICK m : m = Message(f)
  OBVIOUS
<1>4. PICK n : n = Len(Behind(f))
  OBVIOUS
<1>5. LengthOK(f, n) /\ m = WithLength(f, n)
  BY <1>3, <1>4, MessageIs
<1>6. m \in Seq(Bytes)
  BY <1>5, Lengths DEF IsBytes
<1>7. PICK w : w = [i \in 1..1 |-> m]
  OBVIOUS
<1>8. PICK u : u = [i \in 0..1 |-> IF i = 0 THEN <<>> ELSE m]
  OBVIOUS
<1>9. w[1] = m /\ u[0] = <<>> /\ u[1] = m /\ DOMAIN u = 0..1
  BY <1>7, <1>8
<1>10. \A i \in 1..1 : i = 1 /\ i - 1 = 0
  OBVIOUS
<1>11. Cat(<<>>, m) = m
  BY <1>6, CatEmpty
<1>12. Joins(u, w, 1) /\ AreBytes(w, 1)
  BY <1>6, <1>9, <1>10, <1>11 DEF Joins, AreBytes
<1>13. Carries(u, w, m, frames)
  BY <1>2, <1>5, <1>9, <1>10, <1>12 DEF Carries
<1> QED
  BY <1>1, <1>3, <1>13

\* parseFrames has taken k of the frames from b, and what it made of them is seq.
Taken(b, frames, seq, u, w, k) ==
    /\ Carries(u, w, b.data, frames)
    /\ k \in 0..Len(frames)
    /\ b.reader = Len(u[k])
    /\ seq = [i \in 1..k |-> Normal(frames[i])]

\* A chunk of whole frames, read by a parser.
IsChunk(b, frames) == InBounds(b) /\ Len(frames) \in Nat /\ AreWritable(frames)

LEMMA NextFrame ==
    ASSUME NEW b, NEW frames, IsChunk(b, frames), NEW seq, NEW u, NEW w, NEW k,
           Taken(b, frames, seq, u, w, k), k < Len(frames)
    PROVE  /\ \E n : /\ LengthOK(frames[k + 1], n)
                     /\ Follows(b, WithLength(frames[k + 1], n))
           /\ Len(BodyBytes(frames[k + 1])) \in Nat
           /\ Len(u[k + 1]) = b.reader + (9 + Len(BodyBytes(frames[k + 1])))
           /\ Len(u[k + 1]) <= Len(b.data)
<1>1. PICK N : N = Len(frames)
  OBVIOUS
<1>2. PICK i : i = k + 1
  OBVIOUS
<1>3. PICK f : f = frames[i]
  OBVIOUS
<1>4. N \in Nat /\ k \in 0..N /\ i \in 1..N /\ i \in 0..N /\ i - 1 = k
  BY <1>1, <1>2 DEF IsChunk, Taken
<1>5. Joins(u, w, N) /\ AreBytes(w, N) /\ b.data = u[N] /\ b.reader = Len(u[k])
  BY <1>1 DEF Taken, Carries
<1>6. u[i] = Cat(u[k], w[i]) /\ w[i] \in Seq(Bytes)
  BY <1>4, <1>5 DEF Joins, AreBytes
<1>7. \A j \in 0..N : u[j] \in Seq(Bytes)
  BY <1>4, <1>5, JoinType
<1>8. u[k] \in Seq(Bytes) /\ u[i] \in Seq(Bytes) /\ u[N] \in Seq(Bytes)
  BY <1>4, <1>7
<1>9. Begins(u[i], u[N])
  BY <1>4, <1>5, JoinGrows
<1>10. PICK n : LengthOK(f, n) /\ w[i] = WithLength(f, n)
  BY <1>1, <1>3, <1>4 DEF Taken, Carries
<1>11. Writable(f)
  BY <1>1, <1>3, <1>4 DEF IsChunk, AreWritable
<1>12. Len(BodyBytes(f)) \in Nat /\ Len(w[i]) = 9 + Len(BodyBytes(f))
  BY <1>10, <1>11, Lengths DEF IsBytes
<1>13. Len(u[i]) = Len(u[k]) + Len(w[i]) /\ Len(u[k]) \in Nat /\ Len(w[i]) \in Nat
  BY <1>6, <1>8, CatType
<1>14. \A j \in 1..Len(w[i]) : u[i][Len(u[k]) + j] = w[i][j]
  <2>1. PICK s : s = u[k]
    OBVIOUS
  <2>2. PICK t : t = w[i]
    OBVIOUS
  <2>3. \A j \in 1..Len(t) : Cat(s, t)[Len(s) + j] = t[j]
    BY <1>6, <1>8, <2>1, <2>2, SecondPart
  <2> QED
    BY <1>6, <2>1, <2>2, <2>3
<1>15. InBounds(b) /\ b.capacity = Len(b.data)
  BY DEF IsChunk, InBounds
<1>16. Follows(b, w[i])
  <2>1. Holds(b, Len(w[i]))
    BY <1>5, <1>9, <1>13, <1>15 DEF Holds, Begins
  <2>2. ASSUME NEW j \in 1..Len(w[i]) PROVE b.data[b.reader + j] = w[i][j]
    <3>1. Len(u[k]) + j \in 1..Len(u[i])
      <4>1. PICK m \in Nat : m = Len(u[k])
        BY <1>13
      <4>2. PICK l \in Nat : l = Len(w[i])
        BY <1>13
      <4>3. Len(u[i]) = m + l /\ j \in 1..l
        BY <1>13, <4>1, <4>2
      <4>4. m + j \in 1..m + l
        BY <4>3
      <4> QED
        BY <4>1, <4>3, <4>4
    <3>2. u[N][Len(u[k]) + j] = u[i][Len(u[k]) + j]
      BY <1>9, <3>1 DEF Begins
    <3> QED
      BY <1>5, <1>14, <3>2
  <2> QED
    BY <1>6, <1>15, <2>1, <2>2 DEF Follows
<1>17. Len(u[i]) = b.reader + (9 + Len(BodyBytes(f))) /\ Len(u[i]) <= Len(b.data)
  BY <1>5, <1>9, <1>12, <1>13 DEF Begins
<1> QED
  BY <1>2, <1>3, <1>10, <1>12, <1>16, <1>17

LEMMA NormalIsFrame ==
    ASSUME NEW f, f \in Frame
    PROVE  Normal(f) \in Frame /\ Normal(f) # NoFrame
<1>1. f.metadata \in Optional /\ f.data \in Optional
  BY DEF Frame
<1>2. NormalPart(f.metadata) \in Optional /\ NormalPart(f.data) \in Optional
  BY <1>1 DEF NormalPart, Optional
<1>3. Normal(f) \in Frame
  <2>1. PICK m \in Optional : m = NormalPart(f.metadata)
    BY <1>2
  <2>2. PICK d \in Optional : d = NormalPart(f.data)
    BY <1>2
  <2>3. Normal(f) = [type |-> f.type, streamId |-> f.streamId, fixed |-> f.fixed,
                     flag |-> f.flag, metadata |-> m, data |-> d]
    BY <2>1, <2>2, NormalIs
  <2>4. /\ f.type \in 0..63 /\ f.streamId \in Nat /\ f.fixed \in Seq(Nat \cup {Undefined})
        /\ f.flag \in BOOLEAN
    BY DEF Frame
  <2> QED
    BY <2>3, <2>4 DEF Frame
<1> QED
  BY <1>3, NoFrameAssumption

\* A turn takes the next of the frames, and nothing of what follows it.
LEMMA TurnTakesFrame ==
    ASSUME NEW b, NEW frames, IsChunk(b, frames), IsReadable(b),
           \A i \in 1..Len(frames) : TakesItsBytes(frames[i]),
           NEW seq, NEW u, NEW w, NEW k, Taken(b, frames, seq, u, w, k)
    PROVE  /\ k < Len(frames)
           /\ Decode(b).frame # NoFrame
           /\ Taken(Decode(b).after, frames, Append(seq, Decode(b).frame), u, w, k + 1)
<1>1. PICK N : N = Len(frames)
  OBVIOUS
<1>2. N \in Nat /\ k \in 0..N
  BY <1>1 DEF IsChunk, Taken
<1>3. k < N
  <2>1. b.data = u[N] /\ b.reader = Len(u[k]) /\ b.reader < Len(b.data) /\ b.reader \in Nat
    BY <1>1 DEF Taken, Carries, IsChunk, InBounds, Buffer, IsReadable
  <2>2. k # N
    BY <2>1
  <2> QED
    BY <1>2, <2>2
<1>4. PICK f : f = frames[k + 1]
  OBVIOUS
<1>5. k + 1 \in 1..N /\ Writable(f) /\ TakesItsBytes(f) /\ f \in Frame
  BY <1>1, <1>2, <1>3, <1>4 DEF IsChunk, AreWritable, Writable
<1>6. f.type # FrameType.METADATA_PUSH
  BY <1>5, TypesAre DEF TakesItsBytes, TypeNumbers
<1>7. PICK n : LengthOK(f, n) /\ Follows(b, WithLength(f, n))
  BY <1>1, <1>3, <1>4, NextFrame
<1>8. Decodes(Decode(b), f, b)
  BY <1>5, <1>6, <1>7, DecodesFrame
<1>9. PICK out : out = Decode(b)
  OBVIOUS
<1>10. out.frame = Normal(f) /\ IsBehind(out.after, b, 9 + Len(BodyBytes(f)))
  BY <1>5, <1>8, <1>9 DEF Decodes
<1>11. out.frame # NoFrame
  BY <1>5, <1>10, NormalIsFrame
<1>12. Len(u[k + 1]) = b.reader + (9 + Len(BodyBytes(f)))
  BY <1>1, <1>3, <1>4, NextFrame
<1>13. out.after.data = b.data /\ out.after.reader = Len(u[k + 1])
  BY <1>10, <1>12 DEF IsBehind
<1>14. PICK new : new = Append(seq, out.frame)
  OBVIOUS
<1>15. new = [i \in 1..k + 1 |-> Normal(frames[i])]
  <2>1. PICK old : old = [i \in 1..k |-> Normal(frames[i])]
    OBVIOUS
  <2>2. seq = old
    BY <2>1 DEF Taken
  <2>3. Len(old) = k
    BY <1>2, <2>1
  <2>4. PICK e : e = Normal(frames[k + 1])
    OBVIOUS
  <2>5. Append(old, e) = [i \in 1..k + 1 |-> IF i = k + 1 THEN e ELSE old[i]]
    BY <1>2, <2>1, <2>3
  <2>6. ASSUME NEW i \in 1..k + 1
        PROVE  (IF i = k + 1 THEN e ELSE old[i]) = Normal(frames[i])
    BY <1>2, <2>1, <2>4
  <2> QED
    BY <1>4, <1>10, <1>14, <2>2, <2>4, <2>5, <2>6
<1>16. Taken(out.after, frames, new, u, w, k + 1)
  BY <1>1, <1>5, <1>13, <1>15 DEF Taken
<1> QED
  BY <1>1, <1>3, <1>9, <1>11, <1>14, <1>16

\* What is not readable any more has been taken.
LEMMA AllTaken ==
    ASSUME NEW b, NEW frames, IsChunk(b, frames), ~IsReadable(b),
           NEW seq, NEW u, NEW w, NEW k, Taken(b, frames, seq, u, w, k)
    PROVE  k = Len(frames)
<1>1. Len(frames) \in Nat /\ k \in 0..Len(frames)
  BY DEF IsChunk, Taken
<1> SUFFICES ASSUME k < Len(frames) PROVE FALSE
  BY <1>1
<1>2. /\ Len(BodyBytes(frames[k + 1])) \in Nat
      /\ Len(u[k + 1]) = b.reader + (9 + Len(BodyBytes(frames[k + 1])))
      /\ Len(u[k + 1]) <= Len(b.data)
  BY NextFrame
<1>3. b.reader \in Nat /\ Len(b.data) \in Nat /\ ~(b.reader < Len(b.data))
  BY DEF IsChunk, InBounds, Buffer, IsReadable
<1> QED
  BY <1>2, <1>3

-----------------------------------------------------------------------------
(* The specification                                                       *)

\* Until the first frame of a chunk is taken it is there to be read.
FirstIsNext ==
    (chunk # <<>> /\ chunk[1].type # FrameType.METADATA_PUSH) =>
        IF parsed = <<>>
        THEN \E n : LengthOK(chunk[1], n) /\ Follows(buffer, WithLength(chunk[1], n))
        ELSE Recognised(parsed[1], chunk[1])

\* The reader is between two frames, and those before it have been taken.
TakenInOrder ==
    (\A i \in 1..Len(chunk) : TakesItsBytes(chunk[i])) /\ chunk # <<>> =>
        \E u, w, k : Taken(buffer, chunk, parsed, u, w, k)

ParserInv == TypeOK /\ FirstIsNext /\ TakenInOrder

LEMMA ChunkIs ==
    ASSUME TypeOK
    PROVE  IsChunk(buffer, chunk) /\ (chunk # <<>> => Len(chunk) > 0)
<1>1. chunk \in Seq(Written) /\ InBounds(buffer)
  BY DEF TypeOK
<1>2. Len(chunk) \in Nat /\ \A i \in 1..Len(chunk) : chunk[i] \in Written
  BY <1>1
<1>3. AreWritable(chunk)
  BY <1>2, WrittenAssumption DEF AreWritable
<1>4. chunk # <<>> => Len(chunk) > 0
  BY <1>1
<1> QED
  BY <1>1, <1>2, <1>3, <1>4 DEF IsChunk

\* Any frames that arrive whole.
LEMMA WholeArrives ==
    ASSUME NEW bytes, NEW frames \in Seq(Written), NEW u, NEW w,
           Carries(u, w, bytes, frames), Arrives(bytes, frames)
    PROVE  ParserInv'
<1>1. PICK N : N = Len(frames)
  OBVIOUS
<1>2. N \in Nat /\ \A i \in 1..N : frames[i] \in Written
  BY <1>1
<1>3. bytes \in Seq(Bytes)
  BY <1>1, <1>2, CarriesBytes
<1>4. PICK b : b = FromUint8Array(bytes)
  OBVIOUS
<1>5. buffer' = b /\ chunk' = frames /\ parsed' = <<>>
  BY <1>4 DEF Arrives
<1>6. InBounds(b) /\ b.data = bytes /\ b.reader = 0
  BY <1>3, <1>4, ChunkInBounds DEF FromUint8Array
<1>7. AreWritable(frames) /\ IsChunk(b, frames)
  BY <1>1, <1>2, <1>6, WrittenAssumption DEF AreWritable, IsChunk
<1>8. PICK seq : seq = <<>>
  OBVIOUS
<1>9. Taken(b, frames, seq, u, w, 0)
  <2>1. u[0] = <<>>
    BY DEF Carries, Joins
  <2>2. b.reader = Len(u[0]) /\ 0 \in 0..N
    BY <1>2, <1>6, <2>1
  <2>3. [i \in 1..0 |-> Normal(frames[i])] = <<>>
    OBVIOUS
  <2> QED
    BY <1>1, <1>6, <1>8, <2>2, <2>3 DEF Taken
<1>10. TypeOK'
  BY <1>5, <1>6 DEF TypeOK
<1>11. FirstIsNext'
  <2>1. frames # <<>> => 0 < N
    BY <1>1, <1>2
  <2>2. 0 < N => \E n : LengthOK(frames[0 + 1], n) /\ Follows(b, WithLength(frames[0 + 1], n))
    BY <1>1, <1>7, <1>9, NextFrame
  <2>3. 0 + 1 = 1
    OBVIOUS
  <2>4. frames # <<>> => \E n : LengthOK(frames[1], n) /\ Follows(b, WithLength(frames[1], n))
    BY <2>1, <2>2, <2>3
  <2> QED
    BY <1>5, <2>4 DEF FirstIsNext
<1>12. TakenInOrder'
  BY <1>5, <1>8, <1>9 DEF TakenInOrder
<1> QED
  BY <1>10, <1>11, <1>12 DEF ParserInv

\* Bytes of which nothing is said.
LEMMA CutArrives ==
    ASSUME NEW bytes \in Seq(Bytes), Arrives(bytes, <<>>)
    PROVE  ParserInv'
<1>1. TypeOK'
  <2>1. <<>> \in Seq(Written) /\ <<>> \in Seq(Frame)
    OBVIOUS
  <2>2. InBounds(buffer')
    BY ChunkInBounds DEF Arrives
  <2> QED
    BY <2>1, <2>2 DEF TypeOK, Arrives
<1>2. chunk' = <<>>
  BY DEF Arrives
<1> QED
  BY <1>1, <1>2 DEF ParserInv, FirstIsNext, TakenInOrder

LEMMA KnownIsFrame ==
    ASSUME NEW b, InBounds(b), IsReadable(b), Header(b).type \in 1..11
    PROVE  Decode(b).frame \in Frame
<1> DEFINE h == Header(b)
<1>1. IsHeader(h) /\ IsTyped(h) /\ h.type \in 1..11 /\ TypeNumbers
  BY HeaderProgress, HeaderType, TypesAre
<1> HIDE DEF h
<1> QED
  BY <1>1, DecodersType, DecodeSetupType, DecodeErrorType DEF Decode, h, TypeNumbers

LEMMA FirstIsTaken ==
    ASSUME NEW f, Writable(f), f.type # FrameType.METADATA_PUSH, NEW n, LengthOK(f, n),
           NEW b, IsReadable(b), Follows(b, WithLength(f, n))
    PROVE  Recognised(Decode(b).frame, f) /\ Decode(b).frame # NoFrame
<1>1. Recognised(Decode(b).frame, f)
  BY DecodesFrame DEF Decodes
<1>2. n \in Nat /\ Fits(n, 3) /\ InBounds(b)
  BY Lengths, FollowsBounds
<1>3. HeaderOf(Header(b), b, f, n)
  BY <1>2, HeaderIs
<1>4. Header(b).type \in 1..11
  BY <1>3, TypesAre DEF HeaderOf, Writable, TypeNumbers
<1> QED
  BY <1>1, <1>2, <1>4, KnownIsFrame, NoFrameAssumption

LEMMA ParseKeeps ==
    ASSUME ParserInv, Parse
    PROVE  ParserInv'
<1>1. TypeOK /\ IsChunk(buffer, chunk) /\ (chunk # <<>> => Len(chunk) > 0)
  BY ChunkIs DEF ParserInv
<1>2. PICK out : out = Decode(buffer)
  OBVIOUS
<1>3. /\ IsReadable(buffer) /\ buffer' = out.after /\ chunk' = chunk
      /\ parsed' = IF out.frame = NoFrame THEN parsed ELSE Append(parsed, out.frame)
  BY <1>2 DEF Parse
<1>4. InBounds(buffer) /\ parsed \in Seq(Frame) /\ chunk \in Seq(Written)
  BY <1>1 DEF TypeOK
<1>5. out.frame \in Frame \cup {NoFrame}
  BY <1>2, <1>3, <1>4, DecodeType
<1>6. TypeOK'
  <2>1. InBounds(buffer')
    BY <1>4, ParserStaysInside
  <2>2. parsed' \in Seq(Frame)
    BY <1>3, <1>4, <1>5
  <2> QED
    BY <1>3, <1>4, <2>1, <2>2 DEF TypeOK
<1>7. FirstIsNext'
  <2> SUFFICES ASSUME chunk # <<>>, chunk[1].type # FrameType.METADATA_PUSH
               PROVE  parsed' # <<>> /\ Recognised(parsed'[1], chunk[1])
    BY <1>3 DEF FirstIsNext
  <2>1. CASE parsed = <<>>
    <3>1. PICK n : LengthOK(chunk[1], n) /\ Follows(buffer, WithLength(chunk[1], n))
      BY <2>1 DEF ParserInv, FirstIsNext
    <3>2. Writable(chunk[1])
      BY <1>1 DEF IsChunk, AreWritable
    <3>3. Recognised(out.frame, chunk[1]) /\ out.frame # NoFrame
      BY <1>2, <1>3, <3>1, <3>2, FirstIsTaken
    <3>4. parsed' = <<out.frame>>
      BY <1>3, <2>1, <3>3
    <3>5. parsed' # <<>> /\ parsed'[1] = out.frame
      BY <3>4
    <3> QED
      BY <3>3, <3>5
  <2>2. CASE parsed # <<>>
    <3>1. Recognised(parsed[1], chunk[1])
      BY <2>2 DEF ParserInv, FirstIsNext
    <3>2. parsed' # <<>> /\ parsed'[1] = parsed[1]
      BY <1>3, <1>4, <1>5, <2>2
    <3> QED
      BY <3>1, <3>2
  <2> QED
    BY <2>1, <2>2
<1>8. TakenInOrder'
  <2> SUFFICES ASSUME \A i \in 1..Len(chunk) : TakesItsBytes(chunk[i]), chunk # <<>>
               PROVE  \E u, w, k : Taken(buffer', chunk, parsed', u, w, k)
    BY <1>3 DEF TakenInOrder
  <2>1. PICK u, w, k : Taken(buffer, chunk, parsed, u, w, k)
    BY DEF ParserInv, TakenInOrder
  <2>2. /\ out.frame # NoFrame
        /\ Taken(out.after, chunk, Append(parsed, out.frame), u, w, k + 1)
    BY <1>1, <1>2, <1>3, <2>1, TurnTakesFrame
  <2>3. parsed' = Append(parsed, out.frame)
    BY <1>3, <2>2
  <2> QED
    BY <1>3, <2>2, <2>3
<1> QED
  BY <1>6, <1>7, <1>8 DEF ParserInv

LEMMA ParserInvInit == Init => ParserInv
<1> SUFFICES ASSUME Init PROVE ParserInv
  OBVIOUS
<1>1. [i \in 1..0 |-> 0] = <<>> /\ <<>> \in Seq(Bytes)
  OBVIOUS
<1>2. InBounds(buffer) /\ chunk = <<>> /\ parsed = <<>>
  BY <1>1, ChunkInBounds DEF Init, Alloc
<1> QED
  BY <1>2 DEF ParserInv, TypeOK, FirstIsNext, TakenInOrder

LEMMA ParserInvNext == ParserInv /\ [Next]_vars => ParserInv'
<1> SUFFICES ASSUME ParserInv, [Next]_vars PROVE ParserInv'
  OBVIOUS
<1>1. CASE ReadFrames
  <2>1. PICK n \in 1..MaxFrames : \E frames \in [1..n -> Written] :
            Arrives(Joined(frames), frames)
    BY <1>1 DEF ReadFrames
  <2>2. PICK frames \in [1..n -> Written] : Arrives(Joined(frames), frames)
    BY <2>1
  <2>3. n \in Nat /\ frames \in Seq(Written) /\ Len(frames) = n
    BY MaxFramesAssumption
  <2>4. AreWritable(frames)
    BY <2>3, WrittenAssumption DEF AreWritable
  <2>5. PICK u, w : Carries(u, w, Joined(frames), frames)
    BY <2>3, <2>4, JoinedCarries
  <2> QED
    BY <2>2, <2>3, <2>5, WholeArrives
<1>2. CASE ReadMessage
  <2>1. PICK f \in Written : Arrives(Message(f), <<f>>)
    BY <1>2 DEF ReadMessage
  <2>2. PICK frames : frames = <<f>>
    OBVIOUS
  <2>3. frames \in Seq(Written)
    BY <2>2
  <2>4. PICK u, w : Carries(u, w, Message(f), frames)
    BY <2>2, WrittenAssumption, MessageCarries
  <2> QED
    BY <2>1, <2>2, <2>3, <2>4, WholeArrives
<1>3. CASE ReadCut
  <2>1. PICK f \in CutFrames : \E n \in 1..Len(Encode(f)) - 1 :
            \/ Arrives(SubSeq(Encode(f), 1, n), <<>>)
            \/ Arrives(SubSeq(Encode(f), n + 1, Len(Encode(f))), <<>>)
    BY <1>3 DEF ReadCut
  <2>2. PICK e : e = Encode(f)
    OBVIOUS
  <2>3. e \in Seq(Bytes) /\ Len(e) \in Nat
    BY <2>2, WrittenAssumption, EncodeType
  <2>4. PICK n \in 1..Len(e) - 1 : \/ Arrives(SubSeq(e, 1, n), <<>>)
                                   \/ Arrives(SubSeq(e, n + 1, Len(e)), <<>>)
    BY <2>1, <2>2
  <2>5. SubSeq(e, 1, n) \in Seq(Bytes) /\ SubSeq(e, n + 1, Len(e)) \in Seq(Bytes)
    <3>1. n \in Nat /\ 0 \in Nat /\ 0 + 1 = 1 /\ 0 + n = n /\ n <= Len(e)
      BY <2>3
    <3>2. SubSeq(e, 0 + 1, 0 + n) \in Seq(Bytes)
      BY <2>3, <3>1, PartOf
    <3>3. SubSeq(e, n + 1, Len(e)) \in Seq(Bytes)
      BY <2>3, <3>1, RestOf
    <3> QED
      BY <3>1, <3>2, <3>3
  <2> QED
    BY <2>4, <2>5, CutArrives
<1>4. CASE Parse
  BY <1>4, ParseKeeps
<1>5. CASE UNCHANGED vars
  BY <1>5 DEF vars, ParserInv, TypeOK, FirstIsNext, TakenInOrder
<1> QED
  BY <1>1, <1>2, <1>3, <1>4, <1>5 DEF Next

LEMMA ParserInvShows == ParserInv => TypeOK /\ FirstFrameRecognised /\ ChunkFaithful
<1> SUFFICES ASSUME ParserInv PROVE FirstFrameRecognised /\ ChunkFaithful
  BY DEF ParserInv
<1>1. FirstFrameRecognised
  BY DEF ParserInv, FirstIsNext, FirstFrameRecognised, Recognised
<1>2. ChunkFaithful
  <2>1. IsChunk(buffer, chunk) /\ chunk \in Seq(Written)
    BY ChunkIs DEF ParserInv, TypeOK
  <2>2. DOMAIN chunk = 1..Len(chunk)
    BY <2>1
  <2> SUFFICES ASSUME ~IsReadable(buffer), chunk # <<>>,
                      \A i \in 1..Len(chunk) : TakesItsBytes(chunk[i])
               PROVE  parsed = [i \in 1..Len(chunk) |-> Normal(chunk[i])]
    BY <2>2 DEF ChunkFaithful
  <2>3. PICK u, w, k : Taken(buffer, chunk, parsed, u, w, k)
    BY DEF ParserInv, TakenInOrder
  <2>4. k = Len(chunk)
    BY <2>1, <2>3, AllTaken
  <2> QED
    BY <2>3, <2>4 DEF Taken
<1> QED
  BY <1>1, <1>2

\* The buffer's indices stay within the chunk, and what parseFrames yields are
\* frames, whatever is written and wherever the chunks are cut.
THEOREM ParserTypeCorrect == Spec => []TypeOK
<1>1. ParserInv => TypeOK
  BY ParserInvShows
<1> QED
  BY <1>1, ParserInvInit, ParserInvNext, PTL DEF Spec

\* However many frames of the types that TakesItsBytes names share a chunk, with
\* whatever payloads, parseFrames yields them as they were written, in order.
THEOREM ChunksAreParsed == Spec => []ChunkFaithful
<1>1. ParserInv => ChunkFaithful
  BY ParserInvShows
<1> QED
  BY <1>1, ParserInvInit, ParserInvNext, PTL DEF Spec

\* A chunk's first frame is recognised, all of it but its data, whatever its type.
THEOREM FirstIsRecognised == Spec => []FirstFrameRecognised
<1>1. ParserInv => FirstFrameRecognised
  BY ParserInvShows
<1> QED
  BY <1>1, ParserInvInit, ParserInvNext, PTL DEF Spec
================================================================================
