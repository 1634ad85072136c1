----------------------------- MODULE ByteBuffers -----------------------------
(***************************************************************************)
(* rsocket/io/ByteBuffer.ts as operators on a record: `data` (_data),      *)
(* `reader` and `writer` (the two indices, from 0), `capacity`.  A read is *)
(* two operators, what it returns and the buffer it leaves; Undefined is   *)
(* what it returns past the end.  The cells that alloc(n) leaves empty are *)
(* 0, as toUint8Array makes them; nothing reads one before that.           *)
(***************************************************************************)
EXTENDS Integers, Sequences

CONSTANT Undefined

ASSUME UndefinedAssumption == Undefined \notin Nat

Bytes == 0..255

ASSUME UndefinedIsNoSequence == Undefined \notin Seq(Bytes)

AtLeast(m, n) == IF m < n THEN n ELSE m

-----------------------------------------------------------------------------
(* Conversions                                                             *)

\* What the k-th byte of a number counts for, from the lowest on.
Weight == <<1, 256, 65536, 16777216>>

\* i16ToByteArray, i24ToByteArray, i32ToByteArray: w bytes, the highest first.
ToByteArray(value, w) == [i \in 1..w |-> (value \div Weight[w - i + 1]) % 256]

\* Has the number no more than w bytes?
Fits(value, w) == value \div Weight[w] < 256

\* i64ToByteArray: its loop starts at the last index and so runs once; the
\* reversal takes the lowest byte to the front.
I64ToByteArray(value) == [i \in 1..8 |-> IF i = 1 THEN value % 256 ELSE 0]

\* byteArrayToNumber of an array that is there.
ToNumber(bytes) ==
    LET upTo[n \in 0..Len(bytes)] ==
            IF n = 0 THEN 0 ELSE upTo[n - 1] * 256 + bytes[n]
    IN  upTo[Len(bytes)]

-----------------------------------------------------------------------------
(* Buffers                                                                 *)

FromUint8Array(bytes) ==
    [data |-> bytes, reader |-> 0, writer |-> 0, capacity |-> Len(bytes)]

Alloc(size) == FromUint8Array([i \in 1..size |-> 0])

IsReadable(b) == b.reader < b.capacity

\* Are there n more bytes to read?
Holds(b, n) == b.reader + n <= b.capacity

ReadBytes(b, n) ==
    IF Holds(b, n) THEN SubSeq(b.data, b.reader + 1, b.reader + n) ELSE Undefined

\* readI8 to readI32: a number of w bytes.
ReadNumber(b, w) == IF Holds(b, w) THEN ToNumber(ReadBytes(b, w)) ELSE Undefined

\* Slip: the index moves before anything is checked.
SkipUnchecked(b, n) == [b EXCEPT !.reader = @ + n]

\* The buffer after any read of n bytes: one that fails does not move it.
Skip(b, n) == IF Holds(b, n) THEN [b EXCEPT !.reader = @ + n] ELSE b

ReadRemain(b) ==
    IF IsReadable(b) THEN SubSeq(b.data, b.reader + 1, b.capacity) ELSE Undefined

SkipRemain(b) == IF IsReadable(b) THEN [b EXCEPT !.reader = b.capacity] ELSE b

\* Slip: the capacity stays what alloc made it.
NoGrowth(b) == b

AutoGrow(b) == [b EXCEPT !.capacity = AtLeast(@, Len(b.data))]

\* writeBytes, writeUint8Array and, through them, writeI8 to writeI64.
WriteBytes(b, bytes) ==
    AutoGrow([b EXCEPT
        !.data = SubSeq(@, 1, b.writer) \o bytes
                     \o SubSeq(@, b.writer + Len(bytes) + 1, Len(@)),
        !.writer = @ + Len(bytes)])

\* Slip: insertBytes writes over what is there.
InsertOver(b, bytes) == WriteBytes(b, bytes)

\* insertBytes: the bytes from the writer's index on move up.
InsertBytes(b, bytes) ==
    AutoGrow([b EXCEPT
        !.data = SubSeq(@, 1, b.writer) \o bytes \o SubSeq(@, b.writer + 1, Len(@)),
        !.writer = @ + Len(bytes)])

Rewind(b) == [b EXCEPT !.reader = 0, !.writer = 0]
ResetWriterIndex(b) == [b EXCEPT !.writer = 0]

\* resetReaderIndex assigns to the writer's index.
ResetReaderIndex(b) == [b EXCEPT !.writer = 0]

Buffer == [data : Seq(Bytes), reader : Nat, writer : Nat, capacity : Nat]

\* What holds of every buffer between two calls: the indices are within the
\* data, and the capacity is its length (autoGrow, readBytes).
InBounds(b) ==
    /\ b \in Buffer
    /\ b.capacity = Len(b.data)
    /\ b.reader <= b.capacity
    /\ b.writer <= b.capacity
=============================================================================
