------------------------------ MODULE ByteBuffer ------------------------------
(***************************************************************************)
(* One ByteBuffer (rsocket/io/ByteBuffer.ts) under any sequence of calls.  *)
(* `fields` remembers, as history, which numbers have been written where   *)
(* and not been written over since; the buffer must still give each back.  *)
(***************************************************************************)
EXTENDS ByteBuffers

CONSTANTS
    Sizes,    \* what alloc is called with
    Numbers,  \* the numbers written
    MaxData   \* bound: the length of the data

ASSUME SizesAssumption == Sizes \subseteq Nat
ASSUME NumbersAssumption == Numbers \subseteq Nat

VARIABLES byteBuffer, fields

bufferVars == <<byteBuffer, fields>>

Widths == 1..4
Field == [at : Nat, width : Widths, value : Numbers]

BufferTypeOK ==
    /\ InBounds(byteBuffer)
    /\ fields \subseteq Field

BufferInit ==
    /\ \E n \in Sizes : byteBuffer = Alloc(n)
    /\ fields = {}

\* The fields that n bytes written at the writer's index leave alone.
Kept(n) == {f \in fields : f.at + f.width <= byteBuffer.writer \/ byteBuffer.writer + n <= f.at}

\* writeI8, writeI16, writeI24, writeI32
Write(value, w) ==
    /\ Fits(value, w)
    /\ byteBuffer.writer + w <= MaxData
    /\ byteBuffer' = WriteBytes(byteBuffer, ToByteArray(value, w))
    /\ fields' = Kept(w) \cup {[at |-> byteBuffer.writer, width |-> w, value |-> value]}

\* writeI64: what it writes is the number only if that is 0.
WriteI64(value) ==
    /\ byteBuffer.writer + 8 <= MaxData
    /\ byteBuffer' = WriteBytes(byteBuffer, I64ToByteArray(value))
    /\ fields' = Kept(8)

\* insertI24: later fields move up, one that it cuts in two is gone.
InsertI24(value) ==
    LET before == {f \in fields : f.at + f.width <= byteBuffer.writer}
        behind == {f \in fields : byteBuffer.writer <= f.at}
    IN  /\ Fits(value, 3)
        /\ Len(byteBuffer.data) + 3 <= MaxData
        /\ byteBuffer' = InsertBytes(byteBuffer, ToByteArray(value, 3))
        /\ fields' = before
                \cup {[f EXCEPT !.at = @ + 3] : f \in behind}
                \cup {[at |-> byteBuffer.writer, width |-> 3, value |-> value]}

\* readI8 to readI64, readBytes, readUint8Array: n bytes, if they are there.
Read(n) == byteBuffer' = Skip(byteBuffer, n) /\ UNCHANGED fields
Remain == byteBuffer' = SkipRemain(byteBuffer) /\ UNCHANGED fields

Reset ==
    /\ \/ byteBuffer' = Rewind(byteBuffer)
       \/ byteBuffer' = ResetWriterIndex(byteBuffer)
       \/ byteBuffer' = ResetReaderIndex(byteBuffer)
    /\ UNCHANGED fields

BufferNext ==
    \/ \E value \in Numbers, w \in Widths : Write(value, w)
    \/ \E value \in Numbers : WriteI64(value) \/ InsertI24(value)
    \/ \E n \in Widths \cup {8} : Read(n)
    \/ Remain
    \/ Reset

BufferSpec == BufferInit /\ [][BufferNext]_bufferVars

-----------------------------------------------------------------------------
\* A number that was written is read back as it was from where it was written,
\* whatever has been written elsewhere, inserted before it, or reset since
\* (the conversions, writeBytes, insertBytes and autoGrow of ByteBuffer).
FieldsIntact ==
    \A f \in fields : ReadNumber([byteBuffer EXCEPT !.reader = f.at], f.width) = f.value
=============================================================================
