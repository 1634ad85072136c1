--------------------------- MODULE ByteBuffersLemmas ---------------------------
(***************************************************************************)
(* What the operators of ByteBuffers return: the types of numbers and      *)
(* buffers, that a number that was taken apart into bytes is put together  *)
(* again as it was, and what is read where bytes, or any number of parts   *)
(* one behind the other, were written.                                     *)
(***************************************************************************)
EXTENDS ByteBuffers, SequenceTheorems, WellFoundedInduction, TLAPS

LEMMA BytesAreNumbers == Bytes \subseteq Nat /\ 0 \in Bytes
BY DEF Bytes

\* The recursive function in ToNumber, unrolled for up to four bytes.
LEMMA UpToIs ==
    ASSUME NEW bytes, NEW N \in 0..4, \A n \in 1..N : bytes[n] \in Nat, NEW upTo,
           \A n \in 0..N : upTo[n] = IF n = 0 THEN 0 ELSE upTo[n - 1] * 256 + bytes[n]
    PROVE  /\ upTo[N] \in Nat
           /\ N = 1 => upTo[N] = bytes[1]
           /\ N = 2 => upTo[N] = bytes[1] * 256 + bytes[2]
           /\ N = 3 => upTo[N] = (bytes[1] * 256 + bytes[2]) * 256 + bytes[3]
           /\ N = 4 => upTo[N] = ((bytes[1] * 256 + bytes[2]) * 256 + bytes[3]) * 256 + bytes[4]
<1>1. upTo[0] = 0
  OBVIOUS
<1>2. ASSUME 1 \in 0..N
      PROVE  upTo[1] = bytes[1] /\ bytes[1] \in Nat
  <2>1. bytes[1] \in Nat
    BY <1>2
  <2>2. upTo[1] = upTo[1 - 1] * 256 + bytes[1]
    BY <1>2
  <2> QED
    BY <1>1, <2>1, <2>2
<1>3. ASSUME 2 \in 0..N
      PROVE  upTo[2] = bytes[1] * 256 + bytes[2] /\ bytes[2] \in Nat
  <2>1. bytes[2] \in Nat /\ 1 \in 0..N
    BY <1>3
  <2>2. upTo[2] = upTo[2 - 1] * 256 + bytes[2]
    BY <1>3
  <2> QED
    BY <1>2, <2>1, <2>2
<1>4. ASSUME 3 \in 0..N
      PROVE  /\ upTo[3] = (bytes[1] * 256 + bytes[2]) * 256 + bytes[3]
             /\ bytes[3] \in Nat
  <2>1. bytes[3] \in Nat /\ 2 \in 0..N
    BY <1>4
  <2>2. upTo[3] = upTo[3 - 1] * 256 + bytes[3]
    BY <1>4
  <2> QED
    BY <1>3, <2>1, <2>2
<1>5. ASSUME 4 \in 0..N
      PROVE  /\ upTo[4] = ((bytes[1] * 256 + bytes[2]) * 256 + bytes[3]) * 256 + bytes[4]
             /\ bytes[4] \in Nat
  <2>1. bytes[4] \in Nat /\ 3 \in 0..N
    BY <1>5
  <2>2. upTo[4] = upTo[4 - 1] * 256 + bytes[4]
    BY <1>5
  <2> QED
    BY <1>4, <2>1, <2>2
<1>6. N = 0 \/ N = 1 \/ N = 2 \/ N = 3 \/ N = 4
  OBVIOUS
<1>7. CASE N = 0
  BY <1>7, <1>1
<1>8. CASE N = 1
  BY <1>8, <1>2
<1>9. CASE N = 2
  BY <1>9, <1>2, <1>3
<1>10. CASE N = 3
  BY <1>10, <1>2, <1>3, <1>4
<1>11. CASE N = 4
  BY <1>11, <1>2, <1>3, <1>4, <1>5
<1> QED
  BY <1>6, <1>7, <1>8, <1>9, <1>10, <1>11

\* The number that up to four bytes stand for.
LEMMA ToNumberIs ==
    ASSUME NEW bytes \in Seq(Bytes)
    PROVE  Len(bytes) \in 0..4 =>
               /\ ToNumber(bytes) \in Nat
               /\ Len(bytes) = 1 => ToNumber(bytes) = bytes[1]
               /\ Len(bytes) = 2 => ToNumber(bytes) = bytes[1] * 256 + bytes[2]
               /\ Len(bytes) = 3 =>
                      ToNumber(bytes) = (bytes[1] * 256 + bytes[2]) * 256 + bytes[3]
               /\ Len(bytes) = 4 =>
                      ToNumber(bytes)
                          = ((bytes[1] * 256 + bytes[2]) * 256 + bytes[3]) * 256 + bytes[4]
\* Named, so that the steps that do not need it do not see it.
<1>0. SUFFICES
    ASSUME Len(bytes) \in 0..4
    PROVE  /\ ToNumber(bytes) \in Nat
           /\ Len(bytes) = 1 => ToNumber(bytes) = bytes[1]
           /\ Len(bytes) = 2 => ToNumber(bytes) = bytes[1] * 256 + bytes[2]
           /\ Len(bytes) = 3 => ToNumber(bytes) = (bytes[1] * 256 + bytes[2]) * 256 + bytes[3]
           /\ Len(bytes) = 4 =>
                  ToNumber(bytes) = ((bytes[1] * 256 + bytes[2]) * 256 + bytes[3]) * 256 + bytes[4]
  OBVIOUS
<1>1. \A n \in 1..Len(bytes) : bytes[n] \in Bytes
  OBVIOUS
<1>2. \A n \in 1..Len(bytes) : bytes[n] \in Nat
  BY <1>1, BytesAreNumbers
<1> DEFINE n1 == bytes[1]
           n2 == n1 * 256 + bytes[2]
           n3 == n2 * 256 + bytes[3]
           n4 == n3 * 256 + bytes[4]
           value(n) == IF n = 0 THEN 0 ELSE IF n = 1 THEN n1 ELSE IF n = 2 THEN n2
                       ELSE IF n = 3 THEN n3 ELSE n4
           g == [n \in 0..Len(bytes) |-> value(n)]
           upTo == CHOOSE f : f = [n \in 0..Len(bytes) |->
                                     IF n = 0 THEN 0 ELSE f[n - 1] * 256 + bytes[n]]
<1>3. /\ n1 = 0 * 256 + bytes[1] \/ Len(bytes) = 0
      /\ \A n \in 0..Len(bytes) : n = 0 \/ n = 1 \/ n = 2 \/ n = 3 \/ n = 4
  BY <1>0, <1>2
<1> HIDE DEF n1, n2, n3, n4
<1>4. \A n \in 0..Len(bytes) :
          value(n) = IF n = 0 THEN 0 ELSE g[n - 1] * 256 + bytes[n]
  <2> SUFFICES ASSUME NEW n \in 0..Len(bytes), n # 0
               PROVE  value(n) = g[n - 1] * 256 + bytes[n]
    OBVIOUS
  <2>1. g[n - 1] = value(n - 1)
    OBVIOUS
  <2>2. value(n) = value(n - 1) * 256 + bytes[n]
    BY <1>3 DEF n1, n2, n3, n4
  <2> QED
    BY <2>1, <2>2
<1>5. g = [n \in 0..Len(bytes) |-> IF n = 0 THEN 0 ELSE g[n - 1] * 256 + bytes[n]]
  BY <1>4
<1> HIDE DEF g, value
<1>6. upTo = [n \in 0..Len(bytes) |-> IF n = 0 THEN 0 ELSE upTo[n - 1] * 256 + bytes[n]]
  BY <1>5
<1> HIDE DEF upTo
<1>7. \A n \in 0..Len(bytes) :
          upTo[n] = IF n = 0 THEN 0 ELSE upTo[n - 1] * 256 + bytes[n]
  BY <1>6
<1>8. ToNumber(bytes) = upTo[Len(bytes)]
  BY DEF ToNumber, upTo
<1>9. PICK f : /\ ToNumber(bytes) = f[Len(bytes)]
               /\ \A n \in 0..Len(bytes) :
                     f[n] = IF n = 0 THEN 0 ELSE f[n - 1] * 256 + bytes[n]
  BY <1>7, <1>8
<1>10. PICK N : N = Len(bytes)
  OBVIOUS
<1>11. N \in 0..4 /\ \A n \in 1..N : bytes[n] \in Nat
  BY <1>0, <1>2, <1>10
<1>12. \A n \in 0..N : f[n] = IF n = 0 THEN 0 ELSE f[n - 1] * 256 + bytes[n]
  BY <1>9, <1>10
<1>13. ToNumber(bytes) = f[N]
  BY <1>9, <1>10
<1>14. /\ f[N] \in Nat
       /\ N = 1 => f[N] = bytes[1]
       /\ N = 2 => f[N] = bytes[1] * 256 + bytes[2]
       /\ N = 3 => f[N] = (bytes[1] * 256 + bytes[2]) * 256 + bytes[3]
       /\ N = 4 => f[N] = ((bytes[1] * 256 + bytes[2]) * 256 + bytes[3]) * 256 + bytes[4]
  BY <1>11, <1>12, UpToIs
<1> QED
  BY <1>10, <1>13, <1>14

LEMMA ReadNumberType ==
    ASSUME NEW b, InBounds(b), NEW w \in 1..4
    PROVE  ReadNumber(b, w) \in Nat \cup {Undefined}
<1> SUFFICES ASSUME Holds(b, w) PROVE ToNumber(ReadBytes(b, w)) \in Nat
  BY DEF ReadNumber
<1>1. /\ ReadBytes(b, w) \in Seq(Bytes)
      /\ Len(ReadBytes(b, w)) \in 0..4
  BY DEF ReadBytes, Holds, InBounds, Buffer
<1> QED
  BY <1>1, ToNumberIs

LEMMA RestIsByte ==
    ASSUME NEW n \in Nat
    PROVE  n % 256 \in Bytes
BY DEF Bytes

LEMMA ToByteArrayType ==
    ASSUME NEW value \in Nat, NEW w \in 1..4
    PROVE  ToByteArray(value, w) \in Seq(Bytes) /\ Len(ToByteArray(value, w)) = w
<1> DEFINE byte(i) == (value \div Weight[w - i + 1]) % 256
<1>1. ASSUME NEW i \in 1..w
      PROVE  byte(i) \in Bytes
  <2>1. w - i + 1 \in 1..4
    OBVIOUS
  <2>2. Weight[w - i + 1] \in {1, 256, 65536, 16777216}
    BY <2>1 DEF Weight
  <2>3. value \div Weight[w - i + 1] \in Nat
    BY <2>2
  <2> QED
    BY <2>3, RestIsByte
<1>2. ToByteArray(value, w) = [i \in 1..w |-> byte(i)]
  BY DEF ToByteArray
<1> HIDE DEF byte
<1> QED
  BY <1>1, <1>2

LEMMA I64ToByteArrayType ==
    ASSUME NEW value \in Nat
    PROVE  I64ToByteArray(value) \in Seq(Bytes) /\ Len(I64ToByteArray(value)) = 8
<1>1. \A i \in 1..8 : (IF i = 1 THEN value % 256 ELSE 0) \in Bytes
  BY RestIsByte, BytesAreNumbers
<1> QED
  BY <1>1 DEF I64ToByteArray

LEMMA ThreeParts ==
    ASSUME NEW S, NEW s \in Seq(S), NEW t \in Seq(S), NEW u \in Seq(S)
    PROVE  s \o t \o u \in Seq(S) /\ Len(s \o t \o u) = Len(s) + Len(t) + Len(u)
OBVIOUS

\* Digits to the base of 256.
LEMMA Digits ==
    ASSUME NEW v \in Nat
    PROVE  /\ v < 256 => v % 256 = v
           /\ v \div 256 < 256 => ((v \div 256) % 256) * 256 + (v % 256) = v
           /\ v \div 65536 < 256 =>
                  (((v \div 65536) % 256) * 256 + ((v \div 256) % 256)) * 256 + (v % 256) = v
           /\ v \div 16777216 < 256 =>
                  ((((v \div 16777216) % 256) * 256 + ((v \div 65536) % 256)) * 256
                      + ((v \div 256) % 256)) * 256 + (v % 256) = v
<1> DEFINE v1 == v \div 256
           v2 == v \div 65536
           v3 == v \div 16777216
<1>1. ASSUME NEW n \in Nat
      PROVE  /\ n \div 256 \in Nat
             /\ n = (n \div 256) * 256 + (n % 256)
             /\ n < 256 => n % 256 = n
  OBVIOUS
<1>2. v1 \in Nat /\ v2 = v1 \div 256
  OBVIOUS
<1>3. v2 \in Nat /\ v3 = v2 \div 256 /\ v3 \in Nat
  OBVIOUS
<1> HIDE DEF v1, v2, v3
<1>4. v = v1 * 256 + (v % 256)
  BY <1>1 DEF v1
<1>5. v1 = v2 * 256 + (v1 % 256)
  BY <1>1, <1>2
<1>6. v2 = v3 * 256 + (v2 % 256)
  BY <1>1, <1>3
<1>7. v1 < 256 => (v1 % 256) * 256 + (v % 256) = v
  BY <1>1, <1>2, <1>4
<1>8. v2 < 256 => ((v2 % 256) * 256 + (v1 % 256)) * 256 + (v % 256) = v
  <2> SUFFICES ASSUME v2 < 256 PROVE ((v2 % 256) * 256 + (v1 % 256)) * 256 + (v % 256) = v
    OBVIOUS
  <2>1. v2 % 256 = v2
    BY <1>1, <1>3
  <2>2. (v2 % 256) * 256 + (v1 % 256) = v1
    BY <1>5, <2>1
  <2> QED
    BY <1>4, <2>2
<1>9. v3 < 256 =>
          (((v3 % 256) * 256 + (v2 % 256)) * 256 + (v1 % 256)) * 256 + (v % 256) = v
  <2> SUFFICES ASSUME v3 < 256
               PROVE  (((v3 % 256) * 256 + (v2 % 256)) * 256 + (v1 % 256)) * 256 + (v % 256) = v
    OBVIOUS
  <2>1. v3 % 256 = v3
    BY <1>1, <1>3
  <2>2. (v3 % 256) * 256 + (v2 % 256) = v2
    BY <1>6, <2>1
  <2>3. ((v3 % 256) * 256 + (v2 % 256)) * 256 + (v1 % 256) = v1
    BY <1>5, <2>2
  <2> QED
    BY <1>4, <2>3
<1> QED
  BY <1>1, <1>7, <1>8, <1>9 DEF v1, v2, v3

\* A number that fits into its bytes is put together again as it was.
LEMMA RoundTrip ==
    ASSUME NEW value \in Nat, NEW w \in 1..4, Fits(value, w)
    PROVE  ToNumber(ToByteArray(value, w)) = value
<1> DEFINE byte(k) == (value \div Weight[k]) % 256
<1>1. ToByteArray(value, w) \in Seq(Bytes) /\ Len(ToByteArray(value, w)) = w
  BY ToByteArrayType
<1>2. /\ byte(1) = value % 256
      /\ byte(2) = (value \div 256) % 256
      /\ byte(3) = (value \div 65536) % 256
      /\ byte(4) = (value \div 16777216) % 256
  BY DEF Weight
<1> DEFINE sum(k) ==
        IF k = 1 THEN byte(1)
        ELSE IF k = 2 THEN byte(2) * 256 + byte(1)
        ELSE IF k = 3 THEN (byte(3) * 256 + byte(2)) * 256 + byte(1)
        ELSE ((byte(4) * 256 + byte(3)) * 256 + byte(2)) * 256 + byte(1)
<1>sum. sum(w) = value
  <2>1. /\ w = 1 => value < 256
        /\ w = 2 => value \div 256 < 256
        /\ w = 3 => value \div 65536 < 256
        /\ w = 4 => value \div 16777216 < 256
    BY DEF Weight, Fits
  <2> HIDE DEF byte
  <2>2. w = 1 => sum(w) = value
    BY <1>2, <2>1, Digits
  <2>3. w = 2 => sum(w) = value
    BY <1>2, <2>1, Digits
  <2>4. w = 3 => sum(w) = value
    BY <1>2, <2>1, Digits
  <2>5. w = 4 => sum(w) = value
    BY <1>2, <2>1, Digits
  <2> QED
    BY <2>2, <2>3, <2>4, <2>5
<1> HIDE DEF byte
<1>3. \A i \in 1..w : ToByteArray(value, w)[i] = byte(w - i + 1)
  BY DEF ToByteArray, byte
<1>4. PICK bytes : bytes = ToByteArray(value, w)
  OBVIOUS
<1>5. /\ bytes \in Seq(Bytes)
      /\ Len(bytes) \in 0..4
      /\ Len(bytes) = w
  BY <1>1, <1>4
<1>6. /\ w = 1 => ToNumber(bytes) = bytes[1]
      /\ w = 2 => ToNumber(bytes) = bytes[1] * 256 + bytes[2]
      /\ w = 3 => ToNumber(bytes) = (bytes[1] * 256 + bytes[2]) * 256 + bytes[3]
      /\ w = 4 => ToNumber(bytes)
                      = ((bytes[1] * 256 + bytes[2]) * 256 + bytes[3]) * 256 + bytes[4]
  BY <1>5, ToNumberIs
<1>7. CASE w = 1
  <2>1. bytes[1] = byte(1)
    BY <1>3, <1>4, <1>7
  <2> QED
    BY <1>4, <1>6, <1>7, <1>sum, <2>1
<1>8. CASE w = 2
  <2>1. bytes[1] = byte(2) /\ bytes[2] = byte(1)
    BY <1>3, <1>4, <1>8
  <2> QED
    BY <1>4, <1>6, <1>8, <1>sum, <2>1
<1>9. CASE w = 3
  <2>1. bytes[1] = byte(3) /\ bytes[2] = byte(2) /\ bytes[3] = byte(1)
    BY <1>3, <1>4, <1>9
  <2> QED
    BY <1>4, <1>6, <1>9, <1>sum, <2>1
<1>10. CASE w = 4
  <2>1. bytes[1] = byte(4) /\ bytes[2] = byte(3) /\ bytes[3] = byte(2) /\ bytes[4] = byte(1)
    BY <1>3, <1>4, <1>10
  <2> QED
    BY <1>4, <1>6, <1>10, <1>sum, <2>1
<1> QED
  BY <1>7, <1>8, <1>9, <1>10

\* A buffer whose data and writer have been replaced, before and after autoGrow.
LEMMA GrownInBounds ==
    ASSUME NEW b, InBounds(b), NEW data \in Seq(Bytes), NEW writer \in Nat,
           Len(b.data) <= Len(data), writer <= Len(data)
    PROVE  InBounds(AutoGrow([b EXCEPT !.data = data, !.writer = writer]))
<1> DEFINE moved == [b EXCEPT !.data = data, !.writer = writer]
<1>1. /\ moved \in Buffer /\ moved.data = data /\ moved.writer = writer
      /\ moved.reader = b.reader /\ moved.capacity = b.capacity
  BY DEF InBounds, Buffer
<1> HIDE DEF moved
<1>2. AutoGrow(moved) = [moved EXCEPT !.capacity = Len(data)]
  BY <1>1 DEF AutoGrow, AtLeast, InBounds, Buffer
<1>3. Len(data) \in Nat
  OBVIOUS
<1>4. InBounds([moved EXCEPT !.capacity = Len(data)])
  BY <1>1, <1>3 DEF InBounds, Buffer
<1> QED
  BY <1>2, <1>4 DEF moved

LEMMA WriteBytesType ==
    ASSUME NEW b, InBounds(b), NEW bytes \in Seq(Bytes)
    PROVE  InBounds(WriteBytes(b, bytes))
<1> DEFINE n == Len(bytes)
           front == SubSeq(b.data, 1, b.writer)
           rest == SubSeq(b.data, b.writer + n + 1, Len(b.data))
           data == front \o bytes \o rest
<1>1. /\ b.data \in Seq(Bytes) /\ b.writer \in Nat /\ b.writer <= Len(b.data)
      /\ n \in Nat /\ Len(b.data) \in Nat
  BY DEF InBounds, Buffer
<1>2. front \in Seq(Bytes) /\ Len(front) = b.writer
  BY <1>1
<1>3. /\ rest \in Seq(Bytes) /\ Len(rest) \in Nat
      /\ Len(b.data) <= b.writer + n + Len(rest)
  <2>1. CASE b.writer + n <= Len(b.data)
    <3>1. rest \in Seq(Bytes) /\ Len(rest) = Len(b.data) - b.writer - n
      BY <1>1, <2>1
    <3> QED
      BY <1>1, <2>1, <3>1
  <2>2. CASE b.writer + n > Len(b.data)
    <3>1. rest = <<>>
      BY <1>1, <2>2
    <3> QED
      BY <1>1, <2>2, <3>1
  <2> QED
    BY <1>1, <2>1, <2>2
<1>4. WriteBytes(b, bytes) = AutoGrow([b EXCEPT !.data = data, !.writer = b.writer + n])
  BY DEF WriteBytes, InBounds, Buffer
<1> HIDE DEF front, rest, n
<1>5. data \in Seq(Bytes) /\ Len(data) = b.writer + n + Len(rest)
  <2>1. front \in Seq(Bytes) /\ rest \in Seq(Bytes)
    BY <1>2, <1>3
  <2>2. data \in Seq(Bytes) /\ Len(data) = Len(front) + Len(bytes) + Len(rest)
    BY <2>1, ThreeParts
  <2> QED
    BY <1>2, <2>2 DEF n
<1> HIDE DEF data
<1>6. Len(b.data) <= Len(data) /\ b.writer + n <= Len(data) /\ b.writer + n \in Nat
  BY <1>1, <1>3, <1>5
<1> QED
  BY <1>4, <1>5, <1>6, GrownInBounds

LEMMA InsertBytesType ==
    ASSUME NEW b, InBounds(b), NEW bytes \in Seq(Bytes)
    PROVE  InBounds(InsertBytes(b, bytes))
<1> DEFINE n == Len(bytes)
           front == SubSeq(b.data, 1, b.writer)
           rest == SubSeq(b.data, b.writer + 1, Len(b.data))
           data == front \o bytes \o rest
<1>1. /\ b.data \in Seq(Bytes) /\ b.writer \in Nat /\ b.writer <= Len(b.data)
      /\ n \in Nat /\ Len(b.data) \in Nat
  BY DEF InBounds, Buffer
<1>2. front \in Seq(Bytes) /\ Len(front) = b.writer
  BY <1>1
<1>3. rest \in Seq(Bytes) /\ Len(rest) = Len(b.data) - b.writer
  BY <1>1
<1>4. InsertBytes(b, bytes) = AutoGrow([b EXCEPT !.data = data, !.writer = b.writer + n])
  BY DEF InsertBytes, InBounds, Buffer
<1> HIDE DEF front, rest, n
<1>5. data \in Seq(Bytes) /\ Len(data) = b.writer + n + Len(rest)
  <2>1. front \in Seq(Bytes) /\ rest \in Seq(Bytes)
    BY <1>2, <1>3
  <2>2. data \in Seq(Bytes) /\ Len(data) = Len(front) + Len(bytes) + Len(rest)
    BY <2>1, ThreeParts
  <2> QED
    BY <1>2, <2>2 DEF n
<1> HIDE DEF data
<1>6. Len(b.data) <= Len(data) /\ b.writer + n <= Len(data) /\ b.writer + n \in Nat
  BY <1>1, <1>3, <1>5
<1> QED
  BY <1>4, <1>5, <1>6, GrownInBounds

\* The n elements of a sequence behind its m-th.
LEMMA PartOf ==
    ASSUME NEW s \in Seq(Bytes), NEW m \in Nat, NEW n \in Nat, m + n <= Len(s)
    PROVE  LET part == SubSeq(s, m + 1, m + n)
           IN  /\ part \in Seq(Bytes)
               /\ Len(part) = n
               /\ \A i \in 1..n : part[i] = s[m + i]
<1> DEFINE part == SubSeq(s, m + 1, m + n)
<1>1. part \in Seq(Bytes)
  OBVIOUS
<1>2. Len(part) = n
  OBVIOUS
<1>3. \A i \in 1..n : part[i] = s[m + i]
  OBVIOUS
<1> QED
  BY <1>1, <1>2, <1>3

\* What is left of a sequence behind its m-th element.
LEMMA RestOf ==
    ASSUME NEW s \in Seq(Bytes), NEW m \in Nat, m <= Len(s)
    PROVE  LET rest == SubSeq(s, m + 1, Len(s))
           IN  /\ rest \in Seq(Bytes)
               /\ Len(rest) = Len(s) - m
               /\ \A i \in 1..Len(rest) : rest[i] = s[m + i]
<1> DEFINE rest == SubSeq(s, m + 1, Len(s))
<1>1. rest \in Seq(Bytes)
  OBVIOUS
<1>2. Len(rest) = Len(s) - m
  OBVIOUS
<1>3. \A i \in 1..Len(s) - m : rest[i] = s[m + i]
  OBVIOUS
<1> HIDE DEF rest
<1>4. \A i \in 1..Len(rest) : rest[i] = s[m + i]
  BY <1>2, <1>3
<1> QED
  BY <1>1, <1>2, <1>4 DEF rest

\* Byte by byte: three sequences one after the other.
LEMMA ThreePartsAt ==
    ASSUME NEW s \in Seq(Bytes), NEW t \in Seq(Bytes), NEW u \in Seq(Bytes)
    PROVE  /\ \A i \in 1..Len(s) : (s \o t \o u)[i] = s[i]
           /\ \A i \in 1..Len(t) : (s \o t \o u)[Len(s) + i] = t[i]
           /\ \A i \in 1..Len(u) : (s \o t \o u)[Len(s) + Len(t) + i] = u[i]
OBVIOUS

\* What a write leaves alone and what it puts there.
LEMMA WriteBytesData ==
    ASSUME NEW b, InBounds(b), NEW bytes \in Seq(Bytes)
    PROVE  LET data == WriteBytes(b, bytes).data
           IN  /\ Len(b.data) <= Len(data)
               /\ b.writer + Len(bytes) <= Len(data)
               /\ \A i \in 1..Len(b.data) :
                      i <= b.writer \/ b.writer + Len(bytes) < i => data[i] = b.data[i]
               /\ \A i \in 1..Len(bytes) : data[b.writer + i] = bytes[i]
<1> DEFINE n == Len(bytes)
           front == SubSeq(b.data, 1, b.writer)
           rest == SubSeq(b.data, b.writer + n + 1, Len(b.data))
           data == front \o bytes \o rest
<1>1. /\ b.data \in Seq(Bytes) /\ b.writer \in Nat /\ b.writer <= Len(b.data)
      /\ n \in Nat /\ Len(b.data) \in Nat
  BY DEF InBounds, Buffer
<1>2. /\ front \in Seq(Bytes) /\ Len(front) = b.writer
      /\ \A i \in 1..b.writer : front[i] = b.data[i]
  BY <1>1
<1>3. /\ rest \in Seq(Bytes)
      /\ Len(rest) = IF b.writer + n <= Len(b.data) THEN Len(b.data) - b.writer - n ELSE 0
      /\ \A i \in 1..Len(rest) : rest[i] = b.data[b.writer + n + i]
  <2>1. CASE b.writer + n <= Len(b.data)
    <3> DEFINE m == b.writer + n
    <3>1. m \in Nat /\ m <= Len(b.data)
      BY <1>1, <2>1
    <3> HIDE DEF m
    <3>2. /\ SubSeq(b.data, m + 1, Len(b.data)) \in Seq(Bytes)
          /\ Len(SubSeq(b.data, m + 1, Len(b.data))) = Len(b.data) - m
          /\ \A i \in 1..Len(SubSeq(b.data, m + 1, Len(b.data))) :
                 SubSeq(b.data, m + 1, Len(b.data))[i] = b.data[m + i]
      BY <1>1, <3>1, RestOf
    <3>3. rest = SubSeq(b.data, m + 1, Len(b.data))
      BY DEF m
    <3> HIDE DEF rest
    <3>4. Len(rest) = Len(b.data) - b.writer - n
      BY <1>1, <3>2, <3>3 DEF m
    <3>5. \A i \in 1..Len(rest) : rest[i] = b.data[b.writer + n + i]
      BY <3>2, <3>3 DEF m
    <3> QED
      BY <2>1, <3>2, <3>3, <3>4, <3>5
  <2>2. CASE ~(b.writer + n <= Len(b.data))
    <3>1. rest = <<>>
      BY <1>1, <2>2
    <3> QED
      BY <1>1, <2>2, <3>1
  <2> QED
    BY <2>1, <2>2
<1>4. WriteBytes(b, bytes).data = data
  BY DEF WriteBytes, AutoGrow, InBounds, Buffer
<1> HIDE DEF front, rest
<1>5. /\ data \in Seq(Bytes) /\ Len(data) = b.writer + n + Len(rest)
      /\ \A i \in 1..b.writer : data[i] = front[i]
      /\ \A i \in 1..n : data[b.writer + i] = bytes[i]
      /\ \A i \in 1..Len(rest) : data[b.writer + n + i] = rest[i]
  <2>1. front \in Seq(Bytes) /\ rest \in Seq(Bytes) /\ Len(front) = b.writer
    BY <1>2, <1>3
  <2>2. data \in Seq(Bytes) /\ Len(data) = Len(front) + Len(bytes) + Len(rest)
    BY <2>1, ThreeParts
  <2>3. /\ \A i \in 1..Len(front) : data[i] = front[i]
        /\ \A i \in 1..Len(bytes) : data[Len(front) + i] = bytes[i]
        /\ \A i \in 1..Len(rest) : data[Len(front) + Len(bytes) + i] = rest[i]
    BY <2>1, ThreePartsAt
  <2> HIDE DEF data
  <2> QED
    BY <2>1, <2>2, <2>3
<1> HIDE DEF data
<1>6. ASSUME NEW i \in 1..Len(b.data), i <= b.writer \/ b.writer + n < i
      PROVE  data[i] = b.data[i]
  <2>1. CASE i <= b.writer
    BY <1>1, <1>2, <1>5, <2>1
  <2>2. CASE b.writer + n < i
    <3> DEFINE k == i - (b.writer + n)
    <3>1. k \in 1..Len(rest) /\ i = b.writer + n + k
      BY <1>1, <1>3, <2>2
    <3> QED
      BY <1>3, <1>5, <3>1
  <2> QED
    BY <1>6, <2>1, <2>2
<1>7. Len(b.data) <= Len(data) /\ b.writer + n <= Len(data)
  BY <1>1, <1>3, <1>5
<1> QED
  BY <1>4, <1>5, <1>6, <1>7

\* The same of an insertion.
LEMMA InsertBytesData ==
    ASSUME NEW b, InBounds(b), NEW bytes \in Seq(Bytes)
    PROVE  LET data == InsertBytes(b, bytes).data
           IN  /\ Len(data) = Len(b.data) + Len(bytes)
               /\ \A i \in 1..b.writer : data[i] = b.data[i]
               /\ \A i \in 1..Len(bytes) : data[b.writer + i] = bytes[i]
               /\ \A i \in b.writer + 1..Len(b.data) : data[i + Len(bytes)] = b.data[i]
<1> DEFINE n == Len(bytes)
           front == SubSeq(b.data, 1, b.writer)
           rest == SubSeq(b.data, b.writer + 1, Len(b.data))
           data == front \o bytes \o rest
<1>1. /\ b.data \in Seq(Bytes) /\ b.writer \in Nat /\ b.writer <= Len(b.data)
      /\ n \in Nat /\ Len(b.data) \in Nat
  BY DEF InBounds, Buffer
<1>2. /\ front \in Seq(Bytes) /\ Len(front) = b.writer
      /\ \A i \in 1..b.writer : front[i] = b.data[i]
  BY <1>1
<1>3. /\ rest \in Seq(Bytes) /\ Len(rest) = Len(b.data) - b.writer
      /\ \A i \in 1..Len(rest) : rest[i] = b.data[b.writer + i]
  BY <1>1, RestOf
<1>4. InsertBytes(b, bytes).data = data
  BY DEF InsertBytes, AutoGrow, InBounds, Buffer
<1> HIDE DEF front, rest
<1>5. /\ data \in Seq(Bytes) /\ Len(data) = b.writer + n + Len(rest)
      /\ \A i \in 1..b.writer : data[i] = front[i]
      /\ \A i \in 1..n : data[b.writer + i] = bytes[i]
      /\ \A i \in 1..Len(rest) : data[b.writer + n + i] = rest[i]
  <2>1. front \in Seq(Bytes) /\ rest \in Seq(Bytes) /\ Len(front) = b.writer
    BY <1>2, <1>3
  <2>2. data \in Seq(Bytes) /\ Len(data) = Len(front) + Len(bytes) + Len(rest)
    BY <2>1, ThreeParts
  <2>3. /\ \A i \in 1..Len(front) : data[i] = front[i]
        /\ \A i \in 1..Len(bytes) : data[Len(front) + i] = bytes[i]
        /\ \A i \in 1..Len(rest) : data[Len(front) + Len(bytes) + i] = rest[i]
    BY <2>1, ThreePartsAt
  <2> HIDE DEF data
  <2> QED
    BY <2>1, <2>2, <2>3
<1> HIDE DEF data
<1>6. ASSUME NEW i \in b.writer + 1..Len(b.data)
      PROVE  data[i + n] = b.data[i]
  <2> DEFINE k == i - b.writer
  <2>1. k \in 1..Len(rest) /\ i + n = b.writer + n + k /\ i = b.writer + k
    BY <1>1, <1>3
  <2> QED
    BY <1>3, <1>5, <2>1
<1>7. Len(data) = Len(b.data) + n
  BY <1>1, <1>3, <1>5
<1> QED
  BY <1>2, <1>4, <1>5, <1>6, <1>7

LEMMA OtherCallsType ==
    ASSUME NEW b, InBounds(b)
    PROVE  /\ \A n \in Nat : InBounds(Skip(b, n))
           /\ InBounds(SkipRemain(b))
           /\ InBounds(Rewind(b))
           /\ InBounds(ResetWriterIndex(b))
           /\ InBounds(ResetReaderIndex(b))
<1>1. \A n \in Nat : InBounds(Skip(b, n))
  BY DEF InBounds, Buffer, Skip, Holds
<1>2. InBounds(SkipRemain(b))
  BY DEF InBounds, Buffer, SkipRemain
<1>3. 0 <= b.capacity
  BY DEF InBounds, Buffer
<1>4. InBounds(Rewind(b))
  BY <1>3 DEF InBounds, Buffer, Rewind
<1>5. InBounds(ResetWriterIndex(b))
  BY <1>3 DEF InBounds, Buffer, ResetWriterIndex
<1>6. InBounds(ResetReaderIndex(b))
  BY <1>3 DEF InBounds, Buffer, ResetReaderIndex
<1> QED
  BY <1>1, <1>2, <1>4, <1>5, <1>6

-----------------------------------------------------------------------------
(* Reads that go on                                                        *)

\* The reader has not gone back, and nothing else has changed.
Ahead(b, c) ==
    /\ InBounds(c)
    /\ c.capacity = b.capacity
    /\ b.reader <= c.reader

LEMMA AheadOfItself ==
    ASSUME NEW b, InBounds(b)
    PROVE  Ahead(b, b)
BY DEF Ahead, InBounds, Buffer

LEMMA AheadOfAhead ==
    ASSUME NEW b, NEW c, NEW d, InBounds(b), Ahead(b, c), Ahead(c, d)
    PROVE  Ahead(b, d)
BY DEF Ahead, InBounds, Buffer

LEMMA SkipAhead ==
    ASSUME NEW b, InBounds(b), NEW n \in Nat
    PROVE  Ahead(b, Skip(b, n))
BY DEF Ahead, InBounds, Buffer, Skip, Holds

LEMMA ChunkInBounds ==
    ASSUME NEW bytes \in Seq(Bytes)
    PROVE  InBounds(FromUint8Array(bytes))
BY DEF FromUint8Array, InBounds, Buffer

LEMMA HeldByteType ==
    ASSUME NEW b, InBounds(b), Holds(b, 1)
    PROVE  ReadNumber(b, 1) \in Bytes
<1>1. b.reader \in Nat /\ b.reader + 1 <= Len(b.data) /\ b.data \in Seq(Bytes)
  BY DEF Holds, InBounds, Buffer
<1> DEFINE read == SubSeq(b.data, b.reader + 1, b.reader + 1)
<1>2. read \in Seq(Bytes) /\ Len(read) = 1 /\ read[1] \in Bytes
  <2>1. read \in Seq(Bytes) /\ Len(read) = 1
    BY <1>1
  <2> HIDE DEF read
  <2> QED
    BY <2>1
<1>3. ReadNumber(b, 1) = ToNumber(read)
  BY DEF ReadNumber, ReadBytes
<1> HIDE DEF read
<1>4. ToNumber(read) = read[1]
  BY <1>2, ToNumberIs
<1> QED
  BY <1>2, <1>3, <1>4

LEMMA ReadByteType ==
    ASSUME NEW b, InBounds(b)
    PROVE  ReadNumber(b, 1) \in Bytes \cup {Undefined}
BY HeldByteType DEF ReadNumber

-----------------------------------------------------------------------------
(* Reads, where certain bytes are next                                     *)

\* The bytes at b's reader.
Follows(b, s) ==
    /\ InBounds(b)
    /\ s \in Seq(Bytes)
    /\ Holds(b, Len(s))
    /\ \A i \in 1..Len(s) : b.data[b.reader + i] = s[i]

\* c is b after n bytes more.
IsBehind(c, b, n) ==
    /\ InBounds(c)
    /\ c.data = b.data /\ c.capacity = b.capacity /\ c.reader = b.reader + n

LEMMA FollowsParts ==
    ASSUME NEW b, NEW s \in Seq(Bytes), NEW t \in Seq(Bytes), Follows(b, s \o t)
    PROVE  /\ Follows(b, s)
           /\ Follows(Skip(b, Len(s)), t)
           /\ IsBehind(Skip(b, Len(s)), b, Len(s))
<1> DEFINE c == Skip(b, Len(s))
<1>1. /\ s \o t \in Seq(Bytes) /\ Len(s \o t) = Len(s) + Len(t)
      /\ Len(s) \in Nat /\ Len(t) \in Nat
  BY ConcatProperties
<1>2. /\ \A i \in 1..Len(s) : (s \o t)[i] = s[i]
      /\ \A i \in 1..Len(t) : (s \o t)[Len(s) + i] = t[i]
  BY ConcatProperties
<1>3. /\ InBounds(b) /\ b.reader \in Nat
      /\ b.reader + Len(s) + Len(t) <= b.capacity /\ b.capacity \in Nat
      /\ \A i \in 1..Len(s) + Len(t) : b.data[b.reader + i] = (s \o t)[i]
  BY <1>1 DEF Follows, Holds, InBounds, Buffer
<1>4. Holds(b, Len(s)) /\ b.reader + Len(s) \in Nat
  BY <1>1, <1>3 DEF Holds
<1>5. c.data = b.data /\ c.capacity = b.capacity /\ c.reader = b.reader + Len(s)
  BY <1>3, <1>4 DEF Skip, InBounds, Buffer
<1>6. InBounds(c)
  BY <1>1, <1>3, SkipAhead DEF Ahead
<1> HIDE DEF c
<1>7. \A i \in 1..Len(s) : b.data[b.reader + i] = s[i]
  BY <1>1, <1>2, <1>3
<1>8. \A i \in 1..Len(t) : c.data[c.reader + i] = t[i]
  <2> SUFFICES ASSUME NEW i \in 1..Len(t) PROVE c.data[c.reader + i] = t[i]
    OBVIOUS
  <2>1. Len(s) + i \in 1..Len(s) + Len(t) /\ c.reader + i = b.reader + (Len(s) + i)
    BY <1>1, <1>3, <1>5
  <2> QED
    BY <1>2, <1>3, <1>5, <2>1
<1>9. Holds(c, Len(t))
  BY <1>1, <1>3, <1>5 DEF Holds
<1> QED
  BY <1>3, <1>4, <1>5, <1>6, <1>7, <1>8, <1>9 DEF Follows, IsBehind, c

LEMMA ReadsBytes ==
    ASSUME NEW b, NEW s, Follows(b, s)
    PROVE  ReadBytes(b, Len(s)) = s
<1> DEFINE n == Len(s)
           read == SubSeq(b.data, b.reader + 1, b.reader + n)
<1>1. /\ s \in Seq(Bytes) /\ n \in Nat /\ Holds(b, n) /\ b.reader \in Nat
      /\ b.data \in Seq(Bytes) /\ b.reader + n <= Len(b.data)
      /\ \A i \in 1..n : b.data[b.reader + i] = s[i]
  BY DEF Follows, Holds, InBounds, Buffer
<1>2. ReadBytes(b, n) = read
  BY <1>1 DEF ReadBytes
<1>3. \A m \in Nat : m = Len(s) =>
          /\ SubSeq(b.data, b.reader + 1, b.reader + m) \in Seq(Bytes)
          /\ Len(SubSeq(b.data, b.reader + 1, b.reader + m)) = m
          /\ \A i \in 1..m : SubSeq(b.data, b.reader + 1, b.reader + m)[i] = b.data[b.reader + i]
  BY <1>1, PartOf
<1>4. read \in Seq(Bytes) /\ Len(read) = Len(s) /\ \A i \in 1..Len(s) : read[i] = b.data[b.reader + i]
  BY <1>1, <1>3
<1> HIDE DEF read
<1>5. \A i \in 1..Len(s) : read[i] = s[i]
  BY <1>1, <1>4
<1> QED
  BY <1>1, <1>2, <1>4, <1>5

LEMMA ReadsNumber ==
    ASSUME NEW b, NEW value \in Nat, NEW w \in 1..4, Fits(value, w),
           Follows(b, ToByteArray(value, w))
    PROVE  ReadNumber(b, w) = value
<1> DEFINE s == ToByteArray(value, w)
<1>1. s \in Seq(Bytes) /\ Len(s) = w
  BY ToByteArrayType
<1>2. ToNumber(s) = value
  BY RoundTrip
<1> HIDE DEF s
<1>3. Follows(b, s)
  BY DEF s
<1>4. ReadBytes(b, w) = s
  BY <1>1, <1>3, ReadsBytes
<1>5. Holds(b, w)
  BY <1>1, <1>3 DEF Follows
<1> QED
  BY <1>2, <1>4, <1>5 DEF ReadNumber

LEMMA ReadsByte ==
    ASSUME NEW b, NEW n \in Bytes, Follows(b, <<n>>)
    PROVE  ReadNumber(b, 1) = n
<1> DEFINE s == <<n>>
<1>1. s \in Seq(Bytes) /\ Len(s) = 1 /\ s[1] = n
  OBVIOUS
<1> HIDE DEF s
<1>2. Follows(b, s)
  BY DEF s
<1>3. ReadBytes(b, 1) = s /\ Holds(b, 1)
  BY <1>1, <1>2, ReadsBytes DEF Follows
<1>4. ToNumber(s) = n
  BY <1>1, ToNumberIs
<1> QED
  BY <1>3, <1>4 DEF ReadNumber

-----------------------------------------------------------------------------
(* Bytes, one behind the other                                             *)

\* Sequences of bytes, one behind the other.  Under a name of its own the provers
\* take a concatenation as it stands.
Cat(s, t) == s \o t

LEMMA CatType ==
    ASSUME NEW s \in Seq(Bytes), NEW t \in Seq(Bytes)
    PROVE  /\ Cat(s, t) \in Seq(Bytes)
           /\ Len(Cat(s, t)) = Len(s) + Len(t)
           /\ Len(s) \in Nat /\ Len(t) \in Nat
BY ConcatProperties DEF Cat

LEMMA CatAgain ==
    ASSUME NEW s \in Seq(Bytes), NEW t \in Seq(Bytes), NEW u \in Seq(Bytes)
    PROVE  Cat(Cat(s, t), u) = Cat(s, Cat(t, u))
BY ConcatAssociative DEF Cat

LEMMA CatEmpty ==
    ASSUME NEW s \in Seq(Bytes)
    PROVE  Cat(<<>>, s) = s /\ Cat(s, <<>>) = s
BY ConcatEmptySeq DEF Cat

LEMMA FourParts ==
    ASSUME NEW a \in Seq(Bytes), NEW b \in Seq(Bytes), NEW c \in Seq(Bytes), NEW d \in Seq(Bytes)
    PROVE  Cat(Cat(Cat(a, b), c), d) = Cat(a, Cat(b, Cat(c, d)))
BY CatType, CatAgain

LEMMA FiveParts ==
    ASSUME NEW a \in Seq(Bytes), NEW b \in Seq(Bytes), NEW c \in Seq(Bytes), NEW d \in Seq(Bytes),
           NEW e \in Seq(Bytes)
    PROVE  Cat(Cat(Cat(Cat(a, b), c), d), e) = Cat(a, Cat(b, Cat(c, Cat(d, e))))
<1>1. PICK abc : abc = Cat(Cat(a, b), c)
  OBVIOUS
<1>2. PICK de : de = Cat(d, e)
  OBVIOUS
<1>3. abc \in Seq(Bytes) /\ de \in Seq(Bytes)
  BY <1>1, <1>2, CatType
<1>4. Cat(Cat(abc, d), e) = Cat(abc, de)
  BY <1>2, <1>3, CatAgain
<1>5. Cat(Cat(Cat(a, b), c), de) = Cat(a, Cat(b, Cat(c, de)))
  BY <1>3, FourParts
<1> QED
  BY <1>1, <1>2, <1>4, <1>5

\* s is n bytes.
IsBytes(s, n) == s \in Seq(Bytes) /\ n \in Nat /\ Len(s) = n

LEMMA CatBytes ==
    ASSUME NEW s, NEW t, NEW m, NEW n, IsBytes(s, m), IsBytes(t, n)
    PROVE  IsBytes(Cat(s, t), m + n)
BY CatType DEF IsBytes

\* One byte.
One(n) == <<n>>

LEMMA OneBytes ==
    ASSUME NEW n \in Bytes
    PROVE  IsBytes(One(n), 1)
BY DEF IsBytes, One

LEMMA NumberBytes ==
    ASSUME NEW n \in Nat, NEW w \in 1..4
    PROVE  IsBytes(ToByteArray(n, w), w)
<1>1. ToByteArray(n, w) \in Seq(Bytes)
  BY ToByteArrayType
<1>2. Len(ToByteArray(n, w)) = w
  BY ToByteArrayType
<1>3. w \in Nat
  OBVIOUS
<1> QED
  BY <1>1, <1>2, <1>3 DEF IsBytes

LEMMA FollowsCat ==
    ASSUME NEW b, NEW s \in Seq(Bytes), NEW t \in Seq(Bytes), Follows(b, Cat(s, t))
    PROVE  /\ Follows(b, s)
           /\ Follows(Skip(b, Len(s)), t)
           /\ IsBehind(Skip(b, Len(s)), b, Len(s))
BY FollowsParts DEF Cat

-----------------------------------------------------------------------------
(* Writes over all of the data, or the front of it                         *)

\* A write at the start of as many bytes as there are, or more.
LEMMA WritesAll ==
    ASSUME NEW b, InBounds(b), b.writer = 0, NEW bytes \in Seq(Bytes),
           Len(b.data) <= Len(bytes)
    PROVE  WriteBytes(b, bytes).data = bytes
<1>1. b.data \in Seq(Bytes) /\ Len(b.data) \in Nat /\ Len(bytes) \in Nat
  BY DEF InBounds, Buffer
<1>2. SubSeq(b.data, 1, 0) = <<>> /\ SubSeq(b.data, 0 + Len(bytes) + 1, Len(b.data)) = <<>>
  BY <1>1
<1>3. WriteBytes(b, bytes).data = <<>> \o bytes \o <<>>
  BY <1>2 DEF WriteBytes, AutoGrow, InBounds, Buffer
<1> QED
  BY <1>3, ConcatEmptySeq

\* A write over the first bytes.
LEMMA WritesFront ==
    ASSUME NEW b, InBounds(b), b.writer = 0, NEW s \in Seq(Bytes), NEW t \in Seq(Bytes),
           NEW u \in Seq(Bytes), b.data = Cat(s, t), Len(u) = Len(s)
    PROVE  WriteBytes(b, u).data = Cat(u, t)
<1>1. /\ Len(s) \in Nat /\ Len(t) \in Nat /\ b.data \in Seq(Bytes)
      /\ Len(b.data) = Len(s) + Len(t)
      /\ \A i \in 1..Len(t) : b.data[Len(s) + i] = t[i]
  BY ConcatProperties DEF InBounds, Buffer, Cat
<1> DEFINE rest == SubSeq(b.data, Len(s) + 1, Len(b.data))
<1>2. /\ rest \in Seq(Bytes) /\ Len(rest) = Len(t)
      /\ \A i \in 1..Len(t) : rest[i] = b.data[Len(s) + i]
  <2>1. \A m \in Nat : m <= Len(b.data) =>
            /\ SubSeq(b.data, m + 1, Len(b.data)) \in Seq(Bytes)
            /\ Len(SubSeq(b.data, m + 1, Len(b.data))) = Len(b.data) - m
            /\ \A i \in 1..Len(SubSeq(b.data, m + 1, Len(b.data))) :
                  SubSeq(b.data, m + 1, Len(b.data))[i] = b.data[m + i]
    BY <1>1, RestOf
  <2>2. Len(s) <= Len(b.data) /\ Len(b.data) - Len(s) = Len(t)
    BY <1>1
  <2>3. /\ rest \in Seq(Bytes) /\ Len(rest) = Len(t)
        /\ \A i \in 1..Len(rest) : rest[i] = b.data[Len(s) + i]
    BY <1>1, <2>1, <2>2
  <2> HIDE DEF rest
  <2> QED
    BY <2>3
<1>3. SubSeq(b.data, 1, 0) = <<>> /\ 0 + Len(u) + 1 = Len(s) + 1
  BY <1>1
<1>4. WriteBytes(b, u).data = <<>> \o u \o rest
  BY <1>3 DEF WriteBytes, AutoGrow, InBounds, Buffer
<1> HIDE DEF rest
<1>5. rest = t
  BY <1>1, <1>2
<1> QED
  BY <1>4, <1>5, ConcatEmptySeq DEF Cat

\* A write behind all there is.
LEMMA WritesEnd ==
    ASSUME NEW b, InBounds(b), b.writer = Len(b.data), NEW bytes \in Seq(Bytes)
    PROVE  /\ WriteBytes(b, bytes).data = Cat(b.data, bytes)
           /\ WriteBytes(b, bytes).reader = b.reader
<1>1. PICK s : s = b.data
  OBVIOUS
<1>2. PICK n : n = Len(s)
  OBVIOUS
<1>3. s \in Seq(Bytes) /\ n \in Nat /\ Len(bytes) \in Nat
  BY <1>1, <1>2 DEF InBounds, Buffer
<1>4. SubSeq(s, 1, n) = s
  BY <1>2, <1>3, SubSeqFull
<1>5. SubSeq(s, n + Len(bytes) + 1, n) = <<>>
  BY <1>3, SubSeqEmpty
<1>6. WriteBytes(b, bytes).data = s \o bytes \o <<>> /\ WriteBytes(b, bytes).reader = b.reader
  BY <1>1, <1>2, <1>4, <1>5 DEF WriteBytes, AutoGrow, InBounds, Buffer
<1>7. s \o bytes \in Seq(Bytes)
  BY <1>3, ConcatProperties
<1>8. (s \o bytes) \o <<>> = s \o bytes
  BY <1>7, ConcatEmptySeq
<1> QED
  BY <1>1, <1>6, <1>8 DEF Cat

LEMMA AllocInBounds ==
    ASSUME NEW n \in Nat
    PROVE  /\ InBounds(Alloc(n)) /\ Alloc(n).writer = 0
           /\ Alloc(n).data \in Seq(Bytes) /\ Len(Alloc(n).data) = n
<1> DEFINE zeros == [i \in 1..n |-> 0]
<1>1. zeros \in Seq(Bytes) /\ Len(zeros) = n
  BY BytesAreNumbers
<1>2. Alloc(n) = FromUint8Array(zeros)
  BY DEF Alloc
<1> HIDE DEF zeros
<1>3. InBounds(FromUint8Array(zeros))
  BY <1>1, ChunkInBounds
<1> QED
  BY <1>1, <1>2, <1>3 DEF FromUint8Array

-----------------------------------------------------------------------------
(* Reads of one part after another                                         *)

LEMMA FollowsBounds ==
    ASSUME NEW b, NEW s, Follows(b, s)
    PROVE  InBounds(b) /\ b.reader \in Nat
BY DEF Follows, InBounds, Buffer

LEMMA BehindBehind ==
    ASSUME NEW a, NEW b, NEW c, NEW m \in Nat, NEW n \in Nat, InBounds(a),
           IsBehind(b, a, m), IsBehind(c, b, n)
    PROVE  IsBehind(c, a, m + n)
<1>1. a.reader \in Nat /\ a.reader + m + n = a.reader + (m + n)
  BY DEF InBounds, Buffer
<1> QED
  BY <1>1 DEF IsBehind

\* Two buffers that are as far behind another have the same bytes to read.
LEMMA SameBehind ==
    ASSUME NEW a, NEW b, NEW c, NEW n, NEW s, IsBehind(b, a, n), IsBehind(c, a, n),
           Follows(b, s)
    PROVE  Follows(c, s)
BY DEF IsBehind, Follows, Holds

LEMMA FollowsNothing ==
    ASSUME NEW b, InBounds(b)
    PROVE  Follows(b, <<>>) /\ IsBehind(b, b, 0)
<1>1. <<>> \in Seq(Bytes) /\ Len(<<>>) = 0
  OBVIOUS
<1>2. Holds(b, 0) /\ b.reader + 0 = b.reader
  BY DEF Holds, InBounds, Buffer
<1> QED
  BY <1>1, <1>2 DEF Follows, IsBehind

\* At b there are a number of w bytes and what follows it; and that is read.
Shows(b, v, w, t) ==
    /\ v \in Nat /\ w \in 1..4 /\ Fits(v, w) /\ t \in Seq(Bytes)
    /\ Follows(b, Cat(ToByteArray(v, w), t))

IsRead(b, v, w, t) ==
    /\ ReadNumber(b, w) = v
    /\ Follows(Skip(b, w), t)
    /\ IsBehind(Skip(b, w), b, w)

LEMMA ReadsOn ==
    ASSUME NEW b, NEW v, NEW w, NEW t, Shows(b, v, w, t)
    PROVE  IsRead(b, v, w, t)
<1>0. /\ v \in Nat /\ w \in 1..4 /\ Fits(v, w) /\ t \in Seq(Bytes)
      /\ Follows(b, Cat(ToByteArray(v, w), t))
  BY DEF Shows
<1>1. ToByteArray(v, w) \in Seq(Bytes) /\ Len(ToByteArray(v, w)) = w
  BY <1>0, ToByteArrayType
<1>2. PICK s : s = ToByteArray(v, w)
  OBVIOUS
<1>3. Follows(b, s) /\ Follows(Skip(b, w), t) /\ IsBehind(Skip(b, w), b, w)
  BY <1>0, <1>1, <1>2, FollowsCat
<1>4. ReadNumber(b, w) = v
  BY <1>0, <1>2, <1>3, ReadsNumber
<1> QED
  BY <1>3, <1>4 DEF IsRead

\* A byte, and what follows it.
LEMMA ReadsByteOn ==
    ASSUME NEW b, NEW v \in Bytes, NEW t \in Seq(Bytes), Follows(b, Cat(One(v), t))
    PROVE  /\ ReadNumber(b, 1) = v
           /\ Follows(Skip(b, 1), t)
           /\ IsBehind(Skip(b, 1), b, 1)
<1>1. PICK s : s = One(v)
  OBVIOUS
<1>2. s \in Seq(Bytes) /\ Len(s) = 1
  BY <1>1, OneBytes DEF IsBytes
<1>3. Follows(b, s) /\ Follows(Skip(b, 1), t) /\ IsBehind(Skip(b, 1), b, 1)
  BY <1>1, <1>2, FollowsCat
<1>4. Follows(b, <<v>>)
  BY <1>1, <1>3 DEF One
<1> QED
  BY <1>3, <1>4, ReadsByte

LEMMA SkipBehind ==
    ASSUME NEW b, NEW s, Follows(b, s)
    PROVE  IsBehind(Skip(b, Len(s)), b, Len(s))
<1>1. InBounds(b) /\ Holds(b, Len(s)) /\ Len(s) \in Nat
  BY DEF Follows
<1>2. InBounds(Skip(b, Len(s)))
  BY <1>1, SkipAhead DEF Ahead
<1> QED
  BY <1>1, <1>2 DEF IsBehind, Skip, InBounds, Buffer

LEMMA CatElements ==
    ASSUME NEW s \in Seq(Bytes), NEW t \in Seq(Bytes)
    PROVE  /\ \A i \in 1..Len(s) : Cat(s, t)[i] = s[i]
           /\ \A i \in 1..Len(t) : Cat(s, t)[Len(s) + i] = t[i]
<1>1. \A i \in 1..Len(s) : (s \o t)[i] = s[i]
  BY ConcatProperties
<1>2. \A i \in 1..Len(t) : (s \o t)[Len(s) + i] = t[i]
  BY ConcatProperties
<1> QED
  BY <1>1, <1>2 DEF Cat

-----------------------------------------------------------------------------
(* Any number of parts                                                     *)

LEMMA Smallest ==
    ASSUME NEW S, S \subseteq Nat, S # {}
    PROVE  \E n \in S : \A m \in S : n <= m
<1> DEFINE Less == OpToRel(<, Nat)
<1>1. IsWellFoundedOn(Less, Nat)
  BY NatLessThanWellFounded, Zenon
<1>2. \A x, y \in Nat : x < y => <<x, y>> \in Less
  BY DEF OpToRel
<1> HIDE DEF Less
<1>3. PICK n \in S : \A m \in S : <<m, n>> \notin Less
  BY <1>1, WFMin
<1>4. \A m \in S : ~(m < n)
  BY <1>2, <1>3
<1>5. \A m \in S : n <= m
  BY <1>4
<1> QED
  BY <1>5

\* u[i] is the first i of w's n strings, one behind the other.
Joins(u, w, n) ==
    /\ DOMAIN u = 0..n
    /\ u[0] = <<>>
    /\ \A i \in 1..n : u[i] = Cat(u[i - 1], w[i])

AreBytes(w, n) == \A i \in 1..n : w[i] \in Seq(Bytes)

LEMMA JoinType ==
    ASSUME NEW u, NEW w, NEW n \in Nat, AreBytes(w, n), Joins(u, w, n)
    PROVE  \A i \in 0..n : u[i] \in Seq(Bytes)
<1> DEFINE Bad == {i \in 0..n : u[i] \notin Seq(Bytes)}
<1> SUFFICES ASSUME Bad # {} PROVE FALSE
  OBVIOUS
<1>1. Bad \subseteq Nat
  OBVIOUS
<1>2. PICK i \in Bad : \A j \in Bad : i <= j
  BY <1>1, Smallest
<1>3. i # 0
  <2>1. <<>> \in Seq(Bytes) /\ u[0] = <<>>
    BY DEF Joins
  <2> QED
    BY <1>2, <2>1
<1>4. i \in 1..n /\ i - 1 \in 0..n /\ ~(i <= i - 1)
  BY <1>2, <1>3
<1>5. u[i - 1] \in Seq(Bytes)
  BY <1>2, <1>4
<1>6. u[i] = Cat(u[i - 1], w[i]) /\ w[i] \in Seq(Bytes)
  BY <1>4 DEF Joins, AreBytes
<1>7. u[i] \in Seq(Bytes)
  BY <1>5, <1>6, CatType
<1> QED
  BY <1>2, <1>7

LEMMA JoinExists ==
    ASSUME NEW w, NEW n \in Nat, AreBytes(w, n)
    PROVE  \E u : Joins(u, w, n)
<1> DEFINE Bad == {m \in 0..n : ~\E u : Joins(u, w, m)}
<1> SUFFICES ASSUME Bad # {} PROVE FALSE
  OBVIOUS
<1>1. Bad \subseteq Nat
  OBVIOUS
<1>2. PICK m \in Bad : \A j \in Bad : m <= j
  BY <1>1, Smallest
<1>3. m # 0
  <2>1. PICK v : v = [i \in 0..0 |-> <<>>]
    OBVIOUS
  <2>2. Joins(v, w, 0)
    BY <2>1 DEF Joins
  <2> QED
    BY <1>2, <2>2
<1>4. m \in Nat /\ m - 1 \in 0..n /\ ~(m <= m - 1)
  BY <1>2, <1>3
<1>5. PICK u : Joins(u, w, m - 1)
  BY <1>2, <1>4
<1>6. PICK v : v = [i \in 0..m |-> IF i = m THEN Cat(u[m - 1], w[m]) ELSE u[i]]
  OBVIOUS
<1>7. Joins(v, w, m)
  <2>1. DOMAIN v = 0..m /\ v[0] = <<>>
    BY <1>3, <1>4, <1>5, <1>6 DEF Joins
  <2>2. ASSUME NEW i \in 1..m PROVE v[i] = Cat(v[i - 1], w[i])
    <3>1. CASE i = m
      <4>1. m - 1 \in 0..m /\ m \in 0..m /\ m - 1 # m
        BY <1>3, <1>4
      <4>2. v[m] = Cat(u[m - 1], w[m]) /\ v[m - 1] = u[m - 1]
        BY <1>6, <4>1
      <4> QED
        BY <3>1, <4>2
    <3>2. CASE i # m
      <4>1. i \in 1..m - 1 /\ i \in 0..m /\ i - 1 \in 0..m /\ i - 1 # m
        BY <1>4, <3>2
      <4>2. v[i] = u[i] /\ v[i - 1] = u[i - 1]
        BY <1>6, <3>2, <4>1
      <4>3. u[i] = Cat(u[i - 1], w[i])
        BY <1>5, <4>1 DEF Joins
      <4> QED
        BY <4>2, <4>3
    <3> QED
      BY <3>1, <3>2
  <2> QED
    BY <2>1, <2>2 DEF Joins
<1> QED
  BY <1>2, <1>7

\* The first strings are where they were, whatever comes behind them.
Begins(s, t) == Len(s) <= Len(t) /\ \A i \in 1..Len(s) : t[i] = s[i]

LEMMA BeginsCat ==
    ASSUME NEW s \in Seq(Bytes), NEW t \in Seq(Bytes)
    PROVE  Begins(s, Cat(s, t))
BY ConcatProperties DEF Cat, Begins

LEMMA BeginsBegins ==
    ASSUME NEW s \in Seq(Bytes), NEW t \in Seq(Bytes), NEW u \in Seq(Bytes),
           Begins(s, t), Begins(t, u)
    PROVE  Begins(s, u)
BY DEF Begins

LEMMA JoinGrows ==
    ASSUME NEW u, NEW w, NEW n \in Nat, AreBytes(w, n), Joins(u, w, n), NEW k \in 0..n
    PROVE  Begins(u[k], u[n])
<1> DEFINE Bad == {m \in 0..n : ~Begins(u[n - m], u[n])}
<1>0. \A i \in 0..n : u[i] \in Seq(Bytes)
  BY JoinType
<1>1. ASSUME Bad # {} PROVE FALSE
  <2>1. Bad \subseteq Nat
    OBVIOUS
  <2>2. PICK m \in Bad : \A j \in Bad : m <= j
    BY <1>1, <2>1, Smallest
  <2>3. m # 0
    <3>1. n - 0 = n /\ n \in 0..n
      OBVIOUS
    <3>2. Begins(u[n], u[n])
      BY <1>0, <3>1 DEF Begins
    <3> QED
      BY <2>2, <3>1, <3>2
  <2>4. m - 1 \in 0..n /\ ~(m <= m - 1)
    BY <2>2, <2>3
  <2>5. PICK i : i = n - (m - 1)
    OBVIOUS
  <2>6. i \in 1..n /\ i - 1 = n - m /\ i \in 0..n /\ i - 1 \in 0..n
    BY <2>2, <2>3, <2>5
  <2>7. Begins(u[i], u[n])
    BY <2>2, <2>4, <2>5
  <2>8. u[i] = Cat(u[i - 1], w[i]) /\ w[i] \in Seq(Bytes)
    BY <2>6 DEF Joins, AreBytes
  <2>9. Begins(u[i - 1], u[i])
    BY <1>0, <2>6, <2>8, BeginsCat
  <2>10. n \in 0..n
    OBVIOUS
  <2>11. Begins(u[i - 1], u[n])
    BY <1>0, <2>6, <2>7, <2>9, <2>10, BeginsBegins
  <2> QED
    BY <2>2, <2>6, <2>11
<1>2. n - k \in 0..n /\ n - (n - k) = k
  OBVIOUS
<1> QED
  BY <1>1, <1>2

LEMMA SecondPart ==
    ASSUME NEW s \in Seq(Bytes), NEW t \in Seq(Bytes)
    PROVE  \A i \in 1..Len(t) : Cat(s, t)[Len(s) + i] = t[i]
<1>1. \A i \in 1..Len(t) : (s \o t)[Len(s) + i] = t[i]
  BY ConcatProperties
<1> QED
  BY <1>1 DEF Cat

\* b is between the first k and the rest of w's n strings.
IsPlace(b, u, w, n, k) ==
    /\ n \in Nat /\ k \in 0..n
    /\ Joins(u, w, n) /\ AreBytes(w, n)
    /\ InBounds(b) /\ b.data = u[n] /\ b.reader = Len(u[k])

LEMMA PlaceBounds ==
    ASSUME NEW u, NEW w, NEW n \in Nat, NEW k \in 0..n, Joins(u, w, n), AreBytes(w, n)
    PROVE  /\ u[k] \in Seq(Bytes) /\ Len(u[k]) \in Nat /\ Len(u[k]) <= Len(u[n])
           /\ k < n => /\ u[k + 1] = Cat(u[k], w[k + 1]) /\ w[k + 1] \in Seq(Bytes)
                       /\ Len(u[k + 1]) = Len(u[k]) + Len(w[k + 1])
<1>1. \A i \in 0..n : u[i] \in Seq(Bytes)
  BY JoinType
<1>2. u[k] \in Seq(Bytes)
  BY <1>1
<1>3. Len(u[k]) \in Nat
  BY <1>2, LenProperties
<1>4. Len(u[k]) <= Len(u[n])
  BY JoinGrows DEF Begins
<1>5. ASSUME k < n
      PROVE  /\ u[k + 1] = Cat(u[k], w[k + 1]) /\ w[k + 1] \in Seq(Bytes)
             /\ Len(u[k + 1]) = Len(u[k]) + Len(w[k + 1])
  <2>1. PICK i : i = k + 1
    OBVIOUS
  <2>2. i \in 1..n /\ i - 1 = k
    BY <1>5, <2>1
  <2>3. u[i] = Cat(u[k], w[i]) /\ w[i] \in Seq(Bytes)
    BY <2>2 DEF Joins, AreBytes
  <2>4. Len(u[i]) = Len(u[k]) + Len(w[i])
    BY <1>2, <2>3, CatType
  <2> QED
    BY <2>1, <2>3, <2>4
<1> QED
  BY <1>2, <1>3, <1>4, <1>5

\* The next string is there to be read.
LEMMA PlaceFollows ==
    ASSUME NEW b, NEW u, NEW w, NEW n, NEW k, IsPlace(b, u, w, n, k), k < n
    PROVE  Follows(b, w[k + 1])
<1>1. PICK i : i = k + 1
  OBVIOUS
<1>2. /\ n \in Nat /\ k \in 0..n /\ Joins(u, w, n) /\ AreBytes(w, n)
      /\ InBounds(b) /\ b.data = u[n] /\ b.reader = Len(u[k])
  BY DEF IsPlace
<1>3. i \in 0..n
  BY <1>1, <1>2
<1>4. PICK s : s = u[k]
  OBVIOUS
<1>5. PICK t : t = w[i]
  OBVIOUS
<1>6. /\ s \in Seq(Bytes) /\ t \in Seq(Bytes) /\ u[i] = Cat(s, t)
      /\ Len(u[i]) = Len(s) + Len(t) /\ Len(s) \in Nat /\ Len(t) \in Nat
  BY <1>1, <1>2, <1>4, <1>5, PlaceBounds, LenProperties
<1>7. Begins(u[i], u[n])
  BY <1>2, <1>3, JoinGrows
<1>8. b.capacity = Len(u[n]) /\ b.reader = Len(s)
  BY <1>2, <1>4 DEF InBounds
<1>9. Holds(b, Len(t))
  BY <1>6, <1>7, <1>8 DEF Holds, Begins
<1>10. ASSUME NEW j \in 1..Len(t) PROVE b.data[b.reader + j] = t[j]
  <2>1. PICK p : p = Len(s) + j
    OBVIOUS
  <2>2. p \in 1..Len(u[i])
    BY <1>6, <2>1
  <2>3. u[n][p] = u[i][p]
    BY <1>7, <2>2 DEF Begins
  <2>4. Cat(s, t)[Len(s) + j] = t[j]
    BY <1>6, SecondPart
  <2> QED
    BY <1>2, <1>6, <1>8, <2>1, <2>3, <2>4
<1> QED
  BY <1>1, <1>2, <1>5, <1>6, <1>9, <1>10 DEF Follows

LEMMA PlaceMoves ==
    ASSUME NEW b, NEW c, NEW u, NEW w, NEW n, NEW k
    PROVE  IsPlace(b, u, w, n, k) /\ k < n /\ IsBehind(c, b, Len(w[k + 1]))
               => IsPlace(c, u, w, n, k + 1)
<1> SUFFICES ASSUME IsPlace(b, u, w, n, k), k < n, IsBehind(c, b, Len(w[k + 1]))
             PROVE  IsPlace(c, u, w, n, k + 1)
  OBVIOUS
<1>1. /\ n \in Nat /\ k \in 0..n /\ Joins(u, w, n) /\ AreBytes(w, n)
      /\ InBounds(b) /\ b.data = u[n] /\ b.reader = Len(u[k])
  BY DEF IsPlace
<1>2. Len(u[k + 1]) = Len(u[k]) + Len(w[k + 1])
  BY <1>1, PlaceBounds
<1>3. k + 1 \in 0..n
  BY <1>1
<1>4. InBounds(c) /\ c.data = u[n] /\ c.reader = Len(u[k + 1])
  BY <1>1, <1>2 DEF IsBehind
<1> QED
  BY <1>1, <1>3, <1>4 DEF IsPlace
=============================================================================
