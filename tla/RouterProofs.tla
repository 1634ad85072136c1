------------------------------ MODULE RouterProofs ------------------------------
(***************************************************************************)
(* A routed request does what its caller meant, and its caller learns what *)
(* became of it: for all names, entries, values and tables of well-known   *)
(* types that the assumptions of Router and CompositeMetadata allow.       *)
(*                                                                         *)
(* The argument has two halves.  MetadataInv is about the buffer of a      *)
(* CompositeMetadata: as long as nothing was added behind an iteration,    *)
(* its bytes are those of the entries added, one behind the other, and its *)
(* reader is behind the entries that have been yielded (Between).  What    *)
(* NextEntry, AllEntries and Tags compute is recursion over the places of  *)
(* a buffer; WalkExists says that such a function exists, and what it is   *)
(* at the place behind k entries follows from what it is behind k + 1.     *)
(* CallInv is about a request: before it is handled nothing has happened,  *)
(* then it is refused, runs or has ended (Stages), and its metadata is the *)
(* stub's or the application's (Sources).  It says what ParseRouting finds *)
(* in them by what MetadataInv says of the bytes.                          *)
(***************************************************************************)
EXTENDS Router, ByteBuffersLemmas

-----------------------------------------------------------------------------
(* Reading entries: whatever the bytes are                                 *)

LEMMA EndsAhead ==
    ASSUME NEW a, NEW b, NEW c, InBounds(a), Ahead(a, b), Ahead(b, c), a.reader < b.reader
    PROVE  Ahead(a, c) /\ a.reader < c.reader
BY AheadOfAhead DEF Ahead, InBounds, Buffer

LEMMA ReadMimeAhead ==
    ASSUME NEW b, InBounds(b), IsReadable(b)
    PROVE  Ahead(b, ReadMime(b).rest) /\ b.reader < ReadMime(b).rest.reader
<1> DEFINE id == ReadNumber(b, 1)
           c == Skip(b, 1)
<1>1. Holds(b, 1) /\ b.reader \in Nat
  BY DEF Holds, IsReadable, InBounds, Buffer
<1>2. Ahead(b, c)
  BY SkipAhead
<1>3. b.reader < c.reader
  BY <1>1 DEF Skip, InBounds, Buffer
<1>4. id \in Bytes
  BY <1>1, HeldByteType
<1>5. InBounds(c) /\ id \in Nat
  BY <1>2, <1>4 DEF Ahead, Bytes
<1>6. Ahead(c, c) /\ Ahead(c, Skip(c, id))
  BY <1>5, AheadOfItself, SkipAhead
<1>7. ReadMime(b).rest \in {c, Skip(c, id)}
  BY DEF ReadMime
<1> HIDE DEF c, id
<1> QED
  BY <1>2, <1>3, <1>6, <1>7, EndsAhead

LEMMA ReadContentAhead ==
    ASSUME NEW b, InBounds(b)
    PROVE  Ahead(b, ReadContent(b).rest)
<1> DEFINE length == ReadNumber(b, 3)
           c == Skip(b, 3)
<1>1. Ahead(b, c)
  BY SkipAhead
<1>2. InBounds(c)
  BY <1>1 DEF Ahead
<1>3. CASE length \in {0, Undefined}
  BY <1>1, <1>3 DEF ReadContent
<1>4. CASE length \notin {0, Undefined}
  <2>1. length \in Nat
    BY <1>4, ReadNumberType
  <2>2. Ahead(c, Skip(c, length))
    BY <1>2, <2>1, SkipAhead
  <2>3. ReadContent(b).rest = Skip(c, length)
    BY <1>4 DEF ReadContent
  <2> QED
    BY <1>1, <2>2, <2>3, AheadOfAhead
<1> QED
  BY <1>3, <1>4

LEMMA ReadEntryAhead ==
    ASSUME NEW b, InBounds(b), IsReadable(b)
    PROVE  Ahead(b, ReadEntry(b).rest) /\ b.reader < ReadEntry(b).rest.reader
<1> DEFINE type == ReadMime(b)
<1>1. Ahead(b, type.rest) /\ b.reader < type.rest.reader
  BY ReadMimeAhead
<1>2. InBounds(type.rest)
  BY <1>1 DEF Ahead
<1>3. Ahead(type.rest, type.rest) /\ Ahead(type.rest, ReadContent(type.rest).rest)
  BY <1>2, AheadOfItself, ReadContentAhead
<1>4. ReadEntry(b).rest \in {type.rest, ReadContent(type.rest).rest}
  BY DEF ReadEntry, ReadTyped, EntryOf
<1> HIDE DEF type
<1> QED
  BY <1>1, <1>3, <1>4, EndsAhead

-----------------------------------------------------------------------------
(* Recursion over the places of a buffer                                   *)

\* A function that at each place up to n is a value, what it is further on, or
\* an element in front of that: w says which, and where it goes on.
Step(w, f, r) ==
    IF r \in w.stop THEN w.value[r]
    ELSE IF r \in w.through THEN f[w.next[r]]
    ELSE <<w.value[r]>> \o f[w.next[r]]
GoesOn(w, n) ==
    \A r \in 0..n : r \notin w.stop => w.next[r] \in Nat /\ r < w.next[r] /\ w.next[r] <= n

LEMMA StepsAgree ==
    ASSUME NEW w, NEW n \in Nat, GoesOn(w, n), NEW f, NEW g, NEW r \in 0..n,
           \A q \in 0..n : r < q => f[q] = g[q]
    PROVE  Step(w, f, r) = Step(w, g, r)
<1>1. CASE r \in w.stop
  BY <1>1 DEF Step
<1>2. CASE r \notin w.stop
  <2>1. w.next[r] \in 0..n /\ r < w.next[r]
    BY <1>2 DEF GoesOn
  <2>2. f[w.next[r]] = g[w.next[r]]
    BY <2>1
  <2> QED
    BY <1>2, <2>2 DEF Step
<1> QED
  BY <1>1, <1>2

LEMMA WalkExists ==
    ASSUME NEW w, NEW n \in Nat, GoesOn(w, n)
    PROVE  \E f : f = [r \in 0..n |-> Step(w, f, r)]
<1> DEFINE Walks(f, m) == \A r \in 0..n : r >= n + 1 - m => f[r] = Step(w, f, r)
           Wrong == {m \in 0..(n + 1) : ~\E f : Walks(f, m)}
<1>1. ASSUME Wrong # {} PROVE FALSE
  <2>1. Wrong \subseteq Nat
    OBVIOUS
  <2>2. PICK m \in Wrong : \A k \in Wrong : m <= k
    BY <1>1, <2>1, Smallest
  <2>3. m # 0
    <3>1. \A f : Walks(f, 0)
      OBVIOUS
    <3> QED
      BY <2>2, <3>1
  <2>4. m - 1 \in 0..(n + 1) /\ ~(m <= m - 1) /\ m \in 0..(n + 1)
    BY <2>2, <2>3
  <2>5. PICK g : Walks(g, m - 1)
    BY <2>2, <2>4
  <2>6. PICK lo : lo = n + 1 - m
    OBVIOUS
  <2>7. lo \in 0..n /\ \A r \in 0..n : r >= n + 1 - (m - 1) <=> lo < r
    BY <2>3, <2>4, <2>6
  <2>8. PICK f : f = [r \in 0..n |-> IF r = lo THEN Step(w, g, lo) ELSE g[r]]
    OBVIOUS
  <2>9. \A q \in 0..n : lo < q => f[q] = g[q]
    BY <2>7, <2>8
  <2>10. ASSUME NEW r \in 0..n, lo <= r PROVE f[r] = Step(w, f, r)
    <3>1. \A q \in 0..n : r < q => f[q] = g[q]
      BY <2>7, <2>9, <2>10
    <3>2. Step(w, f, r) = Step(w, g, r)
      BY <3>1, StepsAgree
    <3>3. CASE r = lo
      BY <2>7, <2>8, <3>2, <3>3
    <3>4. CASE r # lo
      <4>1. lo < r
        BY <2>7, <2>10, <3>4
      <4>2. g[r] = Step(w, g, r)
        BY <2>5, <2>7, <4>1
      <4> QED
        BY <2>9, <3>2, <4>1, <4>2
    <3> QED
      BY <3>3, <3>4
  <2>11. \A r \in 0..n : r >= n + 1 - m => lo <= r
    BY <2>6
  <2>12. Walks(f, m)
    BY <2>10, <2>11
  <2> QED
    BY <2>2, <2>12
<1>2. n + 1 \in 0..(n + 1)
  OBVIOUS
<1>3. PICK g : Walks(g, n + 1)
  BY <1>1, <1>2
<1>4. PICK f : f = [r \in 0..n |-> g[r]]
  OBVIOUS
<1>5. ASSUME NEW r \in 0..n PROVE f[r] = Step(w, f, r)
  <2>1. g[r] = Step(w, g, r)
    BY <1>3
  <2>2. \A q \in 0..n : r < q => f[q] = g[q]
    BY <1>4
  <2>3. Step(w, f, r) = Step(w, g, r)
    BY <2>2, StepsAgree
  <2> QED
    BY <1>4, <2>1, <2>3
<1>6. f = [r \in 0..n |-> Step(w, f, r)]
  BY <1>4, <1>5
<1> QED
  BY <1>6

-----------------------------------------------------------------------------
(* Generators                                                              *)

At(b, r) == [b EXCEPT !.reader = r]

LEMMA AtType ==
    ASSUME NEW b, InBounds(b), NEW r \in 0..b.capacity
    PROVE  /\ InBounds(At(b, r)) /\ At(b, r).reader = r
           /\ At(b, r).data = b.data /\ At(b, r).capacity = b.capacity
           /\ IsReadable(At(b, r)) <=> r < b.capacity
BY DEF At, InBounds, Buffer, IsReadable

LEMMA TurnGoesOn ==
    ASSUME NEW b, InBounds(b), NEW r \in 0..b.capacity, IsReadable(At(b, r))
    PROVE  /\ InBounds(ReadEntry(At(b, r)).rest)
           /\ ReadEntry(At(b, r)).rest.reader \in Nat
           /\ r < ReadEntry(At(b, r)).rest.reader
           /\ ReadEntry(At(b, r)).rest.reader <= b.capacity
<1>1. PICK a : a = At(b, r)
  OBVIOUS
<1>2. InBounds(a) /\ IsReadable(a) /\ a.reader = r /\ a.capacity = b.capacity
  BY <1>1, AtType
<1>3. Ahead(a, ReadEntry(a).rest) /\ r < ReadEntry(a).rest.reader
  BY <1>2, ReadEntryAhead
<1> QED
  BY <1>1, <1>2, <1>3 DEF Ahead, InBounds, Buffer

\* What NextEntry and AllEntries are at each place of a buffer.
NextWalk(f, b) ==
    \A r \in 0..b.capacity :
        f[r] = IF ~IsReadable(At(b, r)) THEN [entry |-> Undefined, rest |-> At(b, r)]
               ELSE IF ReadEntry(At(b, r)).entry # Undefined THEN ReadEntry(At(b, r))
               ELSE f[ReadEntry(At(b, r)).rest.reader]
AllWalk(f, b) ==
    \A r \in 0..b.capacity :
        f[r] = IF ~IsReadable(At(b, r)) THEN <<>>
               ELSE IF ReadEntry(At(b, r)).entry = Undefined
                    THEN f[ReadEntry(At(b, r)).rest.reader]
               ELSE <<ReadEntry(At(b, r)).entry>> \o f[ReadEntry(At(b, r)).rest.reader]

LEMMA NextEntryIs ==
    ASSUME NEW b, InBounds(b)
    PROVE  \E f : NextWalk(f, b) /\ NextEntry(b) = f[b.reader]
<1> DEFINE from == CHOOSE from :
               from = [r \in 0..b.capacity |->
                   IF ~IsReadable([b EXCEPT !.reader = r])
                   THEN [entry |-> Undefined, rest |-> [b EXCEPT !.reader = r]]
                   ELSE IF ReadEntry([b EXCEPT !.reader = r]).entry # Undefined
                   THEN ReadEntry([b EXCEPT !.reader = r])
                   ELSE from[ReadEntry([b EXCEPT !.reader = r]).rest.reader]]
<1>1. NextEntry(b) = from[b.reader]
  BY DEF NextEntry
<1>2. PICK n : n = b.capacity /\ n \in Nat
  BY DEF InBounds, Buffer
<1>3. PICK value : value = [r \in 0..n |->
          IF ~IsReadable(At(b, r)) THEN [entry |-> Undefined, rest |-> At(b, r)]
          ELSE ReadEntry(At(b, r))]
  OBVIOUS
<1>4. PICK next : next = [r \in 0..n |-> ReadEntry(At(b, r)).rest.reader]
  OBVIOUS
<1>5. PICK stop : stop =
          {r \in 0..n : ~IsReadable(At(b, r)) \/ ReadEntry(At(b, r)).entry # Undefined}
  OBVIOUS
<1>6. PICK w : w = [stop |-> stop, through |-> 0..n, value |-> value, next |-> next]
  OBVIOUS
<1>7. GoesOn(w, n)
  <2> SUFFICES ASSUME NEW r \in 0..n, r \notin stop
               PROVE  next[r] \in Nat /\ r < next[r] /\ next[r] <= n
    BY <1>6 DEF GoesOn
  <2> QED
    BY <1>2, <1>4, <1>5, TurnGoesOn
<1>8. PICK f : f = [r \in 0..n |-> Step(w, f, r)]
  BY <1>2, <1>7, WalkExists
<1>9. ASSUME NEW r \in 0..n
      PROVE  Step(w, f, r) =
               IF ~IsReadable(At(b, r)) THEN [entry |-> Undefined, rest |-> At(b, r)]
               ELSE IF ReadEntry(At(b, r)).entry # Undefined THEN ReadEntry(At(b, r))
               ELSE f[ReadEntry(At(b, r)).rest.reader]
  <2>1. w.stop = stop /\ w.through = 0..n /\ w.value = value /\ w.next = next
    BY <1>6
  <2>2. Step(w, f, r) = IF r \in stop THEN value[r] ELSE f[next[r]]
    BY <2>1 DEF Step
  <2> QED
    BY <1>3, <1>4, <1>5, <2>2
<1>10. f = [r \in 0..b.capacity |->
                   IF ~IsReadable([b EXCEPT !.reader = r])
                   THEN [entry |-> Undefined, rest |-> [b EXCEPT !.reader = r]]
                   ELSE IF ReadEntry([b EXCEPT !.reader = r]).entry # Undefined
                   THEN ReadEntry([b EXCEPT !.reader = r])
                   ELSE f[ReadEntry([b EXCEPT !.reader = r]).rest.reader]]
  BY <1>2, <1>8, <1>9 DEF At
<1>11. from = [r \in 0..b.capacity |->
                   IF ~IsReadable([b EXCEPT !.reader = r])
                   THEN [entry |-> Undefined, rest |-> [b EXCEPT !.reader = r]]
                   ELSE IF ReadEntry([b EXCEPT !.reader = r]).entry # Undefined
                   THEN ReadEntry([b EXCEPT !.reader = r])
                   ELSE from[ReadEntry([b EXCEPT !.reader = r]).rest.reader]]
  BY <1>10
<1> HIDE DEF from
<1>12. PICK g : g = from
  OBVIOUS
<1>13. NextWalk(g, b)
  BY <1>11, <1>12 DEF NextWalk, At
<1> QED
  BY <1>1, <1>12, <1>13

LEMMA AllEntriesIs ==
    ASSUME NEW b, InBounds(b)
    PROVE  \E f : AllWalk(f, b) /\ AllEntries(b) = f[b.reader]
<1> DEFINE from == CHOOSE from :
               from = [r \in 0..b.capacity |->
                   IF ~IsReadable([b EXCEPT !.reader = r]) THEN <<>>
                   ELSE IF ReadEntry([b EXCEPT !.reader = r]).entry = Undefined
                   THEN from[ReadEntry([b EXCEPT !.reader = r]).rest.reader]
                   ELSE <<ReadEntry([b EXCEPT !.reader = r]).entry>>
                        \o from[ReadEntry([b EXCEPT !.reader = r]).rest.reader]]
<1>1. AllEntries(b) = from[b.reader]
  <2>1. ResetReaderIndex(b).reader = b.reader
    BY DEF ResetReaderIndex, InBounds, Buffer
  <2> QED
    BY <2>1 DEF AllEntries
<1>2. PICK n : n = b.capacity /\ n \in Nat
  BY DEF InBounds, Buffer
<1>3. PICK value : value = [r \in 0..n |->
          IF ~IsReadable(At(b, r)) THEN <<>> ELSE ReadEntry(At(b, r)).entry]
  OBVIOUS
<1>4. PICK next : next = [r \in 0..n |-> ReadEntry(At(b, r)).rest.reader]
  OBVIOUS
<1>5. PICK stop : stop = {r \in 0..n : ~IsReadable(At(b, r))}
  OBVIOUS
<1>6. PICK through : through = {r \in 0..n : ReadEntry(At(b, r)).entry = Undefined}
  OBVIOUS
<1>7. PICK w : w = [stop |-> stop, through |-> through, value |-> value, next |-> next]
  OBVIOUS
<1>8. GoesOn(w, n)
  <2> SUFFICES ASSUME NEW r \in 0..n, r \notin stop
               PROVE  next[r] \in Nat /\ r < next[r] /\ next[r] <= n
    BY <1>7 DEF GoesOn
  <2> QED
    BY <1>2, <1>4, <1>5, TurnGoesOn
<1>9. PICK f : f = [r \in 0..n |-> Step(w, f, r)]
  BY <1>2, <1>8, WalkExists
<1>10. ASSUME NEW r \in 0..n
      PROVE  Step(w, f, r) =
               IF ~IsReadable(At(b, r)) THEN <<>>
               ELSE IF ReadEntry(At(b, r)).entry = Undefined
                    THEN f[ReadEntry(At(b, r)).rest.reader]
               ELSE <<ReadEntry(At(b, r)).entry>> \o f[ReadEntry(At(b, r)).rest.reader]
  <2>1. w.stop = stop /\ w.through = through /\ w.value = value /\ w.next = next
    BY <1>7
  <2>2. Step(w, f, r) = IF r \in stop THEN value[r]
                        ELSE IF r \in through THEN f[next[r]] ELSE <<value[r]>> \o f[next[r]]
    BY <2>1 DEF Step
  <2> QED
    BY <1>3, <1>4, <1>5, <1>6, <2>2
<1>11. f = [r \in 0..b.capacity |->
                   IF ~IsReadable([b EXCEPT !.reader = r]) THEN <<>>
                   ELSE IF ReadEntry([b EXCEPT !.reader = r]).entry = Undefined
                   THEN f[ReadEntry([b EXCEPT !.reader = r]).rest.reader]
                   ELSE <<ReadEntry([b EXCEPT !.reader = r]).entry>>
                        \o f[ReadEntry([b EXCEPT !.reader = r]).rest.reader]]
  BY <1>2, <1>9, <1>10 DEF At
<1>12. from = [r \in 0..b.capacity |->
                   IF ~IsReadable([b EXCEPT !.reader = r]) THEN <<>>
                   ELSE IF ReadEntry([b EXCEPT !.reader = r]).entry = Undefined
                   THEN from[ReadEntry([b EXCEPT !.reader = r]).rest.reader]
                   ELSE <<ReadEntry([b EXCEPT !.reader = r]).entry>>
                        \o from[ReadEntry([b EXCEPT !.reader = r]).rest.reader]]
  BY <1>11
<1> HIDE DEF from
<1>13. PICK g : g = from
  OBVIOUS
<1>14. AllWalk(g, b)
  BY <1>12, <1>13 DEF AllWalk, At
<1> QED
  BY <1>1, <1>13, <1>14

-----------------------------------------------------------------------------
(* An entry that was added is read as it was                               *)

LEMMA EntryTypes ==
    ASSUME NEW e, Addable(e)
    PROVE  /\ e.mime \in Seq(Bytes) /\ e.mime # <<>> /\ Len(e.mime) \in 1..127
           /\ e.content \in Seq(Bytes) /\ Len(e.content) \in Nat /\ Fits(Len(e.content), 3)
           /\ e = [mime |-> e.mime, content |-> e.content]
           /\ e # Undefined /\ e.mime # Undefined /\ e.content # Undefined
<1>1. e \in [mime : Names, content : Seq(Bytes)] /\ Len(e.mime) < 128 /\ Fits(Len(e.content), 3)
  BY DEF Addable, Entry
<1>2. e.mime \in Seq(Bytes) /\ e.mime # <<>> /\ e.content \in Seq(Bytes)
  BY <1>1 DEF Names
<1>3. Len(e.mime) \in Nat /\ Len(e.mime) # 0 /\ Len(e.content) \in Nat
  BY <1>2, EmptySeq, LenProperties
<1>4. e = [mime |-> e.mime, content |-> e.content]
  BY <1>1
<1>5. e # Undefined
  BY UndefinedIsNoEntry DEF Addable
<1>6. e.mime # Undefined /\ e.content # Undefined
  BY <1>2, UndefinedIsNoSequence
<1>7. Len(e.mime) \in 1..127
  <2>1. PICK n : n = Len(e.mime)
    OBVIOUS
  <2>2. n \in Nat /\ n # 0 /\ n < 128
    BY <1>1, <1>3, <2>1
  <2>3. n \in 1..127
    BY ONLY <2>2
  <2> QED
    BY <2>1, <2>3
<1>8. Fits(Len(e.content), 3)
  BY <1>1
<1> QED
  BY <1>2, <1>3, <1>4, <1>5, <1>6, <1>7, <1>8

\* The length of a content, and the content.
ContentBytes(content) == Cat(ToByteArray(Len(content), 3), content)

LEMMA ContentBytesType ==
    ASSUME NEW content \in Seq(Bytes)
    PROVE  /\ ContentBytes(content) \in Seq(Bytes)
           /\ Len(ContentBytes(content)) = 3 + Len(content)
           /\ Len(content) \in Nat
<1>1. Len(content) \in Nat
  OBVIOUS
<1>2. PICK s : s = ToByteArray(Len(content), 3)
  OBVIOUS
<1>3. s \in Seq(Bytes) /\ Len(s) = 3
  BY <1>1, <1>2, ToByteArrayType
<1>4. ContentBytes(content) = Cat(s, content)
  BY <1>2 DEF ContentBytes
<1> QED
  BY <1>1, <1>3, <1>4, CatType

LEMMA ReadsContent ==
    ASSUME NEW b, NEW content \in Seq(Bytes), Fits(Len(content), 3),
           Follows(b, ContentBytes(content))
    PROVE  /\ ReadContent(b).content = (IF content = <<>> THEN Undefined ELSE content)
           /\ IsBehind(ReadContent(b).rest, b, 3 + Len(content))
<1>1. PICK n : n = Len(content) /\ n \in Nat
  OBVIOUS
<1>2. Shows(b, n, 3, content)
  BY <1>1 DEF Shows, ContentBytes
<1>3. IsRead(b, n, 3, content)
  BY <1>2, ReadsOn
<1>4. PICK c : c = Skip(b, 3)
  OBVIOUS
<1>5. ReadNumber(b, 3) = n /\ Follows(c, content) /\ IsBehind(c, b, 3)
  BY <1>3, <1>4 DEF IsRead
<1>6. n # Undefined
  BY <1>1, UndefinedAssumption
<1>7. InBounds(b)
  BY FollowsBounds
<1>8. CASE n = 0
  <2>1. content = <<>>
    BY <1>1, <1>8, EmptySeq
  <2>2. ReadContent(b) = [content |-> Undefined, rest |-> c]
    BY <1>4, <1>5, <1>8 DEF ReadContent
  <2>3. 3 + Len(content) = 3
    BY <1>1, <1>8
  <2> QED
    BY <1>5, <2>1, <2>2, <2>3
<1>9. CASE n # 0
  <2>1. content # <<>>
    BY <1>1, <1>9
  <2>2. ReadContent(b) = [content |-> ReadBytes(c, n), rest |-> Skip(c, n)]
    BY <1>4, <1>5, <1>6, <1>9 DEF ReadContent
  <2>3. ReadBytes(c, n) = content
    BY <1>1, <1>5, ReadsBytes
  <2>4. IsBehind(Skip(c, n), c, n)
    BY <1>1, <1>5, SkipBehind
  <2>5. IsBehind(Skip(c, n), b, 3 + n)
    BY <1>1, <1>5, <1>7, <2>4, BehindBehind
  <2> QED
    BY <1>1, <2>1, <2>2, <2>3, <2>5
<1> QED
  BY <1>8, <1>9

\* What stands for the type of an entry.
MimeBytes(mime) ==
    IF mime \in DOMAIN WellKnown THEN One(WellKnown[mime] + 128) ELSE Cat(One(Len(mime)), mime)

LEMMA MimeBytesType ==
    ASSUME NEW e, Addable(e)
    PROVE  MimeBytes(e.mime) \in Seq(Bytes) /\ Len(MimeBytes(e.mime)) \in Nat
<1>1. CASE e.mime \in DOMAIN WellKnown
  <2>1. WellKnown[e.mime] \in 0..127
    BY <1>1, WellKnownAssumption
  <2>2. WellKnown[e.mime] + 128 \in Bytes
    BY <2>1 DEF Bytes
  <2>3. MimeBytes(e.mime) = One(WellKnown[e.mime] + 128)
    BY <1>1 DEF MimeBytes
  <2> QED
    BY <2>2, <2>3, OneBytes DEF IsBytes
<1>2. CASE e.mime \notin DOMAIN WellKnown
  <2>1. Len(e.mime) \in Bytes /\ e.mime \in Seq(Bytes)
    BY EntryTypes DEF Bytes
  <2>2. PICK s : s = One(Len(e.mime))
    OBVIOUS
  <2>3. s \in Seq(Bytes)
    BY <2>1, <2>2, OneBytes DEF IsBytes
  <2>4. MimeBytes(e.mime) = Cat(s, e.mime)
    BY <1>2, <2>2 DEF MimeBytes
  <2>5. Cat(s, e.mime) \in Seq(Bytes)
    BY <2>1, <2>3, CatType
  <2> QED
    BY <2>4, <2>5
<1> QED
  BY <1>1, <1>2

LEMMA EntryBytesIs ==
    ASSUME NEW e, Addable(e)
    PROVE  /\ EntryBytes(e) = Cat(MimeBytes(e.mime), ContentBytes(e.content))
           /\ EntryBytes(e) \in Seq(Bytes)
<1>1. PICK n : n = ToByteArray(Len(e.content), 3)
  OBVIOUS
<1>2. PICK c : c = e.content
  OBVIOUS
<1>3. n \in Seq(Bytes) /\ c \in Seq(Bytes)
  BY <1>1, <1>2, EntryTypes, ToByteArrayType
<1>4. PICK m : m = MimeBytes(e.mime)
  OBVIOUS
<1>5. m \in Seq(Bytes)
  BY <1>4, MimeBytesType
<1>6. EntryBytes(e) = Cat(Cat(m, n), c)
  BY <1>1, <1>2, <1>4 DEF EntryBytes, WellKnownBytes, ExplicitBytes, MimeBytes, Cat, One
<1>7. EntryBytes(e) = Cat(m, Cat(n, c))
  BY <1>3, <1>5, <1>6, CatAgain
<1>8. Cat(n, c) \in Seq(Bytes) /\ Cat(m, Cat(n, c)) \in Seq(Bytes)
  BY <1>3, <1>5, CatType
<1> QED
  BY <1>1, <1>2, <1>4, <1>7, <1>8 DEF ContentBytes

LEMMA IdentifierIs ==
    ASSUME NEW mime \in DOMAIN WellKnown
    PROVE  FromIdentifier(WellKnown[mime]) = mime
<1>1. \A name \in DOMAIN WellKnown : WellKnown[name] = WellKnown[mime] => name = mime
  BY WellKnownAssumption DEF IsInjective
<1> QED
  BY <1>1 DEF FromIdentifier

LEMMA ReadsMime ==
    ASSUME NEW e, Addable(e), NEW b, NEW t \in Seq(Bytes), Follows(b, Cat(MimeBytes(e.mime), t))
    PROVE  /\ ReadMime(b).mime = e.mime
           /\ Follows(ReadMime(b).rest, t)
           /\ IsBehind(ReadMime(b).rest, b, Len(MimeBytes(e.mime)))
<1>1. PICK m : m = e.mime
  OBVIOUS
<1>2. m \in Seq(Bytes) /\ Len(m) \in 1..127
  BY <1>1, EntryTypes
<1>3. CASE m \in DOMAIN WellKnown
  <2>0. PICK known : known = WellKnown[m]
    OBVIOUS
  <2>1. PICK id : id = known + 128
    OBVIOUS
  <2>2. known \in 0..127
    BY <1>3, <2>0, WellKnownAssumption
  <2>3. id \in Bytes /\ id # 0 /\ id >= 128 /\ id - 128 = known
    BY ONLY <2>1, <2>2 DEF Bytes
  <2>4. MimeBytes(m) = One(id)
    BY <1>3, <2>0, <2>1 DEF MimeBytes
  <2>5. Follows(b, Cat(One(id), t))
    BY <1>1, <2>4
  <2>6. ReadNumber(b, 1) = id /\ Follows(Skip(b, 1), t) /\ IsBehind(Skip(b, 1), b, 1)
    BY <2>3, <2>5, ReadsByteOn
  <2>7. ReadMime(b) = [mime |-> FromIdentifier(id - 128), rest |-> Skip(b, 1)]
    BY <2>3, <2>6 DEF ReadMime
  <2>8. FromIdentifier(id - 128) = m
    BY <1>3, <2>0, <2>3, IdentifierIs
  <2>9. Len(One(id)) = 1
    BY <2>3, OneBytes DEF IsBytes
  <2> QED
    BY <1>1, <2>4, <2>6, <2>7, <2>8, <2>9
<1>4. CASE m \notin DOMAIN WellKnown
  <2>1. PICK id : id = Len(m)
    OBVIOUS
  <2>0. id \in 1..127
    BY <1>2, <2>1
  <2>2. id \in Bytes /\ id # 0 /\ ~(id >= 128) /\ id \in Nat
    BY ONLY <2>0 DEF Bytes
  <2>3. PICK s : s = One(id)
    OBVIOUS
  <2>4. s \in Seq(Bytes) /\ Len(s) = 1
    BY <2>2, <2>3, OneBytes DEF IsBytes
  <2>5. MimeBytes(m) = Cat(s, m)
    BY <1>4, <2>1, <2>3 DEF MimeBytes
  <2>6. PICK rest : rest = Cat(m, t)
    OBVIOUS
  <2>7. rest \in Seq(Bytes)
    BY <1>2, <2>6, CatType
  <2>8. Cat(MimeBytes(m), t) = Cat(s, rest)
    BY <1>2, <2>4, <2>5, <2>6, CatAgain
  <2>9. Follows(b, Cat(One(id), rest))
    BY <1>1, <2>3, <2>8
  <2>10. PICK c : c = Skip(b, 1)
    OBVIOUS
  <2>11. ReadNumber(b, 1) = id /\ Follows(c, rest) /\ IsBehind(c, b, 1)
    BY <2>2, <2>7, <2>9, <2>10, ReadsByteOn
  <2>12. Follows(c, m) /\ Follows(Skip(c, id), t) /\ IsBehind(Skip(c, id), c, id)
    BY <1>2, <2>1, <2>6, <2>11, FollowsCat
  <2>13. ReadBytes(c, id) = m
    BY <2>1, <2>12, ReadsBytes
  <2>14. ReadMime(b) = [mime |-> m, rest |-> Skip(c, id)]
    BY <2>2, <2>10, <2>11, <2>13 DEF ReadMime
  <2>15. IsBehind(Skip(c, id), b, 1 + id)
    BY <2>2, <2>11, <2>12, FollowsBounds, BehindBehind
  <2>16. Len(MimeBytes(m)) = 1 + id
    BY <1>2, <2>1, <2>4, <2>5, CatType
  <2> QED
    BY <1>1, <2>12, <2>14, <2>15, <2>16
<1> QED
  BY <1>3, <1>4

LEMMA ReadsEntry ==
    ASSUME NEW e, Addable(e), NEW b, Follows(b, EntryBytes(e))
    PROVE  /\ ReadEntry(b).entry = (IF e.content = <<>> THEN Undefined ELSE e)
           /\ IsBehind(ReadEntry(b).rest, b, Len(EntryBytes(e)))
<1>1. PICK m : m = MimeBytes(e.mime)
  OBVIOUS
<1>2. PICK t : t = ContentBytes(e.content)
  OBVIOUS
<1>3. m \in Seq(Bytes) /\ Len(m) \in Nat /\ t \in Seq(Bytes) /\ EntryBytes(e) = Cat(m, t)
  BY <1>1, <1>2, MimeBytesType, EntryTypes, ContentBytesType, EntryBytesIs
<1>4. Len(EntryBytes(e)) = Len(m) + Len(t) /\ Len(t) = 3 + Len(e.content) /\ Len(t) \in Nat
  <2>1. Len(EntryBytes(e)) = Len(m) + Len(t)
    BY <1>3, CatType
  <2>2. Len(t) = 3 + Len(e.content)
    BY <1>2, EntryTypes, ContentBytesType
  <2> QED
    BY <1>3, <2>1, <2>2
<1>5. PICK type : type = ReadMime(b)
  OBVIOUS
<1>6. type.mime = e.mime /\ Follows(type.rest, t) /\ IsBehind(type.rest, b, Len(m))
  BY <1>1, <1>3, <1>5, ReadsMime
<1>7. PICK data : data = ReadContent(type.rest)
  OBVIOUS
<1>8. /\ data.content = (IF e.content = <<>> THEN Undefined ELSE e.content)
      /\ IsBehind(data.rest, type.rest, Len(t))
  BY <1>2, <1>4, <1>6, <1>7, EntryTypes, ReadsContent
<1>9. IsBehind(data.rest, b, Len(m) + Len(t))
  BY <1>3, <1>4, <1>6, <1>8, FollowsBounds, BehindBehind
<1>10. ReadEntry(b) = EntryOf(e.mime, data)
  BY <1>5, <1>6, <1>7, EntryTypes DEF ReadEntry, ReadTyped
<1>11. ReadEntry(b).rest = data.rest
  BY <1>10 DEF EntryOf
<1>12. ReadEntry(b).entry = IF data.content = Undefined THEN Undefined
                            ELSE [mime |-> e.mime, content |-> data.content]
  BY <1>10 DEF EntryOf
<1>13. ReadEntry(b).entry = (IF e.content = <<>> THEN Undefined ELSE e)
  BY <1>8, <1>12, EntryTypes
<1> QED
  BY <1>4, <1>9, <1>11, <1>13

-----------------------------------------------------------------------------
(* Entries one behind the other                                            *)

Coded(es) == [i \in 1..Len(es) |-> EntryBytes(es[i])]
AreAddable(es) == Len(es) \in Nat /\ \A i \in 1..Len(es) : Addable(es[i])

\* b's data is the bytes of the entries es, u what the first of them make.
IsCodeOf(b, es, u) ==
    InBounds(b) /\ AreAddable(es) /\ Joins(u, Coded(es), Len(es)) /\ b.data = u[Len(es)]

LEMMA CodedType ==
    ASSUME NEW es, AreAddable(es)
    PROVE  AreBytes(Coded(es), Len(es))
<1> SUFFICES ASSUME NEW i \in 1..Len(es) PROVE Coded(es)[i] \in Seq(Bytes)
  BY DEF AreBytes
<1>1. Coded(es)[i] = EntryBytes(es[i])
  BY DEF Coded
<1>2. Addable(es[i])
  BY DEF AreAddable
<1> QED
  BY <1>1, <1>2, EntryBytesIs

\* What a turn of a generator makes of an entry.
LEMMA TurnAtPlace ==
    ASSUME NEW b, NEW es, NEW u, IsCodeOf(b, es, u), NEW k \in 0..Len(es), k < Len(es),
           NEW r, r = Len(u[k])
    PROVE  /\ r \in 0..b.capacity /\ IsReadable(At(b, r))
           /\ ReadEntry(At(b, r)).entry = IF es[k + 1].content = <<>> THEN Undefined ELSE es[k + 1]
           /\ ReadEntry(At(b, r)).rest.reader = Len(u[k + 1])
           /\ InBounds(ReadEntry(At(b, r)).rest) /\ ReadEntry(At(b, r)).rest.data = b.data
<1>1. PICK n : n = Len(es)
  OBVIOUS
<1>2. PICK w : w = Coded(es)
  OBVIOUS
<1>3. /\ n \in Nat /\ k \in 0..n /\ k < n /\ Joins(u, w, n) /\ AreBytes(w, n)
      /\ InBounds(b) /\ b.data = u[n]
  BY <1>1, <1>2, CodedType DEF IsCodeOf, AreAddable
<1>4. /\ Len(u[k]) \in Nat /\ Len(u[k]) <= Len(u[n]) /\ w[k + 1] \in Seq(Bytes)
      /\ Len(u[k + 1]) = Len(u[k]) + Len(w[k + 1])
  BY <1>3, PlaceBounds
<1>5. b.capacity = Len(u[n]) /\ b.capacity \in Nat
  BY <1>3 DEF InBounds, Buffer
<1>6. r \in 0..b.capacity
  BY <1>4, <1>5
<1>7. PICK a : a = At(b, r)
  OBVIOUS
<1>8. /\ InBounds(a) /\ a.reader = r /\ a.data = b.data /\ a.capacity = b.capacity
      /\ IsReadable(a) <=> r < b.capacity
  BY <1>3, <1>6, <1>7, AtType
<1>9. IsPlace(a, u, w, n, k)
  BY <1>3, <1>8 DEF IsPlace
<1>10. PICK e : e = es[k + 1]
  OBVIOUS
<1>11. k + 1 \in 1..n
  BY <1>3
<1>12. Addable(e) /\ w[k + 1] = EntryBytes(e)
  BY <1>1, <1>2, <1>10, <1>11 DEF IsCodeOf, AreAddable, Coded
<1>13. Follows(a, EntryBytes(e))
  BY <1>3, <1>9, <1>12, PlaceFollows
<1>14. /\ ReadEntry(a).entry = (IF e.content = <<>> THEN Undefined ELSE e)
       /\ IsBehind(ReadEntry(a).rest, a, Len(EntryBytes(e)))
  BY <1>12, <1>13, ReadsEntry
<1>15. IsPlace(ReadEntry(a).rest, u, w, n, k + 1)
  BY <1>3, <1>9, <1>12, <1>14, PlaceMoves
<1>16. /\ ReadEntry(a).rest.reader = Len(u[k + 1])
       /\ InBounds(ReadEntry(a).rest) /\ ReadEntry(a).rest.data = b.data
  BY <1>8, <1>14, <1>15 DEF IsPlace, IsBehind
<1>17. Len(EntryBytes(e)) \in Nat /\ Len(EntryBytes(e)) >= 3
  <2>1. PICK m : m = MimeBytes(e.mime)
    OBVIOUS
  <2>2. PICK t : t = ContentBytes(e.content)
    OBVIOUS
  <2>3. m \in Seq(Bytes) /\ Len(m) \in Nat /\ t \in Seq(Bytes) /\ EntryBytes(e) = Cat(m, t)
    BY <1>12, <2>1, <2>2, MimeBytesType, EntryTypes, ContentBytesType, EntryBytesIs
  <2>4. Len(Cat(m, t)) = Len(m) + Len(t)
    BY <2>3, CatType
  <2>5. Len(t) = 3 + Len(e.content) /\ Len(e.content) \in Nat
    BY <1>12, <2>2, EntryTypes, ContentBytesType
  <2> QED
    BY <2>3, <2>4, <2>5
<1>18. r < b.capacity
  <2>1. Holds(a, Len(EntryBytes(e)))
    BY <1>13 DEF Follows
  <2> QED
    BY <1>4, <1>6, <1>8, <1>17, <2>1, <1>5 DEF Holds
<1> QED
  BY <1>6, <1>7, <1>8, <1>10, <1>14, <1>16, <1>18

\* Behind the last entry there is nothing to read.
LEMMA LastPlace ==
    ASSUME NEW b, NEW es, NEW u, IsCodeOf(b, es, u)
    PROVE  Len(u[Len(es)]) = b.capacity /\ b.capacity \in 0..b.capacity
           /\ ~IsReadable(At(b, b.capacity))
<1>1. InBounds(b) /\ b.data = u[Len(es)]
  BY DEF IsCodeOf
<1>2. b.capacity = Len(u[Len(es)]) /\ b.capacity \in Nat
  BY <1>1 DEF InBounds, Buffer
<1>3. b.capacity \in 0..b.capacity
  BY <1>2
<1>4. ~(b.capacity < b.capacity)
  BY <1>2
<1> QED
  BY <1>1, <1>2, <1>3, <1>4, AtType

-----------------------------------------------------------------------------
(* The entries that have content                                           *)

\* f[i] is what NonEmpty leaves of the first i entries.
Keeps(f, es) ==
    /\ f[0] = <<>>
    /\ \A i \in 1..Len(es) :
          f[i] = IF es[i].content = <<>> THEN f[i - 1] ELSE Append(f[i - 1], es[i])

LEMMA KeepsExists ==
    ASSUME NEW es, Len(es) \in Nat
    PROVE  \E f : /\ DOMAIN f = 0..Len(es)
                  /\ f = [i \in 0..Len(es) |-> f[i]]
                  /\ Keeps(f, es)
<1>1. PICK n : n = Len(es) /\ n \in Nat
  OBVIOUS
<1> DEFINE Until(f, m) ==
               /\ f[0] = <<>>
               /\ \A i \in 1..m :
                     f[i] = IF es[i].content = <<>> THEN f[i - 1] ELSE Append(f[i - 1], es[i])
           Wrong == {m \in 0..n : ~\E f : Until(f, m)}
<1>2. ASSUME Wrong # {} PROVE FALSE
  <2>1. Wrong \subseteq Nat
    BY <1>1
  <2>2. PICK m \in Wrong : \A k \in Wrong : m <= k
    BY <1>2, <2>1, Smallest
  <2>3. m # 0
    <3>1. PICK f : f = [i \in {0} |-> <<>>]
      OBVIOUS
    <3>2. Until(f, 0)
      BY <3>1
    <3> QED
      BY <2>2, <3>2
  <2>4. m \in 1..n /\ m - 1 \in 0..n /\ ~(m <= m - 1)
    BY <1>1, <2>2, <2>3
  <2>5. PICK g : Until(g, m - 1)
    BY <2>2, <2>4
  <2>6. PICK last : last = IF es[m].content = <<>> THEN g[m - 1] ELSE Append(g[m - 1], es[m])
    OBVIOUS
  <2>7. PICK f : f = [i \in 0..m |-> IF i = m THEN last ELSE g[i]]
    OBVIOUS
  <2>8. f[0] = <<>>
    BY <1>1, <2>4, <2>5, <2>7
  <2>9. ASSUME NEW i \in 1..m
        PROVE  f[i] = IF es[i].content = <<>> THEN f[i - 1] ELSE Append(f[i - 1], es[i])
    <3>1. i \in 0..m /\ i - 1 \in 0..m /\ i - 1 # m
      BY <2>4
    <3>2. f[i - 1] = g[i - 1]
      BY <2>7, <3>1
    <3>3. CASE i = m
      BY <2>6, <2>7, <3>1, <3>2, <3>3
    <3>4. CASE i # m
      <4>1. i \in 1..(m - 1)
        BY <2>4, <3>4
      <4>2. f[i] = g[i]
        BY <2>7, <3>1, <3>4
      <4> QED
        BY <2>5, <3>2, <4>1, <4>2
    <3> QED
      BY <3>3, <3>4
  <2>10. Until(f, m)
    BY <2>8, <2>9
  <2> QED
    BY <2>2, <2>10
<1>3. n \in 0..n
  BY <1>1
<1>4. PICK g : Until(g, n)
  BY <1>2, <1>3
<1>5. PICK f : f = [i \in 0..n |-> g[i]]
  OBVIOUS
<1>6. f[0] = <<>>
  BY <1>1, <1>4, <1>5
<1>7. ASSUME NEW i \in 1..n
      PROVE  f[i] = IF es[i].content = <<>> THEN f[i - 1] ELSE Append(f[i - 1], es[i])
  <2>1. i \in 0..n /\ i - 1 \in 0..n
    BY <1>1
  <2> QED
    BY <1>4, <1>5, <2>1
<1>8. Keeps(f, es)
  BY <1>1, <1>6, <1>7 DEF Keeps
<1>9. f = [i \in 0..n |-> f[i]] /\ DOMAIN f = 0..n
  BY <1>5
<1> QED
  BY <1>1, <1>8, <1>9

LEMMA NonEmptyIs ==
    ASSUME NEW es, Len(es) \in Nat
    PROVE  \E f : Keeps(f, es) /\ NonEmpty(es) = f[Len(es)]
<1> DEFINE upTo == CHOOSE upTo :
               upTo = [n \in 0..Len(es) |->
                   IF n = 0 THEN <<>>
                   ELSE IF es[n].content = <<>> THEN upTo[n - 1]
                   ELSE Append(upTo[n - 1], es[n])]
<1>1. NonEmpty(es) = upTo[Len(es)]
  BY DEF NonEmpty
<1>2. PICK f : f = [i \in 0..Len(es) |-> f[i]] /\ Keeps(f, es)
  BY KeepsExists
<1>3. ASSUME NEW n \in 0..Len(es)
      PROVE  f[n] = IF n = 0 THEN <<>>
                    ELSE IF es[n].content = <<>> THEN f[n - 1] ELSE Append(f[n - 1], es[n])
  BY <1>2 DEF Keeps
<1>4. f = [n \in 0..Len(es) |->
              IF n = 0 THEN <<>>
              ELSE IF es[n].content = <<>> THEN f[n - 1] ELSE Append(f[n - 1], es[n])]
  BY <1>2, <1>3
<1>5. upTo = [n \in 0..Len(es) |->
              IF n = 0 THEN <<>>
              ELSE IF es[n].content = <<>> THEN upTo[n - 1] ELSE Append(upTo[n - 1], es[n])]
  BY <1>4
<1> HIDE DEF upTo
<1>6. PICK g : g = upTo
  OBVIOUS
<1>7. Keeps(g, es)
  <2>1. 0 \in 0..Len(es)
    OBVIOUS
  <2>2. g[0] = <<>>
    BY <1>5, <1>6, <2>1
  <2>3. ASSUME NEW i \in 1..Len(es)
        PROVE  g[i] = IF es[i].content = <<>> THEN g[i - 1] ELSE Append(g[i - 1], es[i])
    <3>1. i \in 0..Len(es) /\ i # 0
      OBVIOUS
    <3> QED
      BY <1>5, <1>6, <3>1
  <2> QED
    BY <2>2, <2>3 DEF Keeps
<1> QED
  BY <1>1, <1>6, <1>7

LEMMA KeepsType ==
    ASSUME NEW es, AreAddable(es), NEW f, Keeps(f, es)
    PROVE  \A k \in 0..Len(es) : f[k] \in Seq(Entry)
<1> DEFINE Wrong == {k \in 0..Len(es) : f[k] \notin Seq(Entry)}
<1> SUFFICES ASSUME Wrong # {} PROVE FALSE
  OBVIOUS
<1>1. Wrong \subseteq Nat
  OBVIOUS
<1>2. PICK k \in Wrong : \A j \in Wrong : k <= j
  BY <1>1, Smallest
<1>3. <<>> \in Seq(Entry) /\ f[0] = <<>>
  BY DEF Keeps
<1>4. k # 0 /\ Len(es) \in Nat
  BY <1>2, <1>3 DEF AreAddable
<1>5. k \in 1..Len(es) /\ k - 1 \in 0..Len(es) /\ ~(k <= k - 1)
  BY <1>2, <1>4
<1>6. f[k - 1] \in Seq(Entry)
  BY <1>2, <1>5
<1>7. es[k] \in Entry
  BY <1>5 DEF AreAddable, Addable
<1>8. Append(f[k - 1], es[k]) \in Seq(Entry)
  BY <1>6, <1>7, AppendProperties
<1>9. f[k] \in {f[k - 1], Append(f[k - 1], es[k])}
  BY <1>5 DEF Keeps
<1> QED
  BY <1>2, <1>6, <1>8, <1>9

\* What is left of the first entries depends on them alone.
LEMMA KeepsSame ==
    ASSUME NEW es, NEW ds, NEW f, NEW g, Keeps(f, es), Keeps(g, ds), NEW n \in Nat,
           n <= Len(es), n <= Len(ds), Len(es) \in Nat, Len(ds) \in Nat,
           \A i \in 1..n : es[i] = ds[i]
    PROVE  \A k \in 0..n : f[k] = g[k]
<1> DEFINE Wrong == {k \in 0..n : f[k] # g[k]}
<1> SUFFICES ASSUME Wrong # {} PROVE FALSE
  OBVIOUS
<1>1. Wrong \subseteq Nat
  OBVIOUS
<1>2. PICK k \in Wrong : \A j \in Wrong : k <= j
  BY <1>1, Smallest
<1>3. k # 0
  BY <1>2 DEF Keeps
<1>4. k \in 1..n /\ k \in 1..Len(es) /\ k \in 1..Len(ds) /\ k - 1 \in 0..n /\ ~(k <= k - 1)
  BY <1>2, <1>3
<1>5. f[k - 1] = g[k - 1] /\ es[k] = ds[k]
  BY <1>2, <1>4
<1>6. f[k] = IF es[k].content = <<>> THEN f[k - 1] ELSE Append(f[k - 1], es[k])
  BY <1>4 DEF Keeps
<1>7. g[k] = IF ds[k].content = <<>> THEN g[k - 1] ELSE Append(g[k - 1], ds[k])
  BY <1>4 DEF Keeps
<1>8. f[k] = g[k]
  BY <1>5, <1>6, <1>7
<1> QED
  BY <1>2, <1>8

\* A generator that is asked where k entries have been read: it yields the next
\* one that has content, or it comes to the end, with none left.
GoesToEnd(next, b, es, u, f, k) ==
    /\ next.entry = Undefined /\ f[Len(es)] = f[k]
    /\ next.rest.reader = Len(u[Len(es)])
    /\ InBounds(next.rest) /\ next.rest.data = b.data
GoesToEntry(next, b, es, u, f, k) ==
    \E i \in (k + 1)..Len(es) :
        /\ next.entry = es[i] /\ f[i] = Append(f[k], es[i])
        /\ next.rest.reader = Len(u[i])
        /\ InBounds(next.rest) /\ next.rest.data = b.data

LEMMA NextAtPlace ==
    ASSUME NEW b, NEW es, NEW u, IsCodeOf(b, es, u), NEW f, Keeps(f, es), NEW g, NextWalk(g, b)
    PROVE  \A k \in 0..Len(es) :
               \/ GoesToEnd(g[Len(u[k])], b, es, u, f, k)
               \/ GoesToEntry(g[Len(u[k])], b, es, u, f, k)
<1>1. PICK n : n = Len(es) /\ n \in Nat
  BY DEF IsCodeOf, AreAddable
<1> DEFINE Right(k) == \/ GoesToEnd(g[Len(u[k])], b, es, u, f, k)
                       \/ GoesToEntry(g[Len(u[k])], b, es, u, f, k)
           Wrong == {m \in 0..n : ~Right(n - m)}
<1>2. ASSUME Wrong # {} PROVE FALSE
  <2>1. Wrong \subseteq Nat
    BY <1>1
  <2>2. PICK m \in Wrong : \A j \in Wrong : m <= j
    BY <1>2, <2>1, Smallest
  <2>3. Right(n)
    <3>1. /\ Len(u[n]) = b.capacity /\ b.capacity \in 0..b.capacity
          /\ ~IsReadable(At(b, b.capacity))
      BY <1>1, LastPlace
    <3>2. g[Len(u[n])] = [entry |-> Undefined, rest |-> At(b, b.capacity)]
      BY <3>1 DEF NextWalk
    <3>3. InBounds(b)
      BY DEF IsCodeOf
    <3>4. At(b, b.capacity).reader = Len(u[n]) /\ InBounds(At(b, b.capacity))
          /\ At(b, b.capacity).data = b.data
      BY <3>1, <3>3, AtType
    <3>5. GoesToEnd(g[Len(u[n])], b, es, u, f, n)
      BY <1>1, <3>2, <3>4 DEF GoesToEnd
    <3> QED
      BY <3>5
  <2>4. m # 0
    BY <1>1, <2>2, <2>3
  <2>5. PICK k : k = n - m
    OBVIOUS
  <2>6. /\ k \in 0..n /\ k < n /\ k + 1 \in 0..n /\ k + 1 = n - (m - 1)
        /\ m - 1 \in 0..n /\ ~(m <= m - 1)
    BY <1>1, <2>2, <2>4, <2>5
  <2>7. Right(k + 1)
    BY <2>2, <2>6
  <2>8. PICK r : r = Len(u[k])
    OBVIOUS
  <2>9. PICK turn : turn = ReadEntry(At(b, r))
    OBVIOUS
  <2>10. PICK e : e = es[k + 1]
    OBVIOUS
  <2>11. /\ r \in 0..b.capacity /\ IsReadable(At(b, r))
         /\ turn.entry = (IF e.content = <<>> THEN Undefined ELSE e)
         /\ turn.rest.reader = Len(u[k + 1])
         /\ InBounds(turn.rest) /\ turn.rest.data = b.data
    BY <1>1, <2>6, <2>8, <2>9, <2>10, TurnAtPlace
  <2>12. g[r] = IF turn.entry # Undefined THEN turn ELSE g[Len(u[k + 1])]
    BY <2>9, <2>11 DEF NextWalk
  <2>13. k + 1 \in 1..Len(es) /\ (k + 1) - 1 = k
    BY <1>1, <2>6
  <2>14. f[k + 1] = IF e.content = <<>> THEN f[k] ELSE Append(f[k], e)
    BY <2>10, <2>13 DEF Keeps
  <2>15. CASE e.content = <<>>
    <3>1. g[r] = g[Len(u[k + 1])] /\ f[k + 1] = f[k]
      BY <2>11, <2>12, <2>14, <2>15
    <3>2. CASE GoesToEnd(g[Len(u[k + 1])], b, es, u, f, k + 1)
      <4>1. GoesToEnd(g[r], b, es, u, f, k)
        BY <3>1, <3>2 DEF GoesToEnd
      <4> QED
        BY <2>2, <2>5, <2>8, <4>1
    <3>3. CASE GoesToEntry(g[Len(u[k + 1])], b, es, u, f, k + 1)
      <4>1. (k + 1 + 1)..Len(es) \subseteq (k + 1)..Len(es)
        BY <1>1, <2>6
      <4>2. GoesToEntry(g[r], b, es, u, f, k)
        BY <3>1, <3>3, <4>1 DEF GoesToEntry
      <4> QED
        BY <2>2, <2>5, <2>8, <4>2
    <3> QED
      BY <2>7, <3>2, <3>3
  <2>16. CASE e.content # <<>>
    <3>1. Addable(e)
      BY <2>10, <2>13 DEF IsCodeOf, AreAddable
    <3>2. e # Undefined
      BY <3>1, EntryTypes
    <3>3. g[r] = turn /\ turn.entry = e /\ f[k + 1] = Append(f[k], e)
      BY <2>11, <2>12, <2>14, <2>16, <3>2
    <3>4. k + 1 \in (k + 1)..Len(es)
      BY <1>1, <2>6
    <3>5. GoesToEntry(g[r], b, es, u, f, k)
      BY <2>10, <2>11, <3>3, <3>4 DEF GoesToEntry
    <3> QED
      BY <2>2, <2>5, <2>8, <3>5
  <2> QED
    BY <2>15, <2>16
<1>3. ASSUME NEW k \in 0..n PROVE Right(k)
  <2>1. n - k \in 0..n /\ n - (n - k) = k
    BY <1>1
  <2> QED
    BY <1>2, <2>1
<1> QED
  BY <1>1, <1>3

\* What an iteration from there on takes off.
TakesOff(f, g, u, n, k) == g[Len(u[k])] \in Seq(Entry) /\ f[n] = f[k] \o g[Len(u[k])]

LEMMA OneMore ==
    ASSUME NEW s \in Seq(Entry), NEW t \in Seq(Entry), NEW e \in Entry
    PROVE  Append(s, e) \o t = s \o (<<e>> \o t) /\ <<e>> \o t \in Seq(Entry)
<1>1. PICK one : one = <<e>>
  OBVIOUS
<1>2. one \in Seq(Entry)
  BY <1>1
<1>3. Append(s, e) = s \o one
  BY <1>1, AppendIsConcat
<1>4. (s \o one) \o t = s \o (one \o t)
  BY <1>2, ConcatAssociative
<1>5. one \o t \in Seq(Entry)
  BY <1>2, ConcatProperties
<1> QED
  BY <1>1, <1>3, <1>4, <1>5

LEMMA AllAtPlace ==
    ASSUME NEW b, NEW es, NEW u, IsCodeOf(b, es, u), NEW f, Keeps(f, es), NEW g, AllWalk(g, b)
    PROVE  \A k \in 0..Len(es) : TakesOff(f, g, u, Len(es), k)
<1>1. PICK n : n = Len(es) /\ n \in Nat
  BY DEF IsCodeOf, AreAddable
<1>0. \A k \in 0..n : f[k] \in Seq(Entry)
  BY <1>1, KeepsType DEF IsCodeOf
<1> DEFINE Right(k) == TakesOff(f, g, u, n, k)
           Wrong == {m \in 0..n : ~Right(n - m)}
<1>2. ASSUME Wrong # {} PROVE FALSE
  <2>1. Wrong \subseteq Nat
    BY <1>1
  <2>2. PICK m \in Wrong : \A j \in Wrong : m <= j
    BY <1>2, <2>1, Smallest
  <2>3. Right(n)
    <3>1. /\ Len(u[n]) = b.capacity /\ b.capacity \in 0..b.capacity
          /\ ~IsReadable(At(b, b.capacity))
      BY <1>1, LastPlace
    <3>2. g[Len(u[n])] = <<>>
      BY <3>1 DEF AllWalk
    <3>3. f[n] \in Seq(Entry)
      BY <1>0, <1>1
    <3>4. f[n] \o <<>> = f[n] /\ <<>> \in Seq(Entry)
      BY <3>3, ConcatEmptySeq
    <3> QED
      BY <3>2, <3>4 DEF TakesOff
  <2>4. m # 0
    BY <1>1, <2>2, <2>3
  <2>5. PICK k : k = n - m
    OBVIOUS
  <2>6. /\ k \in 0..n /\ k < n /\ k + 1 \in 0..n /\ k + 1 = n - (m - 1)
        /\ m - 1 \in 0..n /\ ~(m <= m - 1)
    BY <1>1, <2>2, <2>4, <2>5
  <2>7. Right(k + 1)
    BY <2>2, <2>6
  <2>8. PICK r : r = Len(u[k])
    OBVIOUS
  <2>9. PICK turn : turn = ReadEntry(At(b, r))
    OBVIOUS
  <2>10. PICK e : e = es[k + 1]
    OBVIOUS
  <2>11. /\ r \in 0..b.capacity /\ IsReadable(At(b, r))
         /\ turn.entry = (IF e.content = <<>> THEN Undefined ELSE e)
         /\ turn.rest.reader = Len(u[k + 1])
    BY <1>1, <2>6, <2>8, <2>9, <2>10, TurnAtPlace
  <2>12. PICK rest : rest = g[Len(u[k + 1])]
    OBVIOUS
  <2>13. g[r] = IF turn.entry = Undefined THEN rest ELSE <<turn.entry>> \o rest
    BY <2>9, <2>11, <2>12 DEF AllWalk
  <2>14. k + 1 \in 1..Len(es) /\ (k + 1) - 1 = k
    BY <1>1, <2>6
  <2>15. f[k + 1] = IF e.content = <<>> THEN f[k] ELSE Append(f[k], e)
    BY <2>10, <2>14 DEF Keeps
  <2>16. rest \in Seq(Entry) /\ f[n] = f[k + 1] \o rest
    BY <2>7, <2>12 DEF TakesOff
  <2>17. CASE e.content = <<>>
    <3>1. g[r] = rest /\ f[k + 1] = f[k]
      BY <2>11, <2>13, <2>15, <2>17
    <3>2. Right(k)
      BY <2>8, <2>16, <3>1 DEF TakesOff
    <3> QED
      BY <2>2, <2>5, <3>2
  <2>18. CASE e.content # <<>>
    <3>1. Addable(e)
      BY <2>10, <2>14 DEF IsCodeOf, AreAddable
    <3>2. e # Undefined /\ e \in Entry
      BY <3>1, EntryTypes DEF Addable
    <3>3. g[r] = <<e>> \o rest /\ f[k + 1] = Append(f[k], e)
      BY <2>11, <2>13, <2>15, <2>18, <3>2
    <3>4. f[k] \in Seq(Entry)
      BY <1>0, <2>6
    <3>5. PICK s : s = f[k]
      OBVIOUS
    <3>6. Append(s, e) \o rest = s \o (<<e>> \o rest) /\ <<e>> \o rest \in Seq(Entry)
      BY <2>16, <3>2, <3>4, <3>5, OneMore
    <3>7. Right(k)
      BY <2>8, <2>16, <3>3, <3>5, <3>6 DEF TakesOff
    <3> QED
      BY <2>2, <2>5, <3>7
  <2> QED
    BY <2>17, <2>18
<1>3. ASSUME NEW k \in 0..n PROVE Right(k)
  <2>1. n - k \in 0..n /\ n - (n - k) = k
    BY <1>1
  <2> QED
    BY <1>2, <2>1
<1> QED
  BY <1>1, <1>3

-----------------------------------------------------------------------------
(* The metadata of an application                                          *)

LEMMA MaxOne == \A x \in Nat : Max({x}) = x
BY DEF Max

LEMMA OneEntry ==
    ASSUME NEW e
    PROVE  FromEntries(<<e>>) = Add(Alloc(0), e)
<1>1. PICK one : one = <<e>>
  OBVIOUS
<1>2. DOMAIN one = {1} /\ one[1] = e
  BY <1>1
<1> DEFINE iter == CHOOSE iter :
               iter = [s \in SUBSET (DOMAIN one) |->
                   IF s = {} THEN Alloc(0) ELSE Add(iter[s \ {Max(s)}], one[Max(s)])]
<1>3. FromEntries(one) = iter[DOMAIN one]
  BY DEF FromEntries, FoldLeft, MapThenFoldSet
<1>4. PICK f : f = [s \in SUBSET {1} |-> IF s = {} THEN Alloc(0) ELSE Add(Alloc(0), e)]
  OBVIOUS
<1>5. f = [s \in SUBSET (DOMAIN one) |->
                   IF s = {} THEN Alloc(0) ELSE Add(f[s \ {Max(s)}], one[Max(s)])]
  <2>1. ASSUME NEW s \in SUBSET {1}, s # {} PROVE s = {1} /\ Max(s) = 1 /\ s \ {Max(s)} = {}
    <3>1. s = {1}
      BY <2>1
    <3>2. Max(s) = 1
      BY <3>1, MaxOne
    <3> QED
      BY <3>1, <3>2
  <2>2. f[{}] = Alloc(0)
    BY <1>4
  <2>3. ASSUME NEW s \in SUBSET {1}
        PROVE  f[s] = IF s = {} THEN Alloc(0) ELSE Add(f[s \ {Max(s)}], one[Max(s)])
    <3>1. CASE s = {}
      BY <1>4, <3>1
    <3>2. CASE s # {}
      BY <1>2, <1>4, <2>1, <2>2, <3>2
    <3> QED
      BY <3>1, <3>2
  <2> QED
    BY <1>2, <1>4, <2>3
<1>6. iter = [s \in SUBSET (DOMAIN one) |->
                   IF s = {} THEN Alloc(0) ELSE Add(iter[s \ {Max(s)}], one[Max(s)])]
  BY <1>5
<1> HIDE DEF iter
<1>7. iter[DOMAIN one] = Add(iter[{}], e)
  BY <1>2, <1>6, MaxOne
<1>8. iter[{}] = Alloc(0)
  BY <1>6
<1> QED
  BY <1>1, <1>3, <1>7, <1>8

LEMMA AddType ==
    ASSUME NEW b, InBounds(b), NEW e, Addable(e)
    PROVE  /\ InBounds(Add(b, e))
           /\ b.writer = Len(b.data) => /\ Add(b, e).data = Cat(b.data, EntryBytes(e))
                                        /\ Add(b, e).reader = b.reader
BY EntryBytesIs, WriteBytesType, WritesEnd DEF Add

\* As received, or made for a stub.
LEMMA OneEntryBytes ==
    ASSUME NEW e, Addable(e)
    PROVE  FromEntries(<<e>>).data = EntryBytes(e)
<1>1. PICK b : b = Alloc(0)
  OBVIOUS
<1>2. InBounds(b) /\ b.writer = 0 /\ b.data \in Seq(Bytes) /\ Len(b.data) = 0
  BY <1>1, AllocInBounds
<1>3. EntryBytes(e) \in Seq(Bytes)
  BY EntryBytesIs
<1>4. Len(b.data) <= Len(EntryBytes(e))
  BY <1>2, <1>3, LenProperties
<1>5. WriteBytes(b, EntryBytes(e)).data = EntryBytes(e)
  BY <1>2, <1>3, <1>4, WritesAll
<1> QED
  BY <1>1, <1>5, OneEntry DEF Add

\* The reader is behind the entries that have been yielded.
Between(b, es, ys) ==
    \E u, f : /\ IsCodeOf(b, es, u) /\ Keeps(f, es)
              /\ \E k \in 0..Len(es) : b.reader = Len(u[k]) /\ ys = f[k]

LEMMA BetweenStart ==
    ASSUME NEW es, AreAddable(es), NEW b, InBounds(b), b.reader = 0,
           \/ Len(es) = 0 /\ b.data = <<>>
           \/ Len(es) = 1 /\ b.data = EntryBytes(es[1])
    PROVE  Between(b, es, <<>>)
<1>1. PICK n : n = Len(es) /\ n \in {0, 1}
  OBVIOUS
<1>2. PICK u : Joins(u, Coded(es), n)
  BY <1>1, CodedType, JoinExists DEF AreAddable
<1>3. PICK f : Keeps(f, es)
  BY KeepsExists DEF AreAddable
<1>4. u[0] = <<>> /\ Len(<<>>) = 0 /\ f[0] = <<>>
  BY <1>2, <1>3 DEF Joins, Keeps
<1>5. b.data = u[n]
  <2>1. CASE n = 0
    BY <1>1, <1>4, <2>1
  <2>2. CASE n = 1
    <3>1. u[1] = Cat(u[0], Coded(es)[1])
      BY <1>2, <2>2 DEF Joins
    <3>2. Coded(es)[1] = EntryBytes(es[1]) /\ Addable(es[1])
      BY <1>1, <2>2 DEF Coded, AreAddable
    <3>3. Cat(<<>>, EntryBytes(es[1])) = EntryBytes(es[1])
      BY <3>2, EntryBytesIs, CatEmpty
    <3> QED
      BY <1>1, <1>4, <2>2, <3>1, <3>2, <3>3
  <2> QED
    BY <1>1, <2>1, <2>2
<1>6. IsCodeOf(b, es, u)
  BY <1>1, <1>2, <1>5 DEF IsCodeOf
<1>7. 0 \in 0..Len(es) /\ b.reader = Len(u[0]) /\ <<>> = f[0]
  BY <1>1, <1>4
<1> QED
  BY <1>3, <1>6, <1>7 DEF Between

LEMMA BetweenReader ==
    ASSUME NEW es, NEW b, NEW c, NEW ys, Between(b, es, ys), InBounds(c), c.data = b.data,
           c.reader = b.reader
    PROVE  Between(c, es, ys)
BY DEF Between, IsCodeOf

LEMMA BetweenAdd ==
    ASSUME NEW b, NEW c, NEW es, NEW ys, Between(b, es, ys), NEW e, Addable(e), es \in Seq(Entries),
           InBounds(c), c.data = Cat(b.data, EntryBytes(e)), c.reader = b.reader
    PROVE  Between(c, Append(es, e), ys)
<1>1. PICK u, f : /\ IsCodeOf(b, es, u) /\ Keeps(f, es)
                  /\ \E k \in 0..Len(es) : b.reader = Len(u[k]) /\ ys = f[k]
  BY DEF Between
<1>2. PICK k \in 0..Len(es) : b.reader = Len(u[k]) /\ ys = f[k]
  BY <1>1
<1>3. PICK n : n = Len(es) /\ n \in Nat
  BY LenProperties
<1>4. PICK ds : ds = Append(es, e)
  OBVIOUS
<1>5. Len(ds) = n + 1 /\ ds[n + 1] = e /\ \A i \in 1..n : ds[i] = es[i]
  BY <1>3, <1>4
<1>6. AreAddable(es)
  BY <1>1 DEF IsCodeOf
<1>7. AreAddable(ds)
  <2>1. ASSUME NEW i \in 1..(n + 1) PROVE Addable(ds[i])
    <3>1. CASE i = n + 1
      BY <1>5, <3>1
    <3>2. CASE i # n + 1
      <4>1. i \in 1..n
        BY <1>3, <3>2
      <4> QED
        BY <1>3, <1>5, <1>6, <4>1 DEF AreAddable
    <3> QED
      BY <3>1, <3>2
  <2> QED
    BY <1>3, <1>5, <2>1 DEF AreAddable
<1>8. PICK g : Keeps(g, ds)
  BY <1>7, KeepsExists DEF AreAddable
<1>9. \A j \in 0..n : f[j] = g[j]
  <2>1. /\ n <= Len(es) /\ n <= Len(ds) /\ Len(es) \in Nat /\ Len(ds) \in Nat
        /\ \A i \in 1..n : es[i] = ds[i]
    BY <1>3, <1>5
  <2> QED
    BY <1>1, <1>3, <1>8, <2>1, KeepsSame
<1>10. PICK v : v = [i \in 0..(n + 1) |-> IF i = n + 1 THEN Cat(u[n], EntryBytes(e)) ELSE u[i]]
  OBVIOUS
<1>11. \A i \in 0..n : v[i] = u[i]
  <2> SUFFICES ASSUME NEW i \in 0..n PROVE v[i] = u[i]
    OBVIOUS
  <2>1. i \in 0..(n + 1) /\ i # n + 1
    BY <1>3
  <2> QED
    BY <1>10, <2>1
<1>12. n + 1 \in 0..(n + 1) /\ n \in 0..n
  BY <1>3
<1>13. v[n + 1] = Cat(u[n], EntryBytes(e))
  BY <1>10, <1>12
<1>14. Joins(u, Coded(es), n) /\ b.data = u[n]
  BY <1>1, <1>3 DEF IsCodeOf
<1>15. Joins(v, Coded(ds), n + 1)
  <2>1. DOMAIN v = 0..(n + 1)
    BY <1>10
  <2>2. v[0] = <<>>
    BY <1>3, <1>11, <1>14 DEF Joins
  <2>3. ASSUME NEW i \in 1..(n + 1) PROVE v[i] = Cat(v[i - 1], Coded(ds)[i])
    <3>0. Coded(ds)[i] = EntryBytes(ds[i])
      BY <1>5 DEF Coded
    <3>1. CASE i = n + 1
      <4>1. i - 1 = n
        BY <1>3, <3>1
      <4> QED
        BY <1>5, <1>11, <1>12, <1>13, <3>0, <3>1, <4>1
    <3>2. CASE i # n + 1
      <4>1. i \in 1..n /\ i \in 0..n /\ i - 1 \in 0..n
        BY <1>3, <3>2
      <4>2. u[i] = Cat(u[i - 1], Coded(es)[i])
        BY <1>14, <4>1 DEF Joins
      <4>3. Coded(es)[i] = EntryBytes(es[i])
        BY <1>3, <4>1 DEF Coded
      <4> QED
        BY <1>5, <1>11, <3>0, <4>1, <4>2, <4>3
    <3> QED
      BY <3>1, <3>2
  <2> QED
    BY <2>1, <2>2, <2>3 DEF Joins
<1>16. c.data = v[n + 1]
  BY <1>13, <1>14
<1>17. IsCodeOf(c, ds, v)
  BY <1>5, <1>7, <1>15, <1>16 DEF IsCodeOf
<1>18. k \in 0..Len(ds) /\ c.reader = Len(v[k]) /\ ys = g[k]
  BY <1>2, <1>3, <1>5, <1>9, <1>11
<1>19. Between(c, ds, ys)
  BY <1>8, <1>17, <1>18 DEF Between
<1> QED
  BY <1>4, <1>19

LEMMA PrefixOfConcat ==
    ASSUME NEW s \in Seq(Entry), NEW t \in Seq(Entry)
    PROVE  IsPrefix(s, s \o t)
<1>1. PICK st : st = s \o t
  OBVIOUS
<1>2. /\ st \in Seq(Entry) /\ Len(st) = Len(s) + Len(t) /\ Len(s) \in Nat /\ Len(t) \in Nat
      /\ \A i \in 1..Len(s) : st[i] = s[i]
  BY <1>1, ConcatProperties
<1>3. Len(s) <= Len(st)
  BY <1>2
<1>4. SubSeq(s, 1, Len(s)) = s
  BY SubSeqFull
<1>5. SubSeq(st, 1, Len(s)) = s
  <2>1. PICK n : n = Len(s)
    OBVIOUS
  <2>2. n \in Nat /\ n <= Len(st) /\ st \in Seq(Entry)
    BY <1>2, <1>3, <2>1
  <2>3. PICK p : p = SubSeq(st, 1, n)
    OBVIOUS
  <2>4. p \in Seq(Entry) /\ Len(p) = n /\ \A i \in 1..n : p[i] = st[i]
    BY <2>2, <2>3
  <2>5. \A i \in 1..n : p[i] = s[i]
    BY <1>2, <2>1, <2>4
  <2> QED
    BY <2>1, <2>3, <2>4, <2>5, SeqEqual
<1> QED
  BY <1>1, <1>3, <1>4, <1>5 DEF IsPrefix

LEMMA BetweenAll ==
    ASSUME NEW b, NEW es, NEW ys, Between(b, es, ys)
    PROVE  /\ ys \in Seq(Entry) /\ AllEntries(b) \in Seq(Entry)
           /\ ys \o AllEntries(b) = NonEmpty(es)
<1>1. PICK u, f : /\ IsCodeOf(b, es, u) /\ Keeps(f, es)
                  /\ \E k \in 0..Len(es) : b.reader = Len(u[k]) /\ ys = f[k]
  BY DEF Between
<1>2. PICK k \in 0..Len(es) : b.reader = Len(u[k]) /\ ys = f[k]
  BY <1>1
<1>3. InBounds(b) /\ AreAddable(es)
  BY <1>1 DEF IsCodeOf
<1>4. PICK n : n = Len(es) /\ n \in Nat
  BY <1>3 DEF AreAddable
<1>5. PICK g : Keeps(g, es) /\ NonEmpty(es) = g[n]
  BY <1>4, NonEmptyIs
<1>6. g[n] = f[n]
  <2>1. n <= n /\ n \in 0..n
    BY <1>4
  <2>2. \A j \in 0..n : f[j] = g[j]
    BY <1>1, <1>4, <1>5, <2>1, KeepsSame
  <2> QED
    BY <2>1, <2>2
<1>7. PICK h : AllWalk(h, b) /\ AllEntries(b) = h[b.reader]
  BY <1>3, AllEntriesIs
<1>8. TakesOff(f, h, u, n, k)
  BY <1>1, <1>4, <1>7, AllAtPlace
<1>9. AllEntries(b) = h[Len(u[k])]
  BY <1>2, <1>7
<1>10. ys \in Seq(Entry)
  BY <1>1, <1>2, <1>3, KeepsType
<1> QED
  BY <1>2, <1>5, <1>6, <1>8, <1>9, <1>10 DEF TakesOff

LEMMA BetweenPrefix ==
    ASSUME NEW b, NEW es, NEW ys, Between(b, es, ys)
    PROVE  IsPrefix(ys, NonEmpty(es))
BY BetweenAll, PrefixOfConcat

LEMMA BetweenEnd ==
    ASSUME NEW b, NEW es, NEW ys, Between(b, es, ys), NEW c, InBounds(c), c.data = b.data,
           c.reader = b.capacity
    PROVE  Between(c, es, NonEmpty(es))
<1>1. PICK u, f : IsCodeOf(b, es, u)
  BY DEF Between
<1>2. InBounds(b) /\ AreAddable(es)
  BY <1>1 DEF IsCodeOf
<1>3. Len(u[Len(es)]) = b.capacity
  BY <1>1, LastPlace
<1>4. PICK g : Keeps(g, es) /\ NonEmpty(es) = g[Len(es)]
  BY <1>2, NonEmptyIs DEF AreAddable
<1>5. IsCodeOf(c, es, u)
  BY <1>1 DEF IsCodeOf
<1>6. Len(es) \in 0..Len(es)
  BY <1>2 DEF AreAddable
<1>7. c.reader = Len(u[Len(es)]) /\ NonEmpty(es) = g[Len(es)]
  BY <1>3, <1>4
<1> QED
  BY <1>4, <1>5, <1>6, <1>7 DEF Between

LEMMA BetweenNext ==
    ASSUME NEW b, NEW es, NEW ys, Between(b, es, ys), NEW next, next = NextEntry(b)
    PROVE  \/ next.entry = Undefined /\ ys = NonEmpty(es) /\ Between(next.rest, es, ys)
           \/ next.entry # Undefined /\ Between(next.rest, es, Append(ys, next.entry))
<1>1. PICK u, f : /\ IsCodeOf(b, es, u) /\ Keeps(f, es)
                  /\ \E k \in 0..Len(es) : b.reader = Len(u[k]) /\ ys = f[k]
  BY DEF Between
<1>2. PICK k \in 0..Len(es) : b.reader = Len(u[k]) /\ ys = f[k]
  BY <1>1
<1>3. InBounds(b) /\ AreAddable(es)
  BY <1>1 DEF IsCodeOf
<1>4. PICK n : n = Len(es) /\ n \in Nat
  BY <1>3 DEF AreAddable
<1>5. PICK h : NextWalk(h, b) /\ NextEntry(b) = h[b.reader]
  BY <1>3, NextEntryIs
<1>6. next = h[Len(u[k])]
  BY <1>2, <1>5
<1>7. \/ GoesToEnd(next, b, es, u, f, k) \/ GoesToEntry(next, b, es, u, f, k)
  BY <1>1, <1>5, <1>6, NextAtPlace
<1>8. ASSUME NEW c, InBounds(c), c.data = b.data PROVE IsCodeOf(c, es, u)
  BY <1>1, <1>8 DEF IsCodeOf
<1>9. CASE GoesToEnd(next, b, es, u, f, k)
  <2>1. /\ next.entry = Undefined /\ f[n] = f[k] /\ next.rest.reader = Len(u[n])
        /\ InBounds(next.rest) /\ next.rest.data = b.data
    BY <1>4, <1>9 DEF GoesToEnd
  <2>2. IsCodeOf(next.rest, es, u)
    BY <1>8, <2>1
  <2>3. Len(es) \in 0..Len(es) /\ next.rest.reader = Len(u[Len(es)]) /\ ys = f[Len(es)]
    BY <1>2, <1>4, <2>1
  <2>4. Between(next.rest, es, ys)
    BY <1>1, <2>2, <2>3 DEF Between
  <2>5. PICK g : Keeps(g, es) /\ NonEmpty(es) = g[n]
    BY <1>4, NonEmptyIs
  <2>6. n <= n /\ n \in 0..n
    BY <1>4
  <2>7. \A j \in 0..n : f[j] = g[j]
    BY <1>1, <1>4, <2>5, <2>6, KeepsSame
  <2>8. ys = NonEmpty(es)
    BY <1>2, <2>1, <2>5, <2>6, <2>7
  <2> QED
    BY <2>1, <2>4, <2>8
<1>10. CASE GoesToEntry(next, b, es, u, f, k)
  <2>1. PICK i \in (k + 1)..Len(es) :
            /\ next.entry = es[i] /\ f[i] = Append(f[k], es[i])
            /\ next.rest.reader = Len(u[i])
            /\ InBounds(next.rest) /\ next.rest.data = b.data
    BY <1>10 DEF GoesToEntry
  <2>2. i \in 1..Len(es) /\ i \in 0..Len(es)
    BY <1>2, <1>4
  <2>3. next.entry # Undefined
    BY <1>3, <2>1, <2>2, EntryTypes DEF AreAddable
  <2>4. IsCodeOf(next.rest, es, u)
    BY <1>8, <2>1
  <2>5. Append(ys, next.entry) = f[i]
    BY <1>2, <2>1
  <2>6. Between(next.rest, es, Append(ys, next.entry))
    BY <1>1, <2>1, <2>2, <2>4, <2>5 DEF Between
  <2> QED
    BY <2>3, <2>6
<1> QED
  BY <1>7, <1>9, <1>10

\* Whatever is in the buffer, a generator stays inside it.
LEMMA NextEntryType ==
    ASSUME NEW b, InBounds(b)
    PROVE  InBounds(NextEntry(b).rest)
<1>1. PICK g : NextWalk(g, b) /\ NextEntry(b) = g[b.reader]
  BY NextEntryIs
<1>2. PICK n : n = b.capacity /\ n \in Nat
  BY DEF InBounds, Buffer
<1> DEFINE Wrong == {m \in 0..n : ~InBounds(g[n - m].rest)}
<1>3. ASSUME Wrong # {} PROVE FALSE
  <2>1. Wrong \subseteq Nat
    BY <1>2
  <2>2. PICK m \in Wrong : \A j \in Wrong : m <= j
    BY <1>3, <2>1, Smallest
  <2>3. PICK r : r = n - m
    OBVIOUS
  <2>4. r \in 0..n /\ m = n - r
    BY <1>2, <2>2, <2>3
  <2>5. ~InBounds(g[r].rest)
    BY <2>2, <2>3
  <2>6. PICK turn : turn = ReadEntry(At(b, r))
    OBVIOUS
  <2>7. InBounds(At(b, r))
    BY <1>2, <2>4, AtType
  <2>8. CASE ~IsReadable(At(b, r))
    <3>1. g[r] = [entry |-> Undefined, rest |-> At(b, r)]
      BY <1>1, <1>2, <2>4, <2>8 DEF NextWalk
    <3> QED
      BY <2>5, <2>7, <3>1
  <2>9. CASE IsReadable(At(b, r))
    <3>1. /\ InBounds(turn.rest) /\ turn.rest.reader \in Nat
          /\ r < turn.rest.reader /\ turn.rest.reader <= n
      BY <1>2, <2>4, <2>6, <2>9, TurnGoesOn
    <3>2. g[r] = turn \/ g[r] = g[turn.rest.reader]
      BY <1>1, <1>2, <2>4, <2>6, <2>9 DEF NextWalk
    <3>3. PICK q : q = turn.rest.reader
      OBVIOUS
    <3>4. n - q \in 0..n /\ ~(m <= n - q) /\ n - (n - q) = q
      BY <1>2, <2>2, <2>4, <3>1, <3>3
    <3>5. n - q \notin Wrong
      BY <2>2, <3>4
    <3>6. InBounds(g[q].rest)
      BY <3>4, <3>5
    <3> QED
      BY <2>5, <3>1, <3>2, <3>3, <3>6
  <2> QED
    BY <2>8, <2>9
<1>4. n - b.reader \in 0..n /\ n - (n - b.reader) = b.reader
  BY <1>2 DEF InBounds, Buffer
<1>5. n - b.reader \notin Wrong
  BY <1>3
<1>6. InBounds(g[b.reader].rest)
  BY <1>4, <1>5
<1> QED
  BY <1>1, <1>6

-----------------------------------------------------------------------------
(* The invariant of the metadata                                           *)

MetadataInv ==
    /\ MetadataTypeOK
    /\ ~missed
    /\ ~mixed => Between(buffer, added, yielded)

LEMMA MetadataInvShows == MetadataInv => EntriesComeOutOnce
BY BetweenPrefix DEF MetadataInv, EntriesComeOutOnce

LEMMA MetadataInvInit == MetadataInit => MetadataInv
<1> SUFFICES ASSUME MetadataInit PROVE MetadataInv
  OBVIOUS
<1>1. yielded = <<>> /\ mixed = FALSE /\ missed = FALSE /\ iterators = 0
  BY DEF MetadataInit
<1>2. iterators \in 0..MaxIterators
  BY <1>1, BoundsAssumption
<1>3. CASE added = <<>> /\ buffer = Alloc(0)
  <2>1. InBounds(buffer) /\ buffer.data \in Seq(Bytes) /\ Len(buffer.data) = 0
    BY <1>3, AllocInBounds
  <2>2. buffer.data = <<>>
    BY <2>1, EmptySeq
  <2>3. buffer.reader = 0
    BY <1>3 DEF Alloc, FromUint8Array
  <2>4. Len(added) = 0 /\ AreAddable(added) /\ added \in Seq(Entries)
    BY <1>3 DEF AreAddable
  <2>5. Between(buffer, added, <<>>)
    BY <2>1, <2>2, <2>3, <2>4, BetweenStart
  <2> QED
    BY <1>1, <1>2, <2>1, <2>4, <2>5 DEF MetadataInv, MetadataTypeOK
<1>4. CASE \E e \in Entries : added = <<e>> /\ buffer = FromUint8Array(FromEntries(added).data)
  <2>1. PICK e \in Entries : added = <<e>> /\ buffer = FromUint8Array(FromEntries(added).data)
    BY <1>4
  <2>2. Addable(e)
    BY EntriesAssumption
  <2>3. FromEntries(added).data = EntryBytes(e) /\ EntryBytes(e) \in Seq(Bytes)
    BY <2>1, <2>2, OneEntryBytes, EntryBytesIs
  <2>4. InBounds(buffer) /\ buffer.reader = 0 /\ buffer.data = EntryBytes(e)
    BY <2>1, <2>3, ChunkInBounds DEF FromUint8Array
  <2>5. Len(added) = 1 /\ added[1] = e /\ added \in Seq(Entries)
    BY <2>1
  <2>6. AreAddable(added)
    BY <2>2, <2>5 DEF AreAddable
  <2>7. Between(buffer, added, <<>>)
    BY <2>4, <2>5, <2>6, BetweenStart
  <2> QED
    BY <1>1, <1>2, <2>4, <2>5, <2>7 DEF MetadataInv, MetadataTypeOK
<1> QED
  BY <1>3, <1>4 DEF MetadataInit

LEMMA MetadataInvNext == MetadataInv /\ (MetadataNext \/ UNCHANGED metadataVars) => MetadataInv'
<1> SUFFICES ASSUME MetadataInv, MetadataNext \/ UNCHANGED metadataVars PROVE MetadataInv'
  OBVIOUS
<1>1. /\ InBounds(buffer) /\ iterators \in 0..MaxIterators /\ added \in Seq(Entries)
      /\ mixed \in BOOLEAN /\ missed \in BOOLEAN /\ ~missed
      /\ ~mixed => Between(buffer, added, yielded)
  BY DEF MetadataInv, MetadataTypeOK
<1>2. ASSUME NEW e \in Entries, AddMetadata(e) PROVE MetadataInv'
  <2>1. /\ buffer' = Add(buffer, e) /\ added' = Append(added, e)
        /\ mixed' = (mixed \/ buffer.writer # Len(buffer.data))
        /\ UNCHANGED <<iterators, yielded, missed>>
    BY <1>2 DEF AddMetadata
  <2>2. Addable(e)
    BY EntriesAssumption
  <2>3. InBounds(buffer') /\ added' \in Seq(Entries)
    BY <1>1, <2>1, <2>2, AddType, AppendProperties
  <2>4. ASSUME ~mixed' PROVE Between(buffer', added', yielded')
    <3>1. ~mixed /\ buffer.writer = Len(buffer.data)
      BY <2>1, <2>4
    <3>2. buffer'.data = Cat(buffer.data, EntryBytes(e)) /\ buffer'.reader = buffer.reader
      BY <1>1, <2>1, <2>2, <3>1, AddType
    <3>3. Between(buffer, added, yielded)
      BY <1>1, <3>1
    <3>4. Between(buffer', Append(added, e), yielded)
      BY <1>1, <2>2, <2>3, <3>2, <3>3, BetweenAdd
    <3> QED
      BY <2>1, <3>4
  <2>5. mixed' \in BOOLEAN /\ missed' \in BOOLEAN /\ ~missed' /\ iterators' \in 0..MaxIterators
    BY <1>1, <2>1
  <2> QED
    BY <2>3, <2>4, <2>5 DEF MetadataInv, MetadataTypeOK
<1>3. CASE Iterate
  <2>1. /\ buffer' = ResetReaderIndex(buffer) /\ iterators' = iterators + 1
        /\ iterators < MaxIterators /\ UNCHANGED <<added, yielded, mixed, missed>>
    BY <1>3 DEF Iterate
  <2>2. /\ InBounds(buffer') /\ buffer'.data = buffer.data /\ buffer'.reader = buffer.reader
    BY <1>1, <2>1, OtherCallsType DEF ResetReaderIndex, InBounds, Buffer
  <2>3. ~mixed => Between(buffer', added, yielded)
    BY <1>1, <2>2, BetweenReader
  <2>4. iterators' \in 0..MaxIterators
    BY <1>1, <2>1, BoundsAssumption
  <2> QED
    BY <1>1, <2>1, <2>2, <2>3, <2>4 DEF MetadataInv, MetadataTypeOK
<1>4. CASE Advance
  <2>1. PICK next : next = NextEntry(buffer)
    OBVIOUS
  <2>2. /\ iterators > 0 /\ buffer' = next.rest /\ UNCHANGED <<added, mixed>>
        /\ IF next.entry # Undefined
           THEN /\ yielded' = Append(yielded, next.entry)
                /\ UNCHANGED <<iterators, missed>>
           ELSE /\ iterators' = iterators - 1
                /\ missed' = (missed \/ (~mixed /\ Len(yielded) < Len(NonEmpty(added))))
                /\ UNCHANGED yielded
    BY <1>4, <2>1 DEF Advance
  <2>3. InBounds(buffer')
    BY <1>1, <2>1, <2>2, NextEntryType
  <2>4. iterators' \in 0..MaxIterators
    BY <1>1, <2>2, BoundsAssumption
  <2>5. CASE mixed
    <3>1. mixed' /\ ~missed'
      BY <1>1, <2>2, <2>5
    <3> QED
      BY <1>1, <2>2, <2>3, <2>4, <3>1 DEF MetadataInv, MetadataTypeOK
  <2>6. CASE ~mixed
    <3>1. Between(buffer, added, yielded)
      BY <1>1, <2>6
    <3>2. CASE next.entry = Undefined
      <4>1. yielded = NonEmpty(added) /\ Between(next.rest, added, yielded)
        BY <2>1, <3>1, <3>2, BetweenNext
      <4>2. yielded' = yielded /\ ~(Len(yielded) < Len(yielded))
        <5>1. yielded \in Seq(Entry)
          BY <3>1, BetweenAll
        <5>2. Len(yielded) \in Nat
          BY <5>1, LenProperties
        <5> QED
          BY <2>2, <3>2, <5>2
      <4>3. ~missed' /\ missed' \in BOOLEAN
        BY <1>1, <2>2, <3>2, <4>1, <4>2
      <4> QED
        BY <1>1, <2>2, <2>3, <2>4, <4>1, <4>2, <4>3 DEF MetadataInv, MetadataTypeOK
    <3>3. CASE next.entry # Undefined
      <4>1. Between(next.rest, added, Append(yielded, next.entry))
        BY <2>1, <3>1, <3>3, BetweenNext
      <4> QED
        BY <1>1, <2>2, <2>3, <2>4, <3>3, <4>1 DEF MetadataInv, MetadataTypeOK
    <3> QED
      BY <3>2, <3>3
  <2> QED
    BY <2>5, <2>6
<1>5. CASE FindEntry
  <2>1. /\ map' = AllEntries(buffer) /\ yielded' = yielded \o map'
        /\ buffer' = [ResetReaderIndex(buffer) EXCEPT !.reader = buffer.capacity]
        /\ UNCHANGED <<iterators, added, mixed, missed>>
    BY <1>5 DEF FindEntry
  <2>2. InBounds(buffer') /\ buffer'.data = buffer.data /\ buffer'.reader = buffer.capacity
    <3>1. PICK c : c = ResetReaderIndex(buffer)
      OBVIOUS
    <3>2. InBounds(c) /\ c.data = buffer.data /\ c.capacity = buffer.capacity
      BY <1>1, <3>1 DEF ResetReaderIndex, InBounds, Buffer
    <3>3. PICK n : n = buffer.capacity
      OBVIOUS
    <3>4. buffer' = [c EXCEPT !.reader = n]
      BY <2>1, <3>1, <3>3
    <3>5. n \in Nat /\ n = c.capacity
      BY <3>2, <3>3 DEF InBounds, Buffer
    <3>6. PICK d : d = [c EXCEPT !.reader = n]
      OBVIOUS
    <3>7. d \in Buffer /\ d.data = c.data /\ d.capacity = c.capacity /\ d.writer = c.writer
          /\ d.reader = n
      BY <3>2, <3>5, <3>6 DEF InBounds, Buffer
    <3>8. InBounds(d)
      BY <3>2, <3>5, <3>7 DEF InBounds, Buffer
    <3> QED
      BY <3>2, <3>3, <3>4, <3>6, <3>7, <3>8
  <2>3. ASSUME ~mixed' PROVE Between(buffer', added', yielded')
    <3>1. Between(buffer, added, yielded)
      BY <1>1, <2>1, <2>3
    <3>2. yielded' = NonEmpty(added)
      BY <2>1, <3>1, BetweenAll
    <3>3. Between(buffer', added, NonEmpty(added))
      BY <2>2, <3>1, BetweenEnd
    <3> QED
      BY <2>1, <3>2, <3>3
  <2> QED
    BY <1>1, <2>1, <2>2, <2>3 DEF MetadataInv, MetadataTypeOK
<1>6. CASE UNCHANGED metadataVars
  BY <1>1, <1>6 DEF metadataVars, MetadataInv, MetadataTypeOK
<1> QED
  BY <1>2, <1>3, <1>4, <1>5, <1>6 DEF MetadataNext

-----------------------------------------------------------------------------
(* What a lookup finds                                                     *)

LEMMA LastIndex ==
    ASSUME NEW n \in Nat, NEW I, I \subseteq 1..n, I # {}
    PROVE  Max(I) \in I /\ \A i \in I : Max(I) >= i
<1> DEFINE Rest == {n - i : i \in I}
<1>1. Rest \subseteq Nat /\ Rest # {}
  <2>1. \A i \in I : n - i \in Nat
    OBVIOUS
  <2>2. PICK i \in I : TRUE
    OBVIOUS
  <2>3. n - i \in Rest
    BY <2>2
  <2> QED
    BY <2>1, <2>3
<1>2. PICK m \in Rest : \A k \in Rest : m <= k
  BY <1>1, Smallest
<1>3. PICK j \in I : m = n - j
  BY <1>2
<1>4. ASSUME NEW i \in I PROVE j >= i
  <2>1. n - i \in Rest
    OBVIOUS
  <2>2. n - j <= n - i
    BY <1>2, <1>3, <2>1
  <2>3. i \in 1..n /\ j \in 1..n
    OBVIOUS
  <2> QED
    BY <2>2, <2>3
<1> HIDE DEF Rest
<1> QED
  BY <1>3, <1>4 DEF Max

\* Where the last entry of a type is.
LastOf(es, type) == SelectLastInSeq(es, LAMBDA e : e.mime = type)

\* i is the place of the last of n entries with that type, 0 if there is none.
IsLastOf(i, es, n, type) ==
    /\ i \in 0..n
    /\ i # 0 => es[i].mime = type
    /\ \A j \in 1..n : es[j].mime = type => j <= i

LEMMA LastOfIs ==
    ASSUME NEW es, NEW n, n = Len(es), n \in Nat, NEW type
    PROVE  IsLastOf(LastOf(es, type), es, n, type)
<1> DEFINE I == {i \in 1..n : es[i].mime = type}
<1>1. LastOf(es, type) = IF I # {} THEN Max(I) ELSE 0
  BY DEF LastOf, SelectLastInSeq
<1>2. CASE I = {}
  BY <1>1, <1>2 DEF IsLastOf
<1>3. CASE I # {}
  <2>1. I \subseteq 1..n
    OBVIOUS
  <2>2. PICK m : m = Max(I)
    OBVIOUS
  <2>3. m \in I /\ \A i \in I : m >= i
    BY <1>3, <2>1, <2>2, LastIndex
  <2>4. LastOf(es, type) = m
    BY <1>1, <1>3, <2>2
  <2>5. ASSUME NEW j \in 1..n, es[j].mime = type PROVE j <= m
    <3>1. j \in I
      BY <2>5
    <3> QED
      BY <2>3, <3>1
  <2> QED
    BY <2>3, <2>4, <2>5 DEF IsLastOf
<1> QED
  BY <1>2, <1>3

LEMMA GetIs ==
    ASSUME NEW es, NEW type
    PROVE  Get(es, type) = IF LastOf(es, type) = 0 THEN Undefined ELSE es[LastOf(es, type)]
BY DEF Get, LastOf

LEMMA GetNothing == ASSUME NEW type PROVE Get(<<>>, type) = Undefined
<1>1. IsLastOf(LastOf(<<>>, type), <<>>, 0, type)
  BY LastOfIs
<1>2. LastOf(<<>>, type) = 0
  BY <1>1 DEF IsLastOf
<1> QED
  BY <1>2, GetIs

\* Only one place can be the last.
LEMMA LastIsUnique ==
    ASSUME NEW es, NEW n \in Nat, NEW type, NEW i, NEW j,
           IsLastOf(i, es, n, type), IsLastOf(j, es, n, type)
    PROVE  i = j
BY DEF IsLastOf

LEMMA GetAppend ==
    ASSUME NEW s \in Seq(Entry), NEW e \in Entry, NEW type
    PROVE  Get(Append(s, e), type) = IF e.mime = type THEN e ELSE Get(s, type)
<1>1. PICK t : t = Append(s, e)
  OBVIOUS
<1>2. PICK n : n = Len(s) /\ n \in Nat
  BY LenProperties
<1>3. Len(t) = n + 1 /\ t[n + 1] = e /\ \A i \in 1..n : t[i] = s[i]
  BY <1>1, <1>2, AppendProperties
<1>4. IsLastOf(LastOf(s, type), s, n, type)
  BY <1>2, LastOfIs
<1>5. IsLastOf(LastOf(t, type), t, n + 1, type)
  <2>1. PICK m : m = n + 1 /\ m \in Nat
    BY <1>2
  <2>2. m = Len(t)
    BY <1>3, <2>1
  <2>3. IsLastOf(LastOf(t, type), t, m, type)
    BY <2>1, <2>2, LastOfIs
  <2> QED
    BY <2>1, <2>3
<1>6. CASE e.mime = type
  <2>1. IsLastOf(n + 1, t, n + 1, type)
    BY <1>2, <1>3, <1>6 DEF IsLastOf
  <2>2. LastOf(t, type) = n + 1 /\ n + 1 # 0
    BY <1>2, <1>5, <2>1, LastIsUnique
  <2> QED
    BY <1>1, <1>3, <1>6, <2>2, GetIs
<1>7. CASE e.mime # type
  <2>1. PICK i : i = LastOf(s, type)
    OBVIOUS
  <2>2. IsLastOf(i, t, n + 1, type)
    <3>1. i \in 0..n /\ i \in 0..(n + 1)
      BY <1>2, <1>4, <2>1 DEF IsLastOf
    <3>2. i # 0 => t[i].mime = type
      BY <1>2, <1>3, <1>4, <2>1, <3>1 DEF IsLastOf
    <3>3. ASSUME NEW j \in 1..(n + 1), t[j].mime = type PROVE j <= i
      <4>1. j # n + 1
        BY <1>3, <1>7, <3>3
      <4>2. j \in 1..n
        BY <1>2, <4>1
      <4> QED
        BY <1>3, <1>4, <2>1, <3>3, <4>2 DEF IsLastOf
    <3> QED
      BY <3>1, <3>2, <3>3 DEF IsLastOf
  <2>3. LastOf(t, type) = i
    BY <1>2, <1>5, <2>2, LastIsUnique
  <2>4. CASE i = 0
    BY <1>1, <1>7, <2>1, <2>3, <2>4, GetIs
  <2>5. CASE i # 0
    <3>1. t[i] = s[i]
      BY <1>2, <1>3, <1>4, <2>1, <2>5 DEF IsLastOf
    <3> QED
      BY <1>1, <1>7, <2>1, <2>3, <2>5, <3>1, GetIs
  <2> QED
    BY <2>4, <2>5
<1> QED
  BY <1>6, <1>7

\* x is the last of the first k entries of that type that has content, or
\* Undefined if there is none.
Latest(x, es, k, type) ==
    \/ x = Undefined /\ \A i \in 1..k : es[i].mime = type => es[i].content = <<>>
    \/ \E i \in 1..k :
          /\ x = es[i] /\ es[i].mime = type /\ es[i].content # <<>>
          /\ \A j \in 1..k : es[j].mime = type /\ es[j].content # <<>> => j <= i

LEMMA GetsLatest ==
    ASSUME NEW es, AreAddable(es), NEW f, Keeps(f, es), NEW type
    PROVE  \A k \in 0..Len(es) : Latest(Get(f[k], type), es, k, type)
<1> DEFINE Wrong == {k \in 0..Len(es) : ~Latest(Get(f[k], type), es, k, type)}
<1> SUFFICES ASSUME Wrong # {} PROVE FALSE
  OBVIOUS
<1>1. Wrong \subseteq Nat
  OBVIOUS
<1>2. PICK k \in Wrong : \A j \in Wrong : k <= j
  BY <1>1, Smallest
<1>3. k # 0
  <2>1. Latest(Get(f[0], type), es, 0, type)
    BY GetNothing DEF Keeps, Latest
  <2> QED
    BY <1>2, <2>1
<1>4. k \in 1..Len(es) /\ k - 1 \in 0..Len(es) /\ k \in Nat /\ ~(k <= k - 1)
  BY <1>2, <1>3 DEF AreAddable
<1>5. PICK x : x = Get(f[k - 1], type)
  OBVIOUS
<1>6. Latest(x, es, k - 1, type)
  BY <1>2, <1>4, <1>5
<1>7. PICK e : e = es[k]
  OBVIOUS
<1>8. e \in Entry
  BY <1>4, <1>7 DEF AreAddable, Addable
<1>9. f[k] = IF e.content = <<>> THEN f[k - 1] ELSE Append(f[k - 1], e)
  BY <1>4, <1>7 DEF Keeps
<1>10. f[k - 1] \in Seq(Entry)
  BY <1>4, KeepsType
<1>11. PICK y : y = Get(f[k], type)
  OBVIOUS
<1>12. y = IF e.content # <<>> /\ e.mime = type THEN e ELSE x
  BY <1>5, <1>8, <1>9, <1>10, <1>11, GetAppend
<1>13. \A i \in 1..k : i \in 1..(k - 1) \/ i = k
  BY <1>4
<1>14. CASE e.content # <<>> /\ e.mime = type
  <2>1. k \in 1..k /\ \A j \in 1..k : j <= k
    BY <1>4
  <2>2. Latest(y, es, k, type)
    BY <1>7, <1>12, <1>14, <2>1 DEF Latest
  <2> QED
    BY <1>2, <1>11, <2>2
<1>15. CASE ~(e.content # <<>> /\ e.mime = type)
  <2>1. y = x
    BY <1>12, <1>15
  <2>2. CASE x = Undefined /\ \A i \in 1..(k - 1) : es[i].mime = type => es[i].content = <<>>
    <3>1. \A i \in 1..k : es[i].mime = type => es[i].content = <<>>
      BY <1>7, <1>13, <1>15, <2>2
    <3>2. Latest(y, es, k, type)
      BY <2>1, <2>2, <3>1 DEF Latest
    <3> QED
      BY <1>2, <1>11, <3>2
  <2>3. ASSUME NEW i \in 1..(k - 1), x = es[i], es[i].mime = type, es[i].content # <<>>,
               \A j \in 1..(k - 1) : es[j].mime = type /\ es[j].content # <<>> => j <= i
        PROVE  FALSE
    <3>1. \A j \in 1..k : es[j].mime = type /\ es[j].content # <<>> => j <= i
      BY <1>7, <1>13, <1>15, <2>3
    <3>2. i \in 1..k
      BY <1>4
    <3>3. Latest(y, es, k, type)
      BY <2>1, <2>3, <3>1, <3>2 DEF Latest
    <3> QED
      BY <1>2, <1>11, <3>3
  <2> QED
    BY <1>6, <2>2, <2>3 DEF Latest
<1> QED
  BY <1>14, <1>15

\* Whatever is kept has been among the entries.
LEMMA KeepsOnly ==
    ASSUME NEW es, AreAddable(es), NEW f, Keeps(f, es)
    PROVE  \A k \in 0..Len(es) : \A e \in Range(f[k]) : \E i \in 1..Len(es) : e = es[i]
<1> DEFINE Known(e) == \E i \in 1..Len(es) : e = es[i]
           Wrong == {k \in 0..Len(es) : ~\A e \in Range(f[k]) : Known(e)}
<1> SUFFICES ASSUME Wrong # {} PROVE FALSE
  OBVIOUS
<1>1. Wrong \subseteq Nat
  OBVIOUS
<1>2. PICK k \in Wrong : \A j \in Wrong : k <= j
  BY <1>1, Smallest
<1>3. k # 0
  <2>1. Range(<<>>) = {}
    BY DEF Range
  <2> QED
    BY <1>2, <2>1 DEF Keeps
<1>4. k \in 1..Len(es) /\ k - 1 \in 0..Len(es) /\ k \in Nat /\ ~(k <= k - 1)
  BY <1>2, <1>3 DEF AreAddable
<1>5. \A e \in Range(f[k - 1]) : Known(e)
  BY <1>2, <1>4
<1>6. Known(es[k]) /\ es[k] \in Entry
  BY <1>4 DEF AreAddable, Addable
<1>7. PICK s : s = f[k - 1]
  OBVIOUS
<1>8. s \in Seq(Entry)
  BY <1>4, <1>7, KeepsType
<1>9. \A e \in Range(Append(s, es[k])) : e \in Range(s) \/ e = es[k]
  <2> SUFFICES ASSUME NEW i \in DOMAIN Append(s, es[k])
               PROVE  Append(s, es[k])[i] \in Range(s) \/ Append(s, es[k])[i] = es[k]
    BY DEF Range
  <2>1. i \in 1..(Len(s) + 1) /\ Len(s) \in Nat /\ DOMAIN s = 1..Len(s)
    BY <1>6, <1>8, AppendProperties
  <2>2. CASE i = Len(s) + 1
    BY <1>6, <1>8, <2>2, AppendProperties
  <2>3. CASE i # Len(s) + 1
    <3>1. i \in DOMAIN s /\ i \in 1..Len(s)
      BY <2>1, <2>3
    <3>2. Append(s, es[k])[i] = s[i]
      BY <1>6, <1>8, <3>1, AppendProperties
    <3> QED
      BY <3>1, <3>2 DEF Range
  <2> QED
    BY <2>2, <2>3
<1>10. f[k] = s \/ f[k] = Append(s, es[k])
  BY <1>4, <1>7 DEF Keeps
<1>11. \A e \in Range(f[k]) : Known(e)
  BY <1>5, <1>6, <1>7, <1>9, <1>10
<1> QED
  BY <1>2, <1>11

\* What the first lookup of a metadata has found.
FindsAll(es, entries) ==
    /\ \A e \in Range(entries) : e \in Range(es)
    /\ \A i \in DOMAIN es :
          \/ es[i].content = <<>>
          \/ Get(entries, es[i].mime) = es[i]
          \/ \E j \in DOMAIN es : j > i /\ es[j].mime = es[i].mime /\ es[j].content # <<>>

LEMMA NonEmptyFindsAll ==
    ASSUME NEW es, es \in Seq(Entries), AreAddable(es)
    PROVE  FindsAll(es, NonEmpty(es))
<1>1. PICK n : n = Len(es) /\ n \in Nat /\ DOMAIN es = 1..n
  BY LenProperties
<1>2. PICK f : Keeps(f, es) /\ NonEmpty(es) = f[n]
  BY <1>1, NonEmptyIs
<1>3. n \in 0..Len(es)
  BY <1>1
<1>4. PICK found : found = f[n]
  OBVIOUS
<1>5. ASSUME NEW e \in Range(found) PROVE e \in Range(es)
  <2>1. PICK i \in 1..n : e = es[i]
    BY <1>1, <1>2, <1>3, <1>4, KeepsOnly
  <2> QED
    BY <1>1, <2>1 DEF Range
<1>6. ASSUME NEW i \in 1..n, es[i].content # <<>>
      PROVE  \/ Get(found, es[i].mime) = es[i]
             \/ \E j \in 1..n : j > i /\ es[j].mime = es[i].mime /\ es[j].content # <<>>
  <2>1. PICK type : type = es[i].mime
    OBVIOUS
  <2>2. PICK x : x = Get(found, type)
    OBVIOUS
  <2>3. Latest(x, es, n, type)
    BY <1>2, <1>3, <1>4, <2>2, GetsLatest
  <2>4. PICK m \in 1..n :
            /\ x = es[m] /\ es[m].mime = type /\ es[m].content # <<>>
            /\ \A j \in 1..n : es[j].mime = type /\ es[j].content # <<>> => j <= m
    BY <1>6, <2>1, <2>3 DEF Latest
  <2>5. i <= m
    BY <1>6, <2>1, <2>4
  <2>6. m = i \/ m > i
    BY <1>1, <2>5
  <2> QED
    BY <2>1, <2>2, <2>4, <2>6
<1> QED
  BY <1>1, <1>2, <1>4, <1>5, <1>6 DEF FindsAll

LEMMA FirstLookup ==
    ASSUME MetadataInv, MetadataNext \/ UNCHANGED metadataVars,
           map = Undefined, map' # Undefined, yielded = <<>>, ~mixed
    PROVE  map' = NonEmpty(added) /\ FindsAll(added, map')
<1>1. FindEntry
  BY DEF MetadataNext, AddMetadata, Iterate, Advance, metadataVars
<1>2. Between(buffer, added, <<>>) /\ added \in Seq(Entries)
  BY DEF MetadataInv, MetadataTypeOK
<1>3. map' = AllEntries(buffer)
  BY <1>1 DEF FindEntry
<1>4. AllEntries(buffer) \in Seq(Entry) /\ <<>> \o AllEntries(buffer) = NonEmpty(added)
  BY <1>2, BetweenAll
<1>5. map' = NonEmpty(added)
  BY <1>3, <1>4, ConcatEmptySeq
<1>6. AreAddable(added)
  BY <1>2 DEF Between, IsCodeOf
<1> QED
  BY <1>2, <1>5, <1>6, NonEmptyFindsAll

-----------------------------------------------------------------------------
(* The tags of a routing entry                                             *)

TagAt(a) == ReadBytes(Skip(a, 1), ReadNumber(a, 1))
NoTagAt(a) == ReadNumber(a, 1) = 0 \/ TagAt(a) = Undefined
BehindLength(a) == Skip(a, 1).reader
BehindTag(a) == Skip(Skip(a, 1), ReadNumber(a, 1)).reader

LEMMA TagsGoOn ==
    ASSUME NEW b, InBounds(b), NEW r \in 0..b.capacity, IsReadable(At(b, r)), NEW q,
           q \in {BehindLength(At(b, r)), BehindTag(At(b, r))}
    PROVE  q \in Nat /\ r < q /\ q <= b.capacity
<1>1. PICK a : a = At(b, r)
  OBVIOUS
<1>2. InBounds(a) /\ IsReadable(a) /\ a.reader = r /\ a.capacity = b.capacity
  BY <1>1, AtType
<1>3. PICK c : c = Skip(a, 1)
  OBVIOUS
<1>4. Holds(a, 1) /\ a.reader \in Nat
  BY <1>2 DEF Holds, IsReadable, InBounds, Buffer
<1>5. Ahead(a, c) /\ c.reader = a.reader + 1
  BY <1>2, <1>3, <1>4, SkipAhead DEF Skip, InBounds, Buffer
<1>6. PICK n : n = ReadNumber(a, 1)
  OBVIOUS
<1>7. n \in Nat
  BY <1>2, <1>4, <1>6, HeldByteType DEF Bytes
<1>8. Ahead(c, Skip(c, n))
  BY <1>5, <1>7, SkipAhead DEF Ahead
<1>9. q = c.reader \/ q = Skip(c, n).reader
  BY <1>1, <1>3, <1>6 DEF BehindLength, BehindTag
<1> QED
  BY <1>2, <1>4, <1>5, <1>8, <1>9 DEF Ahead, InBounds, Buffer

LEMMA TagType ==
    ASSUME NEW b, InBounds(b), NEW r \in 0..b.capacity, IsReadable(At(b, r)), ~NoTagAt(At(b, r))
    PROVE  TagAt(At(b, r)) \in Seq(Bytes)
<1>1. PICK a : a = At(b, r)
  OBVIOUS
<1>2. InBounds(a) /\ IsReadable(a)
  BY <1>1, AtType
<1>3. PICK c : c = Skip(a, 1)
  OBVIOUS
<1>4. Holds(a, 1)
  BY <1>2 DEF Holds, IsReadable, InBounds, Buffer
<1>5. InBounds(c)
  BY <1>2, <1>3, OtherCallsType
<1>6. PICK n : n = ReadNumber(a, 1)
  OBVIOUS
<1>7. n \in Nat
  BY <1>2, <1>4, <1>6, HeldByteType DEF Bytes
<1>8. ReadBytes(c, n) # Undefined
  BY <1>1, <1>3, <1>6 DEF NoTagAt, TagAt
<1>9. c.reader + n <= Len(c.data) /\ c.reader \in Nat /\ c.data \in Seq(Bytes)
  BY <1>5, <1>8 DEF ReadBytes, Holds, InBounds, Buffer
<1>10. ReadBytes(c, n) = SubSeq(c.data, c.reader + 1, c.reader + n)
  BY <1>8 DEF ReadBytes
<1>11. ReadBytes(c, n) \in Seq(Bytes)
  BY <1>7, <1>9, <1>10, PartOf
<1> QED
  BY <1>1, <1>3, <1>6, <1>11 DEF TagAt

\* What Tags is at each place.
TagWalk(f, b) ==
    \A r \in 0..b.capacity :
        f[r] = IF ~IsReadable(At(b, r)) THEN <<>>
               ELSE IF NoTagAt(At(b, r)) THEN f[BehindLength(At(b, r))]
               ELSE <<TagAt(At(b, r))>> \o f[BehindTag(At(b, r))]

LEMMA TagsIs ==
    ASSUME NEW content \in Seq(Bytes), NEW b, b = FromUint8Array(content)
    PROVE  \E f : TagWalk(f, b) /\ Tags(content) = f[0]
<1> DEFINE from == CHOOSE from :
               from = [r \in 0..b.capacity |->
                   IF ~IsReadable([b EXCEPT !.reader = r]) THEN <<>>
                   ELSE IF ReadNumber([b EXCEPT !.reader = r], 1) = 0
                           \/ ReadBytes(Skip([b EXCEPT !.reader = r], 1),
                                        ReadNumber([b EXCEPT !.reader = r], 1)) = Undefined
                   THEN from[Skip([b EXCEPT !.reader = r], 1).reader]
                   ELSE <<ReadBytes(Skip([b EXCEPT !.reader = r], 1),
                                    ReadNumber([b EXCEPT !.reader = r], 1))>>
                        \o from[Skip(Skip([b EXCEPT !.reader = r], 1),
                                     ReadNumber([b EXCEPT !.reader = r], 1)).reader]]
<1>1. Tags(content) = from[0]
  BY DEF Tags
<1>2. InBounds(b)
  BY ChunkInBounds
<1>3. PICK n : n = b.capacity /\ n \in Nat
  BY <1>2 DEF InBounds, Buffer
<1>4. PICK value : value = [r \in 0..n |-> IF ~IsReadable(At(b, r)) THEN <<>> ELSE TagAt(At(b, r))]
  OBVIOUS
<1>5. PICK next : next = [r \in 0..n |->
          IF NoTagAt(At(b, r)) THEN BehindLength(At(b, r)) ELSE BehindTag(At(b, r))]
  OBVIOUS
<1>6. PICK stop : stop = {r \in 0..n : ~IsReadable(At(b, r))}
  OBVIOUS
<1>7. PICK through : through = {r \in 0..n : NoTagAt(At(b, r))}
  OBVIOUS
<1>8. PICK w : w = [stop |-> stop, through |-> through, value |-> value, next |-> next]
  OBVIOUS
<1>9. GoesOn(w, n)
  <2> SUFFICES ASSUME NEW r \in 0..n, r \notin stop
               PROVE  next[r] \in Nat /\ r < next[r] /\ next[r] <= n
    BY <1>8 DEF GoesOn
  <2>1. next[r] \in {BehindLength(At(b, r)), BehindTag(At(b, r))}
    BY <1>5
  <2> QED
    BY <1>2, <1>3, <1>6, <2>1, TagsGoOn
<1>10. PICK f : f = [r \in 0..n |-> Step(w, f, r)]
  BY <1>3, <1>9, WalkExists
<1>11. ASSUME NEW r \in 0..n
      PROVE  Step(w, f, r) =
               IF ~IsReadable(At(b, r)) THEN <<>>
               ELSE IF NoTagAt(At(b, r)) THEN f[BehindLength(At(b, r))]
               ELSE <<TagAt(At(b, r))>> \o f[BehindTag(At(b, r))]
  <2>1. w.stop = stop /\ w.through = through /\ w.value = value /\ w.next = next
    BY <1>8
  <2>2. Step(w, f, r) = IF r \in stop THEN value[r]
                        ELSE IF r \in through THEN f[next[r]] ELSE <<value[r]>> \o f[next[r]]
    BY <2>1 DEF Step
  <2> QED
    BY <1>4, <1>5, <1>6, <1>7, <2>2
<1>12. f = [r \in 0..b.capacity |->
                   IF ~IsReadable([b EXCEPT !.reader = r]) THEN <<>>
                   ELSE IF ReadNumber([b EXCEPT !.reader = r], 1) = 0
                           \/ ReadBytes(Skip([b EXCEPT !.reader = r], 1),
                                        ReadNumber([b EXCEPT !.reader = r], 1)) = Undefined
                   THEN f[Skip([b EXCEPT !.reader = r], 1).reader]
                   ELSE <<ReadBytes(Skip([b EXCEPT !.reader = r], 1),
                                    ReadNumber([b EXCEPT !.reader = r], 1))>>
                        \o f[Skip(Skip([b EXCEPT !.reader = r], 1),
                                     ReadNumber([b EXCEPT !.reader = r], 1)).reader]]
  BY <1>3, <1>10, <1>11 DEF At, NoTagAt, TagAt, BehindLength, BehindTag
<1>13. from = [r \in 0..b.capacity |->
                   IF ~IsReadable([b EXCEPT !.reader = r]) THEN <<>>
                   ELSE IF ReadNumber([b EXCEPT !.reader = r], 1) = 0
                           \/ ReadBytes(Skip([b EXCEPT !.reader = r], 1),
                                        ReadNumber([b EXCEPT !.reader = r], 1)) = Undefined
                   THEN from[Skip([b EXCEPT !.reader = r], 1).reader]
                   ELSE <<ReadBytes(Skip([b EXCEPT !.reader = r], 1),
                                    ReadNumber([b EXCEPT !.reader = r], 1))>>
                        \o from[Skip(Skip([b EXCEPT !.reader = r], 1),
                                     ReadNumber([b EXCEPT !.reader = r], 1)).reader]]
  BY <1>12
<1> HIDE DEF from
<1>14. PICK g : g = from
  OBVIOUS
<1>15. TagWalk(g, b)
  BY <1>13, <1>14 DEF TagWalk, At, NoTagAt, TagAt, BehindLength, BehindTag
<1> QED
  BY <1>1, <1>14, <1>15

LEMMA TagWalkType ==
    ASSUME NEW b, InBounds(b), NEW f, TagWalk(f, b)
    PROVE  \A r \in 0..b.capacity : f[r] \in Seq(Seq(Bytes))
<1>1. PICK n : n = b.capacity /\ n \in Nat
  BY DEF InBounds, Buffer
<1> DEFINE Wrong == {m \in 0..n : f[n - m] \notin Seq(Seq(Bytes))}
<1>2. ASSUME Wrong # {} PROVE FALSE
  <2>1. Wrong \subseteq Nat
    BY <1>1
  <2>2. PICK m \in Wrong : \A j \in Wrong : m <= j
    BY <1>2, <2>1, Smallest
  <2>3. PICK r : r = n - m
    OBVIOUS
  <2>4. r \in 0..n /\ r \in 0..b.capacity /\ m = n - r
    BY <1>1, <2>2, <2>3
  <2>5. f[r] \notin Seq(Seq(Bytes))
    BY <2>2, <2>3
  <2>6. IsReadable(At(b, r))
    <3>1. <<>> \in Seq(Seq(Bytes))
      OBVIOUS
    <3> QED
      BY <2>4, <2>5, <3>1 DEF TagWalk
  <2>7. ASSUME NEW q, q \in {BehindLength(At(b, r)), BehindTag(At(b, r))}
        PROVE  f[q] \in Seq(Seq(Bytes))
    <3>1. q \in Nat /\ r < q /\ q <= n
      BY <1>1, <2>4, <2>6, <2>7, TagsGoOn
    <3>2. n - q \in 0..n /\ n - q < n - r /\ n - (n - q) = q
      BY <1>1, <2>4, <3>1
    <3>3. n - r \in Nat /\ ~(n - r <= n - q)
      BY <1>1, <2>4, <3>2
    <3>4. n - q \notin Wrong
      BY <2>2, <2>4, <3>3
    <3> QED
      BY <3>2, <3>4
  <2>8. CASE NoTagAt(At(b, r))
    <3>1. f[r] = f[BehindLength(At(b, r))]
      BY <2>4, <2>6, <2>8 DEF TagWalk
    <3> QED
      BY <2>5, <2>7, <3>1
  <2>9. CASE ~NoTagAt(At(b, r))
    <3>1. f[r] = <<TagAt(At(b, r))>> \o f[BehindTag(At(b, r))]
      BY <2>4, <2>6, <2>9 DEF TagWalk
    <3>2. PICK one : one = <<TagAt(At(b, r))>>
      OBVIOUS
    <3>3. TagAt(At(b, r)) \in Seq(Bytes)
      BY <2>4, <2>6, <2>9, TagType
    <3>4. one \in Seq(Seq(Bytes))
      BY <3>2, <3>3
    <3>5. f[BehindTag(At(b, r))] \in Seq(Seq(Bytes))
      BY <2>7
    <3>6. one \o f[BehindTag(At(b, r))] \in Seq(Seq(Bytes))
      BY <3>4, <3>5, ConcatProperties
    <3> QED
      BY <2>5, <3>1, <3>2, <3>6
  <2> QED
    BY <2>8, <2>9
<1>3. ASSUME NEW r \in 0..n PROVE f[r] \in Seq(Seq(Bytes))
  <2>1. n - r \in 0..n /\ n - (n - r) = r
    BY <1>1
  <2> QED
    BY <1>2, <2>1
<1> QED
  BY <1>1, <1>3

LEMMA FirstPart ==
    ASSUME NEW S, NEW s \in Seq(S), NEW t \in Seq(S)
    PROVE  /\ s \o t \in Seq(S) /\ Len(s \o t) = Len(s) + Len(t)
           /\ \A i \in 1..Len(s) : (s \o t)[i] = s[i]
<1>1. s \o t \in Seq(S) /\ Len(s \o t) = Len(s) + Len(t)
  BY ConcatProperties
<1>2. \A i \in 1..Len(s) : (s \o t)[i] = s[i]
  BY ConcatProperties
<1> QED
  BY <1>1, <1>2

LEMMA HeadOfOne ==
    ASSUME NEW S, NEW x \in S, NEW t \in Seq(S)
    PROVE  <<x>> \o t # <<>> /\ Head(<<x>> \o t) = x
<1>1. PICK one : one = <<x>>
  OBVIOUS
<1>2. one \in Seq(S) /\ Len(one) = 1 /\ one[1] = x
  BY <1>1
<1>3. PICK s : s = one \o t
  OBVIOUS
<1>4. s \in Seq(S) /\ Len(s) = 1 + Len(t) /\ Len(t) \in Nat /\ s[1] = one[1]
  <2>1. s \in Seq(S) /\ Len(s) = Len(one) + Len(t) /\ \A i \in 1..Len(one) : s[i] = one[i]
    BY <1>2, <1>3, FirstPart
  <2>2. 1 \in 1..Len(one)
    BY <1>2
  <2>3. Len(t) \in Nat
    BY LenProperties
  <2> QED
    BY <1>2, <2>1, <2>2, <2>3
<1>5. s # <<>>
  BY <1>4
<1>6. Head(s) = s[1]
  BY <1>4, <1>5
<1> QED
  BY <1>1, <1>2, <1>3, <1>4, <1>5, <1>6

\* The first tag of a content that begins with one.
LEMMA FirstTagIs ==
    ASSUME NEW content \in Seq(Bytes), NEW n, n = content[1], n \in 1..(Len(content) - 1)
    PROVE  FirstTag(Tags(content)) = SubSeq(content, 2, n + 1)
<1>1. PICK b : b = FromUint8Array(content)
  OBVIOUS
<1>2. InBounds(b) /\ b.data = content /\ b.capacity = Len(content) /\ Len(content) \in Nat
  BY <1>1, ChunkInBounds DEF FromUint8Array
<1>3. PICK f : TagWalk(f, b) /\ Tags(content) = f[0]
  BY <1>1, TagsIs
<1>4. PICK a : a = At(b, 0)
  OBVIOUS
<1>5. 0 \in 0..b.capacity /\ n \in Nat /\ 0 < b.capacity /\ n + 1 <= b.capacity
  BY <1>2
<1>6. /\ InBounds(a) /\ a.reader = 0 /\ a.data = content /\ a.capacity = b.capacity
      /\ IsReadable(a)
  BY <1>2, <1>4, <1>5, AtType
<1>7. ReadNumber(a, 1) = n
  <2>1. PICK one : one = <<n>>
    OBVIOUS
  <2>2. n \in Bytes
    BY <1>5
  <2>3. one \in Seq(Bytes) /\ Len(one) = 1 /\ one[1] = n
    BY <2>1, <2>2
  <2>4. Holds(a, 1)
    <3>1. 0 + 1 <= b.capacity
      BY <1>2, <1>5
    <3> QED
      BY <1>6, <3>1 DEF Holds
  <2>5. \A i \in 1..1 : a.data[a.reader + i] = one[i]
    BY <1>6, <2>3
  <2>6. Follows(a, one)
    BY <1>6, <2>3, <2>4, <2>5 DEF Follows
  <2> QED
    BY <2>1, <2>2, <2>6, ReadsByte
<1>8. PICK c : c = Skip(a, 1)
  OBVIOUS
<1>9. c.reader = 1 /\ c.data = content /\ c.capacity = b.capacity
  BY <1>5, <1>6, <1>8 DEF Skip, Holds, InBounds, Buffer
<1>10. Holds(c, n)
  BY <1>5, <1>9 DEF Holds
<1>11. ReadBytes(c, n) = SubSeq(content, 2, n + 1)
  <2>1. ReadBytes(c, n) = SubSeq(c.data, c.reader + 1, c.reader + n)
    BY <1>10 DEF ReadBytes
  <2>2. c.reader + 1 = 2 /\ c.reader + n = n + 1
    BY <1>5, <1>9
  <2> QED
    BY <1>9, <2>1, <2>2
<1>12. PICK tag : tag = SubSeq(content, 2, n + 1)
  OBVIOUS
<1>13. tag \in Seq(Bytes)
  <2>1. 1 + n <= Len(content) /\ 1 + 1 = 2 /\ 1 + n = n + 1
    BY <1>2, <1>5
  <2>2. SubSeq(content, 1 + 1, 1 + n) \in Seq(Bytes)
    BY <1>5, <2>1, PartOf
  <2> QED
    BY <1>12, <2>1, <2>2
<1>14. TagAt(a) = tag
  BY <1>7, <1>8, <1>11, <1>12 DEF TagAt
<1>15. ~NoTagAt(a)
  <2>1. tag # Undefined
    BY <1>13, UndefinedIsNoSequence
  <2>2. n # 0
    BY <1>2
  <2> QED
    BY <1>7, <1>14, <2>1, <2>2 DEF NoTagAt
<1>16. PICK rest : rest = f[BehindTag(a)]
  OBVIOUS
<1>17. rest \in Seq(Seq(Bytes))
  <2>1. PICK q : q = BehindTag(a)
    OBVIOUS
  <2>2. q \in Nat /\ 0 < q /\ q <= b.capacity
    BY <1>2, <1>4, <1>5, <1>6, <2>1, TagsGoOn
  <2>3. q \in 0..b.capacity
    BY <1>2, <2>2
  <2> QED
    BY <1>2, <1>3, <1>16, <2>1, <2>3, TagWalkType
<1>18. f[0] = <<tag>> \o rest
  BY <1>3, <1>4, <1>5, <1>6, <1>14, <1>15, <1>16 DEF TagWalk
<1>19. Tags(content) # <<>> /\ Head(Tags(content)) = tag
  BY <1>3, <1>13, <1>17, <1>18, HeadOfOne
<1> QED
  BY <1>12, <1>19 DEF FirstTag

-----------------------------------------------------------------------------
(* Routing keys                                                            *)

DotOf(key) == SelectLastInSeq(key, LAMBDA c : c = Dot)

LEMMA DotIs ==
    ASSUME NEW key, NEW n, n = Len(key), n \in Nat
    PROVE  /\ DotOf(key) \in 0..n
           /\ DotOf(key) # 0 => key[DotOf(key)] = Dot
           /\ \A j \in 1..n : key[j] = Dot => j <= DotOf(key)
<1> DEFINE I == {i \in 1..n : key[i] = Dot}
<1>1. DotOf(key) = IF I # {} THEN Max(I) ELSE 0
  BY DEF DotOf, SelectLastInSeq
<1>2. CASE I = {}
  BY <1>1, <1>2
<1>3. CASE I # {}
  <2>1. I \subseteq 1..n
    OBVIOUS
  <2>2. PICK m : m = Max(I)
    OBVIOUS
  <2>3. m \in I /\ \A i \in I : m >= i
    BY <1>3, <2>1, <2>2, LastIndex
  <2>4. DotOf(key) = m
    BY <1>1, <1>3, <2>2
  <2>5. ASSUME NEW j \in 1..n, key[j] = Dot PROVE j <= m
    <3>1. j \in I
      BY <2>5
    <3> QED
      BY <2>3, <3>1
  <2> QED
    BY <2>3, <2>4, <2>5
<1> QED
  BY <1>2, <1>3

LEMMA SplitIs ==
    ASSUME NEW key, NEW dot, dot = DotOf(key)
    PROVE  SplitKey(key) = [service |-> SubSeq(key, 1, dot - 1),
                            method |-> SubSeq(key, dot + 1, Len(key))]
BY DEF SplitKey, DotOf

\* key has p bytes of s, a dot, and q bytes of m.
IsKey(key, s, m, p, q) ==
    /\ key \in Seq(Bytes) /\ Len(key) = p + 1 + q
    /\ \A i \in 1..p : key[i] = s[i]
    /\ key[p + 1] = Dot
    /\ \A i \in 1..q : key[p + 1 + i] = m[i]

LEMMA KeyIs ==
    ASSUME NEW s \in Seq(Bytes), NEW m \in Seq(Bytes), NEW p, NEW q, p = Len(s), q = Len(m)
    PROVE  p \in Nat /\ q \in Nat /\ IsKey(RoutingKey(s, m), s, m, p, q)
<1>1. PICK one : one = <<Dot>>
  OBVIOUS
<1>2. one \in Seq(Bytes) /\ Len(one) = 1 /\ one[1] = Dot /\ 1 \in 1..1
  BY <1>1 DEF Dot, Bytes
<1>3. PICK front : front = Cat(s, one)
  OBVIOUS
<1>4. front \in Seq(Bytes) /\ Len(front) = p + 1 /\ p \in Nat
  BY <1>2, <1>3, CatType
<1>5. PICK key : key = Cat(front, m)
  OBVIOUS
<1>6. key \in Seq(Bytes) /\ Len(key) = p + 1 + q /\ q \in Nat
  BY <1>4, <1>5, CatType
<1>7. (\A i \in 1..p : front[i] = s[i]) /\ front[p + 1] = Dot
  <2>1. \A i \in 1..Len(one) : front[p + i] = one[i]
    BY <1>2, <1>3, CatElements
  <2>2. \A i \in 1..p : front[i] = s[i]
    BY <1>2, <1>3, CatElements
  <2> QED
    BY <1>2, <2>1, <2>2
<1>8. \A i \in 1..(p + 1) : key[i] = front[i]
  BY <1>4, <1>5, CatElements
<1>9. \A i \in 1..q : key[p + 1 + i] = m[i]
  <2>1. PICK l : l = Len(front)
    OBVIOUS
  <2>2. \A i \in 1..q : key[l + i] = m[i]
    BY <1>4, <1>5, <2>1, SecondPart
  <2>3. l = p + 1
    BY <1>4, <2>1
  <2> QED
    BY <2>2, <2>3
<1>10. \A i \in 1..p : key[i] = s[i]
  BY <1>4, <1>7, <1>8
<1>11. key[p + 1] = Dot
  <2>1. p + 1 \in 1..(p + 1)
    BY <1>4
  <2> QED
    BY <1>7, <1>8, <2>1
<1>12. key = RoutingKey(s, m)
  BY <1>1, <1>3, <1>5 DEF RoutingKey, Cat
<1> QED
  BY <1>4, <1>6, <1>9, <1>10, <1>11, <1>12 DEF IsKey

\* A method has no dot, so the last one is the one between the two.
LEMMA SplitOfKey ==
    ASSUME NEW s \in Seq(Bytes), NEW m \in Seq(Bytes), ~Contains(m, Dot)
    PROVE  SplitKey(RoutingKey(s, m)) = [service |-> s, method |-> m]
<1>1. PICK key : key = RoutingKey(s, m)
  OBVIOUS
<1>2. PICK p : p = Len(s) /\ p \in Nat
  BY LenProperties
<1>3. PICK q : q = Len(m) /\ q \in Nat
  BY LenProperties
<1>4. /\ key \in Seq(Bytes) /\ Len(key) = p + 1 + q
      /\ \A i \in 1..p : key[i] = s[i]
      /\ key[p + 1] = Dot
      /\ \A i \in 1..q : key[p + 1 + i] = m[i]
  <2>1. IsKey(key, s, m, p, q)
    BY <1>1, <1>2, <1>3, KeyIs
  <2> QED
    BY <2>1 DEF IsKey
<1>5. PICK n : n = Len(key) /\ n \in Nat
  BY <1>4, LenProperties
<1>6. \A i \in 1..q : m[i] # Dot
  BY <1>3 DEF Contains
<1>7. PICK dot : dot = DotOf(key)
  OBVIOUS
<1>8. /\ dot \in 0..n
      /\ dot # 0 => key[dot] = Dot
      /\ \A j \in 1..n : key[j] = Dot => j <= dot
  BY <1>5, <1>7, DotIs
<1>9. dot = p + 1
  <2>1. p + 1 \in 1..n
    BY <1>2, <1>3, <1>4, <1>5
  <2>2. p + 1 <= dot
    BY <1>4, <1>8, <2>1
  <2>3. ASSUME p + 1 < dot PROVE FALSE
    <3>1. PICK i : i = dot - (p + 1)
      OBVIOUS
    <3>2. i \in 1..q /\ p + 1 + i = dot /\ dot # 0
      BY <1>2, <1>3, <1>4, <1>5, <1>8, <2>3, <3>1
    <3>3. key[dot] = m[i]
      BY <1>4, <3>2
    <3> QED
      BY <1>6, <1>8, <3>2, <3>3
  <2> QED
    BY <1>2, <1>5, <1>8, <2>2, <2>3
<1>10. PICK service : service = SubSeq(key, 1, dot - 1)
  OBVIOUS
<1>11. service = s
  <2>1. dot - 1 = 0 + p /\ 0 + 1 = 1 /\ 0 + p <= Len(key) /\ 0 \in Nat
    BY <1>2, <1>3, <1>4, <1>9
  <2>2. service = SubSeq(key, 0 + 1, 0 + p)
    BY <1>10, <2>1
  <2>3. service \in Seq(Bytes) /\ Len(service) = p /\ \A i \in 1..p : service[i] = key[0 + i]
    BY <1>2, <1>4, <2>1, <2>2, PartOf
  <2>4. \A i \in 1..p : service[i] = s[i]
    <3> SUFFICES ASSUME NEW i \in 1..p PROVE service[i] = s[i]
      OBVIOUS
    <3>1. 0 + i = i
      OBVIOUS
    <3> QED
      BY <1>4, <2>3, <3>1
  <2> QED
    BY <1>2, <2>3, <2>4, SeqEqual
<1>12. PICK method : method = SubSeq(key, dot + 1, Len(key))
  OBVIOUS
<1>13. method = m
  <2>1. dot \in Nat /\ dot <= Len(key) /\ Len(key) - dot = q
    BY <1>2, <1>3, <1>4, <1>9
  <2>2. method \in Seq(Bytes) /\ Len(method) = q /\ \A i \in 1..q : method[i] = key[dot + i]
    BY <1>4, <1>12, <2>1, RestOf
  <2>3. \A i \in 1..q : method[i] = m[i]
    BY <1>4, <1>9, <2>2
  <2> QED
    BY <1>3, <2>2, <2>3, SeqEqual
<1>14. SplitKey(key) = [service |-> service, method |-> method]
  BY <1>7, <1>10, <1>12, SplitIs
<1> QED
  BY <1>1, <1>11, <1>13, <1>14

\* And what a key is split into makes it again, if there is a service.
LEMMA KeyOfSplit ==
    ASSUME NEW key \in Seq(Bytes), NEW routing, routing = SplitKey(key), routing.service # <<>>
    PROVE  /\ RoutingKey(routing.service, routing.method) = key
           /\ routing \in [service : Seq(Bytes), method : Seq(Bytes)]
<1>1. PICK n : n = Len(key) /\ n \in Nat
  BY LenProperties
<1>2. PICK dot : dot = DotOf(key)
  OBVIOUS
<1>3. /\ dot \in 0..n
      /\ dot # 0 => key[dot] = Dot
  BY <1>1, <1>2, DotIs
<1>4. PICK s : s = SubSeq(key, 1, dot - 1)
  OBVIOUS
<1>5. PICK m : m = SubSeq(key, dot + 1, n)
  OBVIOUS
<1>6. routing = [service |-> s, method |-> m]
  BY <1>1, <1>2, <1>4, <1>5, SplitIs
<1>7. dot # 0
  <2>1. ASSUME dot = 0 PROVE SubSeq(key, 1, dot - 1) = <<>>
    <3>1. dot - 1 < 1 /\ dot - 1 \in Int
      BY <2>1
    <3> QED
      BY <3>1, SubSeqEmpty
  <2> QED
    BY <1>4, <1>6, <2>1
<1>8. PICK p : p = dot - 1
  OBVIOUS
<1>9. p \in Nat /\ dot = p + 1 /\ 0 + p = p /\ 0 + 1 = 1 /\ 0 + p <= n /\ dot \in Nat /\ dot <= n
  BY <1>1, <1>3, <1>7, <1>8
<1>10. s \in Seq(Bytes) /\ Len(s) = p /\ \A i \in 1..p : s[i] = key[0 + i]
  <2>1. s = SubSeq(key, 0 + 1, 0 + p)
    BY <1>4, <1>8, <1>9
  <2> QED
    BY <1>1, <1>9, <2>1, PartOf
<1>11. m \in Seq(Bytes) /\ Len(m) = n - dot /\ \A i \in 1..(n - dot) : m[i] = key[dot + i]
  BY <1>1, <1>5, <1>9, RestOf
<1>12. PICK whole : whole = RoutingKey(s, m)
  OBVIOUS
<1>13. /\ whole \in Seq(Bytes) /\ Len(whole) = p + 1 + (n - dot)
       /\ \A i \in 1..p : whole[i] = s[i]
       /\ whole[p + 1] = Dot
       /\ \A i \in 1..(n - dot) : whole[p + 1 + i] = m[i]
  <2>1. PICK q : q = n - dot
    OBVIOUS
  <2>2. IsKey(whole, s, m, p, q)
    BY <1>10, <1>11, <1>12, <2>1, KeyIs
  <2> QED
    BY <2>1, <2>2 DEF IsKey
<1>14. Len(whole) = n
  BY <1>1, <1>9, <1>13
<1>15. ASSUME NEW i \in 1..n PROVE whole[i] = key[i]
  <2>1. CASE i < dot
    <3>1. i \in 1..p /\ 0 + i = i
      BY <1>9, <2>1
    <3> QED
      BY <1>10, <1>13, <3>1
  <2>2. CASE i = dot
    BY <1>3, <1>7, <1>9, <1>13, <2>2
  <2>3. CASE dot < i
    <3>1. PICK j : j = i - dot
      OBVIOUS
    <3>2. j \in 1..(n - dot) /\ dot + j = i /\ p + 1 + j = i
      BY <1>1, <1>9, <2>3, <3>1
    <3> QED
      BY <1>11, <1>13, <3>2
  <2> QED
    BY <1>9, <2>1, <2>2, <2>3
<1>16. whole = key
  BY <1>1, <1>13, <1>14, <1>15, SeqEqual
<1>17. routing.service = s /\ routing.method = m
  BY <1>6
<1>18. routing \in [service : Seq(Bytes), method : Seq(Bytes)]
  BY <1>6, <1>10, <1>11
<1> QED
  BY <1>12, <1>16, <1>17, <1>18

-----------------------------------------------------------------------------
(* From metadata to a routing                                              *)

\* What a receiver finds in metadata is what has content of what was added.
LEMMA ReceivedAll ==
    ASSUME NEW b, NEW es, NEW ys, Between(b, es, ys)
    PROVE  AllEntries(FromUint8Array(b.data)) = NonEmpty(es)
<1>1. PICK u, f : IsCodeOf(b, es, u) /\ Keeps(f, es)
  BY DEF Between
<1>2. PICK c : c = FromUint8Array(b.data)
  OBVIOUS
<1>3. InBounds(c) /\ c.data = b.data /\ c.reader = 0
  BY <1>1, <1>2, ChunkInBounds DEF IsCodeOf, InBounds, Buffer, FromUint8Array
<1>4. IsCodeOf(c, es, u)
  BY <1>1, <1>3 DEF IsCodeOf
<1>5. u[0] = <<>> /\ Len(<<>>) = 0 /\ f[0] = <<>>
  BY <1>1 DEF IsCodeOf, Joins, Keeps
<1>6. 0 \in 0..Len(es) /\ c.reader = Len(u[0]) /\ <<>> = f[0]
  BY <1>1, <1>3, <1>5 DEF IsCodeOf, AreAddable
<1>7. Between(c, es, <<>>)
  BY <1>1, <1>4, <1>6 DEF Between
<1>8. AllEntries(c) \in Seq(Entry) /\ <<>> \o AllEntries(c) = NonEmpty(es)
  BY <1>7, BetweenAll
<1>9. AllEntries(c) = NonEmpty(es)
  BY <1>8, ConcatEmptySeq
<1> QED
  BY <1>2, <1>9

\* If the entries of a type have content, the last of them is found.
LEMMA GetsLast ==
    ASSUME NEW es, AreAddable(es), NEW type,
           \A i \in 1..Len(es) : es[i].mime = type => es[i].content # <<>>
    PROVE  Get(NonEmpty(es), type) =
               IF LastOf(es, type) = 0 THEN Undefined ELSE es[LastOf(es, type)]
<1>1. PICK n : n = Len(es) /\ n \in Nat
  BY DEF AreAddable
<1>2. PICK f : Keeps(f, es) /\ NonEmpty(es) = f[n]
  BY <1>1, NonEmptyIs
<1>3. PICK x : x = Get(f[n], type)
  OBVIOUS
<1>4. n \in 0..Len(es)
  BY <1>1
<1>5. Latest(x, es, n, type)
  BY <1>2, <1>3, <1>4, GetsLatest
<1>6. PICK last : last = LastOf(es, type)
  OBVIOUS
<1>7. IsLastOf(last, es, n, type)
  BY <1>1, <1>6, LastOfIs
<1>8. CASE x = Undefined /\ \A i \in 1..n : es[i].mime = type => es[i].content = <<>>
  <2>1. \A i \in 1..n : es[i].mime # type
    BY <1>1, <1>8
  <2>2. last = 0
    BY <1>1, <1>7, <2>1 DEF IsLastOf
  <2> QED
    BY <1>2, <1>3, <1>6, <1>8, <2>2
<1>9. ASSUME NEW i \in 1..n, x = es[i], es[i].mime = type,
             \A j \in 1..n : es[j].mime = type /\ es[j].content # <<>> => j <= i
      PROVE  last = i /\ i # 0
  <2>1. \A j \in 1..n : es[j].mime = type => j <= i
    BY <1>1, <1>9
  <2>2. IsLastOf(i, es, n, type)
    BY <1>1, <1>9, <2>1 DEF IsLastOf
  <2> QED
    BY <1>1, <1>7, <2>2, LastIsUnique
<1>10. CASE \E i \in 1..n :
               /\ x = es[i] /\ es[i].mime = type /\ es[i].content # <<>>
               /\ \A j \in 1..n : es[j].mime = type /\ es[j].content # <<>> => j <= i
  <2>1. last # 0 /\ x = es[last]
    BY <1>9, <1>10
  <2> QED
    BY <1>2, <1>3, <1>6, <2>1
<1> QED
  BY <1>5, <1>8, <1>10 DEF Latest

\* As the stub writes its one tag.
LEMMA OneTag ==
    ASSUME NEW key
    PROVE  TagsContent(<<key>>) = WriteBytes(Alloc(2), TagBytes(key)).data
<1>1. PICK one : one = <<key>>
  OBVIOUS
<1>2. DOMAIN one = {1} /\ one[1] = key /\ Len(one) = 1
  BY <1>1
<1>3. PICK start : start = Alloc(2 * Len(one))
  OBVIOUS
<1> DEFINE iter == CHOOSE iter :
               iter = [s \in SUBSET (DOMAIN one) |->
                   IF s = {} THEN start ELSE WriteBytes(iter[s \ {Max(s)}], TagBytes(one[Max(s)]))]
<1>4. TagsContent(one) = iter[DOMAIN one].data
  BY <1>3 DEF TagsContent, FoldLeft, MapThenFoldSet
<1>5. PICK f : f = [s \in SUBSET {1} |-> IF s = {} THEN start ELSE WriteBytes(start, TagBytes(key))]
  OBVIOUS
<1>6. f = [s \in SUBSET (DOMAIN one) |->
                   IF s = {} THEN start ELSE WriteBytes(f[s \ {Max(s)}], TagBytes(one[Max(s)]))]
  <2>1. ASSUME NEW s \in SUBSET {1}, s # {} PROVE s = {1} /\ Max(s) = 1 /\ s \ {Max(s)} = {}
    <3>1. s = {1}
      BY <2>1
    <3>2. Max(s) = 1
      BY <3>1, MaxOne
    <3> QED
      BY <3>1, <3>2
  <2>2. f[{}] = start
    BY <1>5
  <2>3. ASSUME NEW s \in SUBSET {1}
        PROVE  f[s] = IF s = {} THEN start ELSE WriteBytes(f[s \ {Max(s)}], TagBytes(one[Max(s)]))
    <3>1. CASE s = {}
      BY <1>5, <3>1
    <3>2. CASE s # {}
      BY <1>2, <1>5, <2>1, <2>2, <3>2
    <3> QED
      BY <3>1, <3>2
  <2> QED
    BY <1>2, <1>5, <2>3
<1>7. iter = [s \in SUBSET (DOMAIN one) |->
                   IF s = {} THEN start ELSE WriteBytes(iter[s \ {Max(s)}], TagBytes(one[Max(s)]))]
  BY <1>6
<1> HIDE DEF iter
<1>8. iter[DOMAIN one] = WriteBytes(iter[{}], TagBytes(key))
  <2>1. PICK m : m = Max({1})
    OBVIOUS
  <2>2. m = 1
    BY <2>1, MaxOne
  <2>3. PICK g : g = iter
    OBVIOUS
  <2>4. {1} \in SUBSET (DOMAIN one) /\ {1} # {} /\ {1} \ {m} = {}
    BY <1>2, <2>2
  <2>5. g[{1}] = WriteBytes(g[{1} \ {m}], TagBytes(one[m]))
    BY <1>7, <2>1, <2>3, <2>4
  <2>6. g[{1}] = WriteBytes(g[{}], TagBytes(key))
    BY <1>2, <2>2, <2>4, <2>5
  <2> QED
    BY <1>2, <2>3, <2>6
<1>9. iter[{}] = start
  BY <1>7
<1>10. start = Alloc(2)
  <2>1. 2 * Len(one) = 2
    BY <1>2
  <2> QED
    BY <1>3, <2>1
<1> QED
  BY <1>1, <1>4, <1>8, <1>9, <1>10

LEMMA StubContent ==
    ASSUME NEW key \in Seq(Bytes), NEW n, n = Len(key), n \in 1..255,
           NEW content, content = TagsContent(<<key>>)
    PROVE  /\ content \in Seq(Bytes) /\ Len(content) = n + 1
           /\ content[1] = n /\ SubSeq(content, 2, n + 1) = key
<1>1. PICK b : b = Alloc(2)
  OBVIOUS
<1>2. InBounds(b) /\ b.writer = 0 /\ b.data \in Seq(Bytes) /\ Len(b.data) = 2
  BY <1>1, AllocInBounds
<1>3. PICK one : one = <<n>>
  OBVIOUS
<1>4. n \in Bytes /\ n \in Nat /\ n <= 255 /\ 1 <= n
  <2>1. n \in 1..255
    OBVIOUS
  <2> QED
    BY ONLY <2>1 DEF Bytes
<1>5. one \in Seq(Bytes) /\ Len(one) = 1 /\ one[1] = n
  BY <1>3, <1>4
<1>6. PICK bytes : bytes = Cat(one, key)
  OBVIOUS
<1>7. bytes \in Seq(Bytes) /\ Len(bytes) = n + 1
  <2>1. Len(bytes) = 1 + n
    BY <1>5, <1>6, CatType
  <2> QED
    BY <1>4, <1>5, <1>6, <2>1, CatType
<1>8. TagBytes(key) = bytes
  <2>1. Len(key) <= 255
    BY <1>4
  <2>2. TagBytes(key) = <<Len(key)>> \o key
    BY <2>1 DEF TagBytes
  <2>3. <<Len(key)>> = one
    BY <1>3
  <2> QED
    BY <1>6, <2>2, <2>3 DEF Cat
<1>9. Len(b.data) <= Len(bytes)
  <2>1. 2 <= n + 1
    BY <1>4
  <2> QED
    BY <1>2, <1>7, <2>1
<1>10. content = bytes
  <2>1. WriteBytes(b, bytes).data = bytes
    BY <1>2, <1>7, <1>9, WritesAll
  <2> QED
    BY <1>1, <1>8, <2>1, OneTag
<1>11. bytes[1] = n
  <2>1. \A i \in 1..1 : bytes[i] = one[i]
    BY <1>5, <1>6, CatElements
  <2> QED
    BY <1>5, <2>1
<1>12. PICK part : part = SubSeq(bytes, 1 + 1, 1 + n)
  OBVIOUS
<1>13. part \in Seq(Bytes) /\ Len(part) = n /\ \A i \in 1..n : part[i] = bytes[1 + i]
  BY <1>4, <1>7, <1>12, PartOf
<1>14. \A i \in 1..n : bytes[1 + i] = key[i]
  <2>1. PICK l : l = Len(one)
    OBVIOUS
  <2>2. \A i \in 1..n : bytes[l + i] = key[i]
    BY <1>5, <1>6, <2>1, SecondPart
  <2> QED
    BY <1>5, <2>1, <2>2
<1>15. part = key
  BY <1>13, <1>14, SeqEqual
<1>16. 1 + 1 = 2 /\ 1 + n = n + 1
  BY <1>4
<1> QED
  BY <1>7, <1>10, <1>11, <1>12, <1>15, <1>16

\* The routing entry of a key that a tag can hold: its bytes are metadata, and
\* its first tag is the key.
LEMMA KeyEntry ==
    ASSUME NEW key \in Seq(Bytes), Len(key) \in 1..255, NEW e, e = RoutingMetadata(<<key>>)
    PROVE  /\ Addable(e) /\ e.mime = RoutingType /\ e.content # <<>>
           /\ FirstTag(Tags(e.content)) = key
<1>1. PICK n : n = Len(key)
  OBVIOUS
<1>2. PICK content : content = TagsContent(<<key>>)
  OBVIOUS
<1>3. /\ content \in Seq(Bytes) /\ Len(content) = n + 1
      /\ content[1] = n /\ SubSeq(content, 2, n + 1) = key
  BY <1>1, <1>2, StubContent
<1>4. e = [mime |-> RoutingType, content |-> content]
  BY <1>2 DEF RoutingMetadata
<1>5. n \in 1..255
  BY <1>1
<1>6. n \in 1..((n + 1) - 1) /\ n + 1 \in Nat /\ n + 1 # 0
  BY ONLY <1>5
<1>7. e.mime = RoutingType /\ e.content = content
  BY <1>4
<1>8. RoutingType \in Names /\ Len(RoutingType) < 128
  BY RoutingAssumption, WellKnownAssumption
<1>9. e \in Entry
  BY <1>3, <1>4, <1>8 DEF Entry
<1>10. Fits(n + 1, 3)
  <2>1. (n + 1) \div 65536 < 256
    BY ONLY <1>5
  <2> QED
    BY <2>1 DEF Fits, Weight
<1>11. Addable(e)
  <2>1. Fits(Len(e.content), 3)
    BY <1>3, <1>7, <1>10
  <2> QED
    BY <1>7, <1>8, <1>9, <2>1 DEF Addable
<1>12. content # <<>>
  BY <1>3, <1>6
<1>13. FirstTag(Tags(content)) = key
  <2>1. n \in 1..(Len(content) - 1)
    BY <1>3, <1>6
  <2>2. FirstTag(Tags(content)) = SubSeq(content, 2, n + 1)
    BY <1>3, <2>1, FirstTagIs
  <2> QED
    BY <1>3, <2>2
<1> QED
  BY <1>7, <1>11, <1>12, <1>13

LEMMA OneEntryReceived ==
    ASSUME NEW e, Addable(e), e.content # <<>>
    PROVE  Get(AllEntries(FromUint8Array(FromEntries(<<e>>).data)), e.mime) = e
<1>1. PICK es : es = <<e>>
  OBVIOUS
<1>2. Len(es) = 1 /\ es[1] = e
  BY <1>1
<1>3. AreAddable(es)
  BY <1>2 DEF AreAddable
<1>4. PICK bytes : bytes = FromEntries(es).data
  OBVIOUS
<1>5. bytes = EntryBytes(e) /\ bytes \in Seq(Bytes)
  BY <1>1, <1>4, OneEntryBytes, EntryBytesIs
<1>6. PICK b : b = FromUint8Array(bytes)
  OBVIOUS
<1>7. InBounds(b) /\ b.data = bytes /\ b.reader = 0
  BY <1>5, <1>6, ChunkInBounds DEF FromUint8Array
<1>8. Between(b, es, <<>>)
  BY <1>2, <1>3, <1>5, <1>7, BetweenStart
<1>9. AllEntries(b) = NonEmpty(es)
  BY <1>6, <1>7, <1>8, ReceivedAll
<1>10. PICK last : last = LastOf(es, e.mime)
  OBVIOUS
<1>11. IsLastOf(last, es, 1, e.mime)
  BY <1>2, <1>10, LastOfIs
<1>12. last = 1
  BY <1>2, <1>11 DEF IsLastOf
<1>13. Get(NonEmpty(es), e.mime) = IF last = 0 THEN Undefined ELSE es[last]
  <2>1. \A i \in 1..Len(es) : es[i].mime = e.mime => es[i].content # <<>>
    BY <1>2
  <2> QED
    BY <1>3, <1>10, <2>1, GetsLast
<1>14. Get(NonEmpty(es), e.mime) = e
  BY <1>2, <1>12, <1>13
<1> QED
  BY <1>1, <1>4, <1>6, <1>9, <1>14

LEMMA NamesAreBytes ==
    ASSUME NEW s \in Services, NEW m \in Methods
    PROVE  /\ s \in Seq(Bytes) /\ s # <<>> /\ Len(s) \in Nat /\ Len(s) # 0
           /\ m \in Seq(Bytes) /\ ~Contains(m, Dot)
<1>1. s \in Seq(Bytes) /\ s # <<>> /\ m \in Seq(Bytes) /\ ~Contains(m, Dot)
  BY NamesAssumption DEF Names
<1>2. Len(s) \in Nat /\ Len(s) # 0
  BY <1>1, LenProperties, EmptySeq
<1> QED
  BY <1>1, <1>2

\* What a stub sends leads to the service and the method that were called.
StubMetadata(s, m) == FromEntries(<<RoutingMetadata(<<RoutingKey(s, m)>>)>>).data

LEMMA StubRouting ==
    ASSUME NEW s \in Services, NEW m \in Methods
    PROVE  ParseRouting(StubMetadata(s, m)) = [service |-> s, method |-> m]
<1>1. /\ s \in Seq(Bytes) /\ s # <<>> /\ Len(s) \in Nat /\ Len(s) # 0
      /\ m \in Seq(Bytes) /\ ~Contains(m, Dot)
  BY NamesAreBytes
<1>2. PICK key : key = RoutingKey(s, m)
  OBVIOUS
<1>3. PICK p, q : p = Len(s) /\ q = Len(m)
  OBVIOUS
<1>4. p \in Nat /\ q \in Nat /\ IsKey(key, s, m, p, q)
  BY <1>1, <1>2, <1>3, KeyIs
<1>5. Len(key) <= 255
  BY <1>2, KeysAssumption
<1>6. key \in Seq(Bytes) /\ Len(key) \in 1..255
  BY <1>4, <1>5 DEF IsKey
<1>7. PICK e : e = RoutingMetadata(<<key>>)
  OBVIOUS
<1>8. /\ Addable(e) /\ e.mime = RoutingType /\ e.content # <<>>
      /\ FirstTag(Tags(e.content)) = key
  BY <1>6, <1>7, KeyEntry
<1>9. PICK bytes : bytes = StubMetadata(s, m)
  OBVIOUS
<1>10. bytes = FromEntries(<<e>>).data
  BY <1>2, <1>7, <1>9 DEF StubMetadata
<1>11. Get(AllEntries(FromUint8Array(bytes)), RoutingType) = e
  BY <1>8, <1>10, OneEntryReceived
<1>12. e # Undefined
  BY <1>8, EntryTypes
<1>13. ParseRouting(bytes) = SplitKey(key)
  BY <1>8, <1>11, <1>12 DEF ParseRouting, RoutingOf
<1> QED
  BY <1>1, <1>2, <1>9, <1>13, SplitOfKey

\* What an application sends leads where its last routing entry says.
LEMMA OwnRouting ==
    ASSUME NEW b, NEW es, NEW ys, Between(b, es, ys), es \in Seq(Entries),
           NEW routing, routing = ParseRouting(b.data), routing # Undefined,
           routing.service # <<>>
    PROVE  /\ routing \in [service : Seq(Bytes), method : Seq(Bytes)]
           /\ LastOf(es, RoutingType) > 0
           /\ LET key == RoutingKey(routing.service, routing.method)
              IN  IsPrefix(<<Len(key)>> \o key, es[LastOf(es, RoutingType)].content)
<1>1. AreAddable(es)
  BY DEF Between, IsCodeOf
<1>2. PICK n : n = Len(es) /\ n \in Nat
  BY <1>1 DEF AreAddable
<1>3. \A i \in 1..n : es[i] \in Entries /\ Addable(es[i])
  BY <1>1, <1>2 DEF AreAddable
<1>4. \A i \in 1..Len(es) : es[i].mime = RoutingType => es[i].content # <<>>
  BY <1>2, <1>3, TagsAssumption
<1>5. PICK last : last = LastOf(es, RoutingType)
  OBVIOUS
<1>6. Get(AllEntries(FromUint8Array(b.data)), RoutingType)
          = IF last = 0 THEN Undefined ELSE es[last]
  BY <1>1, <1>4, <1>5, ReceivedAll, GetsLast
<1>7. last # 0
  BY <1>6 DEF ParseRouting, RoutingOf
<1>8. last \in 1..n /\ es[last].mime = RoutingType
  <2>1. IsLastOf(last, es, n, RoutingType)
    BY <1>2, <1>5, LastOfIs
  <2> QED
    BY <1>2, <1>7, <2>1 DEF IsLastOf
<1>9. PICK content : content = es[last].content
  OBVIOUS
<1>10. content \in Seq(Bytes) /\ content[1] \in 1..(Len(content) - 1) /\ es[last] # Undefined
  BY <1>3, <1>8, <1>9, TagsAssumption, EntryTypes DEF Addable, Entry
<1>11. PICK l : l = content[1]
  OBVIOUS
<1>12. PICK key : key = SubSeq(content, 1 + 1, 1 + l)
  OBVIOUS
<1>13. PICK m : m = Len(content) /\ m \in Nat
  BY <1>10, LenProperties
<1>14. l \in 1..(m - 1)
  BY <1>10, <1>11, <1>13
<1>15. l \in Nat /\ 1 + l <= m /\ l + 1 <= m /\ 1 + l = l + 1 /\ 1 + 1 = 2
  BY ONLY <1>13, <1>14
<1>16. key \in Seq(Bytes) /\ Len(key) = l /\ \A i \in 1..l : key[i] = content[1 + i]
  BY <1>10, <1>12, <1>13, <1>15, PartOf
<1>17. FirstTag(Tags(content)) = key
  <2>1. FirstTag(Tags(content)) = SubSeq(content, 2, l + 1)
    BY <1>10, <1>11, FirstTagIs
  <2> QED
    BY <1>12, <1>15, <2>1
<1>18. routing = SplitKey(key)
  BY <1>6, <1>7, <1>9, <1>10, <1>17 DEF ParseRouting, RoutingOf
<1>19. /\ RoutingKey(routing.service, routing.method) = key
       /\ routing \in [service : Seq(Bytes), method : Seq(Bytes)]
  BY <1>16, <1>18, KeyOfSplit
<1>20. PICK one : one = <<Len(key)>>
  OBVIOUS
<1>21. l \in Bytes
  BY <1>10, <1>11, <1>13, <1>15
<1>22. one \in Seq(Bytes) /\ Len(one) = 1 /\ one[1] = l
  BY <1>16, <1>20, <1>21
<1>23. PICK tag : tag = Cat(one, key)
  OBVIOUS
<1>24. tag \in Seq(Bytes) /\ Len(tag) = 1 + l
  BY <1>16, <1>22, <1>23, CatType
<1>25. ASSUME NEW i \in 1..(1 + l) PROVE tag[i] = content[i]
  <2>1. CASE i = 1
    <3>1. \A j \in 1..1 : tag[j] = one[j]
      BY <1>16, <1>22, <1>23, CatElements
    <3> QED
      BY <1>11, <1>22, <2>1, <3>1
  <2>2. CASE i # 1
    <3>1. PICK j : j = i - 1
      OBVIOUS
    <3>2. j \in 1..l /\ 1 + j = i
      BY <1>15, <2>2, <3>1
    <3>3. PICK w : w = Len(one)
      OBVIOUS
    <3>4. \A k \in 1..Len(key) : tag[w + k] = key[k]
      BY <1>16, <1>22, <1>23, <3>3, SecondPart
    <3>5. tag[1 + j] = key[j]
      BY <1>16, <1>22, <3>2, <3>3, <3>4
    <3> QED
      BY <1>16, <3>2, <3>5
  <2> QED
    BY <2>1, <2>2
<1>26. IsPrefix(tag, content)
  <2>1. PICK w : w = Len(tag)
    OBVIOUS
  <2>2. w \in Nat /\ w <= Len(content) /\ 0 + w = w /\ 0 + 1 = 1 /\ 0 \in Nat
    BY <1>13, <1>15, <1>24, <2>1
  <2>3. PICK part : part = SubSeq(content, 0 + 1, 0 + w)
    OBVIOUS
  <2>4. part \in Seq(Bytes) /\ Len(part) = w /\ \A i \in 1..w : part[i] = content[0 + i]
    BY <1>10, <2>2, <2>3, PartOf
  <2>5. \A i \in 1..w : part[i] = tag[i]
    <3> SUFFICES ASSUME NEW i \in 1..w PROVE part[i] = tag[i]
      OBVIOUS
    <3>1. 0 + i = i /\ i \in 1..(1 + l)
      BY <1>24, <2>1
    <3> QED
      BY <1>25, <2>4, <3>1
  <2>6. part = tag
    BY <1>24, <2>1, <2>4, <2>5, SeqEqual
  <2>7. SubSeq(tag, 1, w) = tag
    BY <1>24, <2>1, SubSeqFull
  <2>8. SubSeq(content, 1, w) = tag
    BY <2>2, <2>3, <2>6
  <2> QED
    BY <2>1, <2>2, <2>7, <2>8 DEF IsPrefix
<1>27. tag = <<Len(key)>> \o key
  BY <1>20, <1>23 DEF Cat
<1>28. last > 0
  BY <1>2, <1>8
<1> QED
  BY <1>5, <1>9, <1>19, <1>26, <1>27, <1>28

-----------------------------------------------------------------------------
(* Texts                                                                   *)

LEMMA WithDataOfNone == WithData(<<>>) = <<>>
<1>1. PICK none : none = <<>>
  OBVIOUS
<1>2. DOMAIN none = {}
  BY <1>1
<1> DEFINE iter == CHOOSE iter :
               iter = [s \in SUBSET (DOMAIN none) |->
                   IF s = {} THEN none
                   ELSE IF none[Max(s)] = NoText THEN iter[s \ {Max(s)}]
                        ELSE Append(iter[s \ {Max(s)}], none[Max(s)])]
<1>3. WithData(none) = iter[DOMAIN none]
  BY <1>1 DEF WithData, FoldLeft, MapThenFoldSet
<1>4. PICK f : f = [s \in {{}} |-> none]
  OBVIOUS
<1>5. f = [s \in SUBSET (DOMAIN none) |->
                   IF s = {} THEN none
                   ELSE IF none[Max(s)] = NoText THEN f[s \ {Max(s)}]
                        ELSE Append(f[s \ {Max(s)}], none[Max(s)])]
  BY <1>2, <1>4
<1>6. iter = [s \in SUBSET (DOMAIN none) |->
                   IF s = {} THEN none
                   ELSE IF none[Max(s)] = NoText THEN iter[s \ {Max(s)}]
                        ELSE Append(iter[s \ {Max(s)}], none[Max(s)])]
  BY <1>5
<1> HIDE DEF iter
<1>7. iter[{}] = none
  BY <1>6
<1> QED
  BY <1>1, <1>2, <1>3, <1>7

\* Only undefined makes no text, and a value never makes a bad one.
LEMMA TextOf ==
    ASSUME NEW v, IsValue(v)
    PROVE  /\ Stringify(v) # Bad
           /\ v # UndefinedValue => Stringify(v) = AsJson(v) /\ Stringify(v) # NoText
           /\ v = UndefinedValue => Stringify(v) = NoText
<1>1. CASE v = UndefinedValue
  BY <1>1 DEF Stringify, NoText, Bad, Json
<1>2. CASE v # UndefinedValue
  <2>1. Stringify(v) = AsJson(v)
    BY <1>2 DEF Stringify
  <2>2. AsJson(v).json = v.json
    BY DEF AsJson, IsValue
  <2>3. NoText.json = "none" /\ Bad.json = "bad"
    BY DEF NoText, Bad, Json
  <2>4. v.json # "none" /\ v.json # "bad"
    BY DEF IsValue
  <2> QED
    BY <1>2, <2>1, <2>2, <2>3, <2>4
<1> QED
  BY <1>1, <1>2

LEMMA ArgumentsTextOf ==
    ASSUME NEW args \in ArgumentLists
    PROVE  /\ ArgumentsText(args) # Bad
           /\ Len(args) = 1 /\ args[1] # UndefinedValue =>
                  Params(ArgumentsText(args)) = <<AsJson(args[1])>>
<1>1. CASE Len(args) = 1
  <2>1. IsValue(args[1]) /\ ArgumentsText(args) = Stringify(args[1])
    BY <1>1, ValuesAssumption DEF ArgumentsText
  <2> QED
    BY <1>1, <2>1, TextOf DEF Params
<1>2. CASE Len(args) # 1
  <2>1. PICK list : list = Array(args)
    OBVIOUS
  <2>2. IsValue(list)
    BY <2>1 DEF IsValue, Array
  <2>3. ArgumentsText(args) = Stringify(list)
    BY <1>2, <2>1 DEF ArgumentsText
  <2> QED
    BY <1>2, <2>2, <2>3, TextOf
<1> QED
  BY <1>1, <1>2

-----------------------------------------------------------------------------
(* The invariant of a request                                              *)

IsRequest(r) ==
    /\ r = [phase |-> r.phase, by |-> r.by, kind |-> r.kind,
            metadata |-> r.metadata, data |-> r.data]
    /\ r.phase \in {"requested", "handled"} /\ r.by \in {"stub", "own"} /\ r.kind \in Kinds

CallTypes ==
    /\ responder \in Responders
    /\ DOMAIN services \subseteq Services /\ \A s \in DOMAIN services : services[s] \in Instances
    /\ request = Nobody \/ IsRequest(request)
    /\ reply.type \in {"none", "answer", "error", "silent", "died"}
    /\ ended.how \in {"none", "resolved", "failed"}
    /\ outcome \in {"waiting", "resolved", "rejected", "completed", "failed", "died"}

\* Nothing happens before the responder handles the request.
BeforeHandling ==
    request = Nobody \/ request.phase = "requested" =>
        /\ ran = NotRun /\ reply = NoReply /\ ended = NotEnded
        /\ outcome = IF request # Nobody /\ request.kind = "fnf" THEN "resolved" ELSE "waiting"

\* What is in the request is what was asked for.
FromStub ==
    request # Nobody /\ request.by = "stub" =>
        /\ asked.service \in Services /\ asked.method \in Methods /\ asked.args \in ArgumentLists
        /\ request.data \in Arriving(request.kind, ArgumentsText(asked.args))
        /\ request.metadata = StubMetadata(asked.service, asked.method)
FromOwn ==
    request # Nobody /\ request.by = "own" /\ responder = "router" =>
        request.metadata = buffer.data

\* The three stages of a request that has been handled.
Refused ==
    request # Nobody /\ request.phase = "handled" /\ ran = NotRun =>
        /\ ended = NotEnded
        /\ reply.texts = <<>> /\ reply.type \in {"error", "silent"}
        /\ request.kind = "fnf" \/ reply.type = "error" \/ request.data = Bad
StillRunning ==
    ran # NotRun /\ ended = NotEnded =>
        reply = NoReply /\ (request.kind # "fnf" => outcome = "waiting")
RoutedEnd ==
    /\ request.kind = "response" =>
           \/ ended.how = "failed" /\ reply.type = "error"
           \/ \E v \in Results : /\ ended = [how |-> "resolved", values |-> <<v>>]
                                 /\ reply = [type |-> "answer", texts |-> <<Stringify(v)>>]
    /\ request.kind = "stream" => reply.type \in {"silent", "died"}
AcceptedEnd ==
    request.kind = "stream" /\ reply.type \in {"answer", "error"} =>
        /\ reply.texts = ended.values
        /\ reply.type = "answer" <=> ended.how = "resolved"
HasEnded ==
    ended # NotEnded =>
        /\ ran # NotRun /\ ended.how \in {"resolved", "failed"}
        /\ IF responder = "router" THEN RoutedEnd ELSE AcceptedEnd

Stages == BeforeHandling /\ Refused /\ StillRunning /\ HasEnded
Sources == FromStub /\ FromOwn
CallInv == CallTypes /\ Stages /\ Sources /\ CalledAsAsked /\ ResultTold /\ StreamTold

LEMMA CalledUnchanged ==
    ASSUME CalledAsAsked, UNCHANGED <<request, asked, ran, responder, services, added, mixed>>
    PROVE  CalledAsAsked'
<1>1. StubRoutes /\ OwnRoutes
  BY DEF CalledAsAsked
<1>2. Routed' = Routed /\ Garbled' = Garbled
  BY DEF Routed, Garbled
<1>3. StubRoutes'
  BY <1>1, <1>2 DEF StubRoutes
<1>4. OwnRoutes'
  BY <1>1, <1>2 DEF OwnRoutes, SelectLastInSeq
<1> QED
  BY <1>3, <1>4 DEF CalledAsAsked

LEMMA CallInvShows ==
    ASSUME MetadataInv, CallInv
    PROVE  TypeOK /\ CalledAsAsked /\ OutcomeTold
<1>1. RefusalTold
  BY DEF CallInv, Stages, Refused, RefusalTold
<1>2. request = Nobody \/ request.kind \in Kinds
  BY DEF CallInv, CallTypes, IsRequest
<1>3. TypeOK
  BY <1>2 DEF TypeOK, CallInv, CallTypes, MetadataInv
<1> QED
  BY <1>1, <1>3 DEF CallInv, OutcomeTold

LEMMA CallInvInit ==
    ASSUME Init
    PROVE  CallInv
<1>1. /\ responder \in Responders /\ services = <<>> /\ request = Nobody /\ asked = Nobody
      /\ ran = NotRun /\ reply = NoReply /\ ended = NotEnded /\ outcome = "waiting"
  BY DEF Init
<1>2. CallTypes
  BY <1>1 DEF CallTypes, NoReply, NotEnded
<1>3. Stages
  BY <1>1 DEF Stages, BeforeHandling, Refused, StillRunning, HasEnded
<1>4. Sources
  BY <1>1 DEF Sources, FromStub, FromOwn
<1>5. CalledAsAsked
  BY <1>1 DEF CalledAsAsked, StubRoutes, OwnRoutes, Routed
<1>6. ResultTold /\ StreamTold
  BY <1>1 DEF ResultTold, StreamTold, Routed
<1> QED
  BY <1>2, <1>3, <1>4, <1>5, <1>6 DEF CallInv

\* The metadata changes as long as there is no request.
LEMMA MetadataStep ==
    ASSUME CallInv, request = Nobody, UNCHANGED <<responder, services, callVars>>
    PROVE  CallInv'
<1>1. UNCHANGED <<responder, services, request, asked, ran, reply, ended, outcome, told>>
  BY DEF callVars
<1>2. ran = NotRun /\ reply = NoReply /\ ended = NotEnded /\ outcome = "waiting"
  BY DEF CallInv, Stages, BeforeHandling
<1>3. CallTypes'
  BY <1>1 DEF CallInv, CallTypes
<1>4. Stages'
  BY <1>1, <1>2 DEF Stages, BeforeHandling, Refused, StillRunning, HasEnded
<1>5. Sources'
  BY <1>1 DEF Sources, FromStub, FromOwn
<1>6. CalledAsAsked'
  BY <1>1, <1>2 DEF CalledAsAsked, StubRoutes, OwnRoutes, Routed
<1>7. ResultTold' /\ StreamTold'
  BY <1>1, <1>2 DEF ResultTold, StreamTold, Routed
<1> QED
  BY <1>3, <1>4, <1>5, <1>6, <1>7 DEF CallInv

LEMMA SendStep ==
    ASSUME CallInv, NEW by \in {"stub", "own"}, NEW kind \in Kinds, NEW metadata, NEW data,
           Sends(by, kind, metadata, data),
           by = "own" => metadata = buffer.data,
           by = "stub" =>
               /\ asked'.service \in Services /\ asked'.method \in Methods
               /\ asked'.args \in ArgumentLists /\ data = ArgumentsText(asked'.args)
               /\ metadata = StubMetadata(asked'.service, asked'.method)
    PROVE  CallInv'
<1>0. PICK arriving \in Arriving(kind, data) :
          request' = [phase |-> "requested", by |-> by, kind |-> kind,
                      metadata |-> metadata, data |-> arriving]
  BY DEF Sends
<1>1. /\ request = Nobody
      /\ request' = [phase |-> "requested", by |-> by, kind |-> kind,
                     metadata |-> metadata, data |-> arriving]
      /\ outcome' = IF kind = "fnf" THEN "resolved" ELSE "waiting"
      /\ UNCHANGED <<responder, services, ran, reply, ended, told, buffer>>
  BY <1>0 DEF Sends, metadataVars
<1>2. ran = NotRun /\ reply = NoReply /\ ended = NotEnded
  BY <1>1 DEF CallInv, Stages, BeforeHandling
<1>3. /\ request'.phase = "requested" /\ request'.by = by /\ request'.kind = kind
      /\ request'.metadata = metadata /\ request'.data = arriving
  BY <1>1
<1>4. IsRequest(request')
  BY <1>1, <1>3 DEF IsRequest
<1>5. CallTypes'
  BY <1>1, <1>4 DEF CallInv, CallTypes, IsRequest
<1>6. request' # Nobody
  BY <1>3 DEF Nobody
<1>7. Stages'
  BY <1>1, <1>2, <1>3, <1>6 DEF Stages, BeforeHandling, Refused, StillRunning, HasEnded
<1>8. Sources'
  BY <1>0, <1>1, <1>3 DEF Sources, FromStub, FromOwn
<1>9. CalledAsAsked'
  BY <1>1, <1>2, <1>3 DEF CalledAsAsked, StubRoutes, OwnRoutes, Routed
<1>10. ResultTold' /\ StreamTold'
  BY <1>1, <1>2, <1>3 DEF ResultTold, StreamTold, Routed
<1> QED
  BY <1>5, <1>7, <1>8, <1>9, <1>10 DEF CallInv

LEMMA ServiceStep ==
    ASSUME CallInv, NEW s \in Services, NEW methods \in Instances, AddService(s, methods)
    PROVE  CallInv'
<1>1. /\ request # Nobody /\ request.phase = "requested"
      /\ services' = [t \in DOMAIN services \cup {s} |-> IF t = s THEN methods ELSE services[t]]
      /\ UNCHANGED <<responder, request, asked, ran, reply, ended, outcome, told>>
      /\ UNCHANGED <<buffer, mixed, added>>
  BY DEF AddService, metadataVars, callVars
<1>2. ran = NotRun /\ reply = NoReply /\ ended = NotEnded
  BY <1>1 DEF CallInv, Stages, BeforeHandling
<1>3. CallTypes'
  BY <1>1 DEF CallInv, CallTypes, IsRequest
<1>4. Stages'
  BY <1>1, <1>2 DEF CallInv, Stages, BeforeHandling, Refused, StillRunning, HasEnded
<1>5. Sources'
  BY <1>1 DEF CallInv, Sources, FromStub, FromOwn
<1>6. CalledAsAsked'
  BY <1>1, <1>2 DEF CalledAsAsked, StubRoutes, OwnRoutes, Routed
<1>7. ResultTold' /\ StreamTold'
  BY <1>1, <1>2 DEF CallInv, ResultTold, StreamTold, Routed
<1> QED
  BY <1>3, <1>4, <1>5, <1>6, <1>7 DEF CallInv

\* The responder runs a method, or it answers at once.
LEMMA HandleStep ==
    ASSUME CallInv, Handling,
           UNCHANGED <<metadataVars, responder, services, asked, ended, outcome, told>>,
           \/ /\ UNCHANGED ran
              /\ reply'.texts = <<>> /\ reply'.type \in {"error", "silent"}
              /\ request.kind = "fnf" \/ reply'.type = "error" \/ request.data = Bad
           \/ ran'.method # Undefined /\ UNCHANGED reply,
           CalledAsAsked'
    PROVE  CallInv'
<1>1. /\ request # Nobody /\ request.phase = "requested"
      /\ request' = [request EXCEPT !.phase = "handled"]
      /\ UNCHANGED <<responder, services, asked, ended, outcome, buffer>>
  BY DEF Handling, metadataVars
<1>2. ran = NotRun /\ reply = NoReply /\ ended = NotEnded /\ IsRequest(request)
      /\ (request.kind # "fnf" => outcome = "waiting")
  BY <1>1 DEF CallInv, Stages, BeforeHandling, CallTypes
<1>3. /\ request'.phase = "handled" /\ request'.by = request.by /\ request'.kind = request.kind
      /\ request'.metadata = request.metadata /\ request'.data = request.data
      /\ IsRequest(request')
  BY <1>1, <1>2 DEF IsRequest
<1>4. NotRun.method = Undefined
  BY DEF NotRun
<1>5. CallTypes'
  BY <1>1, <1>2, <1>3 DEF CallInv, CallTypes
<1>6. request' # Nobody
  BY <1>3 DEF Nobody
<1>7. Stages'
  BY <1>1, <1>2, <1>3, <1>4, <1>6 DEF Stages, BeforeHandling, Refused, StillRunning, HasEnded
<1>8. Sources'
  BY <1>1, <1>3 DEF CallInv, Sources, FromStub, FromOwn
<1>9. ResultTold' /\ StreamTold'
  BY <1>1, <1>2, <1>3 DEF ResultTold, StreamTold, Routed
<1> QED
  BY <1>5, <1>7, <1>8, <1>9 DEF CallInv

\* The method ends.
LEMMA EndStep ==
    ASSUME CallInv, Running,
           UNCHANGED <<metadataVars, responder, services, request, asked, ran, outcome, told>>,
           ended'.how \in {"resolved", "failed"},
           reply'.type \in {"answer", "error", "silent", "died"},
           IF responder = "router" THEN RoutedEnd' ELSE AcceptedEnd'
    PROVE  CallInv'
<1>1. /\ ran # NotRun /\ ended = NotEnded
      /\ UNCHANGED <<responder, services, request, asked, ran, outcome, told, buffer, mixed, added>>
  BY DEF Running, metadataVars
<1>2. /\ request # Nobody /\ IsRequest(request) /\ request.phase = "handled"
      /\ (request.kind # "fnf" => outcome = "waiting")
  BY <1>1 DEF CallInv, Stages, BeforeHandling, StillRunning, CallTypes, IsRequest
<1>3. ended' # NotEnded
  BY DEF NotEnded
<1>4. CallTypes'
  BY <1>1 DEF CallInv, CallTypes, IsRequest
<1>5. BeforeHandling'
  BY <1>1, <1>2 DEF BeforeHandling
<1>6. Refused' /\ StillRunning'
  BY <1>1, <1>3 DEF Refused, StillRunning
<1>7. HasEnded'
  BY <1>1 DEF HasEnded
<1>8. Sources'
  BY <1>1 DEF CallInv, Sources, FromStub, FromOwn
<1>9. CalledAsAsked'
  BY <1>1, CalledUnchanged DEF CallInv
<1>10. ResultTold' /\ StreamTold'
  BY <1>1, <1>2 DEF ResultTold, StreamTold, Routed
<1> QED
  BY <1>4, <1>5, <1>6, <1>7, <1>8, <1>9, <1>10 DEF CallInv, Stages

\* The caller hears of it.
LEMMA HearStep ==
    ASSUME CallInv, reply # NoReply, request.kind # "fnf",
           UNCHANGED <<metadataVars, responder, services, request, asked, ran, reply, ended>>,
           outcome' \in {"resolved", "rejected", "completed", "failed", "died"},
           ResultTold', StreamTold'
    PROVE  CallInv'
<1>1. UNCHANGED <<responder, services, request, asked, ran, reply, ended, buffer, mixed, added>>
  BY DEF metadataVars
<1>2. CallTypes'
  BY <1>1 DEF CallInv, CallTypes, IsRequest
<1>3. BeforeHandling'
  BY <1>1 DEF CallInv, Stages, BeforeHandling
<1>4. Refused'
  BY <1>1 DEF CallInv, Stages, Refused
<1>5. StillRunning'
  BY <1>1 DEF CallInv, Stages, StillRunning
<1>6. HasEnded'
  BY <1>1 DEF CallInv, Stages, HasEnded, RoutedEnd, AcceptedEnd
<1>7. Sources'
  BY <1>1 DEF CallInv, Sources, FromStub, FromOwn
<1>8. CalledAsAsked'
  BY <1>1, CalledUnchanged DEF CallInv
<1> QED
  BY <1>2, <1>3, <1>4, <1>5, <1>6, <1>7, <1>8 DEF CallInv, Stages

LEMMA StubCallStep ==
    ASSUME CallInv, NEW s \in Services, NEW m \in Methods, NEW args \in ArgumentLists,
           StubCall(s, m, args)
    PROVE  CallInv'
<1>1. PICK kind : kind = KindOf(m)
  OBVIOUS
<1>2. kind \in Kinds
  BY <1>1 DEF KindOf, Kinds
<1>3. Sends("stub", kind, StubMetadata(s, m), ArgumentsText(args))
  BY <1>1 DEF StubCall, StubMetadata
<1>4. asked'.service = s /\ asked'.method = m /\ asked'.args = args
  BY DEF StubCall
<1> QED
  BY <1>2, <1>3, <1>4, SendStep

LEMMA OwnRequestStep ==
    ASSUME CallInv, NEW kind \in Kinds, NEW data, OwnRequest(kind, data)
    PROVE  CallInv'
<1>1. Sends("own", kind, buffer.data, data)
  BY DEF OwnRequest
<1> QED
  BY <1>1, SendStep

\* A call that a stub has made is routed to what was called.
LEMMA StubRouted ==
    ASSUME CallInv, Route
    PROVE  StubRoutes'
<1> SUFFICES ASSUME request'.by = "stub"
             PROVE  IF /\ asked.service \in DOMAIN services
                       /\ asked.method \in services[asked.service]
                       /\ ~Garbled'
                    THEN /\ ran' # NotRun
                         /\ ran'.service = asked.service /\ ran'.method = asked.method
                         /\ IF request'.kind = "stream" THEN ran'.params = <<>>
                            ELSE Len(asked.args) = 1 /\ asked.args[1] # UndefinedValue =>
                                     ran'.params = <<AsJson(asked.args[1])>>
                    ELSE ran' = NotRun
  BY DEF StubRoutes, Routed, Route
<1>1. /\ request # Nobody /\ request.phase = "requested"
      /\ request' = [request EXCEPT !.phase = "handled"]
  BY DEF Route, Handling
<1>2. ran = NotRun /\ IsRequest(request)
  BY <1>1 DEF CallInv, Stages, BeforeHandling, CallTypes
<1>3. request.by = "stub" /\ request'.kind = request.kind /\ request'.data = request.data
  BY <1>1, <1>2 DEF IsRequest
<1>4. /\ asked.service \in Services /\ asked.method \in Methods /\ asked.args \in ArgumentLists
      /\ request.data \in Arriving(request.kind, ArgumentsText(asked.args))
      /\ request.metadata = StubMetadata(asked.service, asked.method)
  BY <1>1, <1>3 DEF CallInv, Sources, FromStub
<1>5. PICK routing : routing = ParseRouting(request.metadata)
  OBVIOUS
<1>6. routing = [service |-> asked.service, method |-> asked.method]
  BY <1>4, <1>5, StubRouting
<1>7. asked.service \in Seq(Bytes) /\ asked.method \in Seq(Bytes)
  BY <1>4, NamesAreBytes
<1>8. routing # Undefined
  BY <1>6, <1>7, UndefinedIsNoRouting
<1>9. /\ request.data = Bad <=> Garbled'
      /\ request.data # Bad =>
             IF request.kind = "stream" THEN Params(request.data) = <<>>
             ELSE Len(asked.args) = 1 /\ asked.args[1] # UndefinedValue =>
                      Params(request.data) = <<AsJson(asked.args[1])>>
  <2>1. CASE request.kind = "stream"
    BY <1>3, <1>4, <2>1 DEF Arriving, Garbled, Params
  <2>2. CASE request.kind # "stream"
    <3>1. request.data = ArgumentsText(asked.args)
      BY <1>4, <2>2 DEF Arriving
    <3> QED
      BY <1>3, <1>4, <2>2, <3>1, ArgumentsTextOf DEF Garbled
  <2> QED
    BY <2>1, <2>2
<1>10. RouteTo(routing)
  BY <1>5 DEF Route
<1>11. HasHandler(routing) <=>
           asked.service \in DOMAIN services /\ asked.method \in services[asked.service]
  BY <1>6 DEF HasHandler
<1>12. CASE HasHandler(routing) /\ request.data # Bad
  <2>1. ran' = [service |-> asked.service, method |-> asked.method,
                params |-> Params(request.data)]
    BY <1>6, <1>8, <1>9, <1>10, <1>12 DEF RouteTo
  <2>2. ran'.method # Undefined
    BY <1>7, <2>1, UndefinedIsNoSequence
  <2>3. ran' # NotRun
    BY <2>2 DEF NotRun
  <2> QED
    BY <1>3, <1>9, <1>11, <1>12, <2>1, <2>3
<1>13. CASE ~HasHandler(routing) \/ request.data = Bad
  <2>1. ran' = ran
    BY <1>8, <1>10, <1>13 DEF RouteTo
  <2> QED
    BY <1>2, <1>9, <1>11, <1>13, <2>1
<1> QED
  BY <1>12, <1>13

\* What HasHandler says of the names.
LEMMA HandlerNames ==
    ASSUME CallInv, NEW routing, HasHandler(routing)
    PROVE  /\ routing.service \in Services /\ routing.method \in Methods
           /\ routing.service # <<>> /\ routing.method # Undefined
<1>1. routing.service \in Services /\ routing.method \in Methods
  BY NamesAssumption DEF HasHandler, CallInv, CallTypes
<1>2. routing.service # <<>> /\ routing.method \in Seq(Bytes)
  BY <1>1, NamesAreBytes
<1> QED
  BY <1>1, <1>2, UndefinedIsNoSequence

LEMMA OwnRouted ==
    ASSUME MetadataInv, CallInv, Route
    PROVE  OwnRoutes'
<1> SUFFICES ASSUME Routed', request'.by = "own", ~mixed'
             PROVE  /\ LastOf(added, RoutingType) > 0
                    /\ LET key == RoutingKey(ran'.service, ran'.method)
                       IN  IsPrefix(<<Len(key)>> \o key,
                                    added[LastOf(added, RoutingType)].content)
  <2>1. added' = added
    BY DEF Route, metadataVars
  <2> QED
    BY <2>1 DEF OwnRoutes, LastOf, SelectLastInSeq
<1>1. /\ request # Nobody /\ request.phase = "requested"
      /\ request' = [request EXCEPT !.phase = "handled"]
      /\ responder = "router" /\ UNCHANGED <<buffer, added, mixed, yielded>>
  BY DEF Route, Handling, metadataVars
<1>2. ran = NotRun /\ IsRequest(request)
  BY <1>1 DEF CallInv, Stages, BeforeHandling, CallTypes
<1>3. request.by = "own"
  BY <1>1, <1>2 DEF IsRequest
<1>4. request.metadata = buffer.data
  BY <1>1, <1>3 DEF CallInv, Sources, FromOwn
<1>5. PICK routing : routing = ParseRouting(request.metadata)
  OBVIOUS
<1>6. RouteTo(routing) /\ ran' # NotRun
  BY <1>5 DEF Route, Routed
<1>7. /\ routing # Undefined /\ HasHandler(routing)
      /\ ran'.service = routing.service /\ ran'.method = routing.method
  BY <1>2, <1>6 DEF RouteTo
<1>8. routing.service # <<>>
  BY <1>7, HandlerNames
<1>9. Between(buffer, added, yielded) /\ added \in Seq(Entries)
  BY <1>1 DEF MetadataInv, MetadataTypeOK
<1>10. routing = ParseRouting(buffer.data)
  BY <1>4, <1>5
<1> QED
  BY <1>7, <1>8, <1>9, <1>10, OwnRouting

LEMMA RouteStep ==
    ASSUME MetadataInv, CallInv, Route
    PROVE  CallInv'
<1>1. /\ Handling
      /\ UNCHANGED <<metadataVars, responder, services, asked, ended, outcome, told>>
  BY DEF Route
<1>2. CalledAsAsked'
  BY StubRouted, OwnRouted DEF CalledAsAsked
<1>3. PICK routing : routing = ParseRouting(request.metadata)
  OBVIOUS
<1>4. RouteTo(routing)
  BY <1>3 DEF Route
<1>5. CASE routing = Undefined \/ request.data = Bad \/ ~HasHandler(routing)
  <2>1. UNCHANGED ran /\ reply'.texts = <<>> /\ reply'.type \in {"error", "silent"}
    BY <1>4, <1>5 DEF RouteTo, Refuse, Throws
  <2>2. request.kind = "fnf" \/ reply'.type = "error" \/ request.data = Bad
    BY <1>4, <1>5 DEF RouteTo, Refuse, Throws
  <2> QED
    BY <1>1, <1>2, <2>1, <2>2, HandleStep
<1>6. CASE routing # Undefined /\ request.data # Bad /\ HasHandler(routing)
  <2>1. UNCHANGED reply /\ ran'.method = routing.method
    BY <1>4, <1>6 DEF RouteTo
  <2>2. ran'.method # Undefined
    BY <1>6, <2>1, HandlerNames
  <2> QED
    BY <1>1, <1>2, <2>1, <2>2, HandleStep
<1> QED
  BY <1>5, <1>6

LEMMA AcceptStep ==
    ASSUME CallInv, Accept
    PROVE  CallInv'
<1>1. /\ Handling /\ responder # "router" /\ responder' = responder
      /\ UNCHANGED <<metadataVars, responder, services, asked, ended, outcome, told>>
  BY DEF Accept
<1>2. CalledAsAsked'
  BY <1>1 DEF CalledAsAsked, StubRoutes, OwnRoutes, Routed
<1>3. <<>> # Undefined
  <2>1. PICK none : none = <<>>
    OBVIOUS
  <2>2. none \in Seq(Bytes)
    BY <2>1
  <2> QED
    BY <2>1, <2>2, UndefinedIsNoSequence
<1>4. CASE request.kind = responder
  <2>1. UNCHANGED reply /\ ran'.method # Undefined
    BY <1>3, <1>4 DEF Accept
  <2> QED
    BY <1>1, <1>2, <2>1, HandleStep
<1>5. CASE request.kind # responder
  <2>1. UNCHANGED ran /\ reply'.texts = <<>> /\ reply'.type \in {"error", "silent"}
        /\ (request.kind = "fnf" \/ reply'.type = "error")
    BY <1>5 DEF Accept, Refuse
  <2> QED
    BY <1>1, <1>2, <2>1, HandleStep
<1> QED
  BY <1>4, <1>5

LEMMA ResolvesStep ==
    ASSUME CallInv, NEW value \in Results, Resolves(value)
    PROVE  CallInv'
<1>1. /\ Running /\ responder = "router" /\ ended' = [how |-> "resolved", values |-> <<value>>]
      /\ UNCHANGED <<metadataVars, responder, services, request, asked, ran, outcome, told>>
      /\ reply' = IF request.kind = "response"
                  THEN [type |-> "answer", texts |-> <<Stringify(value)>>]
                  ELSE [type |-> "silent", texts |-> <<>>]
  BY DEF Resolves, Ends
<1>2. ended'.how = "resolved" /\ reply'.type \in {"answer", "silent"}
  BY <1>1
<1>3. RoutedEnd'
  BY <1>1 DEF RoutedEnd
<1> QED
  BY <1>1, <1>2, <1>3, EndStep

LEMMA FailsStep ==
    ASSUME CallInv, Fails \/ Rejects
    PROVE  CallInv'
<1>1. /\ Running /\ ended' = [how |-> "failed", values |-> <<>>]
      /\ UNCHANGED <<metadataVars, responder, services, request, asked, ran, outcome, told>>
      /\ reply'.type \in {"error", "silent", "died"}
      /\ request.kind = "response" => reply'.type = "error"
      /\ request.kind = "stream" => reply'.type \in {"silent", "died"}
  BY DEF Fails, Rejects, Ends, Throws
<1>2. ended'.how = "failed"
  BY <1>1
<1>3. RoutedEnd' /\ AcceptedEnd'
  BY <1>1, <1>2 DEF RoutedEnd, AcceptedEnd
<1> QED
  BY <1>1, <1>2, <1>3, EndStep

LEMMA GivesStep ==
    ASSUME CallInv, NEW how \in {"resolved", "failed"}, NEW texts, Gives(how, texts)
    PROVE  CallInv'
<1>1. /\ Running /\ responder # "router" /\ ended' = [how |-> how, values |-> texts]
      /\ UNCHANGED <<metadataVars, responder, services, request, asked, ran, outcome, told>>
      /\ reply' = [type |-> IF how = "resolved" THEN "answer" ELSE "error", texts |-> texts]
  BY DEF Gives, Ends
<1>2. ended'.how = how /\ reply'.type \in {"answer", "error"}
  BY <1>1
<1>3. AcceptedEnd'
  BY <1>1 DEF AcceptedEnd
<1> QED
  BY <1>1, <1>2, <1>3, EndStep

LEMMA HearsErrorStep ==
    ASSUME CallInv, HearsError
    PROVE  CallInv'
<1>1. /\ reply.type = "error" /\ request.kind = "response" /\ outcome' = "rejected"
      /\ UNCHANGED <<metadataVars, responder, services, request, asked, ran, reply, ended>>
  BY DEF HearsError, Hears
<1>2. reply # NoReply
  BY <1>1 DEF NoReply
<1>3. ASSUME Routed, request.kind = "response" PROVE ended.how = "failed"
  <2>1. ended # NotEnded /\ responder = "router"
    BY <1>2, <1>3 DEF Routed, CallInv, Stages, StillRunning
  <2>2. RoutedEnd
    BY <2>1 DEF CallInv, Stages, HasEnded
  <2> QED
    BY <1>1, <1>3, <2>2 DEF RoutedEnd
<1>4. ResultTold' /\ StreamTold'
  BY <1>1, <1>3 DEF ResultTold, StreamTold, Routed
<1> QED
  BY <1>1, <1>2, <1>4, HearStep

LEMMA HearsAnswerStep ==
    ASSUME CallInv, HearsAnswer
    PROVE  CallInv'
<1>1. PICK text : text = reply.texts[1]
  OBVIOUS
<1>2. /\ reply.type = "answer" /\ request.kind = "response"
      /\ outcome' = (IF request.by = "stub" /\ text \in {NoText, Bad}
                     THEN "rejected" ELSE "resolved")
      /\ told' = (IF request.by = "stub" /\ text \in {NoText, Bad} THEN <<>> ELSE <<text>>)
      /\ UNCHANGED <<metadataVars, responder, services, request, asked, ran, reply, ended>>
  BY <1>1 DEF HearsAnswer, Hears
<1>3. reply # NoReply
  BY <1>2 DEF NoReply
<1>4. ASSUME Routed, request.by = "stub"
      PROVE  /\ outcome' = "resolved" =>
                    ended.how = "resolved" /\ told' = <<AsJson(ended.values[1])>>
             /\ outcome' = "rejected" => ended.values = <<UndefinedValue>>
  <2>1. ended # NotEnded /\ responder = "router"
    BY <1>3, <1>4 DEF Routed, CallInv, Stages, StillRunning
  <2>2. RoutedEnd
    BY <2>1 DEF CallInv, Stages, HasEnded
  <2>3. PICK v \in Results : /\ ended = [how |-> "resolved", values |-> <<v>>]
                             /\ reply = [type |-> "answer", texts |-> <<Stringify(v)>>]
    BY <1>2, <2>2 DEF RoutedEnd
  <2>4. text = Stringify(v) /\ ended.how = "resolved" /\ ended.values = <<v>> /\ ended.values[1] = v
    BY <1>1, <2>3
  <2>5. IsValue(v)
    BY ValuesAssumption
  <2>6. CASE v = UndefinedValue
    <3>1. text = NoText
      BY <2>4, <2>5, <2>6, TextOf
    <3> QED
      BY <1>2, <1>4, <2>4, <2>6, <3>1
  <2>7. CASE v # UndefinedValue
    <3>1. text \notin {NoText, Bad} /\ text = AsJson(v)
      BY <2>4, <2>5, <2>7, TextOf
    <3> QED
      BY <1>2, <1>4, <2>4, <3>1
  <2> QED
    BY <2>6, <2>7
<1>5. ResultTold' /\ StreamTold'
  BY <1>2, <1>4 DEF ResultTold, StreamTold, Routed
<1> QED
  BY <1>2, <1>3, <1>5, HearStep

LEMMA HearsStreamStep ==
    ASSUME CallInv, HearsStream
    PROVE  CallInv'
<1>1. PICK texts : texts = WithData(reply.texts)
  OBVIOUS
<1>2. /\ reply.type \in {"answer", "error"} /\ request.kind = "stream"
      /\ \/ outcome' = "died"
         \/ /\ outcome' = IF reply.type = "answer" THEN "completed" ELSE "failed"
            /\ told' = texts
      /\ UNCHANGED <<metadataVars, responder, services, request, asked, ran, reply, ended>>
  BY <1>1 DEF HearsStream, Hears
<1>3. reply # NoReply
  BY <1>2 DEF NoReply
<1>4. request # Nobody /\ request.phase = "handled"
  BY <1>3 DEF CallInv, Stages, BeforeHandling, CallTypes, IsRequest
<1>5. CASE ran = NotRun
  <2>1. reply.type = "error" /\ reply.texts = <<>>
    BY <1>2, <1>4, <1>5 DEF CallInv, Stages, Refused
  <2>2. texts = <<>>
    BY <1>1, <2>1, WithDataOfNone
  <2>3. ResultTold' /\ StreamTold'
    BY <1>2, <1>5, <2>1, <2>2 DEF ResultTold, StreamTold, Routed
  <2> QED
    BY <1>2, <1>3, <2>3, HearStep
<1>6. CASE ran # NotRun
  <2>1. ended # NotEnded
    BY <1>3, <1>6 DEF CallInv, Stages, StillRunning
  <2>2. responder # "router" /\ AcceptedEnd
    BY <1>2, <2>1 DEF CallInv, Stages, HasEnded, RoutedEnd
  <2>3. reply.texts = ended.values /\ (reply.type = "answer" <=> ended.how = "resolved")
    BY <1>2, <2>2 DEF AcceptedEnd
  <2>4. texts = WithData(ended.values)
    BY <1>1, <2>3
  <2>5. ResultTold' /\ StreamTold'
    BY <1>2, <1>6, <2>2, <2>3, <2>4 DEF ResultTold, StreamTold, Routed
  <2> QED
    BY <1>2, <1>3, <2>5, HearStep
<1> QED
  BY <1>5, <1>6

-----------------------------------------------------------------------------
(* Of every behaviour                                                      *)

Inv == MetadataInv /\ CallInv

LEMMA InvInit == Init => Inv
BY MetadataInvInit, CallInvInit DEF Init, Inv

LEMMA InvNext == Inv /\ [Next]_vars => Inv'
<1> SUFFICES ASSUME Inv, [Next]_vars PROVE Inv'
  OBVIOUS
<1>1. MetadataInv /\ CallInv
  BY DEF Inv
<1>2. CASE /\ request = Nobody /\ responder = "router" /\ MetadataNext
           /\ UNCHANGED <<responder, services, callVars>>
  BY <1>1, <1>2, MetadataInvNext, MetadataStep DEF Inv
<1>3. ASSUME UNCHANGED metadataVars PROVE MetadataInv'
  BY <1>1, <1>3, MetadataInvNext
<1>4. CASE CallNext
  <2>1. UNCHANGED metadataVars
    BY <1>4 DEF CallNext, StubCall, OwnRequest, Sends, AddService, Route, Accept, Fails, Rejects,
                Resolves, Gives, Ends, HearsError, HearsAnswer, HearsStream, Hears
  <2>2. CallInv'
    <3>1. ASSUME NEW s \in Services, NEW m \in Methods, NEW args \in ArgumentLists,
                 StubCall(s, m, args)
          PROVE  CallInv'
      BY <1>1, <3>1, StubCallStep
    <3>2. ASSUME NEW kind \in Kinds, NEW data \in {NoText, Bad, Json("x")}, OwnRequest(kind, data)
          PROVE  CallInv'
      BY <1>1, <3>2, OwnRequestStep
    <3>3. ASSUME NEW s \in Services, NEW methods \in Instances, AddService(s, methods)
          PROVE  CallInv'
      BY <1>1, <3>3, ServiceStep
    <3>4. CASE Route
      BY <1>1, <3>4, RouteStep
    <3>5. CASE Accept
      BY <1>1, <3>5, AcceptStep
    <3>6. CASE Fails \/ Rejects
      BY <1>1, <3>6, FailsStep
    <3>7. ASSUME NEW value \in Results, Resolves(value) PROVE CallInv'
      BY <1>1, <3>7, ResolvesStep
    <3>8. ASSUME NEW how \in {"resolved", "failed"}, NEW texts, Gives(how, texts) PROVE CallInv'
      BY <1>1, <3>8, GivesStep
    <3>9. CASE HearsError
      BY <1>1, <3>9, HearsErrorStep
    <3>10. CASE HearsAnswer
      BY <1>1, <3>10, HearsAnswerStep
    <3>11. CASE HearsStream
      BY <1>1, <3>11, HearsStreamStep
    <3> QED
      BY <1>4, <3>1, <3>2, <3>3, <3>4, <3>5, <3>6, <3>7, <3>8, <3>9, <3>10, <3>11 DEF CallNext
  <2> QED
    BY <1>3, <2>1, <2>2 DEF Inv
<1>5. CASE UNCHANGED vars
  <2>1. UNCHANGED <<metadataVars, responder, services, request, asked, ran, reply, ended,
                    outcome, told>>
    BY <1>5 DEF vars, callVars
  <2>2. UNCHANGED <<buffer, added, mixed>>
    BY <2>1 DEF metadataVars
  <2>3. CallTypes'
    BY <1>1, <2>1 DEF CallInv, CallTypes
  <2>4. BeforeHandling' /\ Refused' /\ StillRunning'
    BY <1>1, <2>1 DEF CallInv, Stages, BeforeHandling, Refused, StillRunning
  <2>5. HasEnded'
    BY <1>1, <2>1 DEF CallInv, Stages, HasEnded, RoutedEnd, AcceptedEnd
  <2>6. Sources'
    BY <1>1, <2>1, <2>2 DEF CallInv, Sources, FromStub, FromOwn
  <2>7. CalledAsAsked'
    BY <1>1, <2>1, <2>2, CalledUnchanged DEF CallInv
  <2>8. ResultTold' /\ StreamTold'
    BY <1>1, <2>1 DEF CallInv, ResultTold, StreamTold, Routed
  <2> QED
    BY <1>3, <2>1, <2>3, <2>4, <2>5, <2>6, <2>7, <2>8 DEF Inv, CallInv, Stages
<1> QED
  BY <1>2, <1>4, <1>5 DEF Next

LEMMA InvShows == Inv => TypeOK /\ EntriesComeOutOnce /\ CalledAsAsked /\ OutcomeTold
BY MetadataInvShows, CallInvShows DEF Inv

LEMMA AlwaysInv == Spec => []Inv
<1>1. Init => Inv
  BY InvInit
<1>2. Inv /\ [Next]_vars => Inv'
  BY InvNext
<1> QED
  BY <1>1, <1>2, PTL DEF Spec

\* Whatever is added, sent and answered, the state keeps its shape: the buffer of
\* the metadata has its indices in its bounds, and a request, a reply, an end and
\* an outcome are one of the few that RSocketRouter.ts and receiveFrame know.
THEOREM RouterTypeCorrect == Spec => []TypeOK
<1>1. Inv => TypeOK
  BY InvShows
<1> QED
  BY <1>1, AlwaysInv, PTL

\* Over all generators of a CompositeMetadata and its first lookup, every entry
\* with content comes out once, as it was added, in the order in which it was, and
\* none is left when a generator ends, as long as nothing is added after an
\* iteration has begun (entriesIterator, addMetadata): for entries of any length
\* that fits into three bytes and any table of well-known types.
THEOREM EntriesOnce == Spec => []EntriesComeOutOnce
<1>1. Inv => EntriesComeOutOnce
  BY InvShows
<1> QED
  BY <1>1, AlwaysInv, PTL

\* The first findEntry of a metadata over which nobody has iterated finds, of every
\* type, the entry with content that was added last, and nothing that was not added.
THEOREM LookupsFindLatest == Spec => FindsLatest
<1>1. Inv /\ [Next]_vars =>
          [map = Undefined /\ map' # Undefined /\ yielded = <<>> /\ ~mixed =>
               /\ \A e \in Range(map') : e \in Range(added)
               /\ \A i \in DOMAIN added :
                      \/ added[i].content = <<>>
                      \/ Get(map', added[i].mime) = added[i]
                      \/ \E j \in DOMAIN added : /\ j > i /\ added[j].mime = added[i].mime
                                                 /\ added[j].content # <<>>]_metadataVars
  <2> SUFFICES ASSUME Inv, [Next]_vars,
                      map = Undefined /\ map' # Undefined /\ yielded = <<>> /\ ~mixed
               PROVE  FindsAll(added, map')
    BY DEF FindsAll
  <2>1. MetadataNext \/ UNCHANGED metadataVars
    BY DEF Next, CallNext, StubCall, OwnRequest, Sends, AddService, Route, Accept, Fails, Rejects,
           Resolves, Gives, Ends, HearsError, HearsAnswer, HearsStream, Hears, vars
  <2> QED
    BY <2>1, FirstLookup DEF Inv
<1> QED
  BY <1>1, AlwaysInv, PTL DEF Spec, FindsLatest

\* The method that RSocketRouteHandler calls is the one that the stub was called
\* with, on the service of that name, whatever dots the name has, with its single
\* argument; and for a request of the application's own it is the one under the
\* first tag of the routing entry that was added last (parseRouting, findEntry,
\* TaggingMetadata): for all names whose key fits into a tag.
THEOREM MethodsCalledAsAsked == Spec => []CalledAsAsked
<1>1. Inv => CalledAsAsked
  BY InvShows
<1> QED
  BY <1>1, AlwaysInv, PTL

\* Callers learn what has become of their requests: a stub resolves to what the
\* method has resolved to, a stream ends as its publisher did with every payload
\* that has data, and a request that no handler takes is answered with an error
\* unless its arguments were no JSON or nobody waits for an answer.
THEOREM OutcomesTold == Spec => []OutcomeTold
<1>1. Inv => OutcomeTold
  BY InvShows
<1> QED
  BY <1>1, AlwaysInv, PTL
=============================================================================
