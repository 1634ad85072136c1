--------------------------- MODULE CompositeMetadata ---------------------------
(***************************************************************************)
(* rsocket/metadata/CompositeMetadata.ts: one CompositeMetadata, to which  *)
(* entries are added, over which generators iterate, and in which entries  *)
(* are looked up, in any order.  The generators keep no state of their own *)
(* between two values: all of them read from the one buffer, so they are   *)
(* only counted.                                                           *)
(*                                                                         *)
(* A MIME type is the bytes of its name.  The table of well-known types is *)
(* a parameter; names have at most 127 bytes, all that one byte of length  *)
(* leaves beside the well-known types.                                     *)
(*                                                                         *)
(* A definition introduced as a slip is what a plausible mistake in the    *)
(* code would make of the definition after it; no specification uses it.   *)
(***************************************************************************)
EXTENDS ByteBuffers, SequencesExt

CONSTANTS
    WellKnown,   \* TYPES_BY_MIME_STRING: the identifier of each well-known name
    Reserved,    \* the name of UNKNOWN_RESERVED_MIME_TYPE
    Entries,     \* the entries that may be added
    MaxEntries,  \* bound: how many are added
    MaxIterators \* bound: generators at work at once

Names == Seq(Bytes) \ {<<>>}
Entry == [mime : Names, content : Seq(Bytes)]

ASSUME WellKnownAssumption ==
    /\ WellKnown \in [DOMAIN WellKnown -> 0..127]
    /\ DOMAIN WellKnown \subseteq Names \ {Reserved}
    /\ IsInjective(WellKnown)
ASSUME UndefinedIsNoEntry == Undefined \notin Entry

\* What one byte of length and three can say of an entry.
Addable(e) == e \in Entry /\ Len(e.mime) < 128 /\ Fits(Len(e.content), 3)
ASSUME EntriesAssumption == \A e \in Entries : Addable(e)
ASSUME BoundsAssumption == MaxEntries \in Nat /\ MaxIterators \in Nat

VARIABLES
    buffer,     \* _buffer
    map,        \* _map: a sequence of what was set, latest last, or Undefined
    iterators,  \* how many generators are suspended
    added,      \* the entries added or received (history)
    yielded,    \* those that iterating has given out (history)
    mixed,      \* an entry was added where the writer was not at the end (history)
    missed      \* a generator has ended before all was yielded (history)

metadataVars == <<buffer, map, iterators, added, yielded, mixed, missed>>

-----------------------------------------------------------------------------
(* Entries as bytes                                                        *)

\* addWellKnownMimeType: the identifier in one byte, with its highest bit set.
WellKnownBytes(e) ==
    <<WellKnown[e.mime] + 128>> \o ToByteArray(Len(e.content), 3) \o e.content

\* Slip: the name goes without its length.
ExplicitBytesUncounted(e) == e.mime \o ToByteArray(Len(e.content), 3) \o e.content

\* addExplicitMimeType, of a type that is not well-known.
ExplicitBytes(e) ==
    <<Len(e.mime)>> \o e.mime \o ToByteArray(Len(e.content), 3) \o e.content

EntryBytes(e) == IF e.mime \in DOMAIN WellKnown THEN WellKnownBytes(e) ELSE ExplicitBytes(e)

\* addMetadata
Add(b, e) == WriteBytes(b, EntryBytes(e))

\* CompositeMetadata.fromEntries
FromEntries(es) == FoldLeft(Add, Alloc(0), es)

\* WellKnownMimeType.fromIdentifier
FromIdentifier(id) ==
    IF \E name \in DOMAIN WellKnown : WellKnown[name] = id
    THEN CHOOSE name \in DOMAIN WellKnown : WellKnown[name] = id
    ELSE Reserved

\* The type at b's reader: well-known, explicit, or Undefined where the first
\* byte is 0 or the name is cut off; and the buffer behind it.
ReadMime(b) ==
    LET id == ReadNumber(b, 1)
        c  == Skip(b, 1)
    IN  CASE id = 0    -> [mime |-> Undefined, rest |-> c]
          [] id >= 128 -> [mime |-> FromIdentifier(id - 128), rest |-> c]
          [] OTHER     -> [mime |-> ReadBytes(c, id), rest |-> Skip(c, id)]

\* The content: Undefined where it is empty or cut off.
ReadContent(b) ==
    LET length == ReadNumber(b, 3)
        c      == Skip(b, 3)
    IN  IF length \in {0, Undefined} THEN [content |-> Undefined, rest |-> c]
        ELSE [content |-> ReadBytes(c, length), rest |-> Skip(c, length)]

\* One turn of entriesIterator: what it yields, if anything, and the buffer.
EntryOf(mime, data) ==
    [entry |-> IF data.content = Undefined THEN Undefined
               ELSE [mime |-> mime, content |-> data.content],
     rest  |-> data.rest]
ReadTyped(type) ==
    IF type.mime = Undefined THEN [entry |-> Undefined, rest |-> type.rest]
    ELSE EntryOf(type.mime, ReadContent(type.rest))
ReadEntry(b) == ReadTyped(ReadMime(b))

\* The generator goes on to its next yield, or to its end.
NextEntry(b) ==
    LET from[r \in 0..b.capacity] ==
            LET at   == [b EXCEPT !.reader = r]
                turn == ReadEntry(at)
            IN  IF ~IsReadable(at) THEN [entry |-> Undefined, rest |-> at]
                ELSE IF turn.entry # Undefined THEN turn
                ELSE from[turn.rest.reader]
    IN  from[b.reader]

\* [Symbol.iterator] to the end: all that is left.
AllEntries(b) ==
    LET from[r \in 0..b.capacity] ==
            LET at   == [b EXCEPT !.reader = r]
                turn == ReadEntry(at)
            IN  IF ~IsReadable(at) THEN <<>>
                ELSE IF turn.entry = Undefined THEN from[turn.rest.reader]
                ELSE <<turn.entry>> \o from[turn.rest.reader]
    IN  from[ResetReaderIndex(b).reader]

\* Slip: the first entry of a type stays.
GetFirst(entries, type) ==
    LET first == SelectInSeq(entries, LAMBDA e : e.mime = type)
    IN  IF first = 0 THEN Undefined ELSE entries[first]

\* _map.get(type), after _map.set of each entry.
Get(entries, type) ==
    LET last == SelectLastInSeq(entries, LAMBDA e : e.mime = type)
    IN  IF last = 0 THEN Undefined ELSE entries[last]

-----------------------------------------------------------------------------
(* The object                                                              *)

\* The content of what is yielded is never empty.
NonEmpty(entries) ==
    LET upTo[n \in 0..Len(entries)] ==
            IF n = 0 THEN <<>>
            ELSE IF entries[n].content = <<>> THEN upTo[n - 1]
            ELSE Append(upTo[n - 1], entries[n])
    IN  upTo[Len(entries)]

MetadataInit ==
    /\ \/ added = <<>> /\ buffer = Alloc(0)
       \/ \E e \in Entries : added = <<e>> /\ buffer = FromUint8Array(FromEntries(added).data)
    /\ map = Undefined
    /\ iterators = 0
    /\ yielded = <<>>
    /\ mixed = FALSE
    /\ missed = FALSE

AddMetadata(e) ==
    /\ Len(added) < MaxEntries
    /\ buffer' = Add(buffer, e)
    /\ added' = Append(added, e)
    /\ mixed' = (mixed \/ buffer.writer # Len(buffer.data))
    /\ UNCHANGED <<map, iterators, yielded, missed>>

\* [Symbol.iterator]: a new generator.
Iterate ==
    /\ iterators < MaxIterators
    /\ buffer' = ResetReaderIndex(buffer)
    /\ iterators' = iterators + 1
    /\ UNCHANGED <<map, added, yielded, mixed, missed>>

\* A generator is asked for its next value: it yields one, or it ends.
Advance ==
    LET next == NextEntry(buffer) IN
    /\ iterators > 0
    /\ buffer' = next.rest
    /\ IF next.entry # Undefined
       THEN /\ yielded' = Append(yielded, next.entry)
            /\ UNCHANGED <<iterators, missed>>
       ELSE /\ iterators' = iterators - 1
            /\ missed' = (missed \/ (~mixed /\ Len(yielded) < Len(NonEmpty(added))))
            /\ UNCHANGED yielded
    /\ UNCHANGED <<map, added, mixed>>

\* findEntry, of any type: what it returns is Get(map', type).
FindEntry ==
    /\ map = Undefined
    /\ map' = AllEntries(buffer)
    /\ buffer' = [ResetReaderIndex(buffer) EXCEPT !.reader = buffer.capacity]
    /\ yielded' = yielded \o map'
    /\ UNCHANGED <<iterators, added, mixed, missed>>

MetadataNext ==
    \/ \E e \in Entries : AddMetadata(e)
    \/ Iterate \/ Advance \/ FindEntry

MetadataTypeOK ==
    /\ InBounds(buffer)
    /\ iterators \in 0..MaxIterators
    /\ added \in Seq(Entries)
    /\ mixed \in BOOLEAN /\ missed \in BOOLEAN

-----------------------------------------------------------------------------
\* Iterating takes the entries off: over all generators and lookups together
\* every entry with content comes out once, as it went in, in order, and no
\* generator ends while there are some left.  This is so until an entry is added
\* after an iteration has begun (or to what was received): the writer is then
\* at the start, and writes over the entries that are there.
EntriesComeOutOnce ==
    /\ ~mixed => IsPrefix(yielded, NonEmpty(added))
    /\ ~missed

\* The first findEntry of a metadata that nobody has iterated over finds of
\* every type the entry with content that was added last, and no other; later
\* ones find the same out of `_map`, whatever was added since.
FindsLatest ==
    [][map = Undefined /\ map' # Undefined /\ yielded = <<>> /\ ~mixed =>
           /\ \A e \in Range(map') : e \in Range(added)
           /\ \A i \in DOMAIN added :
                  \/ added[i].content = <<>>
                  \/ Get(map', added[i].mime) = added[i]
                  \/ \E j \in DOMAIN added : /\ j > i /\ added[j].mime = added[i].mime
                                             /\ added[j].content # <<>>]_metadataVars
=============================================================================
