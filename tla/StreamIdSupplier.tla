--------------------------- MODULE StreamIdSupplier ---------------------------
(***************************************************************************)
(* rsocket/core/StreamIdSupplier.ts: the do-while loop of nextStreamId(),  *)
(* one turn of the loop per step, and the life of the identifiers it hands *)
(* out: returned to a request, registered as a key of `senders` when the   *)
(* request's write resolves, released when its last frame arrives.  The    *)
(* loop runs to its end before anything else does (JavaScript never        *)
(* preempts it), so the map does not change while it turns.                *)
(***************************************************************************)
EXTENDS StreamIds

CONSTANT InitialValue  \* initialValue of this supplier

ASSUME InitialValueAssumption == InitialValue \in InitialValues

VARIABLES
    streamId,    \* the counter
    registered,  \* the keys of the `senders` map passed to nextStreamId()
    issued,      \* returned identifiers whose request is not registered yet
    loop,        \* "idle", "running", or "returned" with a result
    entry        \* the counter when the loop was entered (history)

vars == <<streamId, registered, issued, loop, entry>>

Ids == IdsOf(InitialValue)

TypeOK ==
    /\ streamId \in Ids \cup {InitialValue}
    /\ registered \subseteq Ids
    /\ issued \subseteq Ids
    /\ loop \in {"idle", "running", "returned"}
    /\ entry \in Ids \cup {InitialValue}

Init ==
    /\ streamId = InitialValue
    /\ registered = {}
    /\ issued = {}
    /\ loop = "idle"
    /\ entry = InitialValue

\* nextStreamId(senders) is called.
Enter ==
    /\ loop = "idle"
    /\ loop' = "running"
    /\ entry' = streamId
    /\ UNCHANGED <<streamId, registered, issued>>

\* Slip: the loop ends on the first nonzero identifier.
TurnIgnoringMap ==
    /\ loop = "running"
    /\ streamId' = Advance(InitialValue, streamId)
    /\ loop' = IF streamId' = 0 THEN "running" ELSE "returned"
    /\ UNCHANGED <<registered, issued, entry>>

\* One turn of the do-while loop: it ends on a nonzero identifier that is not
\* a key of the map.
Turn ==
    /\ loop = "running"
    /\ streamId' = Advance(InitialValue, streamId)
    /\ loop' = IF streamId' = 0 \/ streamId' \in registered
               THEN "running" ELSE "returned"
    /\ UNCHANGED <<registered, issued, entry>>

\* The caller takes the result and starts to write its request frame.
Return ==
    /\ loop = "returned"
    /\ loop' = "idle"
    /\ issued' = issued \cup {streamId}
    /\ UNCHANGED <<streamId, registered, entry>>

\* The write resolves: senders.set(streamId, ...).
Register(i) ==
    /\ loop = "idle"
    /\ i \in issued
    /\ issued' = issued \ {i}
    /\ registered' = registered \cup {i}
    /\ UNCHANGED <<streamId, loop, entry>>

\* A fire-and-forget, or a write that fails: the identifier is never a key.
Abandon(i) ==
    /\ loop = "idle"
    /\ i \in issued
    /\ issued' = issued \ {i}
    /\ UNCHANGED <<streamId, registered, loop, entry>>

\* The last frame of the stream arrives: senders.delete(streamId).
Release(i) ==
    /\ loop = "idle"
    /\ i \in registered
    /\ registered' = registered \ {i}
    /\ UNCHANGED <<streamId, issued, loop, entry>>

Next ==
    \/ Enter
    \/ Turn
    \/ Return
    \/ \E i \in Ids : Register(i) \/ Abandon(i) \/ Release(i)

Spec == Init /\ [][Next]_vars /\ WF_vars(Turn)

-----------------------------------------------------------------------------
\* The loop returns the first free identifier after the one it returned last:
\* it never skips a free one, never returns one that is in use, and turns
\* round at MASK without leaving its parity (StreamIdSupplier.nextStreamId).
ResultIsNext ==
    loop = "returned" => IsNextStreamId(InitialValue, entry, registered, streamId)

\* The strengthening of ResultIsNext that the loop's body preserves: while it
\* turns, every free identifier still lies ahead of the counter.
AheadOfCounter ==
    loop = "running" =>
        \/ streamId = entry
        \/ /\ streamId \in registered
           /\ \A j \in Ids \ registered : ComesBefore(entry, streamId, j)

\* The do-while loop ends whenever some identifier is free; with none free it
\* would turn for ever and the event loop with it.
LoopEnds == (loop = "running" /\ Ids \ registered # {}) ~> loop # "running"
=============================================================================
