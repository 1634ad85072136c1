------------------------------ MODULE StreamIds ------------------------------
(***************************************************************************)
(* The stream identifiers of one RSocket connection and the rule by which  *)
(* a StreamIdSupplier (rsocket/core/StreamIdSupplier.ts) picks the next    *)
(* one.  A supplier counts up by two from its initial value, -1 on the     *)
(* client and 0 on the server, turns round when it passes MASK, and skips  *)
(* the identifiers that are keys of the requester's `senders` map.         *)
(*                                                                         *)
(* A definition introduced as a slip is what a plausible mistake in the code *)
(* would make of the definition after it; no specification uses it.        *)
(*                                                                         *)
(* IsNextStreamId is the promise of nextStreamId() as a relation, without  *)
(* its loop; StreamIdSupplier.tla has the loop and shows that it keeps it. *)
(***************************************************************************)
EXTENDS Integers

CONSTANT MASK  \* the largest identifier, 0x7FFFFFFF in the code

ASSUME MaskAssumption == MASK \in Nat /\ MASK >= 3

\* The initial values of clientSupplier() and serverSupplier().
InitialValues == {-1, 0}

\* Slip: the counter is compared with MASK before it is advanced.
IdsPastMask(initial) == {i \in 1..(MASK + 2) : (i - initial) % 2 = 0}

\* The identifiers a supplier with this initial value can hand out: all the
\* odd ones, or all the even ones, up to MASK.
IdsOf(initial) == {i \in 1..MASK : (i - initial) % 2 = 0}

\* Slips: the counter never turns round, stops at its last value, or is
\* advanced twice in a turn.
AdvanceWithoutReset(initial, s) == s + 2
AdvanceToTheEnd(initial, s) == IF s + 2 > MASK THEN s ELSE s + 2
AdvanceTwice(initial, s) == IF s + 4 > MASK THEN initial + 2 ELSE s + 4

\* One turn of the loop's body: the next value of the counter.
Advance(initial, s) == IF s + 2 > MASK THEN initial + 2 ELSE s + 2

\* Counting up from s and turning round at MASK, i comes before j.
ComesBefore(s, i, j) ==
    \/ i > s /\ j <= s
    \/ i < j /\ (i > s <=> j > s)

\* id is the first identifier after s that is not in use.
IsNextStreamId(initial, s, used, id) ==
    /\ id \in IdsOf(initial) \ used
    /\ \A j \in IdsOf(initial) \ used : j # id => ComesBefore(s, id, j)
=============================================================================
