----------------------------- MODULE Interaction -----------------------------
(***************************************************************************)
(* What rsocket/RSocket.ts promises of one requestResponse or              *)
(* requestStream: the caller is told what the handler at the other end has *)
(* produced, all of it, in order, and then how the handler has ended; of a *)
(* broken connection it may be told nothing more, but never anything else. *)
(* RSocketRequester.tla implements it, with its identifiers, frames, write *)
(* promises and table of subscribers.                                      *)
(***************************************************************************)
EXTENDS Naturals, Sequences

CONSTANTS
    Items,   \* what may be produced
    MaxItems \* bound: how many of them

VARIABLES
    produced,  \* what the handler has produced so far
    ended,     \* "open", "completed" or "failed"
    told,      \* what the caller has been given
    outcome,   \* how the caller has been told that it ended, or "open"
    broken     \* the connection is gone, for one end at least

vars == <<produced, ended, told, outcome, broken>>

Init ==
    /\ produced = <<>>
    /\ ended = "open"
    /\ told = <<>>
    /\ outcome = "open"
    /\ broken = FALSE

\* The handler produces an item, ends, or answers, which is both.
Work ==
    /\ ended = "open"
    /\ \/ produced' = produced
       \/ /\ Len(produced) < MaxItems
          /\ \E item \in Items : produced' = Append(produced, item)
    /\ ended' \in {"open", "completed", "failed"}
    /\ UNCHANGED <<told, outcome, broken>>

Deliver == Len(told) < Len(produced) /\ told' = Append(told, produced[Len(told) + 1])
Conclude == ended # "open" /\ told' = produced /\ outcome' = ended

\* The caller is told of the next item, of the end, or of both by one frame.
Tell ==
    /\ outcome = "open"
    /\ \/ Deliver /\ UNCHANGED outcome
       \/ Deliver /\ Conclude
       \/ Conclude /\ UNCHANGED told
    /\ UNCHANGED <<produced, ended, broken>>

Break == ~broken /\ broken' = TRUE /\ UNCHANGED <<produced, ended, told, outcome>>

Next == Work \/ Tell \/ Break

Safe == Init /\ [][Next]_vars

\* What is produced is told, and so is the end.  (Leads-to, for every length
\* that `produced` may reach, which is what the fairness of Tell would give.)
Prompt(n) == Len(produced) >= n ~> Len(told) >= n \/ broken
Concluded == ended # "open" ~> outcome = ended \/ broken

Spec == Safe /\ Concluded /\ \A n \in 1..MaxItems : Prompt(n)
=============================================================================
