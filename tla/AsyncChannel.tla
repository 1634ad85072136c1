----------------------------- MODULE AsyncChannel -----------------------------
(***************************************************************************)
(* What publisherToAsyncIterator promises (src/reactivestreams/mod.ts): a  *)
(* loop over its iterator gets what the publisher has told the subscriber, *)
(* everything, in order, and then the end that it was told.                *)
(***************************************************************************)
EXTENDS Naturals, Sequences

CONSTANT Items

VARIABLES
    sent,       \* the values told to the subscriber so far
    ending,     \* "open", or how the publisher has ended
    delivered,  \* those that the loop has got
    outcome     \* "open", how the loop has ended, or "left" if by itself

vars == <<sent, ending, delivered, outcome>>

Init ==
    /\ sent = <<>>
    /\ ending = "open"
    /\ delivered = <<>>
    /\ outcome = "open"

Tell ==
    /\ ending = "open"
    /\ \E item \in Items : sent' = Append(sent, item)
    /\ UNCHANGED <<ending, delivered, outcome>>

End ==
    /\ ending = "open"
    /\ ending' \in {"completed", "failed"}
    /\ UNCHANGED <<sent, delivered, outcome>>

Deliver ==
    /\ outcome = "open"
    /\ Len(delivered) < Len(sent)
    /\ delivered' = Append(delivered, sent[Len(delivered) + 1])
    /\ UNCHANGED <<sent, ending, outcome>>

Conclude ==
    /\ outcome = "open"
    /\ delivered = sent
    /\ ending # "open"
    /\ outcome' = ending
    /\ UNCHANGED <<sent, ending, delivered>>

Leave ==
    /\ outcome = "open"
    /\ outcome' = "left"
    /\ UNCHANGED <<sent, ending, delivered>>

Next == Tell \/ End \/ Deliver \/ Conclude \/ Leave

\* A loop that has not left gets what there is, and its end.
Fairness == WF_vars(Deliver) /\ WF_vars(Conclude)

Spec == Init /\ [][Next]_vars /\ Fairness
=============================================================================
