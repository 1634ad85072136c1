------------------------ MODULE StreamIdSupplierProofs ------------------------
(***************************************************************************)
(* Proofs about nextStreamId(), for every MASK and both initial values.    *)
(* The inductive invariant is TypeOK /\ AheadOfCounter /\ ResultIsNext: the *)
(* result is right because, while the loop turns, no free identifier has   *)
(* been passed by.                                                         *)
(***************************************************************************)
EXTENDS StreamIdSupplier, TLAPS

\* One turn of the loop moves the counter to an identifier of its parity.
LEMMA AdvanceType ==
    ASSUME NEW s \in Ids \cup {InitialValue}
    PROVE  Advance(InitialValue, s) \in Ids
<1> USE MaskAssumption, InitialValueAssumption DEF InitialValues, Ids, IdsOf, Advance
<1>1. CASE InitialValue = -1
  BY <1>1
<1>2. CASE InitialValue = 0
  BY <1>2
<1> QED
  BY <1>1, <1>2

\* Two identifiers of one supplier are never neighbours.
LEMMA SameParity ==
    ASSUME NEW s \in Ids \cup {InitialValue}, NEW j \in Ids
    PROVE  /\ s \in Int /\ j \in Int
           /\ j # s + 1
           /\ InitialValue + 2 <= j
           /\ j <= MASK
           /\ s = InitialValue \/ InitialValue + 2 <= s
<1> USE MaskAssumption, InitialValueAssumption DEF InitialValues, Ids, IdsOf
<1>1. CASE InitialValue = -1
  BY <1>1
<1>2. CASE InitialValue = 0
  BY <1>2
<1> QED
  BY <1>1, <1>2

\* The body of the loop passes no free identifier by: if every free one lies
\* ahead of s, seen from where the loop was entered, then every free one but
\* the next value of the counter lies ahead of that value.
LEMMA AdvanceSkipsNone ==
    ASSUME NEW e \in Ids \cup {InitialValue},
           NEW s \in Ids \cup {InitialValue},
           NEW j \in Ids,
           j # Advance(InitialValue, s),
           s = e \/ (s \in Ids /\ ComesBefore(e, s, j))
    PROVE  ComesBefore(e, Advance(InitialValue, s), j)
<1> USE MaskAssumption, InitialValueAssumption DEF InitialValues
<1>1. /\ s \in Int /\ e \in Int /\ j \in Int
      /\ j # s + 1 /\ j # e + 1
      /\ InitialValue + 2 <= j /\ j <= MASK
      /\ s = InitialValue \/ InitialValue + 2 <= s
      /\ e = InitialValue \/ InitialValue + 2 <= e
  BY SameParity
<1>2. CASE s + 2 > MASK
  <2>1. Advance(InitialValue, s) = InitialValue + 2
    BY <1>2 DEF Advance
  <2> QED
    BY <1>1, <1>2, <2>1 DEF ComesBefore
<1>3. CASE ~(s + 2 > MASK)
  <2>1. Advance(InitialValue, s) = s + 2
    BY <1>3 DEF Advance
  <2> QED
    BY <1>1, <1>3, <2>1 DEF ComesBefore
<1> QED
  BY <1>2, <1>3

Inv == TypeOK /\ AheadOfCounter /\ ResultIsNext

LEMMA InitInv == Init => Inv
BY MaskAssumption, InitialValueAssumption
   DEF Init, Inv, TypeOK, AheadOfCounter, ResultIsNext

\* The result of a loop that has ended is an identifier; Return relies on it.
LEMMA ResultIsId ==
    ASSUME ResultIsNext, loop = "returned"
    PROVE  streamId \in Ids
BY DEF ResultIsNext, IsNextStreamId, Ids

LEMMA TypeStep == Inv /\ [Next]_vars => TypeOK'
<1> SUFFICES ASSUME Inv, [Next]_vars PROVE TypeOK'
  OBVIOUS
<1> USE DEF TypeOK, Inv
<1>1. CASE Enter
  BY <1>1 DEF Enter
<1>2. CASE Turn
  BY <1>2, AdvanceType DEF Turn
<1>3. CASE Return
  BY <1>3, ResultIsId DEF Return
<1>4. ASSUME NEW i \in Ids, Register(i) \/ Abandon(i) \/ Release(i) PROVE TypeOK'
  BY <1>4 DEF Register, Abandon, Release
<1>5. CASE UNCHANGED vars
  BY <1>5 DEF vars
<1> QED
  BY <1>1, <1>2, <1>3, <1>4, <1>5 DEF Next

\* A turn of the loop either goes on, with all free identifiers still ahead,
\* or ends on the first of them.
LEMMA TurnStep == Inv /\ Turn => AheadOfCounter' /\ ResultIsNext'
<1> SUFFICES ASSUME Inv, Turn PROVE AheadOfCounter' /\ ResultIsNext'
  OBVIOUS
<1> DEFINE next == Advance(InitialValue, streamId)
<1>1. streamId' = next /\ registered' = registered /\ entry' = entry
  BY DEF Turn
<1>2. next \in Ids
  BY AdvanceType DEF Inv, TypeOK
<1>3. ASSUME NEW j \in Ids \ registered, j # next
      PROVE  ComesBefore(entry, next, j)
  <2>1. streamId = entry \/ (streamId \in Ids /\ ComesBefore(entry, streamId, j))
    BY <1>3 DEF Inv, TypeOK, AheadOfCounter, Turn
  <2> QED
    BY <1>3, <2>1, AdvanceSkipsNone DEF Inv, TypeOK
<1>4. CASE next \in registered
  <2>1. \A j \in Ids \ registered : ComesBefore(entry, next, j)
    BY <1>3, <1>4
  <2>2. loop' = "running"
    BY <1>1, <1>4 DEF Turn
  <2> QED
    BY <1>1, <1>4, <2>1, <2>2 DEF AheadOfCounter, ResultIsNext
<1>5. CASE next \notin registered
  <2>1. next # 0
    BY <1>2 DEF Ids, IdsOf
  <2>2. loop' = "returned"
    BY <1>1, <1>5, <2>1 DEF Turn
  <2>3. IsNextStreamId(InitialValue, entry, registered, next)
    BY <1>2, <1>3, <1>5 DEF IsNextStreamId, Ids
  <2> QED
    BY <1>1, <2>2, <2>3 DEF AheadOfCounter, ResultIsNext
<1> QED
  BY <1>4, <1>5

LEMMA NextInv == Inv /\ [Next]_vars => Inv'
<1> SUFFICES ASSUME Inv, [Next]_vars PROVE Inv'
  OBVIOUS
<1>1. TypeOK'
  BY TypeStep
<1>2. AheadOfCounter' /\ ResultIsNext'
  <2>1. CASE Enter
    BY <2>1 DEF Enter, AheadOfCounter, ResultIsNext
  <2>2. CASE Turn
    BY <2>2, TurnStep
  <2>3. CASE Return
    BY <2>3 DEF Return, AheadOfCounter, ResultIsNext
  <2>4. ASSUME NEW i \in Ids, Register(i) \/ Abandon(i) \/ Release(i)
        PROVE  AheadOfCounter' /\ ResultIsNext'
    BY <2>4 DEF Register, Abandon, Release, AheadOfCounter, ResultIsNext
  <2>5. CASE UNCHANGED vars
    BY <2>5 DEF Inv, vars, AheadOfCounter, ResultIsNext
  <2> QED
    BY <2>1, <2>2, <2>3, <2>4, <2>5 DEF Next
<1> QED
  BY <1>1, <1>2 DEF Inv

\* Every reachable state of a supplier and its caller is well typed: the
\* counter never leaves the identifiers of its parity.
THEOREM TypeCorrect == Spec => []TypeOK
<1>1. Inv => TypeOK
  BY DEF Inv
<1> QED
  BY <1>1, InitInv, NextInv, PTL DEF Spec

\* nextStreamId() returns the first free identifier after the last one it
\* returned, however the map has changed since and wherever it turns round.
THEOREM SupplierCorrect == Spec => []ResultIsNext
<1>1. Inv => ResultIsNext
  BY DEF Inv
<1> QED
  BY <1>1, InitInv, NextInv, PTL DEF Spec
=============================================================================
