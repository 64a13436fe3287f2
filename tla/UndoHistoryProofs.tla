-------------------------- MODULE UndoHistoryProofs --------------------------
\* What the abstract undo history guarantees, whatever the contents and the
\* limit.
EXTENDS UndoHistory, TLAPS, SequenceTheorems

\* Taking the newest n elements keeps the elements and bounds the length.
LEMMA NewestType ==
    ASSUME NEW S, NEW s \in Seq(S), NEW n \in Nat
    PROVE  Newest(s, n) \in Seq(S) /\ Len(Newest(s, n)) <= n
<1>1. CASE Len(s) < n
  BY <1>1, SMT DEF Newest
<1>2. CASE ~(Len(s) < n)
  BY <1>2, SMT DEF Newest
<1> QED BY <1>1, <1>2

\* The inductive invariant: the lengths are bounded together, for sequences.
IInv == TypeOK /\ WithinLimit

LEMMA InitIInv ==
    ASSUME Limit \in Nat \ {0}
    PROVE  Init => IInv
BY DEF Init, IInv, TypeOK, WithinLimit

LEMMA NextIInv ==
    ASSUME Limit \in Nat \ {0}
    PROVE  IInv /\ [Next]_vars => IInv'
<1> SUFFICES ASSUME IInv, [Next]_vars PROVE IInv'
  OBVIOUS
<1> USE DEF IInv, TypeOK, WithinLimit
<1>1. CASE Do
  <2>1. Newest(past, Limit - 1) \in Seq(Contents) /\ Len(Newest(past, Limit - 1)) <= Limit - 1
    BY NewestType
  <2>2. <<present>> \in Seq(Contents) /\ Len(<<present>>) = 1
    OBVIOUS
  <2>3. past' \in Seq(Contents) /\ Len(past') <= Limit
    BY <1>1, <2>1, <2>2 DEF Do
  <2> QED BY <1>1, <2>3 DEF Do
<1>2. CASE Absorb
  BY <1>2 DEF Absorb
<1>3. CASE Merge
  BY <1>3 DEF Merge
<1>4. CASE Undo
  BY <1>4 DEF Undo
<1>5. CASE Redo
  <2>1. present' \in Contents /\ future' \in Seq(Contents) /\ Len(future') = Len(future) - 1
    BY <1>5 DEF Redo
  <2>2. <<present>> \in Seq(Contents) /\ Len(<<present>>) = 1
    OBVIOUS
  <2>3. past' \in Seq(Contents) /\ Len(past') <= Len(past) + 1
    <3>1. CASE past' = past
      BY <3>1
    <3>2. CASE past' = <<present>> \o past
      BY <2>2, <3>2
    <3> QED BY <1>5, <3>1, <3>2 DEF Redo
  <2> QED BY <2>1, <2>3
<1>6. CASE Forget
  BY <1>6 DEF Forget
<1>7. CASE UNCHANGED vars
  BY <1>7 DEF vars
<1> QED BY <1>1, <1>2, <1>3, <1>4, <1>5, <1>6, <1>7 DEF Next

\* Undo and redo together never go further than the limit.
THEOREM HistoryWithinLimit ==
    ASSUME Limit \in Nat \ {0}
    PROVE  Spec => [](TypeOK /\ WithinLimit)
<1>1. IInv => TypeOK /\ WithinLimit
  BY DEF IInv
<1> QED BY InitIInv, NextIInv, <1>1, PTL DEF Spec
=============================================================================
