----------------------------- MODULE UndoHistory -----------------------------
(***************************************************************************)
(* What the undo facility of a collection promises its user: a line of     *)
(* collection contents with a cursor in it.  `past` holds, newest first,   *)
(* the contents Undo goes back to, `future`, nearest first, those Redo     *)
(* goes forward to.  The operations of rslib/src/undo/mod.rs are stated    *)
(* here without change records, transactions or counters; UndoManager      *)
(* implements this module.                                                 *)
(***************************************************************************)
EXTENDS Sequences, Naturals

CONSTANTS
    Contents,       \* the contents a collection can have
    Limit           \* how many contents Undo can go back, at least one

VARIABLES past, present, future

vars == <<past, present, future>>

Init ==
    /\ present \in Contents
    /\ past = <<>>
    /\ future = <<>>

\* The newest n elements of a newest-first sequence.
Newest(seq, n) == SubSeq(seq, 1, IF Len(seq) < n THEN Len(seq) ELSE n)

\* An operation is recorded: what was present becomes the newest past.
Do ==
    /\ present' \in Contents
    /\ past' = <<present>> \o Newest(past, Limit - 1)
    /\ future' = <<>>

\* An operation changes the contents without a step of its own, because it is
\* coalesced with the step before it, or leaves the undoable contents alone.
Absorb ==
    /\ present' \in Contents
    /\ present' = present \/ past # <<>>
    /\ past' = past
    /\ future' = <<>>

\* The newest k steps become part of the step below them.
Merge ==
    \E k \in 1..(Len(past) - 1) :
        /\ past' = SubSeq(past, k + 1, Len(past))
        /\ UNCHANGED <<present, future>>

Undo ==
    /\ past # <<>>
    /\ present' = Head(past)
    /\ past' = Tail(past)
    /\ future' = <<present>> \o future

\* Going forward again keeps every past content, and never has to drop one.
\* It may be absorbed in the step below, as an operation may.
Redo ==
    /\ future # <<>>
    /\ present' = Head(future)
    /\ future' = Tail(future)
    /\ past' = <<present>> \o past \/ (past # <<>> /\ past' = past)

\* A failure, a change from outside or a sync: there is no way back.
Forget ==
    /\ present' \in Contents
    /\ past' = <<>>
    /\ future' = <<>>

Next == Do \/ Absorb \/ Merge \/ Undo \/ Redo \/ Forget

Spec == Init /\ [][Next]_vars

TypeOK ==
    /\ present \in Contents
    /\ past \in Seq(Contents)
    /\ future \in Seq(Contents)

\* Both directions together fit the limit, so a redo never pushes the oldest
\* content out although nothing in the code caps the redo steps.
WithinLimit == Len(past) + Len(future) <= Limit
=============================================================================
