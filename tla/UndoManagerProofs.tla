-------------------------- MODULE UndoManagerProofs --------------------------
(***************************************************************************)
(* Theorems about the undo queues for any UNDO_LIMIT, any objects and any  *)
(* mix of features.                                                        *)
(*                                                                         *)
(* The first part is about the queues and the step numbers alone, and does *)
(* not depend on what the changes of a step are (IInv).                    *)
(*                                                                         *)
(* The second is about the changes.  A view is what undo restores of the   *)
(* tables, with the mtime: whole rows, but of the objects in unlogged only *)
(* the contents, for a write without a step changes their flags between    *)
(* the steps.  A trace is the sequence of views that undoing the changes   *)
(* of a step passes, and a line that of the views at which the steps of a  *)
(* queue begin and end.  The invariant (QInv) says that both queues are    *)
(* lines from the view of the tables as they are, and that no view of them *)
(* hides from the next sync what it shows pending.  Undoing a change saves *)
(* one that answers it, so the mirror image of a trace leads forward       *)
(* again; that is why a step taken from one queue fits the other.  A write *)
(* without a step forgets the object's flags in every view of the lines    *)
(* (LinedForget), and gives its mtime to the views up to the first step    *)
(* that sets one (LinedStamp).                                             *)
(***************************************************************************)
EXTENDS UndoManager, TLAPS, SequenceTheorems, FiniteSetTheorems, NaturalsInduction, WellFoundedInduction

\* A queue of numbered steps, of whatever shape: S is some set they come from.
NumberedBy(S) == \A s \in S : s.counter \in Nat

LEMMA SeqGrows ==
    ASSUME NEW S, NEW T, S \subseteq T, NEW s \in Seq(S)
    PROVE  s \in Seq(T)
OBVIOUS

\* Pushing a step with a number above all others keeps the numbers falling and
\* makes the queue at most one longer and never longer than the limit.
LEMMA PushUndoFacts ==
    ASSUME NEW S, NEW steps \in Seq(S), NumberedBy(S),
           NEW c \in Nat,
           steps # <<>> => steps[1].counter <= c,
           \A i \in 1..(Len(steps) - 1) : steps[i].counter > steps[i + 1].counter,
           NEW step, step.counter = c + 1,
           NEW q, q = PushUndo(steps, step)
    PROVE  /\ \E T : q \in Seq(T) /\ NumberedBy(T)
           /\ q # <<>> => q[1].counter <= c + 1
           /\ \A i \in 1..(Len(q) - 1) : q[i].counter > q[i + 1].counter
           /\ Len(q) <= Len(steps) + 1
           /\ Len(q) <= UndoLimit
<1> DEFINE T == S \cup {step}
           t == Truncate(steps, UndoLimit - 1)
<1>1. UndoLimit - 1 \in Nat
  BY UndoAssumption
<1>2. /\ t \in Seq(S)
      /\ Len(t) <= Len(steps)
      /\ Len(t) <= UndoLimit - 1
      /\ \A i \in 1..Len(t) : t[i] = steps[i]
  <2>1. CASE Len(steps) < UndoLimit - 1
    BY <1>1, <2>1 DEF Truncate
  <2>2. CASE ~(Len(steps) < UndoLimit - 1)
    BY <1>1, <2>2 DEF Truncate
  <2> QED BY <2>1, <2>2
<1>3. NumberedBy(T)
  BY DEF NumberedBy
<1>4. t \in Seq(T)
  BY <1>2, SeqGrows
<1>5. q = <<step>> \o t /\ <<step>> \in Seq(T)
  BY DEF PushUndo
<1> HIDE DEF T, t
<1>6. /\ q \in Seq(T)
      /\ Len(q) = Len(t) + 1
      /\ q[1] = step
      /\ \A i \in 2..Len(q) : q[i] = t[i - 1]
  BY <1>4, <1>5
<1>7. ASSUME NEW i \in 1..(Len(q) - 1)
      PROVE  q[i].counter > q[i + 1].counter
  <2>1. CASE i = 1
    <3>1. q[2] = steps[1] /\ steps # <<>>
      BY <1>2, <1>4, <1>6, <2>1
    <3>2. steps[1] \in S
      BY <3>1
    <3> QED BY <3>1, <3>2, <1>6, <2>1 DEF NumberedBy
  <2>2. CASE i > 1
    <3> DEFINE j == i - 1
    <3>1. j \in 1..(Len(steps) - 1) /\ j + 1 = i /\ j \in 1..Len(t) /\ i \in 1..Len(t)
      BY <1>2, <1>4, <1>6, <2>2
    <3>2. q[i] = steps[j]
      BY <1>2, <1>6, <2>2, <3>1
    <3>3. i + 1 \in 2..Len(q) /\ (i + 1) - 1 = i
      BY <1>4, <1>6
    <3>4. q[i + 1] = t[i]
      BY <1>6, <3>3
    <3>5. steps[j].counter > steps[j + 1].counter
      BY <3>1
    <3> QED BY <1>2, <3>1, <3>2, <3>4, <3>5
  <2> QED BY <2>1, <2>2
<1>8. Len(q) <= Len(steps) + 1 /\ Len(q) <= UndoLimit
  <2>1. Len(t) \in Nat /\ Len(steps) \in Nat /\ UndoLimit \in Nat
    BY <1>2, UndoAssumption
  <2> QED BY <1>2, <1>6, <2>1
<1> QED BY <1>3, <1>6, <1>7, <1>8

-----------------------------------------------------------------------------
\* The facts about a queue that the invariant is made of, for any queue.
Numbered(q, c) ==
    /\ \E S : q \in Seq(S) /\ NumberedBy(S)
    /\ q # <<>> => q[1].counter <= c
    /\ \A i \in 1..(Len(q) - 1) : q[i].counter > q[i + 1].counter

LEMMA NumberedEmpty ==
    ASSUME NEW c PROVE Numbered(<<>>, c)
<1>1. <<>> \in Seq({}) /\ NumberedBy({})
  BY DEF NumberedBy
<1> QED BY <1>1 DEF Numbered

\* Dropping the newest steps, or counting on, keeps a queue numbered.
LEMMA NumberedTail ==
    ASSUME NEW q, NEW c \in Nat, Numbered(q, c), q # <<>>
    PROVE  Numbered(Tail(q), c) /\ Len(Tail(q)) = Len(q) - 1 /\ Len(q) \in Nat
<1>1. PICK S : q \in Seq(S) /\ NumberedBy(S)
  BY DEF Numbered
<1>2. /\ Tail(q) \in Seq(S) /\ Len(Tail(q)) = Len(q) - 1 /\ Len(q) \in Nat
      /\ \A i \in 1..Len(Tail(q)) : Tail(q)[i] = q[i + 1]
  BY <1>1
<1>3. ASSUME Tail(q) # <<>> PROVE Tail(q)[1].counter <= c
  <2>1. 1 \in 1..(Len(q) - 1) /\ Tail(q)[1] = q[2] /\ q[1] \in S /\ q[2] \in S
    BY <1>1, <1>2, <1>3
  <2>2. q[1].counter > q[1 + 1].counter /\ q[1].counter <= c
    BY <2>1 DEF Numbered
  <2> QED BY <1>1, <2>1, <2>2 DEF NumberedBy
<1>4. ASSUME NEW i \in 1..(Len(Tail(q)) - 1)
      PROVE  Tail(q)[i].counter > Tail(q)[i + 1].counter
  <2>1. i + 1 \in 1..(Len(q) - 1) /\ Tail(q)[i] = q[i + 1] /\ Tail(q)[i + 1] = q[(i + 1) + 1]
    BY <1>2
  <2> QED BY <2>1 DEF Numbered
<1> QED BY <1>1, <1>2, <1>3, <1>4 DEF Numbered

LEMMA NumberedLater ==
    ASSUME NEW q, NEW c \in Nat, Numbered(q, c)
    PROVE  Numbered(q, c + 1)
<1>1. PICK S : q \in Seq(S) /\ NumberedBy(S)
  BY DEF Numbered
<1>2. q # <<>> => q[1] \in S
  BY <1>1
<1> QED BY <1>1, <1>2 DEF Numbered, NumberedBy

LEMMA NumberedPush ==
    ASSUME NEW q, NEW c \in Nat, Numbered(q, c),
           NEW step, step.counter = c + 1
    PROVE  /\ Numbered(PushUndo(q, step), c + 1)
           /\ Len(PushUndo(q, step)) \in Nat
           /\ Len(PushUndo(q, step)) <= Len(q) + 1
           /\ Len(PushUndo(q, step)) <= UndoLimit
<1>1. PICK S : q \in Seq(S) /\ NumberedBy(S)
  BY DEF Numbered
<1> DEFINE p == PushUndo(q, step)
<1> HIDE DEF p
<1>2. /\ \E T : p \in Seq(T) /\ NumberedBy(T)
      /\ p # <<>> => p[1].counter <= c + 1
      /\ \A i \in 1..(Len(p) - 1) : p[i].counter > p[i + 1].counter
      /\ Len(p) <= Len(q) + 1
      /\ Len(p) <= UndoLimit
  BY <1>1, PushUndoFacts DEF Numbered, p
<1>3. Len(p) \in Nat
  BY <1>2
<1> QED BY <1>2, <1>3 DEF Numbered, p

-----------------------------------------------------------------------------
\* The inductive invariant: both properties are inductive once the queues are
\* known to be sequences of numbered steps.
IInv ==
    /\ counter \in Nat
    /\ Numbered(undoSteps, counter)
    /\ \E S : redoSteps \in Seq(S)
    /\ Len(undoSteps) + Len(redoSteps) <= UndoLimit

LEMMA InitIInv == Init => IInv
<1> SUFFICES ASSUME Init PROVE IInv
  OBVIOUS
<1>1. undoSteps = <<>> /\ redoSteps = <<>> /\ counter = 0
  BY DEF Init
<1>2. Numbered(undoSteps, counter)
  BY <1>1, NumberedEmpty
<1>3. redoSteps \in Seq({}) /\ Len(undoSteps) = 0 /\ Len(redoSteps) = 0
  BY <1>1
<1> QED BY <1>1, <1>2, <1>3, UndoAssumption DEF IInv

\* Whatever its closure did, a transaction leaves numbered queues, and the
\* queues grow only in the direction it moves.
LEMMA TransactFacts ==
    ASSUME NEW mode \in {"NormalOp", "Undoing", "Redoing"},
           NEW kind, NEW steps, NEW redo, NEW work,
           counter \in Nat, Numbered(steps, counter), \E S : redo \in Seq(S),
           Transact(mode, kind, steps, redo, work)
    PROVE  /\ counter' \in Nat
           /\ Numbered(undoSteps', counter')
           /\ \E S : redoSteps' \in Seq(S)
           /\ \/ undoSteps' = <<>> /\ redoSteps' = <<>>
              \/ /\ mode = "NormalOp"
                 /\ redoSteps' = <<>>
                 /\ undoSteps' = steps \/ Len(undoSteps') <= UndoLimit
              \/ /\ mode = "Undoing"
                 /\ undoSteps' = steps
                 /\ redoSteps' = redo \/ Len(redoSteps') = Len(redo) + 1
              \/ /\ mode = "Redoing"
                 /\ redoSteps' = redo
                 /\ undoSteps' = steps \/ Len(undoSteps') <= Len(steps) + 1
<1> DEFINE done == BumpMtime(mode, kind, work)
           saved == IF Coalesces(steps, kind, done.changes) THEN <<>> ELSE done.changes
           step == Step(kind, saved, counter + 1)
           kept == HasChanges(kind, saved) /\ kind # "SkipUndo"
<1>1. counter' = counter + 1 /\ counter' \in Nat
  BY DEF Transact
<1>2. step.counter = counter + 1
  BY DEF Step
<1>3. \/ undoSteps' = <<>> /\ redoSteps' = <<>>
      \/ /\ undoSteps' = IF kept /\ mode # "Undoing" THEN PushUndo(steps, step) ELSE steps
         /\ redoSteps' = IF kept /\ mode = "Undoing"
                         THEN Append(RedoAtStart(mode, redo), step)
                         ELSE RedoAtStart(mode, redo)
  BY DEF Transact, Discard
<1> HIDE DEF step, kept
<1>4. Numbered(steps, counter + 1) /\ Numbered(<<>>, counter + 1)
  BY NumberedLater, NumberedEmpty
<1>5. /\ Numbered(PushUndo(steps, step), counter + 1)
      /\ Len(PushUndo(steps, step)) <= Len(steps) + 1
      /\ Len(PushUndo(steps, step)) <= UndoLimit
  BY <1>2, NumberedPush
<1>6. Numbered(undoSteps', counter')
  BY <1>1, <1>3, <1>4, <1>5
<1>7. PICK S : redo \in Seq(S)
  OBVIOUS
<1>8. /\ redo \in Seq(S \cup {step}) /\ <<>> \in Seq(S \cup {step})
      /\ Append(redo, step) \in Seq(S \cup {step})
      /\ Len(Append(redo, step)) = Len(redo) + 1
  BY <1>7
<1>9. redoSteps' \in Seq(S \cup {step})
  BY <1>3, <1>8 DEF RedoAtStart
<1>10. CASE undoSteps' = <<>> /\ redoSteps' = <<>>
  BY <1>1, <1>6, <1>9, <1>10
<1>11. CASE ~(undoSteps' = <<>> /\ redoSteps' = <<>>)
  <2>1. CASE mode = "NormalOp"
    BY <1>1, <1>3, <1>5, <1>6, <1>9, <1>11, <2>1 DEF RedoAtStart
  <2>2. CASE mode = "Undoing"
    BY <1>1, <1>3, <1>6, <1>8, <1>9, <1>11, <2>2 DEF RedoAtStart
  <2>3. CASE mode = "Redoing"
    BY <1>1, <1>3, <1>5, <1>6, <1>9, <1>11, <2>3 DEF RedoAtStart
  <2> QED BY <2>1, <2>2, <2>3
<1> QED BY <1>10, <1>11

LEMMA NormalIInv ==
    ASSUME IInv, NEW kind, NEW work, Transact("NormalOp", kind, undoSteps, redoSteps, work)
    PROVE  IInv'
<1>1. /\ counter' \in Nat
      /\ Numbered(undoSteps', counter')
      /\ \E S : redoSteps' \in Seq(S)
      /\ redoSteps' = <<>>
      /\ undoSteps' = <<>> \/ undoSteps' = undoSteps \/ Len(undoSteps') <= UndoLimit
  BY TransactFacts DEF IInv
<1>2. \E S : undoSteps \in Seq(S)
  BY DEF IInv, Numbered
<1>3. \E S : redoSteps \in Seq(S)
  BY DEF IInv
<1>4. Len(undoSteps) <= UndoLimit
  BY <1>2, <1>3, UndoAssumption DEF IInv
<1>5. \E S : undoSteps' \in Seq(S)
  BY <1>1 DEF Numbered
<1>6. Len(undoSteps') <= UndoLimit /\ Len(redoSteps') = 0 /\ Len(undoSteps') \in Nat
  BY <1>1, <1>4, <1>5, UndoAssumption
<1> QED BY <1>1, <1>6, UndoAssumption DEF IInv

\* Emptying both queues establishes the invariant, with any counter.
LEMMA EmptyIInv ==
    ASSUME counter' \in Nat, undoSteps' = <<>>, redoSteps' = <<>>
    PROVE  IInv'
<1>1. Numbered(undoSteps', counter')
  BY NumberedEmpty
<1>2. redoSteps' \in Seq({}) /\ Len(undoSteps') = 0 /\ Len(redoSteps') = 0
  OBVIOUS
<1> QED BY <1>1, <1>2, UndoAssumption DEF IInv

LEMMA SameIInv ==
    ASSUME IInv, UNCHANGED queues
    PROVE  IInv'
BY DEF IInv, queues

LEMMA UndoIInv ==
    ASSUME IInv, Undo
    PROVE  IInv'
<1>1. PICK work : /\ undoSteps # <<>>
                  /\ Transact("Undoing", Head(undoSteps).kind, Tail(undoSteps), redoSteps, work)
  BY DEF Undo
<1>2. /\ Numbered(Tail(undoSteps), counter)
      /\ Len(Tail(undoSteps)) = Len(undoSteps) - 1
      /\ Len(undoSteps) \in Nat
  BY <1>1, NumberedTail DEF IInv
<1>3. /\ counter' \in Nat
      /\ Numbered(undoSteps', counter')
      /\ \E S : redoSteps' \in Seq(S)
      /\ \/ undoSteps' = <<>> /\ redoSteps' = <<>>
         \/ /\ undoSteps' = Tail(undoSteps)
            /\ redoSteps' = redoSteps \/ Len(redoSteps') = Len(redoSteps) + 1
  BY <1>1, <1>2, TransactFacts DEF IInv
<1>4. CASE undoSteps' = <<>> /\ redoSteps' = <<>>
  BY <1>3, <1>4, EmptyIInv
<1>5. CASE ~(undoSteps' = <<>> /\ redoSteps' = <<>>)
  <2>1. Len(undoSteps') = Len(undoSteps) - 1
    BY <1>2, <1>3, <1>5
  <2>2. Len(redoSteps) \in Nat
    BY DEF IInv
  <2>3. Len(redoSteps') <= Len(redoSteps) + 1 /\ Len(redoSteps') \in Nat
    BY <1>3, <1>5, <2>2
  <2>4. Len(undoSteps') + Len(redoSteps') <= UndoLimit
    BY <1>2, <2>1, <2>2, <2>3, UndoAssumption DEF IInv
  <2> QED BY <1>3, <2>4 DEF IInv
<1> QED BY <1>4, <1>5

LEMMA RedoIInv ==
    ASSUME IInv, Redo
    PROVE  IInv'
<1>1. PICK work : /\ redoSteps # <<>>
                  /\ Transact("Redoing", Last(redoSteps).kind, undoSteps, Front(redoSteps), work)
  BY DEF Redo
<1>2. PICK S : redoSteps \in Seq(S)
  BY DEF IInv
<1>3. /\ Front(redoSteps) \in Seq(S)
      /\ Len(Front(redoSteps)) = Len(redoSteps) - 1
      /\ Len(redoSteps) \in Nat
  <2>1. Len(redoSteps) \in Nat \ {0}
    BY <1>1, <1>2
  <2>2. /\ SubSeq(redoSteps, 1, Len(redoSteps) - 1) \in Seq(S)
        /\ Len(SubSeq(redoSteps, 1, Len(redoSteps) - 1)) = Len(redoSteps) - 1
    BY <1>2, <2>1
  <2> QED BY <2>1, <2>2 DEF Front
<1>4. /\ counter' \in Nat
      /\ Numbered(undoSteps', counter')
      /\ \E T : redoSteps' \in Seq(T)
      /\ \/ undoSteps' = <<>> /\ redoSteps' = <<>>
         \/ /\ redoSteps' = Front(redoSteps)
            /\ undoSteps' = undoSteps \/ Len(undoSteps') <= Len(undoSteps) + 1
  <2> HIDE DEF IInv
  <2>1. counter \in Nat /\ Numbered(undoSteps, counter)
    BY DEF IInv
  <2>2. \E T : Front(redoSteps) \in Seq(T)
    BY <1>3
  <2> QED BY <1>1, <2>1, <2>2, TransactFacts
<1>5. CASE undoSteps' = <<>> /\ redoSteps' = <<>>
  BY <1>4, <1>5, EmptyIInv
<1>6. CASE ~(undoSteps' = <<>> /\ redoSteps' = <<>>)
  <2>1. Len(undoSteps) \in Nat
    BY DEF IInv, Numbered
  <2>2. Len(undoSteps') \in Nat
    BY <1>4 DEF Numbered
  <2>3. Len(redoSteps') = Len(redoSteps) - 1 /\ Len(undoSteps') <= Len(undoSteps) + 1
    BY <1>3, <1>4, <1>6, <2>1
  <2>4. Len(undoSteps') + Len(redoSteps') <= UndoLimit
    BY <1>3, <2>1, <2>2, <2>3, UndoAssumption DEF IInv
  <2> QED BY <1>4, <2>4 DEF IInv
<1> QED BY <1>5, <1>6

LEMMA AddCustomStepIInv ==
    ASSUME IInv, AddCustomStep
    PROVE  IInv'
<1> DEFINE step == Step("Custom", <<>>, counter + 1)
<1>1. step.counter = counter + 1
  BY DEF Step
<1>2. undoSteps' = PushUndo(undoSteps, step) /\ redoSteps' = <<>> /\ counter' = counter + 1
  BY DEF AddCustomStep
<1> HIDE DEF step
<1>3. counter \in Nat /\ Numbered(undoSteps, counter)
  BY DEF IInv
<1>4. /\ Numbered(undoSteps', counter')
      /\ Len(undoSteps') \in Nat
      /\ Len(undoSteps') <= UndoLimit
  BY <1>1, <1>2, <1>3, NumberedPush
<1>5. redoSteps' \in Seq({}) /\ Len(redoSteps') = 0
  BY <1>2
<1> QED BY <1>2, <1>3, <1>4, <1>5, UndoAssumption DEF IInv

LEMMA MergeIInv ==
    ASSUME IInv, NEW n, MergeUndoableOps(n)
    PROVE  IInv'
<1>1. PICK i, merged :
          /\ i \in 1..Len(undoSteps)
          /\ undoSteps[i].counter = n
          /\ merged.counter = n
          /\ undoSteps' = <<merged>> \o SubSeq(undoSteps, i + 1, Len(undoSteps))
  BY DEF MergeUndoableOps
<1>2. counter' = n /\ redoSteps' = redoSteps
  BY DEF MergeUndoableOps
<1>3. PICK S : undoSteps \in Seq(S) /\ NumberedBy(S)
  BY DEF IInv, Numbered
<1>4. n \in Nat
  BY <1>1, <1>3 DEF NumberedBy
<1> DEFINE T == S \cup {merged}
           rest == SubSeq(undoSteps, i + 1, Len(undoSteps))
<1>5. /\ rest \in Seq(S) /\ Len(rest) = Len(undoSteps) - i
      /\ \A j \in 1..Len(rest) : rest[j] = undoSteps[i + j]
  BY <1>1, <1>3
<1>6. NumberedBy(T)
  BY <1>1, <1>3, <1>4 DEF NumberedBy
<1>7. rest \in Seq(T) /\ <<merged>> \in Seq(T)
  BY <1>5, SeqGrows
<1> HIDE DEF T
<1>8. undoSteps' = <<merged>> \o rest
  BY <1>1
<1> HIDE DEF rest
<1>9. /\ undoSteps' \in Seq(T)
      /\ Len(undoSteps') = Len(rest) + 1
      /\ undoSteps'[1] = merged
      /\ \A j \in 2..Len(undoSteps') : undoSteps'[j] = rest[j - 1]
  BY <1>7, <1>8
<1>a. i \in Nat /\ Len(rest) \in Nat
  BY <1>1, <1>3, <1>5
<1>10. ASSUME NEW j \in 1..(Len(undoSteps') - 1)
       PROVE  undoSteps'[j].counter > undoSteps'[j + 1].counter
  <2> DEFINE k == i + j - 1
  <2>1. k \in 1..(Len(undoSteps) - 1) /\ k + 1 = i + j /\ j \in 1..Len(rest)
    BY <1>1, <1>3, <1>5, <1>9
  <2>2. undoSteps[k].counter > undoSteps[k + 1].counter
    BY <2>1 DEF IInv, Numbered
  <2>3. j + 1 \in 2..Len(undoSteps') /\ (j + 1) - 1 = j
    BY <1>1, <1>3, <1>5, <1>9
  <2>4. undoSteps'[j + 1] = undoSteps[k + 1]
    BY <1>5, <1>9, <2>1, <2>3
  <2>5. CASE j = 1
    BY <1>1, <1>9, <2>1, <2>2, <2>4, <2>5
  <2>6. CASE j > 1
    <3>1. j \in 2..Len(undoSteps') /\ j - 1 \in 1..Len(rest) /\ i + (j - 1) = k
      <4>1. j \in Nat /\ j <= Len(rest) /\ Len(undoSteps') = Len(rest) + 1
        BY <1>a, <1>9
      <4> QED BY <1>a, <2>6, <4>1
    <3>2. undoSteps'[j] = undoSteps[k]
      BY <1>5, <1>9, <3>1
    <3> QED BY <2>2, <2>4, <3>2
  <2> QED BY <2>5, <2>6
<1>11. Numbered(undoSteps', counter')
  <2>1. \E R : undoSteps' \in Seq(R) /\ NumberedBy(R)
    BY <1>6, <1>9
  <2>2. undoSteps'[1].counter = counter' /\ counter' \in Nat
    BY <1>1, <1>2, <1>4, <1>9
  <2>3. undoSteps' # <<>> => undoSteps'[1].counter <= counter'
    BY <2>2
  <2> QED BY <1>10, <2>1, <2>3 DEF Numbered
<1>12. Len(undoSteps') + Len(redoSteps') <= UndoLimit
  <2>1. Len(redoSteps) \in Nat /\ Len(undoSteps) \in Nat /\ Len(undoSteps') <= Len(undoSteps)
    BY <1>1, <1>3, <1>5, <1>9 DEF IInv
  <2>2. Len(undoSteps') \in Nat
    BY <1>1, <1>3, <1>5, <1>9
  <2> QED BY <1>2, <2>1, <2>2, UndoAssumption DEF IInv
<1> QED BY <1>2, <1>4, <1>11, <1>12 DEF IInv

\* One step per action of Next.
LEMMA NextIInv == IInv /\ [Next]_vars => IInv'
<1> SUFFICES ASSUME IInv, [Next]_vars PROVE IInv'
  OBVIOUS
<1>1. CASE EditOps
  <2>1. ASSUME NEW n \in Notes, NEW v \in Values, UpdateNote(n, v) PROVE IInv'
    BY <2>1, NormalIInv DEF UpdateNote, Normal
  <2>2. ASSUME NEW d \in Decks, NEW v \in Values, UpdateDeck(d, v) PROVE IInv'
    BY <2>2, NormalIInv DEF UpdateDeck, Normal
  <2>3. ASSUME NEW v \in Values, FindAndReplace(v) PROVE IInv'
    <3>1. PICK work : Normal("FindAndReplace", work)
      BY <2>3 DEF FindAndReplace
    <3> QED BY <3>1, NormalIInv DEF Normal
  <2>4. ASSUME NEW o \in Objects, NEW v \in Values, AddObject(o, v) PROVE IInv'
    BY <2>4, NormalIInv DEF AddObject, Normal
  <2>5. ASSUME NEW o \in Objects, RemoveObject(o) PROVE IInv'
    BY <2>5, NormalIInv DEF RemoveObject, Normal
  <2>6. ASSUME NEW d \in Decks, NEW b \in BOOLEAN, SetCollapsed(d, b) PROVE IInv'
    BY <2>6, NormalIInv DEF SetCollapsed, Normal
  <2>7. ASSUME NEW o \in Objects, NEW v \in Values, NoUndoOp(o, v) PROVE IInv'
    BY <2>7, EmptyIInv DEF NoUndoOp, IInv
  <2>8. ASSUME FailedOp PROVE IInv'
    BY <2>8, NormalIInv DEF FailedOp, Normal
  <2> QED BY <1>1, <2>1, <2>2, <2>3, <2>4, <2>5, <2>6, <2>7, <2>8 DEF EditOps
<1>2. CASE QueueOps
  <2>1. ASSUME NEW i \in 1..Len(undoSteps), MergeUndoableOps(undoSteps[i].counter) PROVE IInv'
    BY <2>1, MergeIInv
  <2> QED BY <1>2, <2>1, UndoIInv, RedoIInv, AddCustomStepIInv DEF QueueOps
<1>3. CASE OutsideOps
  <2>1. CASE ProxyBegin
    BY <2>1, SameIInv DEF ProxyBegin
  <2>2. ASSUME NEW o, NEW row, ProxyWrite(o, row) PROVE IInv'
    BY <2>2, EmptyIInv DEF ProxyWrite, IInv
  <2>3. CASE ProxyCommit
    BY <2>3, SameIInv DEF ProxyCommit
  <2>4. CASE ProxyRollback
    BY <2>4, SameIInv DEF ProxyRollback
  <2>5. ASSUME NEW remote \in BOOLEAN, Sync(remote) PROVE IInv'
    BY <2>5, EmptyIInv DEF Sync, IInv
  <2>6. CASE FailedSync
    BY <2>6, EmptyIInv DEF FailedSync, Discard, IInv
  <2> QED BY <1>3, <2>1, <2>2, <2>3, <2>4, <2>5, <2>6 DEF OutsideOps
<1>4. CASE UNCHANGED vars
  BY <1>4, SameIInv DEF vars, queues
<1> QED BY <1>1, <1>2, <1>3, <1>4 DEF Next

-----------------------------------------------------------------------------
\* A step number names at most one step of the undo queue, although a merge
\* turns the counter back (merge_undoable_ops, rslib/src/undo/mod.rs).
THEOREM StepNumbersDescend == Spec => []NumbersDescend
<1>1. IInv => NumbersDescend
  BY DEF IInv, Numbered, NumbersDescend
<1> QED BY InitIInv, NextIInv, <1>1, PTL DEF Spec

\* end_step caps only the undo queue, and yet both queues together fit the
\* cap: redoing never drops the oldest undo step.
THEOREM QueuesFitTheLimit == Spec => []QueuesWithinLimit
<1>1. IInv => QueuesWithinLimit
  BY DEF IInv, QueuesWithinLimit
<1> QED BY InitIInv, NextIInv, <1>1, PTL DEF Spec

-----------------------------------------------------------------------------
(* Recursive functions and the types of operations in progress.             *)

\* There is a least number with a property.
LEMMA LeastOf ==
    ASSUME NEW S \in SUBSET Nat, S # {}
    PROVE  \E n \in S : \A m \in Nat : m < n => m \notin S
<1>1. PICK x \in S : \A y \in S : ~(<<y, x>> \in OpToRel(<, Nat))
  BY NatLessThanWellFounded, WFMin
<1>2. \A m \in S : ~(m < x)
  BY <1>1 DEF OpToRel
<1> QED
  BY <1>2

\* A sequence of values in which each follows from the one before exists.
IsRun(g, n, V, v, F) ==
    /\ g \in [0..n -> V]
    /\ g[0] = v
    /\ \A i \in 1..n : g[i] = F[i][g[i - 1]]

\* A run exists of any length: the functions F applied one after the other.
LEMMA RunExists ==
    ASSUME NEW V, NEW v \in V, NEW n \in Nat, NEW F \in [1..n -> [V -> V]]
    PROVE  \E g : IsRun(g, n, V, v, F)
<1> DEFINE Good(k) == \E g \in [0..k -> V] : g[0] = v /\ \A i \in 1..k : g[i] = F[i][g[i - 1]]
           S == {k \in 0..n : ~Good(k)}
<1>1. SUFFICES S = {}
  <2>1. n \in 0..n
    OBVIOUS
  <2> QED BY <1>1, <2>1 DEF IsRun
<1>2. SUFFICES ASSUME S # {} PROVE FALSE
  OBVIOUS
<1>3. PICK k \in S : \A m \in Nat : m < k => m \notin S
  <2>1. S \in SUBSET Nat
    OBVIOUS
  <2> HIDE DEF S
  <2> QED BY <1>2, <2>1, LeastOf
<1>4. k \in 0..n /\ ~Good(k)
  OBVIOUS
<1>5. k # 0
  <2>1. Good(0)
    <3> DEFINE g == [i \in 0..0 |-> v]
    <3>1. g \in [0..0 -> V] /\ g[0] = v
      OBVIOUS
    <3>2. \A i \in 1..0 : g[i] = F[i][g[i - 1]]
      OBVIOUS
    <3> HIDE DEF g
    <3> QED BY <3>1, <3>2
  <2> QED BY <1>4, <2>1
<1>6. k - 1 \in 0..n /\ Good(k - 1)
  <2>1. k - 1 \in 0..n /\ k - 1 < k /\ k - 1 \in Nat
    BY <1>4, <1>5
  <2> HIDE DEF Good
  <2> QED BY <1>3, <2>1
<1>7. PICK g \in [0..(k - 1) -> V] : g[0] = v /\ \A i \in 1..(k - 1) : g[i] = F[i][g[i - 1]]
  BY <1>6
<1> DEFINE h == [i \in 0..k |-> IF i = k THEN F[k][g[k - 1]] ELSE g[i]]
<1>8. k - 1 \in 0..(k - 1) /\ k \in 1..n /\ g[k - 1] \in V
  BY <1>4, <1>5, <1>7
<1>9. F[k][g[k - 1]] \in V
  BY <1>8
<1>10. h \in [0..k -> V]
  <2>1. ASSUME NEW i \in 0..k, i # k PROVE g[i] \in V
    <3>1. i \in 0..(k - 1)
      BY <1>4, <2>1
    <3> QED BY <3>1, <1>7
  <2> QED BY <1>9, <2>1
<1>11. h[0] = v
  BY <1>4, <1>5, <1>7
<1>12. ASSUME NEW i \in 1..k PROVE h[i] = F[i][h[i - 1]]
  <2>1. CASE i = k
    <3>1. h[k] = F[k][g[k - 1]] /\ h[k - 1] = g[k - 1]
      BY <1>4, <1>5
    <3> QED BY <2>1, <3>1
  <2>2. CASE i # k
    <3>1. i \in 1..(k - 1) /\ i - 1 \in 0..k /\ i - 1 # k /\ i \in 0..k
      BY <1>4, <1>5, <2>2
    <3>2. h[i] = g[i] /\ h[i - 1] = g[i - 1]
      BY <3>1, <2>2
    <3> QED BY <1>7, <3>1, <3>2
  <2> QED BY <2>1, <2>2
<1> HIDE DEF h
<1>13. Good(k)
  BY <1>10, <1>11, <1>12
<1> QED BY <1>4, <1>13

-----------------------------------------------------------------------------
\* The tables of undoable objects, and operations in progress.
Rows == [Objects -> Row \cup {Absent}]

Works == [rows : Rows, graves : SUBSET Objects, mod : Nat, changes : Seq(Change), ok : BOOLEAN]

\* The fields of an operation in progress, of a change, and the changes made.
LEMMA WorkParts ==
    ASSUME NEW w \in Works
    PROVE  /\ w = [rows |-> w.rows, graves |-> w.graves, mod |-> w.mod, changes |-> w.changes, ok |-> w.ok]
           /\ w.rows \in Rows /\ w.graves \subseteq Objects /\ w.mod \in Nat
           /\ w.changes \in Seq(Change) /\ w.ok \in BOOLEAN
           /\ DOMAIN w = {"rows", "graves", "mod", "changes", "ok"}
BY DEF Works

LEMMA ChangeParts ==
    ASSUME NEW c \in Change
    PROVE  \/ c.type \in {"Updated", "Added", "Removed"} /\ c.obj \in Objects /\ c.row \in Row
           \/ c.type \in {"GraveAdded", "GraveRemoved"} /\ c.obj \in Objects
           \/ c.type = "Modified" /\ c.time \in Nat
BY DEF Change

LEMMA MadeChanges ==
    ASSUME NEW o \in Objects, NEW row \in Row, NEW t \in Nat
    PROVE  /\ Updated(o, row) \in Change /\ Added(o, row) \in Change /\ Removed(o, row) \in Change
           /\ GraveAdded(o) \in Change /\ GraveRemoved(o) \in Change
           /\ Modified(t) \in Change
BY DEF Change, Updated, Added, Removed, GraveAdded, GraveRemoved, Modified

-----------------------------------------------------------------------------
(* What undo restores.                                                      *)

\* A write without a step changes its object under the feet of the steps that
\* restore it: of such an object only what Content shows is followed, and of the
\* others, the set K, the whole row.
Look(o, row, K) ==
    IF row = Absent \/ o \in K THEN row ELSE [val |-> row.val, collapsed |-> FALSE, pending |-> FALSE]

Looked(K, rs) == [o \in Objects |-> Look(o, rs[o], K)]

\* The view of w, with the objects that are followed whole.
View(K, w) ==
    [objs |-> Looked(K, w.rows), graves |-> w.graves, mod |-> w.mod, kept |-> K]

Views == [objs : Rows, graves : SUBSET Objects, mod : Nat, kept : SUBSET Objects]

\* The view before the change c, when x is the view after it.
Back(c, x) ==
    CASE c.type = "Added" -> [x EXCEPT !.objs[c.obj] = Absent]
      [] c.type = "Updated" -> [x EXCEPT !.objs[c.obj] = Look(c.obj, c.row, x.kept)]
      [] c.type = "Removed" -> [x EXCEPT !.objs[c.obj] = Look(c.obj, c.row, x.kept)]
      [] c.type = "GraveAdded" -> [x EXCEPT !.graves = @ \ {c.obj}]
      [] c.type = "GraveRemoved" -> [x EXCEPT !.graves = @ \cup {c.obj}]
      [] c.type = "Modified" -> [x EXCEPT !.mod = c.time]

\* x is a view that c can have led to, so that UndoChange(c) cannot fail in it.
Fits(c, x) ==
    /\ c.type = "Added" => x.objs[c.obj] = Look(c.obj, c.row, x.kept)
    /\ c.type = "Updated" => x.objs[c.obj] # Absent
    /\ c.type = "Removed" => x.objs[c.obj] = Absent
    /\ c.type = "GraveAdded" => c.obj \in x.graves
    /\ c.type = "GraveRemoved" => c.obj \notin x.graves

\* A row looks like a row, and never like none.
LEMMA LookIs ==
    ASSUME NEW o, NEW K
    PROVE  /\ \A row \in Row : Look(o, row, K) \in Row /\ Look(o, row, K) # Absent
           /\ Look(o, Absent, K) = Absent
           /\ \A row \in Row \cup {Absent} : Look(o, row, K) \in Row \cup {Absent}
<1>1. ASSUME NEW row \in Row
      PROVE  /\ row # Absent
             /\ [val |-> row.val, collapsed |-> FALSE, pending |-> FALSE] \in Row
             /\ [val |-> row.val, collapsed |-> FALSE, pending |-> FALSE] # Absent
  <2>1. row.val \in Values
    BY DEF Row
  <2>2. [val |-> row.val, collapsed |-> FALSE, pending |-> FALSE] \in Row
    BY <2>1 DEF Row
  <2>3. Absent \notin Row
    BY ObjectAssumption
  <2> QED BY <2>2, <2>3
<1> QED BY <1>1 DEF Look

\* The parts of a view, and of the view before a change.
LEMMA ViewIs ==
    ASSUME NEW w \in Works, NEW K \in SUBSET Objects
    PROVE  /\ View(K, w) \in Views
           /\ View(K, w).objs = Looked(K, w.rows)
           /\ View(K, w).graves = w.graves
           /\ View(K, w).mod = w.mod
           /\ View(K, w).kept = K
<1>1. \A o \in Objects : w.rows[o] \in Row \cup {Absent}
  BY DEF Works, Rows
<1>2. Looked(K, w.rows) \in Rows
  <2>1. \A o \in Objects : Look(o, w.rows[o], K) \in Row \cup {Absent}
    BY <1>1, LookIs
  <2> QED BY <2>1 DEF Looked, Rows
<1>3. w.graves \in SUBSET Objects /\ w.mod \in Nat
  BY DEF Works
<1> QED BY <1>2, <1>3 DEF View, Views

LEMMA BackIs ==
    ASSUME NEW c \in Change, NEW x \in Views
    PROVE  /\ Back(c, x) \in Views
           /\ c.type = "Added" => Back(c, x) = [objs |-> [x.objs EXCEPT ![c.obj] = Absent], graves |-> x.graves, mod |-> x.mod, kept |-> x.kept]
           /\ c.type \in {"Updated", "Removed"} => Back(c, x) = [objs |-> [x.objs EXCEPT ![c.obj] = Look(c.obj, c.row, x.kept)], graves |-> x.graves, mod |-> x.mod, kept |-> x.kept]
           /\ c.type = "GraveAdded" => Back(c, x) = [objs |-> x.objs, graves |-> x.graves \ {c.obj}, mod |-> x.mod, kept |-> x.kept]
           /\ c.type = "GraveRemoved" => Back(c, x) = [objs |-> x.objs, graves |-> x.graves \cup {c.obj}, mod |-> x.mod, kept |-> x.kept]
           /\ c.type = "Modified" => Back(c, x) = [objs |-> x.objs, graves |-> x.graves, mod |-> c.time, kept |-> x.kept]
<1>1. /\ x = [objs |-> x.objs, graves |-> x.graves, mod |-> x.mod, kept |-> x.kept]
      /\ x.objs \in Rows /\ x.graves \in SUBSET Objects /\ x.mod \in Nat /\ x.kept \in SUBSET Objects
  BY DEF Views
<1>2. CASE c.type = "Added"
  <2>1. c.obj \in Objects
    BY <1>2 DEF Change
  <2>2. Back(c, x) = [x EXCEPT !.objs[c.obj] = Absent]
    BY <1>2 DEF Back
  <2>3. Back(c, x) = [objs |-> [x.objs EXCEPT ![c.obj] = Absent], graves |-> x.graves, mod |-> x.mod, kept |-> x.kept]
    BY <1>1, <2>2
  <2>4. [x.objs EXCEPT ![c.obj] = Absent] \in Rows
    BY <1>1 DEF Rows
  <2> QED BY <1>1, <1>2, <2>3, <2>4 DEF Views
<1>3. CASE c.type \in {"Updated", "Removed"}
  <2>1. c.obj \in Objects /\ c.row \in Row
    BY <1>3 DEF Change
  <2>2. Back(c, x) = [x EXCEPT !.objs[c.obj] = Look(c.obj, c.row, x.kept)]
    BY <1>3 DEF Back
  <2>3. Back(c, x) = [objs |-> [x.objs EXCEPT ![c.obj] = Look(c.obj, c.row, x.kept)], graves |-> x.graves, mod |-> x.mod, kept |-> x.kept]
    BY <1>1, <2>2
  <2>3a. Look(c.obj, c.row, x.kept) \in Row
    BY <2>1, LookIs
  <2>4. [x.objs EXCEPT ![c.obj] = Look(c.obj, c.row, x.kept)] \in Rows
    BY <1>1, <2>1, <2>3a DEF Rows
  <2> QED BY <1>1, <1>3, <2>3, <2>4 DEF Views
<1>4. CASE c.type \in {"GraveAdded", "GraveRemoved"}
  <2>1. c.obj \in Objects
    BY <1>4 DEF Change
  <2>2. CASE c.type = "GraveAdded"
    <3>1. Back(c, x) = [x EXCEPT !.graves = @ \ {c.obj}]
      BY <2>2 DEF Back
    <3>2. Back(c, x) = [objs |-> x.objs, graves |-> x.graves \ {c.obj}, mod |-> x.mod, kept |-> x.kept]
      BY <1>1, <3>1
    <3> QED BY <1>1, <2>1, <2>2, <3>2 DEF Views
  <2>3. CASE c.type = "GraveRemoved"
    <3>1. Back(c, x) = [x EXCEPT !.graves = @ \cup {c.obj}]
      BY <2>3 DEF Back
    <3>2. Back(c, x) = [objs |-> x.objs, graves |-> x.graves \cup {c.obj}, mod |-> x.mod, kept |-> x.kept]
      BY <1>1, <3>1
    <3> QED BY <1>1, <2>1, <2>3, <3>2 DEF Views
  <2> QED BY <1>4, <2>2, <2>3
<1>5. CASE c.type = "Modified"
  <2>1. c.time \in Nat
    BY <1>5 DEF Change
  <2>2. Back(c, x) = [x EXCEPT !.mod = c.time]
    BY <1>5 DEF Back
  <2>3. Back(c, x) = [objs |-> x.objs, graves |-> x.graves, mod |-> c.time, kept |-> x.kept]
    BY <1>1, <2>2
  <2> QED BY <1>1, <1>5, <2>1, <2>3 DEF Views
<1> QED BY <1>2, <1>3, <1>4, <1>5 DEF Change

-----------------------------------------------------------------------------
(* Saving and undoing one change.                                           *)

\* u is w with other rows, graves or mtime, and one more change.
Wrote(w, u, rs, gs, m, c) ==
    /\ u \in Works
    /\ u.rows = rs /\ u.graves = gs /\ u.mod = m
    /\ u.changes = Append(w.changes, c) /\ u.ok = w.ok

\* A change is saved behind the others, and nothing else happens.
LEMMA SaveUndoIs ==
    ASSUME NEW w \in Works, NEW c \in Change
    PROVE  Wrote(w, SaveUndo(w, c), w.rows, w.graves, w.mod, c)
<1> DEFINE cs == Append(w.changes, c)
<1>1. cs \in Seq(Change)
  BY WorkParts
<1>2. SaveUndo(w, c) = [w EXCEPT !.changes = cs]
  BY Zenon DEF SaveUndo
<1> HIDE DEF cs
<1>3. LET e == [w EXCEPT !.changes = cs]
      IN  /\ e \in Works /\ e.rows = w.rows /\ e.graves = w.graves /\ e.mod = w.mod
          /\ e.changes = cs /\ e.ok = w.ok
  BY <1>1 DEF Works
<1> QED BY <1>2, <1>3, Zenon DEF Wrote, cs

\* The tables of w changed in one place.
Set(w, e, rs, gs, m) ==
    /\ e \in Works
    /\ e.rows = rs /\ e.graves = gs /\ e.mod = m
    /\ e.changes = w.changes /\ e.ok = w.ok

\* One row, the graves or the mtime is set, and nothing else.
LEMMA RowSet ==
    ASSUME NEW w \in Works, NEW o \in Objects, NEW row \in Row \cup {Absent}
    PROVE  Set(w, [w EXCEPT !.rows[o] = row], [w.rows EXCEPT ![o] = row], w.graves, w.mod)
BY DEF Set, Works, Rows

LEMMA GravesSet ==
    ASSUME NEW w \in Works, NEW g \in SUBSET Objects
    PROVE  Set(w, [w EXCEPT !.graves = g], w.rows, g, w.mod)
BY DEF Set, Works

LEMMA ModSet ==
    ASSUME NEW w \in Works, NEW t \in Nat
    PROVE  Set(w, [w EXCEPT !.mod = t], w.rows, w.graves, t)
BY DEF Set, Works

LEMMA SavedAfterSet ==
    ASSUME NEW w \in Works, NEW e, NEW rs, NEW gs, NEW m, Set(w, e, rs, gs, m), NEW c \in Change
    PROVE  Wrote(w, SaveUndo(e, c), rs, gs, m, c)
BY SaveUndoIs DEF Wrote, Set

\* What each operation on the tables writes, and the change it saves.
LEMMA UpdateWrites ==
    ASSUME NEW w \in Works, NEW o \in Objects, NEW row \in Row, w.rows[o] # Absent
    PROVE  Wrote(w, UpdateUndoable(w, o, row), [w.rows EXCEPT ![o] = row], w.graves, w.mod, Updated(o, w.rows[o]))
<1> DEFINE e == [w EXCEPT !.rows[o] = row]
<1>1. Set(w, e, [w.rows EXCEPT ![o] = row], w.graves, w.mod)
  BY RowSet
<1>2. UpdateUndoable(w, o, row) = SaveUndo(e, Updated(o, w.rows[o]))
  BY Zenon DEF UpdateUndoable
<1>3. Updated(o, w.rows[o]) \in Change
  BY MadeChanges DEF Works, Rows
<1> HIDE DEF e
<1> QED BY <1>1, <1>2, <1>3, SavedAfterSet

LEMMA AddWrites ==
    ASSUME NEW w \in Works, NEW o \in Objects, NEW row \in Row
    PROVE  Wrote(w, AddUndoable(w, o, row), [w.rows EXCEPT ![o] = row], w.graves, w.mod, Added(o, row))
<1> DEFINE e == [w EXCEPT !.rows[o] = row]
<1>1. Set(w, e, [w.rows EXCEPT ![o] = row], w.graves, w.mod)
  BY RowSet
<1>2. AddUndoable(w, o, row) = SaveUndo(e, Added(o, row))
  BY Zenon DEF AddUndoable
<1>3. Added(o, row) \in Change
  BY MadeChanges
<1> HIDE DEF e
<1> QED BY <1>1, <1>2, <1>3, SavedAfterSet

LEMMA RemoveWrites ==
    ASSUME NEW w \in Works, NEW o \in Objects, NEW row \in Row
    PROVE  Wrote(w, RemoveWithoutGrave(w, o, row), [w.rows EXCEPT ![o] = Absent], w.graves, w.mod, Removed(o, row))
<1> DEFINE e == [w EXCEPT !.rows[o] = Absent]
<1>1. Set(w, e, [w.rows EXCEPT ![o] = Absent], w.graves, w.mod)
  BY RowSet
<1>2. RemoveWithoutGrave(w, o, row) = SaveUndo(e, Removed(o, row))
  BY Zenon DEF RemoveWithoutGrave
<1>3. Removed(o, row) \in Change
  BY MadeChanges
<1> HIDE DEF e
<1> QED BY <1>1, <1>2, <1>3, SavedAfterSet

LEMMA AddGraveWrites ==
    ASSUME NEW w \in Works, NEW o \in Objects
    PROVE  Wrote(w, AddGrave(w, o), w.rows, w.graves \cup {o}, w.mod, GraveAdded(o))
<1> DEFINE e == [w EXCEPT !.graves = w.graves \cup {o}]
<1>1. Set(w, e, w.rows, w.graves \cup {o}, w.mod)
  BY GravesSet, WorkParts
<1>2. AddGrave(w, o) = SaveUndo(e, GraveAdded(o))
  BY Zenon DEF AddGrave
<1>3. GraveAdded(o) \in Change
  BY DEF Change, GraveAdded
<1> HIDE DEF e
<1> QED BY <1>1, <1>2, <1>3, SavedAfterSet

LEMMA RemoveGraveWrites ==
    ASSUME NEW w \in Works, NEW o \in Objects
    PROVE  Wrote(w, RemoveGrave(w, o), w.rows, w.graves \ {o}, w.mod, GraveRemoved(o))
<1> DEFINE e == [w EXCEPT !.graves = w.graves \ {o}]
<1>1. Set(w, e, w.rows, w.graves \ {o}, w.mod)
  BY GravesSet, WorkParts
<1>2. RemoveGrave(w, o) = SaveUndo(e, GraveRemoved(o))
  BY Zenon DEF RemoveGrave
<1>3. GraveRemoved(o) \in Change
  BY DEF Change, GraveRemoved
<1> HIDE DEF e
<1> QED BY <1>1, <1>2, <1>3, SavedAfterSet

LEMMA ModifiedWrites ==
    ASSUME NEW w \in Works, NEW t \in Nat
    PROVE  Wrote(w, SetModified(w, t), w.rows, w.graves, t, Modified(w.mod))
<1> DEFINE e == [w EXCEPT !.mod = t]
<1>1. Set(w, e, w.rows, w.graves, t)
  BY ModSet
<1>2. SetModified(w, t) = SaveUndo(e, Modified(w.mod))
  BY Zenon DEF SetModified
<1>3. Modified(w.mod) \in Change
  BY WorkParts DEF Change, Modified
<1> HIDE DEF e
<1> QED BY <1>1, <1>2, <1>3, SavedAfterSet

\* One row of the tables is another, and looks so.
LEMMA RowsWithRow ==
    ASSUME NEW rs \in Rows, NEW o \in Objects, NEW row \in Row \cup {Absent}, NEW K
    PROVE  /\ [rs EXCEPT ![o] = row] \in Rows
           /\ Looked(K, [rs EXCEPT ![o] = row]) = [Looked(K, rs) EXCEPT ![o] = Look(o, row, K)]
BY DEF Rows, Looked

\* u looks like x.
LEMMA LooksLike ==
    ASSUME NEW K, NEW u, NEW x \in Views, Looked(K, u.rows) = x.objs, u.graves = x.graves,
           u.mod = x.mod, x.kept = K
    PROVE  View(K, u) = x
<1>1. x = [objs |-> x.objs, graves |-> x.graves, mod |-> x.mod, kept |-> x.kept]
  BY DEF Views
<1> QED BY <1>1 DEF View

\* The inverse of a change leaves an operation in progress.
LEMMA UndoChangeType ==
    ASSUME NEW c \in Change, NEW w \in Works
    PROVE  UndoChange(c, w) \in Works
<1>1. /\ w.rows \in Rows /\ w.graves \subseteq Objects /\ w.mod \in Nat /\ w.ok \in BOOLEAN
  BY WorkParts
<1>2. CASE ~w.ok
  BY <1>2 DEF UndoChange
<1>3. CASE w.ok /\ c.type = "Added"
  <2>1. c.obj \in Objects /\ c.row \in Row
    BY <1>3 DEF Change
  <2>2. UndoChange(c, w) = RemoveWithoutGrave(w, c.obj, c.row)
    BY <1>3 DEF UndoChange
  <2>3. [w.rows EXCEPT ![c.obj] = Absent] \in Rows
    BY <1>1, <2>1, RowsWithRow
  <2>4. Removed(c.obj, c.row) \in Change
    BY <2>1, MadeChanges
  <2>5. \E rs, gs, m, d : Wrote(w, UndoChange(c, w), rs, gs, m, d)
    BY <2>1, <2>2, RemoveWrites
  <2> QED BY <2>5 DEF Wrote
<1>4. CASE w.ok /\ c.type = "Updated"
  <2>1. c.obj \in Objects /\ c.row \in Row
    BY <1>4 DEF Change
  <2>2. CASE w.rows[c.obj] = Absent
    <3>1. UndoChange(c, w) = [w EXCEPT !.ok = FALSE]
      BY <1>4, <2>2 DEF UndoChange
    <3> QED BY <3>1 DEF Works
  <2>3. CASE w.rows[c.obj] # Absent
    <3>1. UndoChange(c, w) = UpdateUndoable(w, c.obj, c.row)
      BY <1>4, <2>3 DEF UndoChange
    <3>2. [w.rows EXCEPT ![c.obj] = c.row] \in Rows
      BY <1>1, <2>1, RowsWithRow
    <3>3. w.rows[c.obj] \in Row
      BY <1>1, <2>1, <2>3 DEF Rows
    <3>4. Updated(c.obj, w.rows[c.obj]) \in Change
      BY <2>1, <3>3, MadeChanges
    <3>5. \E rs, gs, m, d : Wrote(w, UndoChange(c, w), rs, gs, m, d)
      BY <2>1, <2>3, <3>1, UpdateWrites
    <3> QED BY <3>5 DEF Wrote
  <2> QED BY <2>2, <2>3
<1>5. CASE w.ok /\ c.type = "Removed"
  <2>1. c.obj \in Objects /\ c.row \in Row
    BY <1>5 DEF Change
  <2>2. UndoChange(c, w) = AddUndoable(w, c.obj, c.row)
    BY <1>5 DEF UndoChange
  <2>3. [w.rows EXCEPT ![c.obj] = c.row] \in Rows
    BY <1>1, <2>1, RowsWithRow
  <2>4. Added(c.obj, c.row) \in Change
    BY <2>1, MadeChanges
  <2>5. \E rs, gs, m, d : Wrote(w, UndoChange(c, w), rs, gs, m, d)
    BY <2>1, <2>2, AddWrites
  <2> QED BY <2>5 DEF Wrote
<1>6. CASE w.ok /\ c.type = "GraveAdded"
  <2>1. c.obj \in Objects /\ GraveRemoved(c.obj) \in Change
    BY <1>6 DEF Change, GraveRemoved
  <2>2. UndoChange(c, w) = RemoveGrave(w, c.obj)
    BY <1>6 DEF UndoChange
  <2> QED BY <2>1, <2>2, RemoveGraveWrites DEF Wrote
<1>7. CASE w.ok /\ c.type = "GraveRemoved"
  <2>1. c.obj \in Objects /\ GraveAdded(c.obj) \in Change
    BY <1>7 DEF Change, GraveAdded
  <2>2. UndoChange(c, w) = AddGrave(w, c.obj)
    BY <1>7 DEF UndoChange
  <2> QED BY <2>1, <2>2, AddGraveWrites DEF Wrote
<1>8. CASE w.ok /\ c.type = "Modified"
  <2>1. c.time \in Nat /\ Modified(w.mod) \in Change
    BY <1>1, <1>8 DEF Change, Modified
  <2>2. UndoChange(c, w) = SetModified(w, c.time)
    BY <1>8 DEF UndoChange
  <2> QED BY <2>1, <2>2, ModifiedWrites DEF Wrote
<1> QED BY <1>1, <1>2, <1>3, <1>4, <1>5, <1>6, <1>7, <1>8, ChangeParts

\* s undoes what undoing c does at x.
Answers(s, c, x) ==
    /\ Fits(s, Back(c, x))
    /\ Back(s, Back(c, x)) = x
    /\ s.type = "Modified" <=> c.type = "Modified"

\* u is w with the change c undone, which was saved as s.
Undid(K, c, w, u, s) ==
    /\ u.ok
    /\ View(K, u) = Back(c, View(K, w))
    /\ u.changes = Append(w.changes, s)
    /\ Answers(s, c, View(K, w))

\* Undoing a change that fits succeeds, goes back to the view before it, and
\* saves a change that leads forward again (rslib/src/undo/changes.rs).
LEMMA UndoChangeIs ==
    ASSUME NEW c \in Change, NEW w \in Works, w.ok, NEW K \in SUBSET Objects, Fits(c, View(K, w))
    PROVE  \E s \in Change : Undid(K, c, w, UndoChange(c, w), s)
<1> DEFINE x == View(K, w)
<1>1. /\ w.rows \in Rows /\ w.graves \subseteq Objects /\ w.mod \in Nat /\ w.ok \in BOOLEAN
  BY WorkParts
<1>2. /\ x \in Views /\ x.objs = Looked(K, w.rows) /\ x.graves = w.graves
      /\ x.mod = w.mod /\ x.kept = K
      /\ x = [objs |-> x.objs, graves |-> x.graves, mod |-> x.mod, kept |-> x.kept]
      /\ x.objs \in [Objects -> Row \cup {Absent}]
  BY ViewIs DEF Views, Rows
<1>2o. x.objs \in [Objects -> Row \cup {Absent}]
  BY <1>2
<1>3. Back(c, x) \in Views
  BY <1>2, BackIs
<1>4. Fits(c, x)
  OBVIOUS
<1> HIDE DEF x
<1>5. CASE c.type = "Added"
  <2> DEFINE s == Removed(c.obj, c.row)
             u == UndoChange(c, w)
             b == Back(c, x)
  <2>1. c.obj \in Objects /\ c.row \in Row
    BY <1>5 DEF Change
  <2>2. u = RemoveWithoutGrave(w, c.obj, c.row)
    BY <1>5 DEF UndoChange
  <2>3. [w.rows EXCEPT ![c.obj] = Absent] \in Rows
    BY <1>1, <2>1, RowsWithRow
  <2>4. s \in Change /\ s.type = "Removed" /\ s.obj = c.obj /\ s.row = c.row
    BY <2>1, MadeChanges DEF Removed
  <2>5. Wrote(w, u, [w.rows EXCEPT ![c.obj] = Absent], w.graves, w.mod, s)
    BY <2>1, <2>2, RemoveWrites
  <2>6. b = [objs |-> [x.objs EXCEPT ![c.obj] = Absent], graves |-> x.graves, mod |-> x.mod, kept |-> x.kept]
    BY <1>2, <1>5, BackIs
  <2>b. b \in Views
    BY <1>3
  <2> HIDE DEF s, u, b
  <2>7. /\ u.rows = [w.rows EXCEPT ![c.obj] = Absent] /\ u.graves = w.graves /\ u.mod = w.mod
        /\ u.ok /\ u.changes = Append(w.changes, s)
    BY <1>1, <2>5 DEF Wrote
  <2>8. Looked(K, u.rows) = [x.objs EXCEPT ![c.obj] = Look(c.obj, Absent, K)]
    <3>1. Absent \in Row \cup {Absent}
      OBVIOUS
    <3>2. Looked(K, [w.rows EXCEPT ![c.obj] = Absent]) = [Looked(K, w.rows) EXCEPT ![c.obj] = Look(c.obj, Absent, K)]
      BY <1>1, <2>1, <3>1, RowsWithRow
    <3> QED BY <1>2, <2>7, <3>2
  <2>k. Looked(K, u.rows) = b.objs /\ u.graves = b.graves /\ u.mod = b.mod /\ b.kept = K
    BY <1>1, <1>2, <2>1, <2>6, <2>7, <2>8, LookIs
  <2>9. View(K, u) = b
    BY <2>b, <2>k, LooksLike
  <2>10. Fits(s, b)
    BY <1>2, <2>1, <2>4, <2>6 DEF Fits
  <2>11. Back(s, b) = [objs |-> [b.objs EXCEPT ![c.obj] = Look(c.obj, c.row, b.kept)], graves |-> b.graves, mod |-> b.mod, kept |-> b.kept]
    BY <2>4, <2>b, BackIs
  <2>12. x.objs[c.obj] = Look(c.obj, c.row, x.kept)
    BY <1>4, <1>5 DEF Fits
  <2>13. [b.objs EXCEPT ![c.obj] = Look(c.obj, c.row, x.kept)] = x.objs
    BY <1>2, <2>1, <2>6, <2>12
  <2>14. Back(s, b) = x
    BY <1>2, <2>6, <2>11, <2>13
  <2>15. Answers(s, c, x)
    BY <1>5, <2>4, <2>10, <2>14 DEF Answers, b
  <2> QED BY <2>4, <2>7, <2>9, <2>15 DEF Undid, x, u, b
<1>6. CASE c.type = "Updated"
  <2> DEFINE s == Updated(c.obj, w.rows[c.obj])
             u == UndoChange(c, w)
             b == Back(c, x)
  <2>1. c.obj \in Objects /\ c.row \in Row
    BY <1>6 DEF Change
  <2>0. w.rows[c.obj] # Absent
    <3>1. x.objs[c.obj] # Absent
      BY <1>4, <1>6 DEF Fits
    <3>2. x.objs[c.obj] = Look(c.obj, w.rows[c.obj], x.kept)
      BY <1>2, <2>1 DEF Looked
    <3> QED BY <3>1, <3>2, LookIs
  <2>2. u = UpdateUndoable(w, c.obj, c.row)
    BY <1>1, <1>6, <2>0 DEF UndoChange
  <2>3. [w.rows EXCEPT ![c.obj] = c.row] \in Rows /\ w.rows[c.obj] \in Row
    BY <1>1, <2>0, <2>1, RowsWithRow DEF Rows
  <2>4. s \in Change /\ s.type = "Updated" /\ s.obj = c.obj /\ s.row = w.rows[c.obj]
    BY <2>1, <2>3, MadeChanges DEF Updated
  <2>5. Wrote(w, u, [w.rows EXCEPT ![c.obj] = c.row], w.graves, w.mod, s)
    BY <2>0, <2>1, <2>2, UpdateWrites
  <2>6. b = [objs |-> [x.objs EXCEPT ![c.obj] = Look(c.obj, c.row, x.kept)], graves |-> x.graves, mod |-> x.mod, kept |-> x.kept]
    BY <1>2, <1>6, BackIs
  <2>b. b \in Views
    BY <1>3
  <2> HIDE DEF s, u, b
  <2>7. /\ u.rows = [w.rows EXCEPT ![c.obj] = c.row] /\ u.graves = w.graves /\ u.mod = w.mod
        /\ u.ok /\ u.changes = Append(w.changes, s)
    BY <1>1, <2>5 DEF Wrote
  <2>8. Looked(K, u.rows) = [x.objs EXCEPT ![c.obj] = Look(c.obj, c.row, x.kept)]
    BY <1>1, <1>2, <2>1, <2>7, RowsWithRow
  <2>k. Looked(K, u.rows) = b.objs /\ u.graves = b.graves /\ u.mod = b.mod /\ b.kept = K
    BY <1>1, <1>2, <2>1, <2>6, <2>7, <2>8, LookIs
  <2>9. View(K, u) = b
    BY <2>b, <2>k, LooksLike
  <2>10. Fits(s, b)
    <3>0. b.objs = [x.objs EXCEPT ![c.obj] = Look(c.obj, c.row, x.kept)]
      BY <2>6
    <3>1. b.objs[c.obj] = Look(c.obj, c.row, x.kept) /\ Look(c.obj, c.row, x.kept) # Absent
      <4>1. Look(c.obj, c.row, x.kept) # Absent
        BY <2>1, LookIs
      <4> QED BY <1>2o, <2>1, <3>0, <4>1
    <3> QED BY <2>4, <3>1 DEF Fits
  <2>11. Back(s, b) = [objs |-> [b.objs EXCEPT ![c.obj] = Look(c.obj, w.rows[c.obj], b.kept)], graves |-> b.graves, mod |-> b.mod, kept |-> b.kept]
    BY <2>4, <2>b, BackIs
  <2>12. x.objs[c.obj] = Look(c.obj, w.rows[c.obj], x.kept)
    BY <1>2, <2>1 DEF Looked
  <2>13. [b.objs EXCEPT ![c.obj] = Look(c.obj, w.rows[c.obj], x.kept)] = x.objs
    BY <1>2, <2>1, <2>6, <2>12
  <2>14. Back(s, b) = x
    BY <1>2, <2>6, <2>11, <2>13
  <2>15. Answers(s, c, x)
    BY <1>6, <2>4, <2>10, <2>14 DEF Answers, b
  <2> QED BY <2>4, <2>7, <2>9, <2>15 DEF Undid, x, u, b
<1>7. CASE c.type = "Removed"
  <2> DEFINE s == Added(c.obj, c.row)
             u == UndoChange(c, w)
             b == Back(c, x)
  <2>1. c.obj \in Objects /\ c.row \in Row
    BY <1>7 DEF Change
  <2>2. u = AddUndoable(w, c.obj, c.row)
    BY <1>7 DEF UndoChange
  <2>3. [w.rows EXCEPT ![c.obj] = c.row] \in Rows
    BY <1>1, <2>1, RowsWithRow
  <2>4. s \in Change /\ s.type = "Added" /\ s.obj = c.obj /\ s.row = c.row
    BY <2>1, MadeChanges DEF Added
  <2>5. Wrote(w, u, [w.rows EXCEPT ![c.obj] = c.row], w.graves, w.mod, s)
    BY <2>1, <2>2, AddWrites
  <2>6. b = [objs |-> [x.objs EXCEPT ![c.obj] = Look(c.obj, c.row, x.kept)], graves |-> x.graves, mod |-> x.mod, kept |-> x.kept]
    BY <1>2, <1>7, BackIs
  <2>b. b \in Views
    BY <1>3
  <2> HIDE DEF s, u, b
  <2>7. /\ u.rows = [w.rows EXCEPT ![c.obj] = c.row] /\ u.graves = w.graves /\ u.mod = w.mod
        /\ u.ok /\ u.changes = Append(w.changes, s)
    BY <1>1, <2>5 DEF Wrote
  <2>8. Looked(K, u.rows) = [x.objs EXCEPT ![c.obj] = Look(c.obj, c.row, x.kept)]
    BY <1>1, <1>2, <2>1, <2>7, RowsWithRow
  <2>k. Looked(K, u.rows) = b.objs /\ u.graves = b.graves /\ u.mod = b.mod /\ b.kept = K
    BY <1>1, <1>2, <2>1, <2>6, <2>7, <2>8, LookIs
  <2>9. View(K, u) = b
    BY <2>b, <2>k, LooksLike
  <2>10. Fits(s, b)
    <3>0. b.objs = [x.objs EXCEPT ![c.obj] = Look(c.obj, c.row, x.kept)]
      BY <2>6
    <3>1. b.objs[c.obj] = Look(c.obj, c.row, x.kept)
      BY <1>2o, <2>1, <3>0
    <3>2. b.kept = x.kept
      BY <2>6
    <3> QED BY <2>4, <3>1, <3>2 DEF Fits
  <2>11. Back(s, b) = [objs |-> [b.objs EXCEPT ![c.obj] = Absent], graves |-> b.graves, mod |-> b.mod, kept |-> b.kept]
    BY <2>4, <2>b, BackIs
  <2>12. x.objs[c.obj] = Absent
    BY <1>4, <1>7 DEF Fits
  <2>13. [b.objs EXCEPT ![c.obj] = Absent] = x.objs
    BY <1>2, <2>1, <2>6, <2>12
  <2>14. Back(s, b) = x
    BY <1>2, <2>6, <2>11, <2>13
  <2>15. Answers(s, c, x)
    BY <1>7, <2>4, <2>10, <2>14 DEF Answers, b
  <2> QED BY <2>4, <2>7, <2>9, <2>15 DEF Undid, x, u, b
<1>8. CASE c.type = "GraveAdded"
  <2> DEFINE s == GraveRemoved(c.obj)
             u == UndoChange(c, w)
             b == Back(c, x)
  <2>1. c.obj \in Objects
    BY <1>8 DEF Change
  <2>2. u = RemoveGrave(w, c.obj)
    BY <1>8 DEF UndoChange
  <2>4. s \in Change /\ s.type = "GraveRemoved" /\ s.obj = c.obj
    BY <2>1 DEF GraveRemoved, Change
  <2>5. Wrote(w, u, w.rows, w.graves \ {c.obj}, w.mod, s)
    BY <2>1, <2>2, RemoveGraveWrites
  <2>6. b = [objs |-> x.objs, graves |-> x.graves \ {c.obj}, mod |-> x.mod, kept |-> x.kept]
    BY <1>2, <1>8, BackIs
  <2>b. b \in Views
    BY <1>3
  <2> HIDE DEF s, u, b
  <2>7. /\ u.rows = w.rows /\ u.graves = w.graves \ {c.obj} /\ u.mod = w.mod
        /\ u.ok /\ u.changes = Append(w.changes, s)
    BY <1>1, <2>5 DEF Wrote
  <2>8. b.objs = x.objs /\ b.graves = x.graves \ {c.obj} /\ b.mod = x.mod
    BY <2>6
  <2>c. Looked(K, u.rows) = b.objs
    BY <1>2, <2>7, <2>8
  <2>d. u.graves = b.graves
    BY <1>2, <2>7, <2>8
  <2>e. u.mod = b.mod /\ b.kept = K
    BY <1>2, <2>6, <2>7, <2>8
  <2>9. View(K, u) = b
    BY <2>b, <2>c, <2>d, <2>e, LooksLike
  <2>10. Fits(s, b)
    BY <2>4, <2>6 DEF Fits
  <2>11. Back(s, b) = [objs |-> b.objs, graves |-> b.graves \cup {c.obj}, mod |-> b.mod, kept |-> b.kept]
    BY <2>4, <2>b, BackIs
  <2>12. c.obj \in x.graves
    BY <1>4, <1>8 DEF Fits
  <2>13. (x.graves \ {c.obj}) \cup {c.obj} = x.graves
    BY <2>12
  <2>14. Back(s, b) = x
    BY <1>2, <2>6, <2>11, <2>13
  <2>15. Answers(s, c, x)
    BY <1>8, <2>4, <2>10, <2>14 DEF Answers, b
  <2> QED BY <2>4, <2>7, <2>9, <2>15 DEF Undid, x, u, b
<1>9. CASE c.type = "GraveRemoved"
  <2> DEFINE s == GraveAdded(c.obj)
             u == UndoChange(c, w)
             b == Back(c, x)
  <2>1. c.obj \in Objects
    BY <1>9 DEF Change
  <2>2. u = AddGrave(w, c.obj)
    BY <1>9 DEF UndoChange
  <2>4. s \in Change /\ s.type = "GraveAdded" /\ s.obj = c.obj
    BY <2>1 DEF GraveAdded, Change
  <2>5. Wrote(w, u, w.rows, w.graves \cup {c.obj}, w.mod, s)
    BY <2>1, <2>2, AddGraveWrites
  <2>6. b = [objs |-> x.objs, graves |-> x.graves \cup {c.obj}, mod |-> x.mod, kept |-> x.kept]
    BY <1>2, <1>9, BackIs
  <2>b. b \in Views
    BY <1>3
  <2> HIDE DEF s, u, b
  <2>7. /\ u.rows = w.rows /\ u.graves = w.graves \cup {c.obj} /\ u.mod = w.mod
        /\ u.ok /\ u.changes = Append(w.changes, s)
    BY <1>1, <2>5 DEF Wrote
  <2>8. b.objs = x.objs /\ b.graves = x.graves \cup {c.obj} /\ b.mod = x.mod
    BY <2>6
  <2>c. Looked(K, u.rows) = b.objs
    BY <1>2, <2>7, <2>8
  <2>d. u.graves = b.graves
    BY <1>2, <2>7, <2>8
  <2>e. u.mod = b.mod /\ b.kept = K
    BY <1>2, <2>6, <2>7, <2>8
  <2>9. View(K, u) = b
    BY <2>b, <2>c, <2>d, <2>e, LooksLike
  <2>10. Fits(s, b)
    BY <2>4, <2>6 DEF Fits
  <2>11. Back(s, b) = [objs |-> b.objs, graves |-> b.graves \ {c.obj}, mod |-> b.mod, kept |-> b.kept]
    BY <2>4, <2>b, BackIs
  <2>12. c.obj \notin x.graves
    BY <1>4, <1>9 DEF Fits
  <2>13. (x.graves \cup {c.obj}) \ {c.obj} = x.graves
    BY <2>12
  <2>14. Back(s, b) = x
    BY <1>2, <2>6, <2>11, <2>13
  <2>15. Answers(s, c, x)
    BY <1>9, <2>4, <2>10, <2>14 DEF Answers, b
  <2> QED BY <2>4, <2>7, <2>9, <2>15 DEF Undid, x, u, b
<1>10. CASE c.type = "Modified"
  <2> DEFINE s == Modified(w.mod)
             u == UndoChange(c, w)
             b == Back(c, x)
  <2>1. c.time \in Nat
    BY <1>10 DEF Change
  <2>2. u = SetModified(w, c.time)
    BY <1>10 DEF UndoChange
  <2>4. s \in Change /\ s.type = "Modified" /\ s.time = w.mod
    BY <1>1 DEF Modified, Change
  <2>5. Wrote(w, u, w.rows, w.graves, c.time, s)
    BY <2>1, <2>2, ModifiedWrites
  <2>6. b = [objs |-> x.objs, graves |-> x.graves, mod |-> c.time, kept |-> x.kept]
    BY <1>2, <1>10, BackIs
  <2>b. b \in Views
    BY <1>3
  <2> HIDE DEF s, u, b
  <2>7. /\ u.rows = w.rows /\ u.graves = w.graves /\ u.mod = c.time
        /\ u.ok /\ u.changes = Append(w.changes, s)
    BY <1>1, <2>5 DEF Wrote
  <2>k. Looked(K, u.rows) = b.objs /\ u.graves = b.graves /\ u.mod = b.mod /\ b.kept = K
    BY <1>1, <1>2, <2>1, <2>6, <2>7
  <2>9. View(K, u) = b
    BY <2>b, <2>k, LooksLike
  <2>10. Fits(s, b)
    BY <2>4 DEF Fits
  <2>11. Back(s, b) = [objs |-> b.objs, graves |-> b.graves, mod |-> w.mod, kept |-> b.kept]
    BY <2>4, <2>b, BackIs
  <2>14. Back(s, b) = x
    BY <1>2, <2>6, <2>11
  <2>15. Answers(s, c, x)
    BY <1>10, <2>4, <2>10, <2>14 DEF Answers, b
  <2> QED BY <2>4, <2>7, <2>9, <2>15 DEF Undid, x, u, b
<1> QED BY <1>5, <1>6, <1>7, <1>8, <1>9, <1>10, ChangeParts

-----------------------------------------------------------------------------
(* Replaying the changes of a step.                                         *)

\* h passes from x, the view before a replay of `changes`, to h[1], after it.
Trace(changes, x, h) ==
    /\ h \in [1..(Len(changes) + 1) -> Views]
    /\ h[Len(changes) + 1] = x
    /\ \A i \in 1..Len(changes) :
        /\ Fits(changes[i], h[i + 1])
        /\ h[i] = Back(changes[i], h[i + 1])

\* The operations in progress that Replay passes.
Runs(changes, w, g) ==
    /\ g \in [1..(Len(changes) + 1) -> Works]
    /\ g[Len(changes) + 1] = w
    /\ \A i \in 1..Len(changes) : g[i] = UndoChange(changes[i], g[i + 1])

\* Replay is the run of the inverses, from the last change to the first.
LEMMA ReplayRuns ==
    ASSUME NEW changes \in Seq(Change), NEW w \in Works
    PROVE  \E g : Runs(changes, w, g) /\ Replay(changes, w) = g[1]
<1> DEFINE n == Len(changes)
           F == [i \in 1..n |-> [v \in Works |-> UndoChange(changes[n + 1 - i], v)]]
<1>1. n \in Nat /\ \A i \in 1..n : changes[i] \in Change
  OBVIOUS
<1> HIDE DEF n
<1>2. F \in [1..n -> [Works -> Works]]
  <2>1. ASSUME NEW i \in 1..n PROVE [v \in Works |-> UndoChange(changes[n + 1 - i], v)] \in [Works -> Works]
    <3>1. n + 1 - i \in 1..n
      BY <1>1
    <3>2. changes[n + 1 - i] \in Change
      BY <1>1, <3>1
    <3> QED BY <3>2, UndoChangeType
  <2> QED BY <2>1
<1>3. \A i \in 1..n, v \in Works : F[i][v] = UndoChange(changes[n + 1 - i], v)
  OBVIOUS
<1> HIDE DEF F
<1>4. PICK k \in [0..n -> Works] : k[0] = w /\ \A i \in 1..n : k[i] = F[i][k[i - 1]]
  <2>1. \E k : IsRun(k, n, Works, w, F)
    BY <1>1, <1>2, RunExists
  <2> QED BY <2>1 DEF IsRun
<1> DEFINE g == [i \in 1..(n + 1) |-> k[n + 1 - i]]
<1>5. g \in [1..(n + 1) -> Works] /\ g[n + 1] = w
  <2>1. \A i \in 1..(n + 1) : n + 1 - i \in 0..n
    BY <1>1
  <2>2. n + 1 \in 1..(n + 1) /\ n + 1 - (n + 1) = 0
    BY <1>1
  <2>3. \A i \in 1..(n + 1) : k[n + 1 - i] \in Works
    BY <1>4, <2>1
  <2>4. g[n + 1] = k[n + 1 - (n + 1)]
    BY <2>2
  <2> QED BY <1>4, <2>2, <2>3, <2>4
<1>6. ASSUME NEW i \in 1..n PROVE g[i] = UndoChange(changes[i], g[i + 1])
  <2>1. /\ n + 1 - i \in 1..n /\ (n + 1 - i) - 1 = n + 1 - (i + 1) /\ n + 1 - (n + 1 - i) = i
        /\ i \in 1..(n + 1) /\ i + 1 \in 1..(n + 1) /\ n + 1 - (i + 1) \in 0..n
    BY <1>1
  <2>2. g[i] = k[n + 1 - i] /\ g[i + 1] = k[n + 1 - (i + 1)]
    BY <2>1
  <2>3. k[n + 1 - (i + 1)] \in Works
    BY <2>1, <1>4
  <2>4. k[n + 1 - i] = F[n + 1 - i][k[n + 1 - (i + 1)]]
    BY <2>1, <1>4
  <2>5. F[n + 1 - i][k[n + 1 - (i + 1)]] = UndoChange(changes[n + 1 - (n + 1 - i)], k[n + 1 - (i + 1)])
    BY <1>3, <2>1, <2>3
  <2> QED BY <2>1, <2>2, <2>4, <2>5
<1>7. Runs(changes, w, g)
  BY <1>5, <1>6 DEF Runs, n
<1> HIDE DEF g
<1> DEFINE One(c, v) == CHOOSE u \in {UndoChange(c, t) : t \in {v}} : TRUE
           Body(f) == [i \in 1..(n + 1) |-> IF i > n THEN w ELSE One(changes[i], f[i + 1])]
           after == CHOOSE f : f = Body(f)
<1>8. Replay(changes, w) = after[1]
  BY DEF Replay, n
<1>9. \A c, v : One(c, v) = UndoChange(c, v)
  OBVIOUS
<1> HIDE DEF One
<1>10. g = Body(g)
  <2>1. ASSUME NEW i \in 1..(n + 1) PROVE g[i] = IF i > n THEN w ELSE One(changes[i], g[i + 1])
    <3>1. CASE i > n
      <4>1. i = n + 1
        BY <1>1, <3>1
      <4> QED BY <1>5, <3>1, <4>1
    <3>2. CASE ~(i > n)
      <4>1. i \in 1..n
        BY <1>1, <3>2
      <4> QED BY <1>6, <1>9, <3>2, <4>1
    <3> QED BY <3>1, <3>2
  <2> QED BY <1>5, <2>1
<1>11. after = Body(after)
  <2> HIDE DEF Body
  <2> QED BY <1>10
<1> HIDE DEF after
<1>12. \A i \in 1..(n + 1) : after[i] = IF i > n THEN w ELSE One(changes[i], after[i + 1])
  BY <1>11
<1> HIDE DEF Body
<1> DEFINE S == {j \in 0..n : after[n + 1 - j] # g[n + 1 - j]}
<1>13. S = {}
  <2> SUFFICES ASSUME S # {} PROVE FALSE
    OBVIOUS
  <2>1. PICK j \in S : \A m \in Nat : m < j => m \notin S
    <3>1. S \in SUBSET Nat
      OBVIOUS
    <3> HIDE DEF S
    <3> QED BY <3>1, LeastOf
  <2>2. j \in 0..n /\ after[n + 1 - j] # g[n + 1 - j]
    OBVIOUS
  <2>3. CASE j = 0
    <3>1. n + 1 \in 1..(n + 1) /\ n + 1 > n /\ n + 1 - 0 = n + 1
      BY <1>1
    <3>2. after[n + 1] = w
      BY <1>12, <3>1
    <3> QED BY <1>5, <2>2, <2>3, <3>1, <3>2
  <2>4. CASE j # 0
    <3> DEFINE i == n + 1 - j
    <3>1. i \in 1..n /\ i \in 1..(n + 1) /\ ~(i > n) /\ j - 1 \in 0..n /\ j - 1 < j /\ j - 1 \in Nat /\ n + 1 - (j - 1) = i + 1
      BY <1>1, <2>2, <2>4
    <3>2. j - 1 \notin S
      <4> HIDE DEF S
      <4> QED BY <2>1, <3>1
    <3>3. after[i + 1] = g[i + 1]
      BY <3>1, <3>2
    <3> HIDE DEF i
    <3>4. after[i] = UndoChange(changes[i], after[i + 1])
      BY <1>9, <1>12, <3>1
    <3>5. after[i] = g[i]
      BY <1>6, <3>1, <3>3, <3>4
    <3> QED BY <2>2, <3>5 DEF i
  <2> QED BY <2>3, <2>4
<1>14. after[1] = g[1]
  <2>1. n \in 0..n /\ n + 1 - n = 1
    BY <1>1
  <2> QED BY <1>13, <2>1
<1> QED BY <1>7, <1>8, <1>14

\* The changes that a replay saves answer those that it undid, in reverse.
Mirrors(s, changes, h) ==
    /\ s \in Seq(Change) /\ Len(s) = Len(changes)
    /\ \A m \in 1..Len(changes) : Answers(s[Len(changes) + 1 - m], changes[m], h[m + 1])

\* Replaying a trace succeeds, ends in its first view, and saves its mirror image.
LEMMA ReplayFollows ==
    ASSUME NEW changes \in Seq(Change), NEW w \in Works, w.ok, NEW K \in SUBSET Objects,
           NEW h, Trace(changes, View(K, w), h)
    PROVE  /\ Replay(changes, w) \in Works
           /\ Replay(changes, w).ok
           /\ View(K, Replay(changes, w)) = h[1]
           /\ w.changes = <<>> => Mirrors(Replay(changes, w).changes, changes, h)
<1> DEFINE n == Len(changes)
<1>1. n \in Nat /\ \A i \in 1..n : changes[i] \in Change
  OBVIOUS
<1>2. PICK g : Runs(changes, w, g) /\ Replay(changes, w) = g[1]
  BY ReplayRuns
<1>3. g \in [1..(n + 1) -> Works] /\ g[n + 1] = w /\ \A i \in 1..n : g[i] = UndoChange(changes[i], g[i + 1])
  BY <1>2 DEF Runs
<1>4. /\ h[n + 1] = View(K, w)
      /\ \A i \in 1..n : Fits(changes[i], h[i + 1]) /\ h[i] = Back(changes[i], h[i + 1])
  BY DEF Trace
<1> HIDE DEF n
<1> DEFINE Mirrored(i) == /\ Len(g[i].changes) = n + 1 - i
                          /\ \A m \in i..n : Answers(g[i].changes[n + 1 - m], changes[m], h[m + 1])
           Good(i) == g[i].ok /\ View(K, g[i]) = h[i] /\ (w.changes = <<>> => Mirrored(i))
           S == {j \in 0..n : ~Good(n + 1 - j)}
<1>5. Good(n + 1)
  <2>1. n + 1 - (n + 1) = 0 /\ (n + 1)..n = {}
    BY <1>1
  <2> QED BY <1>3, <1>4, <2>1
<1>6. ASSUME NEW i \in 1..n, Good(i + 1) PROVE Good(i)
  <2>1. i \in 1..(n + 1) /\ i + 1 \in 1..(n + 1)
    BY <1>1
  <2>2. g[i + 1] \in Works /\ changes[i] \in Change /\ g[i] = UndoChange(changes[i], g[i + 1])
    BY <1>1, <1>3, <2>1
  <2>3. g[i + 1].ok /\ View(K, g[i + 1]) = h[i + 1] /\ Fits(changes[i], View(K, g[i + 1]))
    BY <1>4, <1>6
  <2>4. PICK s \in Change : Undid(K, changes[i], g[i + 1], g[i], s)
    BY <2>2, <2>3, UndoChangeIs
  <2>5. /\ g[i].ok /\ View(K, g[i]) = Back(changes[i], h[i + 1])
        /\ g[i].changes = Append(g[i + 1].changes, s) /\ Answers(s, changes[i], h[i + 1])
    BY <2>3, <2>4 DEF Undid
  <2>6. ASSUME w.changes = <<>> PROVE Mirrored(i)
    <3>1. Mirrored(i + 1)
      BY <1>6, <2>6
    <3>2. g[i + 1].changes \in Seq(Change)
      BY <2>2 DEF Works
    <3>3. Len(g[i + 1].changes) = n - i /\ Len(g[i].changes) = n + 1 - i
      <4>1. Len(g[i + 1].changes) = n + 1 - (i + 1)
        BY <3>1
      <4>2. Len(g[i].changes) = Len(g[i + 1].changes) + 1
        BY <2>5, <3>2
      <4> QED BY <1>1, <4>1, <4>2
    <3>4. ASSUME NEW m \in i..n PROVE Answers(g[i].changes[n + 1 - m], changes[m], h[m + 1])
      <4>1. CASE m = i
        <5>1. g[i].changes[Len(g[i + 1].changes) + 1] = s
          BY <2>5, <3>2
        <5>2. n + 1 - i = Len(g[i + 1].changes) + 1
          BY <1>1, <3>3
        <5> QED BY <2>5, <4>1, <5>1, <5>2
      <4>2. CASE m # i
        <5>1. m \in (i + 1)..n /\ n + 1 - m \in 1..(n - i)
          BY <1>1, <4>2
        <5>2. g[i].changes[n + 1 - m] = g[i + 1].changes[n + 1 - m]
          BY <1>1, <2>5, <3>2, <3>3, <5>1
        <5>3. Answers(g[i + 1].changes[n + 1 - m], changes[m], h[m + 1])
          BY <3>1, <5>1
        <5> QED BY <5>2, <5>3
      <4> QED BY <4>1, <4>2
    <3> QED BY <3>3, <3>4
  <2> HIDE DEF Mirrored
  <2> QED BY <1>4, <2>5, <2>6
<1>7. S = {}
  <2> SUFFICES ASSUME S # {} PROVE FALSE
    OBVIOUS
  <2>1. PICK j \in S : \A m \in Nat : m < j => m \notin S
    <3>1. S \in SUBSET Nat
      OBVIOUS
    <3> HIDE DEF S
    <3> QED BY <3>1, LeastOf
  <2> HIDE DEF Good
  <2>2. j \in 0..n /\ ~Good(n + 1 - j)
    OBVIOUS
  <2>3. j # 0
    <3>1. n + 1 - 0 = n + 1
      BY <1>1
    <3> QED BY <1>5, <2>2, <3>1
  <2>4. /\ n + 1 - j \in 1..n /\ j - 1 \in 0..n /\ j - 1 < j /\ j - 1 \in Nat
        /\ n + 1 - (j - 1) = (n + 1 - j) + 1
    BY <1>1, <2>2, <2>3
  <2>5. j - 1 \notin S
    <3> HIDE DEF S
    <3> QED BY <2>1, <2>4
  <2>6. Good((n + 1 - j) + 1)
    BY <2>4, <2>5
  <2> QED BY <1>6, <2>2, <2>4, <2>6
<1>8. Good(1)
  <2>1. n \in 0..n /\ n + 1 - n = 1
    BY <1>1
  <2> HIDE DEF Good
  <2> QED BY <1>7, <2>1
<1>9. g[1] \in Works
  <2>1. 1 \in 1..(n + 1)
    BY <1>1
  <2> QED BY <1>3, <2>1
<1>10. ASSUME w.changes = <<>> PROVE Mirrors(g[1].changes, changes, h)
  <2>1. Mirrored(1)
    BY <1>8, <1>10
  <2>2. g[1].changes \in Seq(Change)
    BY <1>9 DEF Works
  <2>3. n + 1 - 1 = n
    BY <1>1
  <2> QED BY <2>1, <2>2, <2>3 DEF Mirrors, n
<1> HIDE DEF Mirrored
<1> QED BY <1>2, <1>8, <1>9, <1>10

-----------------------------------------------------------------------------
(* Changes that lead back from one view to another.                         *)

\* Replaying `changes` takes what looks like x to what looks like y.
Reverts(changes, x, y) == \E h : Trace(changes, x, h) /\ h[1] = y

\* No changes lead nowhere, one leads back to the view before it, and two
\* sequences lead back as one.
LEMMA RevertsNothing ==
    ASSUME NEW x \in Views
    PROVE  Reverts(<<>>, x, x)
<1> DEFINE h == [i \in 1..1 |-> x]
<1>1. Len(<<>>) + 1 = 1
  OBVIOUS
<1>2. h \in [1..1 -> Views] /\ h[1] = x
  OBVIOUS
<1> HIDE DEF h
<1>3. Trace(<<>>, x, h)
  BY <1>1, <1>2 DEF Trace
<1> QED BY <1>2, <1>3 DEF Reverts

LEMMA RevertsOne ==
    ASSUME NEW c \in Change, NEW x \in Views, Fits(c, x)
    PROVE  Reverts(<<c>>, x, Back(c, x))
<1> DEFINE h == [i \in 1..2 |-> IF i = 1 THEN Back(c, x) ELSE x]
<1>1. Len(<<c>>) = 1 /\ <<c>>[1] = c
  OBVIOUS
<1>2. h \in [1..2 -> Views] /\ h[1] = Back(c, x) /\ h[2] = x
  BY BackIs
<1> HIDE DEF h
<1>3. Trace(<<c>>, x, h)
  BY <1>1, <1>2 DEF Trace
<1> QED BY <1>2, <1>3 DEF Reverts

\* The later changes are replayed first.
LEMMA RevertsConcat ==
    ASSUME NEW a \in Seq(Change), NEW b \in Seq(Change), NEW x, NEW y, NEW z,
           Reverts(b, x, y), Reverts(a, y, z)
    PROVE  Reverts(a \o b, x, z)
<1>1. PICK g : Trace(b, x, g) /\ g[1] = y
  BY DEF Reverts
<1>2. PICK f : Trace(a, y, f) /\ f[1] = z
  BY DEF Reverts
<1> DEFINE m == Len(a)
           n == Len(b)
           c == a \o b
           h == [i \in 1..(m + n + 1) |-> IF i <= m THEN f[i] ELSE g[i - m]]
<1>3. m \in Nat /\ n \in Nat /\ Len(c) = m + n
  OBVIOUS
<1>4. \A i \in 1..(m + n) : c[i] = IF i <= m THEN a[i] ELSE b[i - m]
  OBVIOUS
<1>5. /\ f \in [1..(m + 1) -> Views] /\ f[m + 1] = y
      /\ \A i \in 1..m : Fits(a[i], f[i + 1]) /\ f[i] = Back(a[i], f[i + 1])
  BY <1>2 DEF Trace
<1>6. /\ g \in [1..(n + 1) -> Views] /\ g[n + 1] = x
      /\ \A i \in 1..n : Fits(b[i], g[i + 1]) /\ g[i] = Back(b[i], g[i + 1])
  BY <1>1 DEF Trace
<1> HIDE DEF m, n, c
<1>7. h \in [1..(m + n + 1) -> Views]
  <2>1. ASSUME NEW i \in 1..(m + n + 1) PROVE (IF i <= m THEN f[i] ELSE g[i - m]) \in Views
    <3>1. CASE i <= m
      <4>1. i \in 1..(m + 1)
        BY <1>3, <3>1
      <4> QED BY <1>5, <3>1, <4>1
    <3>2. CASE ~(i <= m)
      <4>1. i - m \in 1..(n + 1)
        BY <1>3, <3>2
      <4> QED BY <1>6, <3>2, <4>1
    <3> QED BY <3>1, <3>2
  <2> QED BY <2>1
<1>h. \A i \in 1..(m + n + 1) : h[i] = IF i <= m THEN f[i] ELSE g[i - m]
  OBVIOUS
<1>8. h[m + n + 1] = x
  <2> DEFINE i == m + n + 1
  <2>1. i \in 1..(m + n + 1) /\ ~(i <= m) /\ i - m = n + 1
    BY <1>3
  <2> HIDE DEF h, i
  <2>2. h[i] = g[i - m]
    BY <1>h, <2>1
  <2>3. h[i] = x
    BY <1>6, <2>1, <2>2
  <2> QED BY <2>3 DEF i
<1>9. h[1] = z
  <2>1. 1 \in 1..(m + n + 1)
    BY <1>3
  <2>2. CASE m = 0
    BY <1>1, <1>2, <1>5, <2>1, <2>2
  <2>3. CASE m # 0
    <3>1. 1 <= m
      BY <1>3, <2>3
    <3> QED BY <1>2, <2>1, <3>1
  <2> QED BY <2>2, <2>3
<1>10. ASSUME NEW i \in 1..(m + n)
       PROVE  Fits(c[i], h[i + 1]) /\ h[i] = Back(c[i], h[i + 1])
  <2> DEFINE j == i + 1
  <2>0. i \in 1..(m + n + 1) /\ j \in 1..(m + n + 1)
    BY <1>3
  <2> HIDE DEF h, j
  <2>1. /\ c[i] = IF i <= m THEN a[i] ELSE b[i - m]
        /\ h[i] = IF i <= m THEN f[i] ELSE g[i - m]
        /\ h[j] = IF j <= m THEN f[j] ELSE g[j - m]
    BY <1>h, <1>4, <2>0
  <2>2. CASE i < m
    <3>1. i <= m /\ j <= m /\ i \in 1..m
      BY <1>3, <2>2 DEF j
    <3> QED BY <1>5, <2>1, <3>1 DEF j
  <2>3. CASE i = m
    <3>1. i <= m /\ ~(j <= m) /\ i \in 1..m /\ j - m = 1
      BY <1>3, <2>3 DEF j
    <3>2. c[i] = a[i] /\ h[i] = f[i] /\ h[j] = g[1]
      BY <2>1, <3>1
    <3>3. g[1] = f[i + 1]
      BY <1>1, <1>5, <2>3
    <3> QED BY <1>5, <3>1, <3>2, <3>3 DEF j
  <2>4. CASE i > m
    <3>1. ~(i <= m) /\ ~(j <= m) /\ i - m \in 1..n /\ j - m = (i - m) + 1
      BY <1>3, <2>4 DEF j
    <3>2. c[i] = b[i - m] /\ h[i] = g[i - m] /\ h[j] = g[(i - m) + 1]
      BY <2>1, <3>1
    <3> QED BY <1>6, <3>1, <3>2 DEF j
  <2> QED BY <1>3, <2>2, <2>3, <2>4
<1> HIDE DEF h
<1>11. Trace(c, x, h)
  BY <1>3, <1>7, <1>8, <1>10 DEF Trace
<1> QED BY <1>9, <1>11 DEF Reverts, c

\* What a step without an undo saves ends with the old mtime, and what the undo
\* of it saves begins with it.
LastModified(changes) == changes # <<>> => changes[Len(changes)].type = "Modified"
FirstModified(changes) == changes # <<>> => changes[1].type = "Modified"

\* The mirror image of changes that lead back leads forward again.
LEMMA MirrorReverts ==
    ASSUME NEW changes \in Seq(Change), NEW x, NEW h, Trace(changes, x, h),
           NEW s, Mirrors(s, changes, h)
    PROVE  /\ Reverts(s, h[1], x)
           /\ s \in Seq(Change)
           /\ s = <<>> <=> changes = <<>>
           /\ FirstModified(changes) => LastModified(s)
           /\ LastModified(changes) => FirstModified(s)
<1> DEFINE n == Len(changes)
           k == [j \in 1..(n + 1) |-> h[n + 2 - j]]
<1>1. n \in Nat
  OBVIOUS
<1>2. /\ h \in [1..(n + 1) -> Views] /\ h[n + 1] = x
      /\ \A i \in 1..n : h[i] = Back(changes[i], h[i + 1])
  BY DEF Trace
<1>3. s \in Seq(Change) /\ Len(s) = n /\ \A m \in 1..n : Answers(s[n + 1 - m], changes[m], h[m + 1])
  BY DEF Mirrors
<1>e. s = <<>> <=> changes = <<>>
  BY <1>3
<1> HIDE DEF n
<1>4. k \in [1..(n + 1) -> Views]
  <2>1. \A j \in 1..(n + 1) : n + 2 - j \in 1..(n + 1)
    BY <1>1
  <2>2. \A j \in 1..(n + 1) : h[n + 2 - j] \in Views
    BY <1>2, <2>1
  <2> QED BY <2>2
<1>5. k[n + 1] = h[1] /\ k[1] = x
  <2>1. n + 1 \in 1..(n + 1) /\ 1 \in 1..(n + 1) /\ n + 2 - (n + 1) = 1 /\ n + 2 - 1 = n + 1
    BY <1>1
  <2> QED BY <1>2, <2>1
<1>6. ASSUME NEW j \in 1..n PROVE Fits(s[j], k[j + 1]) /\ k[j] = Back(s[j], k[j + 1])
  <2> DEFINE m == n + 1 - j
  <2>1. /\ m \in 1..n /\ n + 1 - m = j /\ n + 2 - j = m + 1 /\ n + 2 - (j + 1) = m
        /\ j \in 1..(n + 1) /\ j + 1 \in 1..(n + 1)
    BY <1>1
  <2>2. k[j] = h[m + 1] /\ k[j + 1] = h[m]
    BY <2>1
  <2>3. Answers(s[n + 1 - m], changes[m], h[m + 1])
    BY <1>3, <2>1
  <2> HIDE DEF m
  <2>4. Answers(s[j], changes[m], h[m + 1]) /\ h[m] = Back(changes[m], h[m + 1])
    BY <1>2, <2>1, <2>3
  <2> HIDE DEF k
  <2> QED BY <2>2, <2>4 DEF Answers
<1> HIDE DEF k
<1>7. Trace(s, h[1], k)
  BY <1>3, <1>4, <1>5, <1>6 DEF Trace
<1>8. Reverts(s, h[1], x)
  BY <1>5, <1>7 DEF Reverts
<1>9. \A m \in 1..n : s[n + 1 - m].type = "Modified" <=> changes[m].type = "Modified"
  BY <1>3 DEF Answers
<1>10. ASSUME s # <<>> PROVE /\ 1 \in 1..n /\ n \in 1..n /\ n + 1 - 1 = n /\ n + 1 - n = 1
  BY <1>1, <1>3, <1>10
<1>11. FirstModified(changes) => LastModified(s)
  BY <1>3, <1>9, <1>10, <1>e DEF FirstModified, LastModified
<1>12. LastModified(changes) => FirstModified(s)
  <2> SUFFICES ASSUME changes[n].type = "Modified", s # <<>> PROVE s[1].type = "Modified"
    BY <1>e DEF FirstModified, LastModified, n
  <2> QED BY <1>9, <1>10
<1> QED BY <1>3, <1>8, <1>11, <1>12, <1>e

\* A coalesced edit: undoing the older one undoes both.
LEMMA CoalescedReverts ==
    ASSUME NEW c \in Seq(Change), NEW d \in Seq(Change), IsNoteEdit(c), IsNoteEdit(d),
           d[1].obj = c[1].obj,
           NEW x, NEW y, NEW z, Reverts(c, y, x), Reverts(d, x, z)
    PROVE  Reverts(d, y, z)
<1> DEFINE o == c[1].obj
<1>1. /\ Len(c) = 2 /\ c[1].type = "Updated" /\ c[2].type = "Modified"
      /\ Len(d) = 2 /\ d[1].type = "Updated" /\ d[2].type = "Modified"
  BY DEF IsNoteEdit
<1>2. c[1] \in Change /\ c[2] \in Change /\ d[1] \in Change /\ d[2] \in Change
  <2>1. 1 \in 1..Len(c) /\ 2 \in 1..Len(c) /\ 1 \in 1..Len(d) /\ 2 \in 1..Len(d)
    BY <1>1
  <2> QED BY <2>1
<1>3. o \in Objects /\ d[1].obj = o /\ c[1].row \in Row /\ d[1].row \in Row
  BY <1>1, <1>2 DEF Change
<1>4. PICK g : Trace(c, y, g) /\ g[1] = x
  BY DEF Reverts
<1>5. PICK h : Trace(d, x, h) /\ h[1] = z
  BY DEF Reverts
<1>6. /\ g \in [1..3 -> Views] /\ g[3] = y /\ Fits(c[1], g[2]) /\ Fits(c[2], g[3])
      /\ g[2] = Back(c[2], y) /\ x = Back(c[1], g[2])
  BY <1>1, <1>4 DEF Trace
<1>7. /\ h \in [1..3 -> Views] /\ h[3] = x /\ Fits(d[1], h[2]) /\ Fits(d[2], h[3])
      /\ h[2] = Back(d[2], x) /\ z = Back(d[1], h[2])
  BY <1>1, <1>5 DEF Trace
<1>8. y \in Views /\ x \in Views /\ g[2] \in Views /\ h[2] \in Views /\ z \in Views
  BY <1>4, <1>5, <1>6, <1>7
<1> HIDE DEF o
<1> DEFINE t == d[2].time
           k == Back(d[2], y)
<1>9. g[2] = [objs |-> y.objs, graves |-> y.graves, mod |-> c[2].time, kept |-> y.kept]
  BY <1>1, <1>2, <1>6, <1>8, BackIs
<1>10. x = [objs |-> [g[2].objs EXCEPT ![o] = Look(o, c[1].row, g[2].kept)], graves |-> g[2].graves, mod |-> g[2].mod, kept |-> g[2].kept]
  BY <1>1, <1>2, <1>3, <1>6, <1>8, BackIs DEF o
<1>11. x.objs = [y.objs EXCEPT ![o] = Look(o, c[1].row, y.kept)] /\ x.graves = y.graves /\ x.kept = y.kept
  BY <1>9, <1>10
<1>12. h[2] = [objs |-> x.objs, graves |-> x.graves, mod |-> d[2].time, kept |-> x.kept]
  BY <1>1, <1>2, <1>7, <1>8, BackIs
<1>13. z = [objs |-> [h[2].objs EXCEPT ![o] = Look(o, d[1].row, h[2].kept)], graves |-> h[2].graves, mod |-> h[2].mod, kept |-> h[2].kept]
  BY <1>1, <1>2, <1>3, <1>7, <1>8, BackIs
<1>14. k = [objs |-> y.objs, graves |-> y.graves, mod |-> t, kept |-> y.kept]
  BY <1>1, <1>2, <1>8, BackIs
<1>15. k \in Views
  BY <1>2, <1>8, BackIs
<1>16. Back(d[1], k) = [objs |-> [k.objs EXCEPT ![o] = Look(o, d[1].row, k.kept)], graves |-> k.graves, mod |-> k.mod, kept |-> k.kept]
  BY <1>1, <1>2, <1>3, <1>15, BackIs
<1>17. y.objs \in [Objects -> Row \cup {Absent}]
  BY <1>8 DEF Views, Rows
<1>18. h[2].mod = t /\ h[2].objs = x.objs /\ h[2].graves = y.graves /\ h[2].kept = y.kept
  BY <1>11, <1>12
<1>19. [h[2].objs EXCEPT ![o] = Look(o, d[1].row, y.kept)] = [y.objs EXCEPT ![o] = Look(o, d[1].row, y.kept)]
  BY <1>3, <1>11, <1>17, <1>18
<1>20. Back(d[1], k) = z
  <2>1. k.objs = y.objs /\ k.graves = y.graves /\ k.mod = t /\ k.kept = y.kept
    BY <1>14
  <2> HIDE DEF k, t
  <2> QED BY <1>13, <1>16, <1>18, <1>19, <2>1
<1>21. Fits(d[2], y)
  BY <1>1 DEF Fits
<1>22. Fits(d[1], k)
  <2>1. g[2].objs[o] # Absent
    BY <1>1, <1>3, <1>6 DEF Fits, o
  <2>2. k.objs[o] # Absent
    BY <1>9, <1>14, <2>1
  <2> QED BY <1>1, <1>3, <2>2 DEF Fits
<1> HIDE DEF k, t
<1>23. Reverts(<<d[2]>>, y, k)
  BY <1>2, <1>8, <1>21, RevertsOne DEF k
<1>24. Reverts(<<d[1]>>, k, z)
  BY <1>2, <1>15, <1>20, <1>22, RevertsOne
<1>25. <<d[1]>> \in Seq(Change) /\ <<d[2]>> \in Seq(Change) /\ d = <<d[1]>> \o <<d[2]>>
  BY <1>1, <1>2
<1> QED BY <1>23, <1>24, <1>25, RevertsConcat

-----------------------------------------------------------------------------
(* Lines of steps.                                                          *)

\* No object is there and in a pending grave.
Sound(x) == \A o \in x.graves : x.objs[o] = Absent

\* With ls = l, what waits for upload shows in the mtime.
Visible(x, l) ==
    \/ x.graves = {} /\ \A o \in Objects : x.objs[o] # Absent => ~x.objs[o].pending
    \/ x.mod # l

Proper(x, l) == Sound(x) /\ Visible(x, l)

\* The views that replaying the steps one after the other passes.
IsLine(steps, x, l, line) ==
    /\ line \in [0..Len(steps) -> Views]
    /\ line[0] = x
    /\ \A i \in 1..Len(steps) : Reverts(steps[i].changes, line[i - 1], line[i])
    /\ \A i \in 0..Len(steps) : Proper(line[i], l)

\* What a user sees of a view.
Seen(x) ==
    [vals |-> [o \in Objects |-> IF x.objs[o] = Absent THEN Absent
                                 ELSE x.objs[o].val],
     graves |-> x.graves]

\* That is the content of the tables.
LEMMA ContentIs ==
    ASSUME NEW w \in Works, NEW K \in SUBSET Objects
    PROVE  Content(w) = Seen(View(K, w))
<1>1. w.rows \in Rows
  BY WorkParts
<1>2. View(K, w).objs = Looked(K, w.rows) /\ View(K, w).graves = w.graves
  BY ViewIs
<1>3. ASSUME NEW o \in Objects
      PROVE  (IF w.rows[o] = Absent THEN Absent ELSE w.rows[o].val)
                 = (IF View(K, w).objs[o] = Absent THEN Absent
                    ELSE View(K, w).objs[o].val)
  <2>1. View(K, w).objs[o] = Look(o, w.rows[o], K)
    BY <1>2 DEF Looked
  <2>2. CASE w.rows[o] = Absent
    BY <2>1, <2>2, LookIs
  <2>3. CASE w.rows[o] # Absent
    <3>1. w.rows[o] \in Row
      BY <1>1, <2>3 DEF Rows
    <3>2. Look(o, w.rows[o], K) # Absent
      BY <3>1, LookIs
    <3> QED BY <2>1, <2>3, <3>2 DEF Look
  <2> QED BY <2>2, <2>3
<1> QED BY <1>2, <1>3 DEF Content, Seen

\* The fields of a step.
LEMMA StepChanges ==
    ASSUME NEW steps \in Seq(UndoableOp), NEW i \in 1..Len(steps)
    PROVE  steps[i] \in UndoableOp /\ steps[i].changes \in Seq(Change) /\ steps[i].kind \in Kinds
<1>1. steps[i] \in UndoableOp
  OBVIOUS
<1> QED BY <1>1 DEF UndoableOp

\* Replaying anything leaves an operation in progress.
LEMMA ReplayType ==
    ASSUME NEW changes \in Seq(Change), NEW w \in Works
    PROVE  Replay(changes, w) \in Works
<1>1. PICK g : Runs(changes, w, g) /\ Replay(changes, w) = g[1]
  BY ReplayRuns
<1>2. 1 \in 1..(Len(changes) + 1)
  OBVIOUS
<1> QED BY <1>1, <1>2 DEF Runs

\* The recursion of ReplaySteps has a solution, and only that.
LEMMA StepsReplay ==
    ASSUME NEW steps \in Seq(UndoableOp), NEW w \in Works
    PROVE  /\ ReplaySteps(steps, w) \in [0..Len(steps) -> Works]
           /\ ReplaySteps(steps, w)[0] = w
           /\ \A i \in 1..Len(steps) :
                  ReplaySteps(steps, w)[i] = Replay(steps[i].changes, ReplaySteps(steps, w)[i - 1])
<1> DEFINE n == Len(steps)
           F == [i \in 1..n |-> [v \in Works |-> Replay(steps[i].changes, v)]]
<1>1. n \in Nat /\ \A i \in 1..n : steps[i].changes \in Seq(Change)
  BY StepChanges
<1> HIDE DEF n
<1>2. F \in [1..n -> [Works -> Works]]
  BY <1>1, ReplayType
<1>3. \A i \in 1..n, v \in Works : F[i][v] = Replay(steps[i].changes, v)
  OBVIOUS
<1> HIDE DEF F
<1>4. PICK g \in [0..n -> Works] : g[0] = w /\ \A i \in 1..n : g[i] = F[i][g[i - 1]]
  <2>1. \E g : IsRun(g, n, Works, w, F)
    BY <1>1, <1>2, RunExists
  <2> QED BY <2>1 DEF IsRun
<1>5. ASSUME NEW i \in 1..n PROVE g[i] = Replay(steps[i].changes, g[i - 1])
  <2>1. i - 1 \in 0..n
    BY <1>1
  <2> QED BY <1>3, <1>4, <2>1
<1> DEFINE Body(f) == [i \in 0..n |-> IF i = 0 THEN w ELSE Replay(steps[i].changes, f[i - 1])]
           after == CHOOSE f : f = Body(f)
<1>6. ReplaySteps(steps, w) = after
  BY DEF ReplaySteps, n
<1>7. g = Body(g)
  <2>1. ASSUME NEW i \in 0..n PROVE g[i] = IF i = 0 THEN w ELSE Replay(steps[i].changes, g[i - 1])
    <3>1. CASE i = 0
      BY <1>4, <3>1
    <3>2. CASE i # 0
      <4>1. i \in 1..n
        BY <1>1, <3>2
      <4> QED BY <1>5, <3>2, <4>1
    <3> QED BY <3>1, <3>2
  <2> QED BY <1>4, <2>1
<1>8. after = Body(after)
  <2> HIDE DEF Body
  <2> QED BY <1>7
<1> HIDE DEF after
<1>9. \A i \in 0..n : after[i] = IF i = 0 THEN w ELSE Replay(steps[i].changes, after[i - 1])
  BY <1>8
<1>d. DOMAIN after = 0..n /\ after = [i \in 0..n |-> after[i]]
  BY <1>8
<1> HIDE DEF Body
<1> DEFINE S == {j \in 0..n : after[j] # g[j]}
<1>10. S = {}
  <2> SUFFICES ASSUME S # {} PROVE FALSE
    OBVIOUS
  <2>1. PICK j \in S : \A m \in Nat : m < j => m \notin S
    <3>1. S \in SUBSET Nat
      OBVIOUS
    <3> HIDE DEF S
    <3> QED BY <3>1, LeastOf
  <2>2. j \in 0..n /\ after[j] # g[j]
    OBVIOUS
  <2>3. j # 0
    <3>1. 0 \in 0..n
      BY <1>1
    <3> QED BY <1>4, <1>9, <2>2, <3>1
  <2>4. j \in 1..n /\ j - 1 \in 0..n /\ j - 1 < j /\ j - 1 \in Nat
    BY <1>1, <2>2, <2>3
  <2>5. j - 1 \notin S
    <3> HIDE DEF S
    <3> QED BY <2>1, <2>4
  <2>6. after[j - 1] = g[j - 1]
    BY <2>4, <2>5
  <2>7. after[j] = Replay(steps[j].changes, after[j - 1])
    BY <1>9, <2>2, <2>3
  <2>8. g[j] = Replay(steps[j].changes, g[j - 1])
    BY <1>5, <2>4
  <2> QED BY <2>2, <2>6, <2>7, <2>8
<1>11. \A j \in 0..n : after[j] = g[j]
  BY <1>10
<1>12. after = g
  BY <1>4, <1>11, <1>d
<1> QED BY <1>4, <1>5, <1>6, <1>12 DEF n

\* Replaying steps that have a line follows it.
LEMMA StepsFollow ==
    ASSUME NEW steps \in Seq(UndoableOp), NEW w \in Works, w.ok, NEW K \in SUBSET Objects,
           NEW l, NEW line, IsLine(steps, View(K, w), l, line)
    PROVE  \A i \in 0..Len(steps) :
               /\ ReplaySteps(steps, w)[i] \in Works
               /\ ReplaySteps(steps, w)[i].ok
               /\ View(K, ReplaySteps(steps, w)[i]) = line[i]
<1> DEFINE n == Len(steps)
           g == ReplaySteps(steps, w)
<1>1. /\ g \in [0..n -> Works] /\ g[0] = w
      /\ \A i \in 1..n : g[i] = Replay(steps[i].changes, g[i - 1])
  BY StepsReplay
<1>2. n \in Nat /\ \A i \in 1..n : steps[i].changes \in Seq(Change)
  BY StepChanges
<1>3. line[0] = View(K, w) /\ \A i \in 1..n : Reverts(steps[i].changes, line[i - 1], line[i])
  BY DEF IsLine
<1> HIDE DEF n, g
<1> DEFINE Good(i) == g[i].ok /\ View(K, g[i]) = line[i]
           S == {j \in 0..n : ~Good(j)}
<1>4. S = {}
  <2> SUFFICES ASSUME S # {} PROVE FALSE
    OBVIOUS
  <2>1. PICK j \in S : \A m \in Nat : m < j => m \notin S
    <3>1. S \in SUBSET Nat
      OBVIOUS
    <3> HIDE DEF S
    <3> QED BY <3>1, LeastOf
  <2>2. j \in 0..n /\ ~Good(j)
    OBVIOUS
  <2>3. j # 0
    BY <1>1, <1>3, <2>2
  <2>4. j \in 1..n /\ j - 1 \in 0..n /\ j - 1 < j /\ j - 1 \in Nat
    BY <1>2, <2>2, <2>3
  <2>5. j - 1 \notin S
    <3> HIDE DEF S
    <3> QED BY <2>1, <2>4
  <2>6. Good(j - 1)
    BY <2>4, <2>5
  <2>7. PICK h : Trace(steps[j].changes, line[j - 1], h) /\ h[1] = line[j]
    BY <1>3, <2>4 DEF Reverts
  <2>8. g[j - 1] \in Works /\ g[j - 1].ok /\ View(K, g[j - 1]) = line[j - 1]
    BY <1>1, <2>4, <2>6
  <2>9. /\ Replay(steps[j].changes, g[j - 1]).ok
        /\ View(K, Replay(steps[j].changes, g[j - 1])) = h[1]
    <3>1. steps[j].changes \in Seq(Change)
      BY <1>2, <2>4
    <3>2. Trace(steps[j].changes, View(K, g[j - 1]), h)
      BY <2>7, <2>8
    <3> QED BY <2>8, <3>1, <3>2, ReplayFollows
  <2> QED BY <1>1, <2>2, <2>4, <2>7, <2>9
<1> QED BY <1>1, <1>4 DEF n, g

-----------------------------------------------------------------------------
(* Sequences.                                                               *)

\* Sequences as functions: from a function, with an element in front, without it,
\* and the first elements.
LEMMA FunctionIsSeq ==
    ASSUME NEW S, NEW n \in Nat, NEW f \in [1..n -> S]
    PROVE  f \in Seq(S) /\ Len(f) = n
OBVIOUS

LEMMA ConsIs ==
    ASSUME NEW S, NEW s \in Seq(S), NEW e \in S
    PROVE  /\ <<e>> \o s \in Seq(S)
           /\ Len(<<e>> \o s) = Len(s) + 1
           /\ <<e>> \o s = [i \in 1..(Len(s) + 1) |-> IF i = 1 THEN e ELSE s[i - 1]]
<1>1. <<e>> \in Seq(S) /\ Len(<<e>>) = 1 /\ <<e>>[1] = e /\ Len(s) \in Nat
  OBVIOUS
<1> DEFINE q == <<e>> \o s
<1>2. q \in Seq(S) /\ Len(q) = Len(s) + 1 /\ \A i \in 1..(Len(s) + 1) : q[i] = IF i = 1 THEN e ELSE s[i - 1]
  BY <1>1
<1>3. DOMAIN q = 1..(Len(s) + 1) /\ q = [i \in DOMAIN q |-> q[i]]
  BY <1>2
<1> HIDE DEF q
<1>4. q = [i \in 1..(Len(s) + 1) |-> IF i = 1 THEN e ELSE s[i - 1]]
  BY <1>2, <1>3
<1> QED BY <1>2, <1>4 DEF q

LEMMA TailIs ==
    ASSUME NEW S, NEW s \in Seq(S), s # <<>>
    PROVE  /\ Tail(s) \in Seq(S) /\ Head(s) \in S /\ Head(s) = s[1]
           /\ Len(Tail(s)) = Len(s) - 1 /\ Len(s) \in Nat /\ Len(s) # 0
           /\ Tail(s) = [i \in 1..(Len(s) - 1) |-> s[i + 1]]
           /\ s = <<Head(s)>> \o Tail(s)
<1>1. Len(s) \in Nat /\ Len(s) # 0 /\ Head(s) \in S /\ Head(s) = s[1]
  OBVIOUS
<1> DEFINE t == Tail(s)
<1>2. t \in Seq(S) /\ Len(t) = Len(s) - 1 /\ \A i \in 1..(Len(s) - 1) : t[i] = s[i + 1]
  BY <1>1
<1>4. s = <<Head(s)>> \o t
  <2>1. 1 \in 1..Len(s) /\ Len(s) \in 1..Len(s)
    BY <1>1
  <2>2. SubSeq(s, 1, Len(s)) = <<s[1]>> \o SubSeq(s, 1 + 1, Len(s))
    BY <2>1, SubSeqRecursiveFirst
  <2>3. Tail(s) = SubSeq(s, 2, Len(s)) /\ SubSeq(s, 1, Len(s)) = s
    BY TailIsSubSeq, SubSeqFull
  <2> QED BY <1>1, <2>2, <2>3
<1> HIDE DEF t
<1>3. DOMAIN t = 1..(Len(s) - 1) /\ t = [i \in DOMAIN t |-> t[i]]
  BY <1>1, <1>2
<1>5. t = [i \in 1..(Len(s) - 1) |-> s[i + 1]]
  BY <1>2, <1>3
<1> QED BY <1>1, <1>2, <1>4, <1>5 DEF t

LEMMA FirstIs ==
    ASSUME NEW S, NEW s \in Seq(S), NEW m \in Nat, m <= Len(s)
    PROVE  /\ SubSeq(s, 1, m) \in Seq(S) /\ Len(SubSeq(s, 1, m)) = m
           /\ SubSeq(s, 1, m) = [i \in 1..m |-> s[i]]
OBVIOUS

\* The contents that a line of views shows behind its first.
Past(steps, line) == [i \in 1..Len(steps) |-> Seen(line[i])]

\* From x, with ls = l, the steps can be replayed one after the other, and p
\* are the contents that the replays show.
Lined(steps, x, l, p) == \E line : IsLine(steps, x, l, line) /\ Past(steps, line) = p

\* A line begins in a proper view and shows as many contents as it has steps.
LEMMA LinedProper ==
    ASSUME NEW steps \in Seq(UndoableOp), NEW x, NEW l, NEW p, Lined(steps, x, l, p)
    PROVE  x \in Views /\ Proper(x, l) /\ Len(p) = Len(steps)
<1>1. PICK line : IsLine(steps, x, l, line) /\ Past(steps, line) = p
  BY DEF Lined
<1>2. 0 \in 0..Len(steps) /\ Len(steps) \in Nat
  OBVIOUS
<1> QED BY <1>1, <1>2 DEF IsLine, Past

\* The empty queue is a line.
LEMMA LinedEmpty ==
    ASSUME NEW x \in Views, NEW l, Proper(x, l)
    PROVE  Lined(<<>>, x, l, <<>>)
<1> DEFINE line == [i \in 0..0 |-> x]
<1>1. Len(<<>>) = 0
  OBVIOUS
<1>2. line \in [0..0 -> Views] /\ line[0] = x
  OBVIOUS
<1> HIDE DEF line
<1>3. IsLine(<<>>, x, l, line)
  BY <1>1, <1>2 DEF IsLine
<1>4. Past(<<>>, line) = <<>>
  BY <1>1 DEF Past
<1> QED BY <1>3, <1>4 DEF Lined

\* A step that leads back to the view a line begins in goes in front of it.
LEMMA LinedPush ==
    ASSUME NEW steps \in Seq(UndoableOp), NEW step \in UndoableOp, NEW l, NEW x, NEW p,
           Lined(steps, x, l, p),
           NEW y \in Views, Proper(y, l), Reverts(step.changes, y, x)
    PROVE  Lined(<<step>> \o steps, y, l, <<Seen(x)>> \o p)
<1>1. PICK line : IsLine(steps, x, l, line) /\ Past(steps, line) = p
  BY DEF Lined
<1> DEFINE n == Len(steps)
           q == <<step>> \o steps
           k == [i \in 0..(n + 1) |-> IF i = 0 THEN y ELSE line[i - 1]]
<1>2. n \in Nat /\ Len(q) = n + 1 /\ q[1] = step /\ \A i \in 2..(n + 1) : q[i] = steps[i - 1]
  OBVIOUS
<1>3. /\ line \in [0..n -> Views] /\ line[0] = x
      /\ \A i \in 1..n : Reverts(steps[i].changes, line[i - 1], line[i])
      /\ \A i \in 0..n : Proper(line[i], l)
  BY <1>1 DEF IsLine
<1>4. p = [i \in 1..n |-> Seen(line[i])]
  BY <1>1 DEF Past
<1> HIDE DEF n, q
<1>5. \A i \in 0..(n + 1) : i # 0 => i - 1 \in 0..n
  BY <1>2
<1>6. k \in [0..(n + 1) -> Views] /\ k[0] = y
  BY <1>2, <1>3, <1>5
<1>7. \A i \in 0..(n + 1) : i # 0 => k[i] = line[i - 1]
  OBVIOUS
<1> HIDE DEF k
<1>8. ASSUME NEW i \in 1..(n + 1) PROVE Reverts(q[i].changes, k[i - 1], k[i])
  <2>1. i \in 0..(n + 1) /\ i # 0 /\ i - 1 \in 0..n /\ i - 1 \in 0..(n + 1)
    BY <1>2
  <2>2. CASE i = 1
    BY <1>2, <1>3, <1>6, <1>7, <2>1, <2>2
  <2>3. CASE i # 1
    <3> DEFINE j == i - 1
    <3>1. j \in 1..n /\ i \in 2..(n + 1) /\ j \in 0..(n + 1) /\ j # 0
      BY <1>2, <2>3
    <3>2. k[j] = line[j - 1] /\ k[i] = line[j] /\ q[i] = steps[j]
      BY <1>2, <1>7, <2>1, <3>1
    <3> QED BY <1>3, <3>1, <3>2
  <2> QED BY <2>2, <2>3
<1>9. ASSUME NEW i \in 0..(n + 1) PROVE Proper(k[i], l)
  BY <1>3, <1>5, <1>6, <1>7
<1>10. IsLine(q, y, l, k)
  BY <1>2, <1>6, <1>8, <1>9 DEF IsLine
<1>11. Past(q, k) = <<Seen(x)>> \o p
  <2>1. Past(q, k) = [i \in 1..(n + 1) |-> Seen(k[i])]
    BY <1>2 DEF Past
  <2>2. Len(p) = n /\ \A i \in 1..n : p[i] = Seen(line[i])
    BY <1>2, <1>4
  <2> DEFINE S == {Seen(x)} \cup {Seen(line[i]) : i \in 1..n}
  <2>a. p \in [1..n -> S] /\ Seen(x) \in S
    BY <1>2, <1>4
  <2> HIDE DEF S
  <2>s. p \in Seq(S)
    BY <1>2, <2>a, FunctionIsSeq
  <2>3. <<Seen(x)>> \o p = [i \in 1..(n + 1) |-> IF i = 1 THEN Seen(x) ELSE p[i - 1]]
    BY <2>2, <2>a, <2>s, ConsIs
  <2>4. ASSUME NEW i \in 1..(n + 1) PROVE Seen(k[i]) = IF i = 1 THEN Seen(x) ELSE p[i - 1]
    <3>1. CASE i = 1
      <4>1. k[1] = line[0]
        BY <1>2, <1>7
      <4> QED BY <1>3, <3>1, <4>1
    <3>2. CASE i # 1
      <4>1. i - 1 \in 1..n /\ i \in 0..(n + 1) /\ i # 0
        BY <1>2, <3>2
      <4>2. k[i] = line[i - 1] /\ p[i - 1] = Seen(line[i - 1])
        BY <1>7, <2>2, <4>1
      <4> QED BY <3>2, <4>2
    <3> QED BY <3>1, <3>2
  <2> QED BY <2>1, <2>3, <2>4
<1> QED BY <1>10, <1>11 DEF Lined, q

\* Dropping the first i - 1 steps, or all after the m-th.
LEMMA LinedPart ==
    ASSUME NEW steps \in Seq(UndoableOp), NEW l, NEW x, NEW p, Lined(steps, x, l, p),
           NEW m \in Nat, m <= Len(steps)
    PROVE  Lined(SubSeq(steps, 1, m), x, l, SubSeq(p, 1, m))
<1>1. PICK line : IsLine(steps, x, l, line) /\ Past(steps, line) = p
  BY DEF Lined
<1> DEFINE n == Len(steps)
           q == SubSeq(steps, 1, m)
           k == [i \in 0..m |-> line[i]]
<1>2. n \in Nat /\ m <= n /\ Len(q) = m /\ \A i \in 1..m : q[i] = steps[i]
  OBVIOUS
<1>3. /\ line \in [0..n -> Views] /\ line[0] = x
      /\ \A i \in 1..n : Reverts(steps[i].changes, line[i - 1], line[i])
      /\ \A i \in 0..n : Proper(line[i], l)
  BY <1>1 DEF IsLine
<1>4. p = [i \in 1..n |-> Seen(line[i])]
  BY <1>1 DEF Past
<1> HIDE DEF n, q
<1>5. \A i \in 0..m : i \in 0..n
  BY <1>2
<1>6. k \in [0..m -> Views] /\ k[0] = x /\ \A i \in 0..m : k[i] = line[i]
  BY <1>3, <1>5
<1> HIDE DEF k
<1>7. ASSUME NEW i \in 1..m PROVE Reverts(q[i].changes, k[i - 1], k[i])
  <2>1. i \in 1..n /\ i \in 0..m /\ i - 1 \in 0..m
    BY <1>2
  <2> QED BY <1>2, <1>3, <1>6, <2>1
<1>8. IsLine(q, x, l, k)
  BY <1>2, <1>3, <1>5, <1>6, <1>7 DEF IsLine
<1>9. Past(q, k) = SubSeq(p, 1, m)
  <2>1. Past(q, k) = [i \in 1..m |-> Seen(k[i])]
    BY <1>2 DEF Past
  <2> DEFINE S == {Seen(line[i]) : i \in 1..n}
  <2>a. p \in [1..n -> S]
    BY <1>2, <1>4
  <2> HIDE DEF S
  <2>s. p \in Seq(S) /\ Len(p) = n
    BY <1>2, <2>a, FunctionIsSeq
  <2>2. SubSeq(p, 1, m) = [i \in 1..m |-> p[i]]
    BY <1>2, <2>s, FirstIs
  <2>3. ASSUME NEW i \in 1..m PROVE Seen(k[i]) = p[i]
    <3>1. i \in 1..n /\ i \in 0..m
      BY <1>2
    <3> QED BY <1>4, <1>6, <3>1
  <2> QED BY <2>1, <2>2, <2>3
<1> QED BY <1>8, <1>9 DEF Lined, q

\* The first of the steps leads from x to y, and the rest go on from there.
Leads(steps, x, l, p, y) ==
    /\ y \in Views
    /\ Proper(y, l)
    /\ Reverts(Head(steps).changes, x, y)
    /\ Lined(Tail(steps), y, l, Tail(p))
    /\ p = <<Seen(y)>> \o Tail(p)
    /\ p # <<>> /\ Head(p) = Seen(y)

\* Undoing the first step leaves the rest of the line.
LEMMA LinedTail ==
    ASSUME NEW steps \in Seq(UndoableOp), steps # <<>>, NEW l, NEW x, NEW p, Lined(steps, x, l, p)
    PROVE  \E y : Leads(steps, x, l, p, y)
<1>1. PICK line : IsLine(steps, x, l, line) /\ Past(steps, line) = p
  BY DEF Lined
<1> DEFINE n == Len(steps)
           q == Tail(steps)
           k == [i \in 0..(n - 1) |-> line[i + 1]]
<1>2. n \in Nat /\ n # 0 /\ Len(q) = n - 1 /\ (\A i \in 1..(n - 1) : q[i] = steps[i + 1]) /\ Head(steps) = steps[1]
  OBVIOUS
<1>3. /\ line \in [0..n -> Views] /\ line[0] = x
      /\ \A i \in 1..n : Reverts(steps[i].changes, line[i - 1], line[i])
      /\ \A i \in 0..n : Proper(line[i], l)
  BY <1>1 DEF IsLine
<1>4. p = [i \in 1..n |-> Seen(line[i])]
  BY <1>1 DEF Past
<1> HIDE DEF n, q
<1>5. 1 \in 0..n /\ 1 \in 1..n /\ \A i \in 0..(n - 1) : i + 1 \in 0..n
  BY <1>2
<1>6. k \in [0..(n - 1) -> Views] /\ k[0] = line[1] /\ \A i \in 0..(n - 1) : k[i] = line[i + 1]
  <2>1. 0 \in 0..(n - 1)
    BY <1>2
  <2> QED BY <1>3, <1>5, <2>1
<1> HIDE DEF k
<1>7. ASSUME NEW i \in 1..(n - 1) PROVE Reverts(q[i].changes, k[i - 1], k[i])
  <2> DEFINE j == i + 1
  <2>1. j \in 1..n /\ i \in 0..(n - 1) /\ i - 1 \in 0..(n - 1) /\ (i - 1) + 1 = j - 1 /\ j - 1 = i
    BY <1>2
  <2>2. k[i - 1] = line[(i - 1) + 1] /\ k[i] = line[j] /\ q[i] = steps[j]
    BY <1>2, <1>6, <2>1
  <2>3. Reverts(steps[j].changes, line[j - 1], line[j])
    BY <1>3, <2>1
  <2> HIDE DEF j
  <2> QED BY <2>1, <2>2, <2>3
<1>8. IsLine(q, line[1], l, k)
  <2>1. \A i \in 0..(n - 1) : Proper(k[i], l)
    BY <1>3, <1>5, <1>6
  <2> QED BY <1>2, <1>6, <1>7, <2>1 DEF IsLine
<1> DEFINE S == {Seen(line[i]) : i \in 1..n}
<1>a. p \in [1..n -> S]
  BY <1>2, <1>4
<1> HIDE DEF S
<1>s. p \in Seq(S) /\ Len(p) = n /\ p # <<>>
  <2>1. p \in Seq(S) /\ Len(p) = n
    BY <1>2, <1>a, FunctionIsSeq
  <2> QED BY <1>2, <2>1
<1>9. p # <<>> /\ Head(p) = Seen(line[1]) /\ p[1] = Seen(line[1]) /\ p = <<Head(p)>> \o Tail(p)
  <2>1. Head(p) = p[1] /\ p = <<Head(p)>> \o Tail(p)
    BY <1>s, TailIs
  <2>2. p[1] = Seen(line[1])
    BY <1>4, <1>5
  <2> QED BY <1>s, <2>1, <2>2
<1>10. Past(q, k) = Tail(p)
  <2>1. Past(q, k) = [i \in 1..(n - 1) |-> Seen(k[i])]
    BY <1>2 DEF Past
  <2>2. Tail(p) = [i \in 1..(n - 1) |-> p[i + 1]]
    BY <1>s, TailIs
  <2>3. ASSUME NEW i \in 1..(n - 1) PROVE Seen(k[i]) = p[i + 1]
    <3>1. i + 1 \in 1..n /\ i \in 0..(n - 1)
      BY <1>2
    <3> QED BY <1>4, <1>6, <3>1
  <2> QED BY <2>1, <2>2, <2>3
<1>11. Reverts(Head(steps).changes, x, line[1]) /\ line[1] \in Views /\ Proper(line[1], l)
  BY <1>2, <1>3, <1>5
<1>12. Lined(q, line[1], l, Tail(p))
  BY <1>8, <1>10 DEF Lined
<1>13. Leads(steps, x, l, p, line[1])
  BY <1>9, <1>11, <1>12 DEF q, Leads
<1> QED BY <1>13

\* The first of a line that starts elsewhere, but ends its first step alike.
LEMMA LinedSwap ==
    ASSUME NEW steps \in Seq(UndoableOp), steps # <<>>, NEW l, NEW x, NEW p, Lined(steps, x, l, p),
           NEW y \in Views, Proper(y, l),
           \A z : Reverts(Head(steps).changes, x, z) => Reverts(Head(steps).changes, y, z)
    PROVE  Lined(steps, y, l, p)
<1>t. PICK z : Leads(steps, x, l, p, z)
  BY LinedTail
<1>1. /\ Reverts(Head(steps).changes, x, z)
      /\ Lined(Tail(steps), z, l, Tail(p))
      /\ p = <<Seen(z)>> \o Tail(p)
  BY <1>t DEF Leads
<1>2. Tail(steps) \in Seq(UndoableOp) /\ Head(steps) \in UndoableOp /\ <<Head(steps)>> \o Tail(steps) = steps
  OBVIOUS
<1>3. Reverts(Head(steps).changes, y, z)
  BY <1>1
<1>4. Lined(<<Head(steps)>> \o Tail(steps), y, l, <<Seen(z)>> \o Tail(p))
  BY <1>1, <1>2, <1>3, LinedPush
<1> QED BY <1>1, <1>2, <1>4

\* The contents of a line are those that replaying its steps passes, and every
\* replay succeeds.
LEMMA LinedReplay ==
    ASSUME NEW steps \in Seq(UndoableOp), NEW w \in Works, w.ok, NEW K \in SUBSET Objects,
           NEW l, NEW p, Lined(steps, View(K, w), l, p)
    PROVE  /\ p = [i \in 1..Len(steps) |-> Content(ReplaySteps(steps, w)[i])]
           /\ ReplaySteps(steps, w)[Len(steps)].ok
<1>1. PICK line : IsLine(steps, View(K, w), l, line) /\ Past(steps, line) = p
  BY DEF Lined
<1>2. \A i \in 0..Len(steps) : /\ ReplaySteps(steps, w)[i] \in Works
                               /\ ReplaySteps(steps, w)[i].ok
                               /\ View(K, ReplaySteps(steps, w)[i]) = line[i]
  BY <1>1, StepsFollow
<1>3. ASSUME NEW i \in 1..Len(steps) PROVE Content(ReplaySteps(steps, w)[i]) = Seen(line[i])
  <2>1. i \in 0..Len(steps)
    OBVIOUS
  <2> QED BY <1>2, <2>1, ContentIs
<1>4. Len(steps) \in 0..Len(steps)
  OBVIOUS
<1>5. p = [i \in 1..Len(steps) |-> Seen(line[i])]
  BY <1>1 DEF Past
<1> QED BY <1>2, <1>3, <1>4, <1>5

-----------------------------------------------------------------------------
(* Writes that leave no step: they take objects out of the sight of a view,  *)
(* and stamp it with a new mtime.                                           *)

\* x without the flags of the objects D, and x at the time m.
Forget(x, D) ==
    [objs |-> Looked(x.kept \ D, x.objs), graves |-> x.graves, mod |-> x.mod, kept |-> x.kept \ D]

Stamp(x, m) == [objs |-> x.objs, graves |-> x.graves, mod |-> m, kept |-> x.kept]

\* A row can be forgotten later or at once.
LEMMA LookTwice ==
    ASSUME NEW o, NEW K, NEW M \in SUBSET K, NEW row \in Row \cup {Absent}
    PROVE  Look(o, Look(o, row, K), M) = Look(o, row, M)
<1>1. CASE row = Absent
  BY <1>1 DEF Look
<1>2. CASE row # Absent
  <2>1. row \in Row
    BY <1>2
  <2>2. Look(o, row, K) # Absent /\ Look(o, row, M) # Absent
    BY <2>1, LookIs
  <2>3. CASE o \in K
    <3>1. Look(o, row, K) = row
      BY <2>3 DEF Look
    <3> QED BY <3>1
  <2>4. CASE o \notin K
    <3> DEFINE r == [val |-> row.val, collapsed |-> FALSE, pending |-> FALSE]
    <3>1. Look(o, row, K) = r /\ Look(o, row, M) = r
      BY <1>2, <2>4 DEF Look
    <3>2. Look(o, r, M) = IF r = Absent THEN r ELSE [val |-> r.val, collapsed |-> FALSE, pending |-> FALSE]
      BY <2>4 DEF Look
    <3>3. Look(o, r, M) = r
      BY <3>2
    <3> QED BY <3>1, <3>3
  <2> QED BY <2>3, <2>4
<1> QED BY <1>1, <1>2

\* What a view is after forgetting.
Forgot(x, D, y, M) == y = Forget(x, D) /\ M = x.kept \ D

LEMMA ForgetIs ==
    ASSUME NEW x \in Views, NEW D, NEW y, NEW M, Forgot(x, D, y, M)
    PROVE  /\ y \in Views
           /\ y.objs = Looked(M, x.objs) /\ y.graves = x.graves /\ y.mod = x.mod /\ y.kept = M
           /\ \A o \in Objects : x.objs[o] \in Row \cup {Absent}
           /\ \A o \in Objects : y.objs[o] = Look(o, x.objs[o], M)
<1>1. x.objs \in Rows /\ x.graves \in SUBSET Objects /\ x.mod \in Nat /\ x.kept \in SUBSET Objects
  BY DEF Views
<1>2. \A o \in Objects : x.objs[o] \in Row \cup {Absent}
  BY <1>1 DEF Rows
<1>3. \A o \in Objects : Look(o, x.objs[o], M) \in Row \cup {Absent}
  BY <1>2, LookIs
<1>4. Looked(M, x.objs) \in Rows
  BY <1>3 DEF Looked, Rows
<1>a. M = x.kept \ D /\ y = Forget(x, D)
  BY DEF Forgot
<1>5. y = [objs |-> Looked(M, x.objs), graves |-> x.graves, mod |-> x.mod, kept |-> M]
  BY <1>a DEF Forget
<1>6. M \in SUBSET Objects
  BY <1>1, <1>a
<1>7. y \in Views
  BY <1>1, <1>4, <1>5, <1>6 DEF Views
<1>8. y.objs = Looked(M, x.objs)
  BY <1>5
<1>9. ASSUME NEW o \in Objects PROVE y.objs[o] = Look(o, x.objs[o], M)
  BY <1>8 DEF Looked
<1> QED BY <1>2, <1>5, <1>7, <1>8, <1>9

\* The view of the tables is forgotten by keeping less of them.
LEMMA ForgetView ==
    ASSUME NEW w \in Works, NEW K \in SUBSET Objects, NEW D
    PROVE  Forget(View(K, w), D) = View(K \ D, w)
<1>1. View(K, w).objs = Looked(K, w.rows) /\ View(K, w).graves = w.graves /\ View(K, w).mod = w.mod /\ View(K, w).kept = K
  BY ViewIs
<1>2. \A o \in Objects : w.rows[o] \in Row \cup {Absent}
  BY WorkParts DEF Rows
<1>3. \A o \in Objects : Look(o, Looked(K, w.rows)[o], K \ D) = Look(o, w.rows[o], K \ D)
  <2>1. \A o \in Objects : Looked(K, w.rows)[o] = Look(o, w.rows[o], K)
    BY DEF Looked
  <2>2. ASSUME NEW o \in Objects PROVE Look(o, Look(o, w.rows[o], K), K \ D) = Look(o, w.rows[o], K \ D)
    <3>1. w.rows[o] \in Row \cup {Absent}
      BY <1>2
    <3>2. K \ D \in SUBSET K
      OBVIOUS
    <3> QED BY <3>1, <3>2, LookTwice
  <2> QED BY <2>1, <2>2
<1>4. Looked(K \ D, Looked(K, w.rows)) = Looked(K \ D, w.rows)
  BY <1>3 DEF Looked
<1>5. Forget(View(K, w), D) = [objs |-> Looked(K \ D, Looked(K, w.rows)), graves |-> w.graves, mod |-> w.mod, kept |-> K \ D]
  BY <1>1 DEF Forget
<1> QED BY <1>4, <1>5 DEF View

\* The user sees the same, and what was proper is.
LEMMA ForgetProper ==
    ASSUME NEW x \in Views, NEW D, NEW l
    PROVE  /\ Seen(Forget(x, D)) = Seen(x)
           /\ Proper(x, l) => Proper(Forget(x, D), l)
<1>0. PICK y, M : y = Forget(x, D) /\ M = x.kept \ D
  OBVIOUS
<1>a. /\ y.graves = x.graves /\ y.mod = x.mod
      /\ \A o \in Objects : x.objs[o] \in Row \cup {Absent}
      /\ \A o \in Objects : y.objs[o] = Look(o, x.objs[o], M)
  <2>1. Forgot(x, D, y, M)
    BY <1>0 DEF Forgot
  <2> QED BY <2>1, ForgetIs
<1>b. ASSUME NEW o \in Objects, x.objs[o] # Absent PROVE y.objs[o] # Absent
  <2>1. x.objs[o] \in Row /\ y.objs[o] = Look(o, x.objs[o], M)
    BY <1>a, <1>b
  <2> QED BY <2>1, LookIs
<1>c. ASSUME NEW o \in Objects, x.objs[o] = Absent PROVE y.objs[o] = Absent
  <2>1. y.objs[o] = Look(o, Absent, M)
    BY <1>a, <1>c
  <2> QED BY <2>1, LookIs
<1>1. y.graves = x.graves /\ y.mod = x.mod
  BY <1>a
<1>2. x.graves \subseteq Objects
  BY DEF Views
<1>3. ASSUME NEW o \in Objects, x.objs[o] # Absent
      PROVE  /\ y.objs[o].val = x.objs[o].val
             /\ y.objs[o] = x.objs[o] \/ y.objs[o].pending = FALSE
  <2>1. y.objs[o] = Look(o, x.objs[o], M)
    BY <1>a
  <2>2. CASE o \in M
    BY <1>3, <2>1, <2>2 DEF Look
  <2>3. CASE o \notin M
    <3>1. y.objs[o] = [val |-> x.objs[o].val, collapsed |-> FALSE, pending |-> FALSE]
      BY <1>3, <2>1, <2>3 DEF Look
    <3> QED BY <3>1
  <2> QED BY <2>2, <2>3
<1>4. ASSUME NEW o \in Objects
      PROVE  (IF y.objs[o] = Absent THEN Absent ELSE y.objs[o].val)
                 = (IF x.objs[o] = Absent THEN Absent ELSE x.objs[o].val)
  BY <1>b, <1>c, <1>3
<1>5. Seen(y) = Seen(x)
  BY <1>1, <1>4 DEF Seen
<1>6. ASSUME Proper(x, l) PROVE Proper(y, l)
  <2>1. Sound(y)
    BY <1>1, <1>2, <1>6, <1>c DEF Proper, Sound
  <2>2. Visible(y, l)
    <3>1. CASE x.mod # l
      BY <1>1, <3>1 DEF Visible
    <3>2. CASE x.mod = l
      <4>1. x.graves = {} /\ \A o \in Objects : x.objs[o] # Absent => ~x.objs[o].pending
        BY <1>6, <3>2 DEF Proper, Visible
      <4>2. ASSUME NEW o \in Objects, y.objs[o] # Absent PROVE ~y.objs[o].pending
        <5>1. x.objs[o] # Absent
          BY <1>c, <4>2
        <5>2. ~x.objs[o].pending
          BY <4>1, <5>1
        <5> QED BY <1>3, <5>1, <5>2
      <4> QED BY <1>1, <4>1, <4>2 DEF Visible
    <3> QED BY <3>1, <3>2
  <2> QED BY <2>1, <2>2 DEF Proper
<1> QED BY <1>0, <1>5, <1>6

\* Forgetting before or after a change is undone comes to the same.
LEMMA ForgetBack ==
    ASSUME NEW c \in Change, NEW x \in Views, NEW D, NEW y, NEW M, Forgot(x, D, y, M), Fits(c, x),
           NEW b, b = Back(c, x)
    PROVE  Fits(c, y) /\ Forgot(b, D, Back(c, y), M)
<1>1. /\ y \in Views /\ y.objs = Looked(M, x.objs) /\ y.graves = x.graves /\ y.mod = x.mod /\ y.kept = M
      /\ \A o \in Objects : x.objs[o] \in Row \cup {Absent}
      /\ \A o \in Objects : y.objs[o] = Look(o, x.objs[o], M)
  BY ForgetIs
<1>2. M \in SUBSET x.kept
  BY DEF Forgot
<1>3. x.objs \in Rows
  BY DEF Views
<1>4. b \in Views
  BY BackIs
<1>5. ASSUME b.kept = x.kept, Back(c, y) = [objs |-> Looked(M, b.objs), graves |-> b.graves, mod |-> b.mod, kept |-> M]
      PROVE  Forgot(b, D, Back(c, y), M)
  <2>1. M = b.kept \ D
    BY <1>5 DEF Forgot
  <2>2. Forget(b, D) = [objs |-> Looked(M, b.objs), graves |-> b.graves, mod |-> b.mod, kept |-> M]
    BY <2>1 DEF Forget
  <2> QED BY <1>5, <2>1, <2>2 DEF Forgot
<1>6. CASE c.type = "Added"
  <2>1. c.obj \in Objects /\ c.row \in Row
    BY <1>6 DEF Change
  <2>2. b = [objs |-> [x.objs EXCEPT ![c.obj] = Absent], graves |-> x.graves, mod |-> x.mod, kept |-> x.kept]
    BY <1>6, BackIs
  <2>3. Back(c, y) = [objs |-> [y.objs EXCEPT ![c.obj] = Absent], graves |-> y.graves, mod |-> y.mod, kept |-> y.kept]
    BY <1>1, <1>6, BackIs
  <2>4. Looked(M, [x.objs EXCEPT ![c.obj] = Absent]) = [Looked(M, x.objs) EXCEPT ![c.obj] = Look(c.obj, Absent, M)]
    <3>1. Absent \in Row \cup {Absent}
      OBVIOUS
    <3> QED BY <1>3, <2>1, <3>1, RowsWithRow
  <2>5. Look(c.obj, Absent, M) = Absent
    BY LookIs
  <2>6. Forgot(b, D, Back(c, y), M)
    BY <1>1, <1>5, <2>2, <2>3, <2>4, <2>5
  <2>7. y.objs[c.obj] = Look(c.obj, c.row, y.kept)
    <3>1. x.objs[c.obj] = Look(c.obj, c.row, x.kept)
      BY <1>6 DEF Fits
    <3>2. c.row \in Row \cup {Absent}
      BY <2>1
    <3>3. Look(c.obj, Look(c.obj, c.row, x.kept), M) = Look(c.obj, c.row, M)
      BY <1>2, <3>2, LookTwice
    <3> QED BY <1>1, <2>1, <3>1, <3>3
  <2> QED BY <1>6, <2>6, <2>7 DEF Fits
<1>7. CASE c.type \in {"Updated", "Removed"}
  <2>1. c.obj \in Objects /\ c.row \in Row
    BY <1>7 DEF Change
  <2> DEFINE r == Look(c.obj, c.row, x.kept)
  <2>a. r \in Row \cup {Absent} /\ Look(c.obj, r, M) = Look(c.obj, c.row, M)
    <3>1. c.row \in Row \cup {Absent}
      BY <2>1
    <3>2. Look(c.obj, Look(c.obj, c.row, x.kept), M) = Look(c.obj, c.row, M)
      BY <1>2, <3>1, LookTwice
    <3> QED BY <3>1, <3>2, LookIs
  <2>2. b = [objs |-> [x.objs EXCEPT ![c.obj] = r], graves |-> x.graves, mod |-> x.mod, kept |-> x.kept]
    BY <1>7, BackIs
  <2>3. Back(c, y) = [objs |-> [y.objs EXCEPT ![c.obj] = Look(c.obj, c.row, y.kept)], graves |-> y.graves, mod |-> y.mod, kept |-> y.kept]
    BY <1>1, <1>7, BackIs
  <2> HIDE DEF r
  <2>4. Looked(M, [x.objs EXCEPT ![c.obj] = r]) = [Looked(M, x.objs) EXCEPT ![c.obj] = Look(c.obj, r, M)]
    BY <1>3, <2>1, <2>a, RowsWithRow
  <2>6. Forgot(b, D, Back(c, y), M)
    BY <1>1, <1>5, <2>2, <2>3, <2>4, <2>a
  <2>7. x.objs[c.obj] = Absent => y.objs[c.obj] = Absent
    BY <1>1, <2>1, LookIs
  <2>8. ASSUME x.objs[c.obj] # Absent PROVE y.objs[c.obj] # Absent
    <3>1. x.objs[c.obj] \in Row /\ y.objs[c.obj] = Look(c.obj, x.objs[c.obj], M)
      BY <1>1, <2>1, <2>8
    <3> QED BY <3>1, LookIs
  <2> QED BY <1>7, <2>6, <2>7, <2>8 DEF Fits
<1>8. CASE c.type \in {"GraveAdded", "GraveRemoved"}
  <2>1. CASE c.type = "GraveAdded"
    <3>1. b = [objs |-> x.objs, graves |-> x.graves \ {c.obj}, mod |-> x.mod, kept |-> x.kept]
      BY <2>1, BackIs
    <3>2. Back(c, y) = [objs |-> y.objs, graves |-> y.graves \ {c.obj}, mod |-> y.mod, kept |-> y.kept]
      BY <1>1, <2>1, BackIs
    <3> QED BY <1>1, <1>5, <2>1, <3>1, <3>2 DEF Fits
  <2>2. CASE c.type = "GraveRemoved"
    <3>1. b = [objs |-> x.objs, graves |-> x.graves \cup {c.obj}, mod |-> x.mod, kept |-> x.kept]
      BY <2>2, BackIs
    <3>2. Back(c, y) = [objs |-> y.objs, graves |-> y.graves \cup {c.obj}, mod |-> y.mod, kept |-> y.kept]
      BY <1>1, <2>2, BackIs
    <3> QED BY <1>1, <1>5, <2>2, <3>1, <3>2 DEF Fits
  <2> QED BY <1>8, <2>1, <2>2
<1>9. CASE c.type = "Modified"
  <2>1. b = [objs |-> x.objs, graves |-> x.graves, mod |-> c.time, kept |-> x.kept]
    BY <1>9, BackIs
  <2>2. Back(c, y) = [objs |-> y.objs, graves |-> y.graves, mod |-> c.time, kept |-> y.kept]
    BY <1>1, <1>9, BackIs
  <2> QED BY <1>1, <1>5, <1>9, <2>1, <2>2 DEF Fits
<1> QED BY <1>6, <1>7, <1>8, <1>9, ChangeParts

\* So changes that lead back from one view to another do so when both forget.
LEMMA RevertsForget ==
    ASSUME NEW changes \in Seq(Change), NEW x, NEW y, Reverts(changes, x, y), NEW D
    PROVE  Reverts(changes, Forget(x, D), Forget(y, D))
<1>1. PICK h : Trace(changes, x, h) /\ h[1] = y
  BY DEF Reverts
<1> DEFINE n == Len(changes)
           k == [i \in 1..(n + 1) |-> Forget(h[i], D)]
<1>2. /\ h \in [1..(n + 1) -> Views] /\ h[n + 1] = x
      /\ \A i \in 1..n : Fits(changes[i], h[i + 1]) /\ h[i] = Back(changes[i], h[i + 1])
  BY <1>1 DEF Trace
<1>3. n \in Nat /\ \A i \in 1..n : changes[i] \in Change
  OBVIOUS
<1> HIDE DEF n
<1>4. ASSUME NEW i \in 1..(n + 1) PROVE Forget(h[i], D) \in Views
  <2>1. h[i] \in Views
    BY <1>2
  <2>2. Forgot(h[i], D, Forget(h[i], D), h[i].kept \ D)
    BY DEF Forgot
  <2> QED BY <2>1, <2>2, ForgetIs
<1>5. k \in [1..(n + 1) -> Views] /\ k[n + 1] = Forget(x, D) /\ k[1] = Forget(y, D)
  BY <1>1, <1>2, <1>3, <1>4
<1>6. \A i \in 1..(n + 1) : k[i] = Forget(h[i], D)
  OBVIOUS
<1> HIDE DEF k
<1>7. ASSUME NEW i \in 1..n PROVE Fits(changes[i], k[i + 1]) /\ k[i] = Back(changes[i], k[i + 1])
  <2>1. i \in 1..(n + 1) /\ i + 1 \in 1..(n + 1)
    BY <1>3
  <2>2. h[i + 1] \in Views /\ changes[i] \in Change /\ Fits(changes[i], h[i + 1]) /\ h[i] = Back(changes[i], h[i + 1])
    BY <1>2, <1>3, <2>1
  <2>3. Forgot(h[i + 1], D, k[i + 1], h[i + 1].kept \ D)
    BY <1>6, <2>1 DEF Forgot
  <2>4. Fits(changes[i], k[i + 1]) /\ Forgot(h[i], D, Back(changes[i], k[i + 1]), h[i + 1].kept \ D)
    BY <2>2, <2>3, ForgetBack
  <2> QED BY <1>6, <2>1, <2>4 DEF Forgot
<1>8. Trace(changes, Forget(x, D), k)
  BY <1>5, <1>7 DEF Trace, n
<1> QED BY <1>5, <1>8 DEF Reverts

\* A line is a line when all its views forget.
LEMMA LinedForget ==
    ASSUME NEW steps \in Seq(UndoableOp), NEW l, NEW x, NEW p, Lined(steps, x, l, p), NEW D
    PROVE  Lined(steps, Forget(x, D), l, p)
<1>1. PICK line : IsLine(steps, x, l, line) /\ Past(steps, line) = p
  BY DEF Lined
<1> DEFINE n == Len(steps)
           k == [i \in 0..n |-> Forget(line[i], D)]
<1>2. /\ line \in [0..n -> Views] /\ line[0] = x
      /\ \A i \in 1..n : Reverts(steps[i].changes, line[i - 1], line[i])
      /\ \A i \in 0..n : Proper(line[i], l)
  BY <1>1 DEF IsLine
<1>3. n \in Nat /\ \A i \in 1..n : steps[i].changes \in Seq(Change)
  BY StepChanges
<1> HIDE DEF n
<1>4. ASSUME NEW i \in 0..n
      PROVE  /\ Forget(line[i], D) \in Views
             /\ Proper(Forget(line[i], D), l)
             /\ Seen(Forget(line[i], D)) = Seen(line[i])
  <2>1. line[i] \in Views /\ Proper(line[i], l)
    BY <1>2
  <2>2. Forgot(line[i], D, Forget(line[i], D), line[i].kept \ D)
    BY DEF Forgot
  <2>3. Forget(line[i], D) \in Views
    BY <2>1, <2>2, ForgetIs
  <2> QED BY <2>1, <2>3, ForgetProper
<1>5. k \in [0..n -> Views] /\ k[0] = Forget(x, D) /\ \A i \in 0..n : k[i] = Forget(line[i], D)
  BY <1>2, <1>3, <1>4
<1> HIDE DEF k
<1>6. ASSUME NEW i \in 1..n PROVE Reverts(steps[i].changes, k[i - 1], k[i])
  <2>1. i \in 0..n /\ i - 1 \in 0..n
    BY <1>3
  <2>2. Reverts(steps[i].changes, line[i - 1], line[i]) /\ steps[i].changes \in Seq(Change)
    BY <1>2, <1>3
  <2>3. Reverts(steps[i].changes, Forget(line[i - 1], D), Forget(line[i], D))
    BY <2>2, RevertsForget
  <2> QED BY <1>5, <2>1, <2>3
<1>7. \A i \in 0..n : Proper(k[i], l)
  BY <1>4, <1>5
<1>8. IsLine(steps, Forget(x, D), l, k)
  BY <1>5, <1>6, <1>7 DEF IsLine, n
<1>9. Past(steps, k) = Past(steps, line)
  <2>1. ASSUME NEW i \in 1..n PROVE Seen(k[i]) = Seen(line[i])
    <3>1. i \in 0..n
      BY <1>3
    <3> QED BY <1>4, <1>5, <3>1
  <2> QED BY <2>1 DEF Past, n
<1> QED BY <1>1, <1>8, <1>9 DEF Lined

\* The user sees the same, and with an mtime that differs from l all is visible.
LEMMA StampIs ==
    ASSUME NEW x \in Views, NEW m \in Nat, NEW l, m # l, Proper(x, l), NEW y, y = Stamp(x, m)
    PROVE  y \in Views /\ Proper(y, l) /\ Seen(y) = Seen(x)
<1>1. y = [objs |-> x.objs, graves |-> x.graves, mod |-> m, kept |-> x.kept]
  BY DEF Stamp
<1>2. y \in Views
  BY <1>1 DEF Views
<1>3. y.objs = x.objs /\ y.graves = x.graves /\ y.mod = m
  BY <1>1
<1>4. Sound(y) /\ Visible(y, l)
  BY <1>3 DEF Proper, Sound, Visible
<1>5. Seen(y) = Seen(x)
  BY <1>3 DEF Seen
<1> QED BY <1>2, <1>4, <1>5 DEF Proper

\* Undoing a change at another time restores the same rows; one that is a change
\* of the mtime, the same time.
LEMMA StampBack ==
    ASSUME NEW c \in Change, NEW x \in Views, NEW m \in Nat, Fits(c, x), NEW y, y = Stamp(x, m)
    PROVE  /\ Fits(c, y)
           /\ c.type = "Modified" => Back(c, y) = Back(c, x)
           /\ c.type # "Modified" => Back(c, y) = Stamp(Back(c, x), m)
<1>1. y = [objs |-> x.objs, graves |-> x.graves, mod |-> m, kept |-> x.kept]
  BY DEF Stamp
<1>2. y \in Views
  BY <1>1 DEF Views
<1>3. y.objs = x.objs /\ y.graves = x.graves /\ y.mod = m /\ y.kept = x.kept
  BY <1>1
<1>4. Fits(c, y)
  BY <1>3 DEF Fits
<1>5. CASE c.type = "Added"
  <2>1. Back(c, x) = [objs |-> [x.objs EXCEPT ![c.obj] = Absent], graves |-> x.graves, mod |-> x.mod, kept |-> x.kept]
    BY <1>5, BackIs
  <2>2. Back(c, y) = [objs |-> [x.objs EXCEPT ![c.obj] = Absent], graves |-> x.graves, mod |-> m, kept |-> x.kept]
    BY <1>2, <1>3, <1>5, BackIs
  <2> QED BY <1>4, <1>5, <2>1, <2>2 DEF Stamp
<1>6. CASE c.type \in {"Updated", "Removed"}
  <2>1. Back(c, x) = [objs |-> [x.objs EXCEPT ![c.obj] = Look(c.obj, c.row, x.kept)], graves |-> x.graves, mod |-> x.mod, kept |-> x.kept]
    BY <1>6, BackIs
  <2>2. Back(c, y) = [objs |-> [x.objs EXCEPT ![c.obj] = Look(c.obj, c.row, x.kept)], graves |-> x.graves, mod |-> m, kept |-> x.kept]
    BY <1>2, <1>3, <1>6, BackIs
  <2> QED BY <1>4, <1>6, <2>1, <2>2 DEF Stamp
<1>7. CASE c.type = "GraveAdded"
  <2>1. Back(c, x) = [objs |-> x.objs, graves |-> x.graves \ {c.obj}, mod |-> x.mod, kept |-> x.kept]
    BY <1>7, BackIs
  <2>2. Back(c, y) = [objs |-> x.objs, graves |-> x.graves \ {c.obj}, mod |-> m, kept |-> x.kept]
    BY <1>2, <1>3, <1>7, BackIs
  <2> QED BY <1>4, <1>7, <2>1, <2>2 DEF Stamp
<1>8. CASE c.type = "GraveRemoved"
  <2>1. Back(c, x) = [objs |-> x.objs, graves |-> x.graves \cup {c.obj}, mod |-> x.mod, kept |-> x.kept]
    BY <1>8, BackIs
  <2>2. Back(c, y) = [objs |-> x.objs, graves |-> x.graves \cup {c.obj}, mod |-> m, kept |-> x.kept]
    BY <1>2, <1>3, <1>8, BackIs
  <2> QED BY <1>4, <1>8, <2>1, <2>2 DEF Stamp
<1>9. CASE c.type = "Modified"
  <2>1. Back(c, x) = [objs |-> x.objs, graves |-> x.graves, mod |-> c.time, kept |-> x.kept]
    BY <1>9, BackIs
  <2>2. Back(c, y) = [objs |-> x.objs, graves |-> x.graves, mod |-> c.time, kept |-> x.kept]
    BY <1>2, <1>3, <1>9, BackIs
  <2> QED BY <1>4, <1>9, <2>1, <2>2
<1> QED BY <1>5, <1>6, <1>7, <1>8, <1>9, ChangeParts

\* Every step that changes anything restores an mtime.
Restamps(changes) == changes # <<>> => \E i \in 1..Len(changes) : changes[i].type = "Modified"

\* No changes lead nowhere else.
LEMMA RevertsEmpty ==
    ASSUME NEW x, NEW y, Reverts(<<>>, x, y)
    PROVE  x = y
<1>1. PICK h : Trace(<<>>, x, h) /\ h[1] = y
  BY DEF Reverts
<1>2. Len(<<>>) + 1 = 1
  OBVIOUS
<1> QED BY <1>1, <1>2 DEF Trace

\* Such changes lead back to the same view from a later time.
LEMMA RevertsStamped ==
    ASSUME NEW changes \in Seq(Change), NEW x, NEW y, Reverts(changes, x, y),
           changes # <<>>, Restamps(changes), NEW m \in Nat
    PROVE  Reverts(changes, Stamp(x, m), y)
<1>1. PICK h : Trace(changes, x, h) /\ h[1] = y
  BY DEF Reverts
<1> DEFINE n == Len(changes)
           Later(i) == \E j \in i..n : changes[j].type = "Modified"
           k == [i \in 1..(n + 1) |-> IF Later(i) THEN h[i] ELSE Stamp(h[i], m)]
<1>2. /\ h \in [1..(n + 1) -> Views] /\ h[n + 1] = x
      /\ \A i \in 1..n : Fits(changes[i], h[i + 1]) /\ h[i] = Back(changes[i], h[i + 1])
  BY <1>1 DEF Trace
<1>3. n \in Nat /\ (\A i \in 1..n : changes[i] \in Change) /\ Later(1)
  BY DEF Restamps
<1> HIDE DEF n
<1>4. ~Later(n + 1)
  BY <1>3
<1>5. ASSUME NEW i \in 1..n PROVE Later(i) <=> (changes[i].type = "Modified" \/ Later(i + 1))
  <2>1. ASSUME NEW j \in i..n PROVE j = i \/ j \in (i + 1)..n
    BY <1>3
  <2>2. i \in i..n /\ \A j \in (i + 1)..n : j \in i..n
    BY <1>3
  <2> QED BY <2>1, <2>2
<1>6. ASSUME NEW z \in Views PROVE Stamp(z, m) \in Views
  BY DEF Stamp, Views
<1>7. k \in [1..(n + 1) -> Views] /\ \A i \in 1..(n + 1) : k[i] = IF Later(i) THEN h[i] ELSE Stamp(h[i], m)
  <2> HIDE DEF Later
  <2> QED BY <1>2, <1>6
<1>8. k[n + 1] = Stamp(x, m) /\ k[1] = y
  <2>1. n + 1 \in 1..(n + 1) /\ 1 \in 1..(n + 1)
    BY <1>3
  <2> HIDE DEF Later, k
  <2> QED BY <1>1, <1>2, <1>3, <1>4, <1>7, <2>1
<1> HIDE DEF k
<1>9. ASSUME NEW i \in 1..n PROVE Fits(changes[i], k[i + 1]) /\ k[i] = Back(changes[i], k[i + 1])
  <2>1. i \in 1..(n + 1) /\ i + 1 \in 1..(n + 1)
    BY <1>3
  <2>2. /\ h[i + 1] \in Views /\ changes[i] \in Change /\ Fits(changes[i], h[i + 1])
        /\ h[i] = Back(changes[i], h[i + 1])
    BY <1>2, <1>3, <2>1
  <2>3. Later(i) <=> (changes[i].type = "Modified" \/ Later(i + 1))
    BY <1>5
  <2> HIDE DEF Later
  <2>4. CASE Later(i + 1)
    <3>1. k[i + 1] = h[i + 1] /\ k[i] = h[i]
      BY <1>7, <2>1, <2>3, <2>4
    <3> QED BY <2>2, <3>1
  <2>5. CASE ~Later(i + 1)
    <3>1. k[i + 1] = Stamp(h[i + 1], m)
      BY <1>7, <2>1, <2>5
    <3>2. /\ Fits(changes[i], k[i + 1])
          /\ changes[i].type = "Modified" => Back(changes[i], k[i + 1]) = h[i]
          /\ changes[i].type # "Modified" => Back(changes[i], k[i + 1]) = Stamp(h[i], m)
      BY <2>2, <3>1, StampBack
    <3>3. k[i] = IF changes[i].type = "Modified" THEN h[i] ELSE Stamp(h[i], m)
      BY <1>7, <2>1, <2>3, <2>5
    <3> QED BY <3>2, <3>3
  <2> QED BY <2>4, <2>5
<1>10. Trace(changes, Stamp(x, m), k)
  BY <1>7, <1>8, <1>9 DEF Trace, n
<1> QED BY <1>8, <1>10 DEF Reverts

\* A line is a line when it begins at a later time: the first step that changes
\* anything restores the mtime it saved.
LEMMA LinedStamp ==
    ASSUME NEW steps \in Seq(UndoableOp), \A i \in 1..Len(steps) : Restamps(steps[i].changes),
           NEW l, NEW x, NEW p, Lined(steps, x, l, p), NEW m \in Nat, m # l
    PROVE  Lined(steps, Stamp(x, m), l, p)
<1>1. PICK line : IsLine(steps, x, l, line) /\ Past(steps, line) = p
  BY DEF Lined
<1> DEFINE n == Len(steps)
           Earlier(i) == \E j \in 1..i : steps[j].changes # <<>>
           k == [i \in 0..n |-> IF Earlier(i) THEN line[i] ELSE Stamp(line[i], m)]
<1>2. /\ line \in [0..n -> Views] /\ line[0] = x
      /\ \A i \in 1..n : Reverts(steps[i].changes, line[i - 1], line[i])
      /\ \A i \in 0..n : Proper(line[i], l)
  BY <1>1 DEF IsLine
<1>3. n \in Nat /\ \A i \in 1..n : steps[i].changes \in Seq(Change) /\ Restamps(steps[i].changes)
  BY StepChanges
<1> HIDE DEF n
<1>4. ~Earlier(0)
  OBVIOUS
<1>5. ASSUME NEW i \in 1..n PROVE Earlier(i) <=> (steps[i].changes # <<>> \/ Earlier(i - 1))
  <2>1. ASSUME NEW j \in 1..i PROVE j = i \/ j \in 1..(i - 1)
    BY <1>3
  <2>2. i \in 1..i /\ \A j \in 1..(i - 1) : j \in 1..i
    BY <1>3
  <2> QED BY <2>1, <2>2
<1>6. ASSUME NEW i \in 0..n
      PROVE  /\ Stamp(line[i], m) \in Views
             /\ Proper(Stamp(line[i], m), l)
             /\ Seen(Stamp(line[i], m)) = Seen(line[i])
  BY <1>2, StampIs
<1>7. k \in [0..n -> Views] /\ \A i \in 0..n : k[i] = IF Earlier(i) THEN line[i] ELSE Stamp(line[i], m)
  <2> HIDE DEF Earlier
  <2> QED BY <1>2, <1>6
<1> HIDE DEF k
<1>8. k[0] = Stamp(x, m)
  <2>1. 0 \in 0..n
    BY <1>3
  <2> HIDE DEF Earlier
  <2> QED BY <1>2, <1>4, <1>7, <2>1
<1>9. ASSUME NEW i \in 1..n PROVE Reverts(steps[i].changes, k[i - 1], k[i])
  <2>1. i \in 0..n /\ i - 1 \in 0..n
    BY <1>3
  <2>2. Earlier(i) <=> (steps[i].changes # <<>> \/ Earlier(i - 1))
    BY <1>5
  <2>3. Reverts(steps[i].changes, line[i - 1], line[i]) /\ steps[i].changes \in Seq(Change) /\ Restamps(steps[i].changes)
    BY <1>2, <1>3
  <2> HIDE DEF Earlier
  <2>4. CASE Earlier(i - 1)
    BY <1>7, <2>1, <2>2, <2>3, <2>4
  <2>5. CASE ~Earlier(i - 1) /\ steps[i].changes # <<>>
    <3>1. k[i - 1] = Stamp(line[i - 1], m) /\ k[i] = line[i]
      BY <1>7, <2>1, <2>2, <2>5
    <3> QED BY <2>3, <2>5, <3>1, RevertsStamped
  <2>6. CASE ~Earlier(i - 1) /\ steps[i].changes = <<>>
    <3>1. k[i - 1] = Stamp(line[i - 1], m) /\ k[i] = Stamp(line[i], m)
      BY <1>7, <2>1, <2>2, <2>6
    <3>2. line[i] = line[i - 1]
      BY <2>3, <2>6, RevertsEmpty
    <3>3. Reverts(<<>>, k[i], k[i])
      BY <1>7, <2>1, RevertsNothing
    <3> QED BY <2>6, <3>1, <3>2, <3>3
  <2> QED BY <2>4, <2>5, <2>6
<1>10. ASSUME NEW i \in 0..n PROVE Proper(k[i], l) /\ Seen(k[i]) = Seen(line[i])
  BY <1>2, <1>6, <1>7
<1>11. IsLine(steps, Stamp(x, m), l, k)
  BY <1>7, <1>8, <1>9, <1>10 DEF IsLine, n
<1>12. Past(steps, k) = Past(steps, line)
  <2>1. ASSUME NEW i \in 1..n PROVE Seen(k[i]) = Seen(line[i])
    <3>1. i \in 0..n
      BY <1>3
    <3> QED BY <1>10, <3>1
  <2> QED BY <2>1 DEF Past, n
<1> QED BY <1>1, <1>11, <1>12 DEF Lined

-----------------------------------------------------------------------------
(* Joining and reversing sequences.                                         *)

\* Concatenating non-empty many sequences, one after the other.
Joins(q, g, S) ==
    /\ g \in [1..Len(q) -> Seq(S)]
    /\ g[1] = q[1]
    /\ \A i \in 2..Len(q) : g[i] = g[i - 1] \o q[i]

\* FlattenSeq joins its sequences one after the other.
LEMMA FlattenJoins ==
    ASSUME NEW S, NEW q \in Seq(Seq(S)), q # <<>>
    PROVE  \E g : Joins(q, g, S) /\ FlattenSeq(q) = g[Len(q)]
<1> DEFINE n == Len(q)
           F == [i \in 1..n |-> [v \in Seq(S) |-> v \o q[i]]]
<1>1. n \in Nat /\ n # 0 /\ \A i \in 1..n : q[i] \in Seq(S)
  OBVIOUS
<1> HIDE DEF n
<1>2. F \in [1..n -> [Seq(S) -> Seq(S)]]
  <2>1. \A i \in 1..n, v \in Seq(S) : v \o q[i] \in Seq(S)
    BY <1>1, ConcatProperties
  <2> QED BY <2>1
<1>3. \A i \in 1..n, v \in Seq(S) : F[i][v] = v \o q[i]
  OBVIOUS
<1> HIDE DEF F
<1>4. PICK k \in [0..n -> Seq(S)] : k[0] = <<>> /\ \A i \in 1..n : k[i] = F[i][k[i - 1]]
  <2>1. <<>> \in Seq(S)
    OBVIOUS
  <2>2. \E k : IsRun(k, n, Seq(S), <<>>, F)
    BY <1>1, <1>2, <2>1, RunExists
  <2> QED BY <2>2 DEF IsRun
<1>5. ASSUME NEW i \in 1..n PROVE k[i] = k[i - 1] \o q[i]
  <2>1. i - 1 \in 0..n
    BY <1>1
  <2> QED BY <1>3, <1>4, <2>1
<1> DEFINE g == [i \in 1..n |-> k[i]]
<1>6. g \in [1..n -> Seq(S)] /\ \A i \in 1..n : g[i] = k[i]
  <2>1. \A i \in 1..n : i \in 0..n
    OBVIOUS
  <2> QED BY <1>4, <2>1
<1> HIDE DEF g
<1>7. g[1] = q[1]
  <2>1. 1 \in 1..n /\ 1 - 1 = 0
    BY <1>1
  <2>2. k[1] = <<>> \o q[1]
    BY <1>4, <1>5, <2>1
  <2>3. q[1] \in Seq(S)
    BY <1>1, <2>1
  <2>4. <<>> \o q[1] = q[1]
    BY <2>3, ConcatEmptySeq
  <2> QED BY <1>6, <2>1, <2>2, <2>4
<1>8. ASSUME NEW i \in 2..n PROVE g[i] = g[i - 1] \o q[i]
  <2>1. i \in 1..n /\ i - 1 \in 1..n
    BY <1>1
  <2> QED BY <1>5, <1>6, <2>1
<1>9. Joins(q, g, S)
  BY <1>6, <1>7, <1>8 DEF Joins, n
<1> DEFINE Body(f) == [i \in 1..n |-> IF i = 1 THEN q[i] ELSE f[i - 1] \o q[i]]
           flatten == CHOOSE f : f = Body(f)
<1>10. FlattenSeq(q) = flatten[n]
  BY <1>1 DEF FlattenSeq, n
<1>11. g = Body(g)
  <2>1. ASSUME NEW i \in 1..n PROVE g[i] = IF i = 1 THEN q[i] ELSE g[i - 1] \o q[i]
    <3>1. CASE i = 1
      BY <1>7, <3>1
    <3>2. CASE i # 1
      <4>1. i \in 2..n
        BY <1>1, <3>2
      <4> QED BY <1>8, <3>2, <4>1
    <3> QED BY <3>1, <3>2
  <2> QED BY <1>6, <2>1
<1>12. flatten = Body(flatten)
  <2> HIDE DEF Body
  <2> QED BY <1>11
<1> HIDE DEF flatten
<1>13. \A i \in 1..n : flatten[i] = IF i = 1 THEN q[i] ELSE flatten[i - 1] \o q[i]
  BY <1>12
<1> HIDE DEF Body
<1> DEFINE D == {j \in 1..n : flatten[j] # g[j]}
<1>14. D = {}
  <2> SUFFICES ASSUME D # {} PROVE FALSE
    OBVIOUS
  <2>1. PICK j \in D : \A m \in Nat : m < j => m \notin D
    <3>1. D \in SUBSET Nat
      OBVIOUS
    <3> HIDE DEF D
    <3> QED BY <3>1, LeastOf
  <2>2. j \in 1..n /\ flatten[j] # g[j]
    OBVIOUS
  <2>3. j # 1
    BY <1>7, <1>13, <2>2
  <2>4. j \in 2..n /\ j - 1 \in 1..n /\ j - 1 < j /\ j - 1 \in Nat
    BY <1>1, <2>2, <2>3
  <2>5. j - 1 \notin D
    <3> HIDE DEF D
    <3> QED BY <2>1, <2>4
  <2>6. flatten[j - 1] = g[j - 1]
    BY <2>4, <2>5
  <2> QED BY <1>8, <1>13, <2>2, <2>3, <2>4, <2>6
<1>15. n \in 1..n
  BY <1>1
<1>16. flatten[n] = g[n]
  BY <1>14, <1>15
<1> QED BY <1>9, <1>10, <1>16 DEF n

-----------------------------------------------------------------------------
\* Reversal, with an element appended and without the last.
LEMMA ReverseIs ==
    ASSUME NEW S, NEW s \in Seq(S)
    PROVE  /\ Reverse(s) \in Seq(S) /\ Len(Reverse(s)) = Len(s)
           /\ Reverse(s) = [i \in 1..Len(s) |-> s[Len(s) + 1 - i]]
<1> DEFINE n == Len(s)
<1>1. n \in Nat /\ \A i \in 1..n : s[i] \in S
  OBVIOUS
<1> HIDE DEF n
<1>2. \A i \in 1..n : (n - i) + 1 = n + 1 - i /\ n + 1 - i \in 1..n
  BY <1>1
<1> DEFINE r == [i \in 1..n |-> s[n + 1 - i]]
<1>3. Reverse(s) = r
  BY <1>2 DEF Reverse, n
<1>4. r \in [1..n -> S]
  BY <1>1, <1>2
<1> HIDE DEF r
<1>5. r \in Seq(S) /\ Len(r) = n
  BY <1>1, <1>4, FunctionIsSeq
<1> QED BY <1>3, <1>5 DEF n, r

LEMMA ReverseAppend ==
    ASSUME NEW S, NEW s \in Seq(S), NEW e \in S
    PROVE  Reverse(Append(s, e)) = <<e>> \o Reverse(s)
<1> DEFINE a == Append(s, e)
           n == Len(s)
<1>1. /\ n \in Nat /\ a \in Seq(S) /\ Len(a) = n + 1 /\ a[n + 1] = e
      /\ \A i \in 1..n : a[i] = s[i]
  OBVIOUS
<1> DEFINE r == Reverse(s)
<1>2. r \in Seq(S) /\ Len(r) = n /\ r = [i \in 1..n |-> s[n + 1 - i]]
  BY ReverseIs
<1> HIDE DEF a, n, r
<1>3. Reverse(a) = [i \in 1..(n + 1) |-> a[(n + 1) + 1 - i]]
  BY <1>1, ReverseIs
<1>4. <<e>> \o r = [i \in 1..(n + 1) |-> IF i = 1 THEN e ELSE r[i - 1]]
  <2>1. r \in Seq(S)
    BY <1>2
  <2>2. <<e>> \o r = [i \in 1..(Len(r) + 1) |-> IF i = 1 THEN e ELSE r[i - 1]]
    BY <2>1, ConsIs
  <2> QED BY <1>2, <2>2
<1>5. ASSUME NEW i \in 1..(n + 1)
      PROVE  a[(n + 1) + 1 - i] = IF i = 1 THEN e ELSE r[i - 1]
  <2>1. CASE i = 1
    <3>1. (n + 1) + 1 - 1 = n + 1
      BY <1>1
    <3> QED BY <1>1, <2>1, <3>1
  <2>2. CASE i # 1
    <3> DEFINE j == i - 1
    <3>1. j \in 1..n /\ (n + 1) + 1 - i = n + 1 - j /\ n + 1 - j \in 1..n
      BY <1>1, <2>2
    <3> HIDE DEF j
    <3>2. r[j] = s[n + 1 - j] /\ a[n + 1 - j] = s[n + 1 - j]
      BY <1>1, <1>2, <3>1
    <3> QED BY <2>2, <3>1, <3>2 DEF j
  <2> QED BY <2>1, <2>2
<1> QED BY <1>3, <1>4, <1>5 DEF a, r

LEMMA ReverseFront ==
    ASSUME NEW S, NEW s \in Seq(S), s # <<>>
    PROVE  /\ Front(s) \in Seq(S) /\ Len(Front(s)) = Len(s) - 1
           /\ Last(s) \in S
           /\ Reverse(s) = <<Last(s)>> \o Reverse(Front(s))
<1> DEFINE f == Front(s)
           e == Last(s)
           n == Len(s)
<1>1. n \in Nat /\ n # 0 /\ n - 1 \in Nat /\ n - 1 <= n
  OBVIOUS
<1>2. f \in Seq(S) /\ Len(f) = n - 1 /\ f = [i \in 1..(n - 1) |-> s[i]]
  <2> DEFINE k == n - 1
  <2>1. f = SubSeq(s, 1, k)
    BY DEF Front
  <2>2. k \in Nat /\ k <= Len(s)
    BY <1>1
  <2> HIDE DEF f, k
  <2>3. f \in Seq(S) /\ Len(f) = k /\ f = [i \in 1..k |-> s[i]]
    BY <2>1, <2>2, FirstIs
  <2> QED BY <2>3 DEF k
<1>3. e \in S /\ e = s[n]
  BY <1>1 DEF Last
<1>4. s = Append(f, e)
  <2> DEFINE a == Append(f, e)
  <2> HIDE DEF f, e
  <2>1. a \in Seq(S) /\ Len(a) = n /\ a[n] = e /\ \A i \in 1..(n - 1) : a[i] = f[i]
    <3>1. (n - 1) + 1 = n /\ f \in Seq(S) /\ Len(f) = n - 1
      BY <1>1, <1>2
    <3>2. a \in Seq(S) /\ Len(a) = Len(f) + 1 /\ a[Len(f) + 1] = e /\ \A i \in 1..Len(f) : a[i] = f[i]
      <4>1. f \in Seq(S) /\ e \in S
        BY <1>3, <3>1
      <4> HIDE DEF n
      <4> QED BY <4>1
    <3> HIDE DEF a, n
    <3>3. Len(f) + 1 = n /\ 1..Len(f) = 1..(n - 1)
      BY <1>1, <3>1
    <3> QED BY <3>2, <3>3
  <2> HIDE DEF a, n
  <2>2. ASSUME NEW i \in 1..n PROVE s[i] = a[i]
    <3>1. CASE i = n
      BY <1>3, <2>1, <3>1
    <3>2. CASE i # n
      <4>1. i \in 1..(n - 1)
        BY <1>1, <3>2
      <4> QED BY <1>2, <2>1, <4>1
    <3> QED BY <3>1, <3>2
  <2>3. s = a
    BY <2>1, <2>2, SeqEqual DEF n
  <2> QED BY <2>3 DEF a
<1> HIDE DEF f, e, n
<1>5. Reverse(Append(f, e)) = <<e>> \o Reverse(f)
  BY <1>2, <1>3, ReverseAppend
<1>6. Reverse(s) = <<e>> \o Reverse(f)
  BY <1>4, <1>5
<1> QED BY <1>2, <1>3, <1>6 DEF f, e, n

\* The elements behind the first m.
LEMMA LastIs ==
    ASSUME NEW S, NEW s \in Seq(S), NEW m \in Nat, m <= Len(s)
    PROVE  /\ SubSeq(s, m + 1, Len(s)) \in Seq(S) /\ Len(SubSeq(s, m + 1, Len(s))) = Len(s) - m
           /\ SubSeq(s, m + 1, Len(s)) = [i \in 1..(Len(s) - m) |-> s[m + i]]
<1> DEFINE n == Len(s)
           t == SubSeq(s, m + 1, n)
<1>1. n \in Nat /\ n - m \in Nat
  OBVIOUS
<1>2. t \in Seq(S) /\ Len(t) = n - m /\ \A i \in 1..(n - m) : t[i] = s[m + i]
  BY <1>1
<1> HIDE DEF t, n
<1>3. DOMAIN t = 1..(n - m) /\ t = [i \in DOMAIN t |-> t[i]]
  BY <1>1, <1>2
<1>4. t = [i \in 1..(n - m) |-> s[m + i]]
  BY <1>2, <1>3
<1> QED BY <1>2, <1>4 DEF t, n

-----------------------------------------------------------------------------
(* Merging steps.                                                           *)

\* Steps whose queue an undo, or a redo, takes them from.
UndoSteps == {s \in UndoableOp : /\ s.kind # "SkipUndo"
                                 /\ s.changes = <<>> => s.kind = "Custom"
                                 /\ LastModified(s.changes)}

\* The steps that a redo queue can hold.
RedoSteps == {s \in UndoableOp : /\ s.kind # "SkipUndo"
                                 /\ s.changes = <<>> => s.kind = "Custom"
                                 /\ FirstModified(s.changes)}

\* Changes of undo steps joined are changes of an undo step.
LEMMA ModifiedJoin ==
    ASSUME NEW a \in Seq(Change), NEW b \in Seq(Change), LastModified(a), LastModified(b)
    PROVE  /\ LastModified(a \o b)
           /\ a \o b \in Seq(Change)
           /\ a \o b = <<>> => a = <<>>
<1> DEFINE c == a \o b
           m == Len(a)
           n == Len(b)
<1>1. /\ c \in Seq(Change) /\ Len(c) = m + n /\ m \in Nat /\ n \in Nat
      /\ \A i \in 1..(m + n) : c[i] = IF i <= m THEN a[i] ELSE b[i - m]
  BY ConcatProperties
<1>2. (c = <<>> <=> m + n = 0) /\ (a = <<>> <=> m = 0) /\ (b = <<>> <=> n = 0)
  BY <1>1
<1>3. (m # 0 => a[m].type = "Modified") /\ (n # 0 => b[n].type = "Modified")
  BY <1>2 DEF LastModified
<1> HIDE DEF c, m, n
<1>4. ASSUME c # <<>> PROVE c[m + n].type = "Modified"
  <2>1. m + n # 0 /\ m + n \in 1..(m + n)
    BY <1>1, <1>2, <1>4
  <2>2. CASE n = 0
    <3>1. m + n <= m /\ m + n = m /\ m # 0
      BY <1>1, <2>1, <2>2
    <3>2. c[m + n] = a[m]
      BY <1>1, <2>1, <3>1
    <3> QED BY <1>3, <3>1, <3>2
  <2>3. CASE n # 0
    <3>1. ~(m + n <= m) /\ (m + n) - m = n
      BY <1>1, <2>3
    <3>2. c[m + n] = b[n]
      BY <1>1, <2>1, <3>1
    <3> QED BY <1>3, <2>3, <3>2
  <2> QED BY <2>2, <2>3
<1>5. LastModified(c)
  BY <1>1, <1>4 DEF LastModified
<1>6. c = <<>> => a = <<>>
  BY <1>1, <1>2
<1> QED BY <1>1, <1>5, <1>6 DEF c

\* The changes that merging the first i steps gives.
MergedChanges(steps, i) == FlattenSeq([j \in 1..i |-> steps[i + 1 - j].changes])

\* What the merged changes of the first i steps are.
Merges(changes, steps, i) ==
    /\ changes \in Seq(Change)
    /\ LastModified(changes)
    /\ changes = <<>> => steps[i].changes = <<>>

\* The merged changes lead back as far as the i steps did.
LEMMA MergedReverts ==
    ASSUME NEW steps \in Seq(UndoSteps), NEW x, NEW l, NEW line, IsLine(steps, x, l, line),
           NEW i \in 1..Len(steps)
    PROVE  /\ Merges(MergedChanges(steps, i), steps, i)
           /\ Reverts(MergedChanges(steps, i), x, line[i])
<1> DEFINE n == Len(steps)
           q == [j \in 1..i |-> steps[i + 1 - j].changes]
<1>1. n \in Nat /\ i \in Nat /\ i # 0 /\ i <= n
  OBVIOUS
<1>2. \A j \in 1..n : steps[j].changes \in Seq(Change) /\ LastModified(steps[j].changes)
  <2>1. \A j \in 1..n : steps[j] \in UndoSteps
    OBVIOUS
  <2> HIDE DEF n
  <2> QED BY <2>1 DEF UndoSteps, UndoableOp
<1>3. line[0] = x /\ \A j \in 1..n : Reverts(steps[j].changes, line[j - 1], line[j])
  BY DEF IsLine
<1> HIDE DEF n
<1>4. \A j \in 1..i : i + 1 - j \in 1..n
  BY <1>1
<1>5. \A j \in 1..i : q[j] = steps[i + 1 - j].changes
  OBVIOUS
<1>6. q \in Seq(Seq(Change)) /\ Len(q) = i /\ q # <<>>
  <2>1. q \in [1..i -> Seq(Change)]
    BY <1>2, <1>4
  <2> HIDE DEF q
  <2>2. q \in Seq(Seq(Change)) /\ Len(q) = i
    BY <1>1, <2>1, FunctionIsSeq
  <2> QED BY <1>1, <2>2
<1>7. MergedChanges(steps, i) = FlattenSeq(q)
  BY DEF MergedChanges
<1> HIDE DEF q
<1>8. PICK g : Joins(q, g, Change) /\ FlattenSeq(q) = g[Len(q)]
  BY <1>6, FlattenJoins
<1>9. g[1] = q[1] /\ \A j \in 2..i : g[j] = g[j - 1] \o q[j]
  BY <1>6, <1>8 DEF Joins
<1> DEFINE Good(j) == /\ Reverts(g[j], line[i - j], line[i])
                      /\ Merges(g[j], steps, i)
           D == {j \in 1..i : ~Good(j)}
<1>10. Good(1)
  <2>1. 1 \in 1..i /\ i + 1 - 1 = i /\ i \in 1..n
    BY <1>1
  <2>2. g[1] = steps[i].changes
    BY <1>5, <1>9, <2>1
  <2> QED BY <1>2, <1>3, <2>1, <2>2 DEF Merges
<1>11. ASSUME NEW j \in 2..i, Good(j - 1) PROVE Good(j)
  <2> DEFINE m == i + 1 - j
             a == g[j - 1]
             b == q[j]
  <2>1. j \in 1..i /\ m \in 1..n /\ i - (j - 1) = m /\ i - j = m - 1
    BY <1>1
  <2>2. b = steps[m].changes /\ g[j] = a \o b
    BY <1>5, <1>9, <2>1
  <2>3. b \in Seq(Change) /\ LastModified(b) /\ Reverts(b, line[m - 1], line[m])
    BY <1>2, <1>3, <2>1, <2>2
  <2>4. Reverts(a, line[m], line[i]) /\ Merges(a, steps, i)
    BY <1>11, <2>1
  <2>5. a \in Seq(Change) /\ LastModified(a)
    BY <2>4 DEF Merges
  <2> HIDE DEF m, a, b
  <2>6. Reverts(a \o b, line[m - 1], line[i])
    BY <2>3, <2>4, <2>5, RevertsConcat
  <2>7. LastModified(a \o b) /\ a \o b \in Seq(Change) /\ (a \o b = <<>> => a = <<>>)
    BY <2>3, <2>5, ModifiedJoin
  <2>8. Merges(a \o b, steps, i)
    BY <2>4, <2>7 DEF Merges
  <2> QED BY <2>1, <2>2, <2>6, <2>8
<1> HIDE DEF Good
<1>12. D = {}
  <2> SUFFICES ASSUME D # {} PROVE FALSE
    OBVIOUS
  <2>1. PICK j \in D : \A m \in Nat : m < j => m \notin D
    <3>1. D \in SUBSET Nat
      OBVIOUS
    <3> HIDE DEF D
    <3> QED BY <3>1, LeastOf
  <2>2. j \in 1..i /\ ~Good(j)
    OBVIOUS
  <2>3. j # 1
    BY <1>10, <2>2
  <2>4. j \in 2..i /\ j - 1 \in 1..i /\ j - 1 < j /\ j - 1 \in Nat
    BY <1>1, <2>2, <2>3
  <2>5. j - 1 \notin D
    <3> HIDE DEF D
    <3> QED BY <2>1, <2>4
  <2>6. Good(j - 1)
    BY <2>4, <2>5
  <2> QED BY <1>11, <2>2, <2>4, <2>6
<1>13. Good(i)
  <2>1. i \in 1..i
    BY <1>1
  <2> QED BY <1>12, <2>1
<1>14. g[i] = MergedChanges(steps, i) /\ i - i = 0
  BY <1>1, <1>6, <1>7, <1>8
<1> QED BY <1>3, <1>13, <1>14 DEF Good

\* Dropping the first steps of a line leaves a line from further back.
LEMMA LinedDrop ==
    ASSUME NEW steps \in Seq(UndoableOp), NEW l, NEW x, NEW line, IsLine(steps, x, l, line),
           NEW i \in 0..Len(steps)
    PROVE  Lined(SubSeq(steps, i + 1, Len(steps)), line[i], l, [j \in 1..(Len(steps) - i) |-> Seen(line[i + j])])
<1> DEFINE n == Len(steps)
           m == n - i
           q == SubSeq(steps, i + 1, n)
           k == [j \in 0..m |-> line[i + j]]
<1>1. n \in Nat /\ i \in Nat /\ i <= n /\ m \in Nat
  OBVIOUS
<1>2. Len(q) = m /\ \A j \in 1..m : q[j] = steps[i + j]
  <2>1. Len(q) = m /\ q = [j \in 1..m |-> steps[i + j]]
    BY <1>1, LastIs
  <2> HIDE DEF q
  <2> QED BY <2>1
<1>3. /\ line \in [0..n -> Views]
      /\ \A j \in 1..n : Reverts(steps[j].changes, line[j - 1], line[j])
      /\ \A j \in 0..n : Proper(line[j], l)
  BY DEF IsLine
<1>4. m = n - i
  OBVIOUS
<1> HIDE DEF n, q, m
<1>5. \A j \in 0..m : i + j \in 0..n
  BY <1>1, <1>4
<1>6. k \in [0..m -> Views] /\ k[0] = line[i] /\ \A j \in 0..m : k[j] = line[i + j]
  <2>1. 0 \in 0..m /\ i + 0 = i
    BY <1>1
  <2> QED BY <1>3, <1>5, <2>1
<1> HIDE DEF k
<1>7. ASSUME NEW j \in 1..m PROVE Reverts(q[j].changes, k[j - 1], k[j])
  <2> DEFINE r == i + j
  <2>1. r \in 1..n /\ j \in 0..m /\ j - 1 \in 0..m /\ i + (j - 1) = r - 1
    BY <1>1, <1>4
  <2>2. k[j - 1] = line[i + (j - 1)] /\ k[j] = line[r] /\ q[j] = steps[r]
    BY <1>2, <1>6, <2>1
  <2>3. Reverts(steps[r].changes, line[r - 1], line[r])
    BY <1>3, <2>1
  <2> HIDE DEF r
  <2> QED BY <2>1, <2>2, <2>3
<1>8. \A j \in 0..m : Proper(k[j], l)
  BY <1>3, <1>5, <1>6
<1>9. IsLine(q, line[i], l, k)
  BY <1>2, <1>6, <1>7, <1>8 DEF IsLine
<1>10. Past(q, k) = [j \in 1..m |-> Seen(line[i + j])]
  <2>1. \A j \in 1..m : k[j] = line[i + j]
    BY <1>6
  <2> QED BY <1>2, <2>1 DEF Past
<1> QED BY <1>9, <1>10 DEF Lined, q, m, n

\* Merging the first steps leaves a line that skips the contents between them.
LEMMA LinedMerge ==
    ASSUME NEW steps \in Seq(UndoSteps), NEW l, NEW x, NEW p, Lined(steps, x, l, p),
           NEW i \in 1..Len(steps),
           NEW merged \in UndoableOp, merged.changes = MergedChanges(steps, i)
    PROVE  /\ Merges(merged.changes, steps, i)
           /\ Lined(<<merged>> \o SubSeq(steps, i + 1, Len(steps)), x, l, SubSeq(p, i, Len(p)))
           /\ Len(p) = Len(steps)
<1>0. steps \in Seq(UndoableOp)
  BY SeqGrows DEF UndoSteps
<1>1. PICK line : IsLine(steps, x, l, line) /\ Past(steps, line) = p
  BY DEF Lined
<1>2. Merges(merged.changes, steps, i) /\ Reverts(merged.changes, x, line[i])
  BY <1>1, MergedReverts
<1> DEFINE n == Len(steps)
           q == SubSeq(steps, i + 1, n)
           r == [j \in 1..(n - i) |-> Seen(line[i + j])]
<1>3. n \in Nat /\ i \in Nat /\ i # 0 /\ i <= n /\ n - i \in Nat /\ i \in 0..n
  OBVIOUS
<1>4. Lined(q, line[i], l, r)
  BY <1>0, <1>1, <1>3, LinedDrop
<1>5. q \in Seq(UndoableOp)
  BY <1>0, <1>3, LastIs
<1>6. line[0] = x /\ line \in [0..n -> Views] /\ \A j \in 0..n : Proper(line[j], l)
  BY <1>1 DEF IsLine
<1>7. x \in Views /\ Proper(x, l)
  BY <1>3, <1>6
<1>8. p = [j \in 1..n |-> Seen(line[j])]
  BY <1>1 DEF Past
<1> HIDE DEF n, q
<1>9. Lined(<<merged>> \o q, x, l, <<Seen(line[i])>> \o r)
  <2> HIDE DEF r
  <2> QED BY <1>2, <1>4, <1>5, <1>7, LinedPush
<1>10. Len(p) = n /\ <<Seen(line[i])>> \o r = SubSeq(p, i, Len(p))
  <2> DEFINE S == {Seen(line[j]) : j \in 1..n}
  <2>1. p \in [1..n -> S]
    BY <1>8
  <2> HIDE DEF S
  <2>2. p \in Seq(S) /\ Len(p) = n
    BY <1>3, <2>1, FunctionIsSeq
  <2>3. i \in 1..Len(p) /\ Len(p) \in i..Len(p)
    BY <1>3, <2>2
  <2>4. SubSeq(p, i, Len(p)) = <<p[i]>> \o SubSeq(p, i + 1, Len(p))
    BY <2>2, <2>3, SubSeqRecursiveFirst
  <2>5. p[i] = Seen(line[i])
    BY <1>3, <1>8
  <2>6. SubSeq(p, i + 1, Len(p)) = [j \in 1..(Len(p) - i) |-> p[i + j]]
    BY <1>3, <2>2, LastIs
  <2>7. \A j \in 1..(n - i) : i + j \in 1..n
    BY <1>3
  <2>8. \A j \in 1..(n - i) : p[i + j] = Seen(line[i + j])
    BY <1>8, <2>7
  <2>9. SubSeq(p, i + 1, Len(p)) = r
    BY <2>2, <2>6, <2>8
  <2> QED BY <2>2, <2>4, <2>5, <2>9
<1> QED BY <1>2, <1>9, <1>10 DEF q, n

-----------------------------------------------------------------------------
(* What an operation saves leads back.                                      *)

\* A view is sound when the tables are.
LEMMA SoundIs ==
    ASSUME NEW w \in Works, NEW K \in SUBSET Objects
    PROVE  Sound(View(K, w)) <=> \A o \in w.graves : w.rows[o] = Absent
<1>1. w.rows \in Rows /\ w.graves \subseteq Objects
  BY WorkParts
<1>2. View(K, w).objs = Looked(K, w.rows) /\ View(K, w).graves = w.graves
  BY ViewIs
<1>3. ASSUME NEW o \in Objects PROVE View(K, w).objs[o] = Absent <=> w.rows[o] = Absent
  <2>1. View(K, w).objs[o] = Look(o, w.rows[o], K)
    BY <1>2 DEF Looked
  <2>2. w.rows[o] \in Row \cup {Absent}
    BY <1>1 DEF Rows
  <2> QED BY <2>1, <2>2, LookIs
<1> QED BY <1>1, <1>2, <1>3 DEF Sound

\* u is w after one write, which undoing c takes back.
Saved(K, w, u, c) ==
    /\ u \in Works /\ u.ok = w.ok
    /\ c \in Change /\ u.changes = Append(w.changes, c)
    /\ Fits(c, View(K, u)) /\ Back(c, View(K, u)) = View(K, w)

\* Every operation on the tables saves a change that leads back.
LEMMA UpdateSaves ==
    ASSUME NEW w \in Works, NEW K \in SUBSET Objects, NEW o \in Objects, NEW row \in Row, w.rows[o] # Absent,
           NEW u, u = UpdateUndoable(w, o, row)
    PROVE  /\ Saved(K, w, u, Updated(o, w.rows[o]))
           /\ u.rows = [w.rows EXCEPT ![o] = row] /\ u.graves = w.graves /\ u.mod = w.mod
<1> DEFINE c == Updated(o, w.rows[o])
           x == View(K, w)
           y == View(K, u)
<1>1. w.rows \in Rows /\ w.graves \subseteq Objects /\ w.mod \in Nat
  BY WorkParts
<1>2. w.rows[o] \in Row
  BY <1>1 DEF Rows
<1>3. c \in Change /\ c.type = "Updated" /\ c.obj = o /\ c.row = w.rows[o]
  BY <1>2, MadeChanges DEF Updated
<1>4. Wrote(w, u, [w.rows EXCEPT ![o] = row], w.graves, w.mod, c)
  BY UpdateWrites
<1> HIDE DEF c
<1>5. /\ u \in Works /\ u.rows = [w.rows EXCEPT ![o] = row] /\ u.graves = w.graves /\ u.mod = w.mod
      /\ u.changes = Append(w.changes, c) /\ u.ok = w.ok
  BY <1>4 DEF Wrote
<1>6. x \in Views /\ x.objs = Looked(K, w.rows) /\ x.graves = w.graves /\ x.mod = w.mod /\ x.kept = K
  BY ViewIs
<1>7. y \in Views /\ y.objs = Looked(K, u.rows) /\ y.graves = u.graves /\ y.mod = u.mod /\ y.kept = K
  BY <1>5, ViewIs
<1>8. Looked(K, u.rows) = [Looked(K, w.rows) EXCEPT ![o] = Look(o, row, K)]
  <2>1. Looked(K, [w.rows EXCEPT ![o] = row]) = [Looked(K, w.rows) EXCEPT ![o] = Look(o, row, K)]
    BY <1>1, RowsWithRow
  <2>2. u.rows = [w.rows EXCEPT ![o] = row]
    BY <1>5
  <2> QED BY <2>1, <2>2, Zenon
<1> HIDE DEF x, y
<1>9. y.objs[o] = Look(o, row, K) /\ Look(o, row, K) # Absent
  <2>1. x.objs \in [Objects -> Row \cup {Absent}]
    BY <1>6 DEF Views, Rows
  <2>2. y.objs = [x.objs EXCEPT ![o] = Look(o, row, K)]
    BY <1>6, <1>7, <1>8
  <2>3. Look(o, row, K) # Absent
    BY LookIs
  <2> QED BY <2>1, <2>2, <2>3
<1>10. Fits(c, y)
  BY <1>3, <1>9 DEF Fits
<1>11. Back(c, y) = [objs |-> [y.objs EXCEPT ![o] = Look(o, w.rows[o], K)], graves |-> y.graves, mod |-> y.mod, kept |-> y.kept]
  BY <1>3, <1>7, BackIs
<1>12. [y.objs EXCEPT ![o] = Look(o, w.rows[o], K)] = x.objs
  <2>1. x.objs \in [Objects -> Row \cup {Absent}] /\ x.objs[o] = Look(o, w.rows[o], K)
    BY <1>6 DEF Views, Rows, Looked
  <2> QED BY <1>6, <1>7, <1>8, <2>1
<1>13. x = [objs |-> x.objs, graves |-> x.graves, mod |-> x.mod, kept |-> x.kept]
  BY <1>6 DEF Views
<1>14. Back(c, y) = x
  BY <1>5, <1>6, <1>7, <1>11, <1>12, <1>13
<1> QED BY <1>3, <1>5, <1>10, <1>14 DEF Saved, c, x, y

LEMMA AddSaves ==
    ASSUME NEW w \in Works, NEW K \in SUBSET Objects, NEW o \in Objects, NEW row \in Row, w.rows[o] = Absent,
           NEW u, u = AddUndoable(w, o, row)
    PROVE  /\ Saved(K, w, u, Added(o, row))
           /\ u.rows = [w.rows EXCEPT ![o] = row] /\ u.graves = w.graves /\ u.mod = w.mod
<1> DEFINE c == Added(o, row)
           x == View(K, w)
           y == View(K, u)
<1>1. w.rows \in Rows /\ w.graves \subseteq Objects /\ w.mod \in Nat
  BY WorkParts
<1>3. c \in Change /\ c.type = "Added" /\ c.obj = o /\ c.row = row
  BY MadeChanges DEF Added
<1>4. Wrote(w, u, [w.rows EXCEPT ![o] = row], w.graves, w.mod, c)
  BY AddWrites
<1> HIDE DEF c
<1>5. /\ u \in Works /\ u.rows = [w.rows EXCEPT ![o] = row] /\ u.graves = w.graves /\ u.mod = w.mod
      /\ u.changes = Append(w.changes, c) /\ u.ok = w.ok
  BY <1>4 DEF Wrote
<1>6. x \in Views /\ x.objs = Looked(K, w.rows) /\ x.graves = w.graves /\ x.mod = w.mod /\ x.kept = K
  BY ViewIs
<1>7. y \in Views /\ y.objs = Looked(K, u.rows) /\ y.graves = u.graves /\ y.mod = u.mod /\ y.kept = K
  BY <1>5, ViewIs
<1>8. Looked(K, u.rows) = [Looked(K, w.rows) EXCEPT ![o] = Look(o, row, K)]
  <2>1. Looked(K, [w.rows EXCEPT ![o] = row]) = [Looked(K, w.rows) EXCEPT ![o] = Look(o, row, K)]
    BY <1>1, RowsWithRow
  <2>2. u.rows = [w.rows EXCEPT ![o] = row]
    BY <1>5
  <2> QED BY <2>1, <2>2, Zenon
<1> HIDE DEF x, y
<1>9. x.objs \in [Objects -> Row \cup {Absent}] /\ x.objs[o] = Absent
  <2>1. Look(o, w.rows[o], K) = Absent
    BY LookIs
  <2>2. x.objs \in [Objects -> Row \cup {Absent}]
    BY <1>6 DEF Views, Rows
  <2> QED BY <1>6, <2>1, <2>2 DEF Looked
<1>10. Fits(c, y)
  <2>1. y.objs[o] = Look(o, row, K)
    BY <1>6, <1>7, <1>8, <1>9
  <2> QED BY <1>3, <1>7, <2>1 DEF Fits
<1>11. Back(c, y) = [objs |-> [y.objs EXCEPT ![o] = Absent], graves |-> y.graves, mod |-> y.mod, kept |-> y.kept]
  BY <1>3, <1>7, BackIs
<1>12. [y.objs EXCEPT ![o] = Absent] = x.objs
  BY <1>6, <1>7, <1>8, <1>9
<1>13. x = [objs |-> x.objs, graves |-> x.graves, mod |-> x.mod, kept |-> x.kept]
  BY <1>6 DEF Views
<1>14. Back(c, y) = x
  BY <1>5, <1>6, <1>7, <1>11, <1>12, <1>13
<1> QED BY <1>3, <1>5, <1>10, <1>14 DEF Saved, c, x, y

LEMMA RemoveSaves ==
    ASSUME NEW w \in Works, NEW K \in SUBSET Objects, NEW o \in Objects, w.rows[o] # Absent,
           NEW u, u = RemoveWithoutGrave(w, o, w.rows[o])
    PROVE  /\ Saved(K, w, u, Removed(o, w.rows[o]))
           /\ u.rows = [w.rows EXCEPT ![o] = Absent] /\ u.graves = w.graves /\ u.mod = w.mod
<1> DEFINE c == Removed(o, w.rows[o])
           x == View(K, w)
           y == View(K, u)
<1>1. w.rows \in Rows /\ w.graves \subseteq Objects /\ w.mod \in Nat
  BY WorkParts
<1>2. w.rows[o] \in Row
  BY <1>1 DEF Rows
<1>3. c \in Change /\ c.type = "Removed" /\ c.obj = o /\ c.row = w.rows[o]
  BY <1>2, MadeChanges DEF Removed
<1>4. Wrote(w, u, [w.rows EXCEPT ![o] = Absent], w.graves, w.mod, c)
  BY <1>2, RemoveWrites
<1> HIDE DEF c
<1>5. /\ u \in Works /\ u.rows = [w.rows EXCEPT ![o] = Absent] /\ u.graves = w.graves /\ u.mod = w.mod
      /\ u.changes = Append(w.changes, c) /\ u.ok = w.ok
  BY <1>4 DEF Wrote
<1>6. x \in Views /\ x.objs = Looked(K, w.rows) /\ x.graves = w.graves /\ x.mod = w.mod /\ x.kept = K
  BY ViewIs
<1>7. y \in Views /\ y.objs = Looked(K, u.rows) /\ y.graves = u.graves /\ y.mod = u.mod /\ y.kept = K
  BY <1>5, ViewIs
<1>8. Looked(K, u.rows) = [Looked(K, w.rows) EXCEPT ![o] = Absent]
  <2>1. Looked(K, [w.rows EXCEPT ![o] = Absent]) = [Looked(K, w.rows) EXCEPT ![o] = Look(o, Absent, K)]
    BY <1>1, RowsWithRow
  <2>2. u.rows = [w.rows EXCEPT ![o] = Absent] /\ Look(o, Absent, K) = Absent
    BY <1>5, LookIs
  <2> QED BY <2>1, <2>2, Zenon
<1> HIDE DEF x, y
<1>9. x.objs \in [Objects -> Row \cup {Absent}] /\ x.objs[o] = Look(o, w.rows[o], K)
  <2>2. x.objs \in [Objects -> Row \cup {Absent}]
    BY <1>6 DEF Views, Rows
  <2> QED BY <1>6, <2>2 DEF Looked
<1>10. Fits(c, y)
  <2>1. y.objs[o] = Absent
    BY <1>6, <1>7, <1>8, <1>9
  <2> QED BY <1>3, <1>7, <2>1 DEF Fits
<1>11. Back(c, y) = [objs |-> [y.objs EXCEPT ![o] = Look(o, w.rows[o], K)], graves |-> y.graves, mod |-> y.mod, kept |-> y.kept]
  BY <1>3, <1>7, BackIs
<1>12. [y.objs EXCEPT ![o] = Look(o, w.rows[o], K)] = x.objs
  BY <1>6, <1>7, <1>8, <1>9
<1>13. x = [objs |-> x.objs, graves |-> x.graves, mod |-> x.mod, kept |-> x.kept]
  BY <1>6 DEF Views
<1>14. Back(c, y) = x
  BY <1>5, <1>6, <1>7, <1>11, <1>12, <1>13
<1> QED BY <1>3, <1>5, <1>10, <1>14 DEF Saved, c, x, y

LEMMA AddGraveSaves ==
    ASSUME NEW w \in Works, NEW K \in SUBSET Objects, NEW o \in Objects, o \notin w.graves,
           NEW u, u = AddGrave(w, o)
    PROVE  /\ Saved(K, w, u, GraveAdded(o))
           /\ u.rows = w.rows /\ u.graves = w.graves \cup {o} /\ u.mod = w.mod
<1> DEFINE c == GraveAdded(o)
           x == View(K, w)
           y == View(K, u)
<1>3. c \in Change /\ c.type = "GraveAdded" /\ c.obj = o
  BY DEF GraveAdded, Change
<1>4. Wrote(w, u, w.rows, w.graves \cup {o}, w.mod, c)
  BY AddGraveWrites
<1> HIDE DEF c
<1>5. /\ u \in Works /\ u.rows = w.rows /\ u.graves = w.graves \cup {o} /\ u.mod = w.mod
      /\ u.changes = Append(w.changes, c) /\ u.ok = w.ok
  BY <1>4 DEF Wrote
<1>6. x \in Views /\ x.objs = Looked(K, w.rows) /\ x.graves = w.graves /\ x.mod = w.mod /\ x.kept = K
  BY ViewIs
<1>7. y \in Views /\ y.objs = Looked(K, u.rows) /\ y.graves = u.graves /\ y.mod = u.mod /\ y.kept = K
  BY <1>5, ViewIs
<1> HIDE DEF x, y
<1>10. Fits(c, y)
  BY <1>3, <1>5, <1>7 DEF Fits
<1>11. Back(c, y) = [objs |-> y.objs, graves |-> y.graves \ {o}, mod |-> y.mod, kept |-> y.kept]
  BY <1>3, <1>7, BackIs
<1>12. y.graves \ {o} = x.graves /\ y.objs = x.objs /\ y.mod = x.mod /\ y.kept = x.kept
  BY <1>5, <1>6, <1>7
<1>13. x = [objs |-> x.objs, graves |-> x.graves, mod |-> x.mod, kept |-> x.kept]
  BY <1>6 DEF Views
<1>14. Back(c, y) = x
  BY <1>11, <1>12, <1>13
<1> QED BY <1>3, <1>5, <1>10, <1>14 DEF Saved, c, x, y

LEMMA ModifiedSaves ==
    ASSUME NEW w \in Works, NEW K \in SUBSET Objects, NEW t \in Nat, NEW u, u = SetModified(w, t)
    PROVE  /\ Saved(K, w, u, Modified(w.mod))
           /\ u.rows = w.rows /\ u.graves = w.graves /\ u.mod = t
<1> DEFINE c == Modified(w.mod)
           x == View(K, w)
           y == View(K, u)
<1>1. w.mod \in Nat
  BY WorkParts
<1>3. c \in Change /\ c.type = "Modified" /\ c.time = w.mod
  BY <1>1 DEF Modified, Change
<1>4. Wrote(w, u, w.rows, w.graves, t, c)
  BY ModifiedWrites
<1> HIDE DEF c
<1>5. /\ u \in Works /\ u.rows = w.rows /\ u.graves = w.graves /\ u.mod = t
      /\ u.changes = Append(w.changes, c) /\ u.ok = w.ok
  BY <1>4 DEF Wrote
<1>6. x \in Views /\ x.objs = Looked(K, w.rows) /\ x.graves = w.graves /\ x.mod = w.mod /\ x.kept = K
  BY ViewIs
<1>7. y \in Views /\ y.objs = Looked(K, u.rows) /\ y.graves = u.graves /\ y.mod = u.mod /\ y.kept = K
  BY <1>5, ViewIs
<1> HIDE DEF x, y
<1>10. Fits(c, y)
  BY <1>3 DEF Fits
<1>11. Back(c, y) = [objs |-> y.objs, graves |-> y.graves, mod |-> w.mod, kept |-> y.kept]
  BY <1>3, <1>7, BackIs
<1>12. y.graves = x.graves /\ y.objs = x.objs /\ w.mod = x.mod /\ y.kept = x.kept
  BY <1>5, <1>6, <1>7
<1>13. x = [objs |-> x.objs, graves |-> x.graves, mod |-> x.mod, kept |-> x.kept]
  BY <1>6 DEF Views
<1>14. Back(c, y) = x
  <2>1. Back(c, y) = [objs |-> x.objs, graves |-> x.graves, mod |-> x.mod, kept |-> x.kept]
    BY <1>11, <1>12
  <2> QED BY <1>13, <2>1
<1> QED BY <1>3, <1>5, <1>10, <1>14 DEF Saved, c, x, y

-----------------------------------------------------------------------------
(* The invariant, and what every step does.                                 *)

\* The tables at the proxy's "begin".
Snapshot == [rows : Rows, graves : SUBSET Objects, mod : Nat, ls : Nat]

\* The objects that no write without a step has touched.
Kept == Objects \ unlogged

\* The mtime of a sync is past, and the tables a transaction of the proxy would
\* go back to are as proper as those that are there.
Calm ==
    /\ ls <= now
    /\ trx # <<>> =>
           /\ trx[1].ls = ls
           /\ \A o \in trx[1].graves : trx[1].rows[o] = Absent
           /\ trx[1].mod = ls =>
                  /\ trx[1].graves = {}
                  /\ \A o \in Kept : trx[1].rows[o] # Absent => ~trx[1].rows[o].pending

\* The invariant: both queues are lines that begin in the tables as they are.
QInv ==
    /\ TypeOK
    /\ Calm
    /\ undoSteps \in Seq(UndoSteps)
    /\ redoSteps \in Seq(RedoSteps)
    /\ \E p : Lined(undoSteps, View(Kept, Work), ls, p)
    /\ \E f : Lined(Reverse(redoSteps), View(Kept, Work), ls, f)

\* A step of UndoHistory, or none: p, c and f are its past, present and future
\* before, q, d and g after.
Turn(p, c, f, q, d, g) ==
    \/ /\ q = <<c>> \o SubSeq(p, 1, IF Len(p) < UndoLimit - 1 THEN Len(p) ELSE UndoLimit - 1)
       /\ g = <<>>
    \/ (d = c \/ p # <<>>) /\ q = p /\ g = <<>>
    \/ \E k \in 1..(Len(p) - 1) : q = SubSeq(p, k + 1, Len(p)) /\ d = c /\ g = f
    \/ p # <<>> /\ d = Head(p) /\ q = Tail(p) /\ g = <<c>> \o f
    \/ /\ f # <<>> /\ d = Head(f) /\ g = Tail(f)
       /\ q = <<c>> \o p \/ (p # <<>> /\ q = p)
    \/ q = <<>> /\ g = <<>>
    \/ q = p /\ d = c /\ g = f

\* What every step does: the queues are lines again, and the contents they show
\* take a turn.
Moves(p, f) ==
    /\ TypeOK'
    /\ Calm'
    /\ undoSteps' \in Seq(UndoSteps)
    /\ redoSteps' \in Seq(RedoSteps)
    /\ \E q, g : /\ Lined(undoSteps', View(Kept', Work'), ls', q)
                 /\ Lined(Reverse(redoSteps'), View(Kept', Work'), ls', g)
                 /\ Turn(p, Seen(View(Kept, Work)), f, q, Seen(View(Kept', Work')), g)

\* Type correctness, part by part, now and after a step.
LEMMA TypeParts ==
    TypeOK <=> /\ rows \in Rows /\ graves \subseteq Objects
               /\ mod \in Nat /\ ls \in Nat /\ now \in Nat /\ counter \in Nat
               /\ undoSteps \in Seq(UndoableOp) /\ redoSteps \in Seq(UndoableOp)
               /\ modifiedByProxy \in BOOLEAN /\ trx \in Seq(Snapshot)
               /\ unlogged \subseteq Objects
BY DEF TypeOK, Rows, Snapshot

LEMMA TypeKept ==
    ASSUME rows' \in Rows, graves' \subseteq Objects,
           mod' \in Nat, ls' \in Nat, now' \in Nat, counter' \in Nat,
           undoSteps' \in Seq(UndoSteps), redoSteps' \in Seq(RedoSteps),
           modifiedByProxy' \in BOOLEAN, trx' \in Seq(Snapshot), unlogged' \subseteq Objects
    PROVE  TypeOK'
<1>1. undoSteps' \in Seq(UndoableOp) /\ redoSteps' \in Seq(UndoableOp)
  BY SeqGrows DEF UndoSteps, RedoSteps
<1> QED BY <1>1 DEF TypeOK, Rows, Snapshot

\* The operation in progress that has done nothing.
LEMMA WorkIs ==
    ASSUME TypeOK
    PROVE  Work \in Works /\ Work.rows = rows /\ Work.graves = graves /\ Work.mod = mod
           /\ Work.changes = <<>> /\ Work.ok
BY DEF TypeOK, Work, Works, Rows

\* The tables after an operation are those of `work`.
LEMMA WorkAfter ==
    ASSUME NEW w \in Works, rows' = w.rows, graves' = w.graves, mod' = w.mod, NEW K, Kept' = K
    PROVE  /\ View(Kept', Work') = View(K, w)
           /\ rows' \in Rows /\ graves' \subseteq Objects /\ mod' \in Nat
<1>1. Work'.rows = w.rows /\ Work'.graves = w.graves /\ Work'.mod = w.mod
  BY DEF Work
<1> QED BY <1>1, WorkParts DEF View

\* Time passes.
LEMMA Elapsed ==
    ASSUME now \in Nat, Elapse
    PROVE  now' \in Nat /\ now' > now
BY UndoAssumption DEF Elapse

\* Nothing reversed is nothing.
LEMMA EmptyReverse == Reverse(<<>>) = <<>>
BY DEF Reverse

\* A step that empties the queues moves, if it leaves the tables proper.
LEMMA Forgets ==
    ASSUME NEW p, NEW f, TypeOK', Calm', undoSteps' = <<>>, redoSteps' = <<>>,
           Proper(View(Kept', Work'), ls')
    PROVE  Moves(p, f)
<1>1. undoSteps' \in Seq(UndoSteps) /\ redoSteps' \in Seq(RedoSteps)
  OBVIOUS
<1>2. Work' \in Works
  BY DEF TypeOK, Work, Works, Rows
<1>3. View(Kept', Work') \in Views
  <2>1. Kept' \in SUBSET Objects
    BY DEF Kept
  <2> QED BY <1>2, <2>1, ViewIs
<1>4. Lined(<<>>, View(Kept', Work'), ls', <<>>)
  BY <1>3, LinedEmpty
<1>5. Turn(p, Seen(View(Kept, Work)), f, <<>>, Seen(View(Kept', Work')), <<>>)
  BY DEF Turn
<1> QED BY <1>1, <1>4, <1>5, EmptyReverse DEF Moves

\* What a successful operation leaves, in the four cases of end_step.
LEMMA TransactIs ==
    ASSUME NEW mode \in {"NormalOp", "Undoing", "Redoing"}, NEW kind, NEW steps, NEW redo, NEW work,
           Transact(mode, kind, steps, redo, work), work.ok,
           NEW done, done = BumpMtime(mode, kind, work),
           NEW saved, saved = (IF Coalesces(steps, kind, done.changes) THEN <<>> ELSE done.changes)
    PROVE  /\ Elapse /\ counter' = counter + 1 /\ ls' = ls
           /\ modifiedByProxy' = modifiedByProxy /\ trx' = trx
           /\ rows' = done.rows /\ graves' = done.graves /\ mod' = done.mod
           /\ undoSteps' = (IF HasChanges(kind, saved) /\ kind # "SkipUndo" /\ mode # "Undoing"
                            THEN PushUndo(steps, Step(kind, saved, counter + 1))
                            ELSE steps)
           /\ redoSteps' = (IF HasChanges(kind, saved) /\ kind # "SkipUndo" /\ mode = "Undoing"
                            THEN Append(redo, Step(kind, saved, counter + 1))
                            ELSE IF mode = "NormalOp" THEN <<>> ELSE redo)
BY DEF Transact, proxy, RedoAtStart

\* The step that end_step makes is of the queue it goes to.
LEMMA StepIs ==
    ASSUME NEW kind \in Kinds, NEW changes \in Seq(Change), counter \in Nat, now' \in Nat,
           kind # "SkipUndo", changes = <<>> => kind = "Custom",
           NEW s, s = Step(kind, changes, counter + 1)
    PROVE  /\ s \in UndoableOp /\ s.kind = kind /\ s.changes = changes
           /\ LastModified(changes) => s \in UndoSteps
           /\ FirstModified(changes) => s \in RedoSteps
<1>1. s \in UndoableOp /\ s.kind = kind /\ s.changes = changes
  BY DEF Step, UndoableOp
<1> QED BY <1>1 DEF UndoSteps, RedoSteps

-----------------------------------------------------------------------------
(* Operations.                                                              *)

\* push_undo on a line is a line, with the oldest contents dropped at the limit.
LEMMA LinedPushUndo ==
    ASSUME NEW steps \in Seq(UndoSteps), NEW x, NEW l, NEW p, Lined(steps, x, l, p),
           NEW step \in UndoSteps, NEW y \in Views, Proper(y, l), Reverts(step.changes, y, x)
    PROVE  /\ PushUndo(steps, step) \in Seq(UndoSteps)
           /\ Lined(PushUndo(steps, step), y, l,
                    <<Seen(x)>> \o SubSeq(p, 1, IF Len(p) < UndoLimit - 1 THEN Len(p) ELSE UndoLimit - 1))
           /\ Len(p) = Len(steps)
<1> DEFINE m == IF Len(steps) < UndoLimit - 1 THEN Len(steps) ELSE UndoLimit - 1
           t == SubSeq(steps, 1, m)
<1>1. steps \in Seq(UndoableOp) /\ step \in UndoableOp
  BY SeqGrows DEF UndoSteps
<1>2. Len(p) = Len(steps) /\ x \in Views /\ Proper(x, l)
  BY <1>1, LinedProper
<1>3. m \in Nat /\ m <= Len(steps)
  <2>1. Len(steps) \in Nat /\ UndoLimit - 1 \in Nat
    BY UndoAssumption
  <2> QED BY <2>1
<1>4. PushUndo(steps, step) = <<step>> \o t
  BY DEF PushUndo, Truncate
<1>5. SubSeq(p, 1, IF Len(p) < UndoLimit - 1 THEN Len(p) ELSE UndoLimit - 1) = SubSeq(p, 1, m)
  BY <1>2
<1> HIDE DEF m
<1>6. t \in Seq(UndoSteps)
  BY <1>3, FirstIs
<1>7. t \in Seq(UndoableOp)
  BY <1>1, <1>3, FirstIs
<1>8. Lined(t, x, l, SubSeq(p, 1, m))
  BY <1>1, <1>3, LinedPart
<1> HIDE DEF t
<1>9. Lined(<<step>> \o t, y, l, <<Seen(x)>> \o SubSeq(p, 1, m))
  BY <1>1, <1>7, <1>8, LinedPush
<1>10. <<step>> \o t \in Seq(UndoSteps)
  BY <1>6, ConsIs
<1> QED BY <1>2, <1>4, <1>5, <1>9, <1>10

\* The parts of the invariant.
LEMMA QInvParts ==
    ASSUME QInv
    PROVE  /\ Work \in Works /\ Work.rows = rows /\ Work.graves = graves /\ Work.mod = mod
           /\ Work.changes = <<>> /\ Work.ok
           /\ rows \in Rows /\ graves \subseteq Objects
           /\ mod \in Nat /\ ls \in Nat /\ now \in Nat /\ counter \in Nat
           /\ undoSteps \in Seq(UndoSteps) /\ redoSteps \in Seq(RedoSteps)
           /\ undoSteps \in Seq(UndoableOp) /\ redoSteps \in Seq(UndoableOp)
           /\ modifiedByProxy \in BOOLEAN /\ trx \in Seq(Snapshot)
           /\ View(Kept, Work) \in Views /\ Proper(View(Kept, Work), ls) /\ Sound(View(Kept, Work))
           /\ \A o \in graves : rows[o] = Absent
           /\ unlogged \subseteq Objects /\ Kept \in SUBSET Objects
<1>0. Kept \in SUBSET Objects
  BY DEF Kept
<1>1. TypeOK
  BY DEF QInv
<1>2. /\ Work \in Works /\ Work.rows = rows /\ Work.graves = graves /\ Work.mod = mod
      /\ Work.changes = <<>> /\ Work.ok
  BY <1>1, WorkIs
<1>3. PICK p : Lined(undoSteps, View(Kept, Work), ls, p)
  BY DEF QInv
<1>4. undoSteps \in Seq(UndoableOp)
  BY <1>1, TypeParts
<1>5. View(Kept, Work) \in Views /\ Proper(View(Kept, Work), ls)
  BY <1>3, <1>4, LinedProper
<1>6. Sound(View(Kept, Work))
  BY <1>5 DEF Proper
<1>7. \A o \in graves : rows[o] = Absent
  BY <1>0, <1>2, <1>6, SoundIs
<1> QED BY <1>0, <1>1, <1>2, <1>5, <1>6, <1>7, TypeParts DEF QInv

\* A transaction changes nothing that Calm speaks of but the clock.
LEMMA CalmAfter ==
    ASSUME QInv, Elapse, ls' = ls, trx' = trx, unlogged \subseteq unlogged'
    PROVE  Calm'
<1>1. now \in Nat /\ ls \in Nat
  BY QInvParts
<1>2. now' \in Nat /\ now' > now
  BY <1>1, Elapsed
<1>3. Calm
  BY DEF QInv
<1>4. ls' <= now'
  BY <1>1, <1>2, <1>3 DEF Calm
<1>5. Kept' \subseteq Kept
  BY DEF Kept
<1> QED BY <1>3, <1>4, <1>5 DEF Calm

\* Nor is there anything to go back to when no transaction is left.
LEMMA CalmWithoutTrx ==
    ASSUME QInv, Elapse, ls' = ls \/ ls' = now', trx' = <<>>
    PROVE  Calm'
<1>1. now \in Nat /\ ls \in Nat
  BY QInvParts
<1>2. now' \in Nat /\ now' > now
  BY <1>1, Elapsed
<1>3. ls <= now
  BY DEF QInv, Calm
<1>4. ls' <= now'
  BY <1>1, <1>2, <1>3
<1> QED BY <1>4 DEF Calm

\* What a write without a step leaves to follow.
LEMMA UnloggedIs ==
    ASSUME QInv, NEW D \in SUBSET Objects, Unlogged(D)
    PROVE  /\ unlogged' \subseteq Objects /\ Kept' \in SUBSET Objects
           /\ \/ undoSteps' = <<>> /\ redoSteps' = <<>> /\ trx' = <<>>
              \/ unlogged \subseteq unlogged' /\ Kept' = Kept \ D
<1>1. unlogged \subseteq Objects
  BY QInvParts
<1>2. CASE undoSteps' = <<>> /\ redoSteps' = <<>> /\ trx' = <<>>
  BY <1>2 DEF Unlogged, Kept
<1>3. CASE ~(undoSteps' = <<>> /\ redoSteps' = <<>> /\ trx' = <<>>)
  <2>1. unlogged' = unlogged \cup D
    BY <1>3 DEF Unlogged
  <2> QED BY <1>1, <2>1 DEF Kept
<1> QED BY <1>2, <1>3

\* If nothing is written, nothing else is followed.
LEMMA KeptKept ==
    ASSUME unlogged' = unlogged
    PROVE  Kept' = Kept
BY DEF Kept

\* A new mtime is not that of the last sync.
LEMMA ProperAfter ==
    ASSUME QInv, Elapse, NEW w \in Works, NEW K \in SUBSET Objects, Sound(View(K, w)), w.mod = now'
    PROVE  Proper(View(K, w), ls) /\ now' # ls
<1>1. now \in Nat /\ ls \in Nat
  BY QInvParts
<1>2. now' \in Nat /\ now' > now
  BY <1>1, Elapsed
<1>3. View(K, w).mod = now'
  BY ViewIs
<1>4. ls <= now
  BY DEF QInv, Calm
<1>5. now' # ls
  BY <1>1, <1>2, <1>4
<1> QED BY <1>3, <1>5 DEF Proper, Visible

\* Any operation that is not an undo or redo, with what its closure did: the step
\* is pushed, or coalesced with the one before it, or there is none.
LEMMA NormalMoves ==
    ASSUME QInv, NEW p, NEW f, Lined(undoSteps, View(Kept, Work), ls, p),
           NEW kind \in Kinds, kind # "Custom",
           NEW work \in Works, work.ok, work.mod = mod,
           Sound(View(Kept, work)), Reverts(work.changes, View(Kept, work), View(Kept, Work)),
           work.changes = <<>> => work = Work,
           kind = "SkipUndo" => work.changes = <<>>,
           Normal(kind, work)
    PROVE  Moves(p, f)
<1> DEFINE done == BumpMtime("NormalOp", kind, work)
           saved == IF Coalesces(undoSteps, kind, done.changes) THEN <<>> ELSE done.changes
           step == Step(kind, saved, counter + 1)
<1>1. Transact("NormalOp", kind, undoSteps, redoSteps, work)
  BY DEF Normal
<1>2. /\ Elapse /\ counter' = counter + 1 /\ ls' = ls
      /\ modifiedByProxy' = modifiedByProxy /\ trx' = trx
      /\ rows' = done.rows /\ graves' = done.graves /\ mod' = done.mod
      /\ undoSteps' = (IF HasChanges(kind, saved) /\ kind # "SkipUndo"
                       THEN PushUndo(undoSteps, step)
                       ELSE undoSteps)
      /\ redoSteps' = <<>>
      /\ unlogged' = unlogged
  <2>0. unlogged' = unlogged
    BY DEF Normal
  <2> DEFINE mode == "NormalOp"
  <2>1. mode \in {"NormalOp", "Undoing", "Redoing"} /\ mode = "NormalOp" /\ mode # "Undoing"
    OBVIOUS
  <2>2. Transact(mode, kind, undoSteps, redoSteps, work) /\ done = BumpMtime(mode, kind, work)
    BY <1>1
  <2> HIDE DEF mode, done
  <2> QED BY <2>0, <2>1, <2>2, TransactIs
<1>3. QInv /\ work \in Works
  OBVIOUS
<1>4. /\ now \in Nat /\ counter \in Nat /\ undoSteps \in Seq(UndoSteps)
      /\ modifiedByProxy \in BOOLEAN /\ trx \in Seq(Snapshot) /\ ls \in Nat
      /\ View(Kept, Work) \in Views /\ Proper(View(Kept, Work), ls) /\ undoSteps \in Seq(UndoableOp)
      /\ unlogged \subseteq Objects /\ Kept \in SUBSET Objects
  BY QInvParts
<1>k. Kept' = Kept
  BY <1>2 DEF Kept
<1>5. now' \in Nat /\ counter' \in Nat
  BY <1>2, <1>4, Elapsed
<1>6. Calm'
  BY <1>2, CalmAfter
<1>7. done = IF work.changes = <<>> THEN work ELSE SetModified(work, now')
  BY DEF BumpMtime, HasChanges
<1>8. redoSteps' \in Seq(RedoSteps)
  BY <1>2
<1>p. Len(p) = Len(undoSteps)
  BY <1>4, LinedProper
\* Whatever done is, the tables are typed, and nothing can be redone.
<1>9. ASSUME done \in Works, undoSteps' \in Seq(UndoSteps), Proper(View(Kept, done), ls),
             NEW q, Lined(undoSteps', View(Kept, done), ls, q),
             \/ q = <<Seen(View(Kept, Work))>> \o SubSeq(p, 1, IF Len(p) < UndoLimit - 1 THEN Len(p) ELSE UndoLimit - 1)
             \/ q = p /\ (p # <<>> \/ Seen(View(Kept, done)) = Seen(View(Kept, Work)))
      PROVE  Moves(p, f)
  <2> HIDE DEF done, saved, step
  <2>1. View(Kept', Work') = View(Kept, done) /\ rows' \in Rows /\ graves' \subseteq Objects /\ mod' \in Nat
    BY <1>2, <1>9, <1>k, WorkAfter
  <2>2. TypeOK'
    BY <1>2, <1>4, <1>5, <1>8, <1>9, <2>1, TypeKept
  <2>3. View(Kept, done) \in Views
    BY <1>4, <1>9, ViewIs
  <2>4. Lined(Reverse(redoSteps'), View(Kept', Work'), ls', <<>>)
    BY <1>2, <1>9, <2>1, <2>3, LinedEmpty, EmptyReverse
  <2>5. Lined(undoSteps', View(Kept', Work'), ls', q)
    BY <1>2, <1>9, <2>1
  <2>6. Turn(p, Seen(View(Kept, Work)), f, q, Seen(View(Kept', Work')), <<>>)
    BY <1>9, <2>1 DEF Turn
  <2> QED BY <1>6, <1>8, <1>9, <2>2, <2>4, <2>5, <2>6 DEF Moves
<1>10. CASE work.changes = <<>>
  <2>1. done = Work
    BY <1>7, <1>10
  <2>2. done.changes = <<>> /\ Work \in Works
    BY <2>1, QInvParts
  <2>3. saved = <<>>
    BY <2>2
  <2>4. undoSteps' = undoSteps
    BY <1>2, <2>3 DEF HasChanges
  <2> HIDE DEF done, saved, step
  <2> QED BY <1>4, <1>9, <2>1, <2>2, <2>4
<1>11. CASE work.changes # <<>>
  <2>1. done = SetModified(work, now')
    BY <1>7, <1>11
  <2> HIDE DEF done, saved, step
  <2> DEFINE c == Modified(work.mod)
             y == View(Kept, done)
             x == View(Kept, Work)
  <2> HIDE DEF c
  <2>2. Saved(Kept, work, done, c) /\ done.rows = work.rows /\ done.graves = work.graves /\ done.mod = now'
    <3>1. Kept \in SUBSET Objects
      BY <1>4
    <3>2. Saved(Kept, work, done, c)
      BY <1>3, <1>5, <2>1, <3>1, ModifiedSaves DEF c
    <3>3. done.rows = work.rows /\ done.graves = work.graves /\ done.mod = now'
      BY <1>3, <1>5, <2>1, <3>1, <3>2, ModifiedSaves DEF c
    <3> QED BY <3>2, <3>3
  <2>3. /\ done \in Works /\ c \in Change /\ done.changes = Append(work.changes, c)
        /\ Fits(c, y) /\ Back(c, y) = View(Kept, work)
    BY <2>2 DEF Saved
  <2>4. y \in Views /\ x \in Views /\ View(Kept, work) \in Views
    BY <1>3, <1>4, <2>3, ViewIs
  <2>5. Sound(y)
    <3>1. \A o \in work.graves : work.rows[o] = Absent
      BY <1>3, <1>4, SoundIs
    <3> QED BY <1>4, <2>2, <2>3, <3>1, SoundIs
  <2>6. Proper(y, ls)
    BY <1>2, <2>2, <2>3, <2>5, <1>4, ProperAfter
  <2>7. work.changes \in Seq(Change) /\ Len(work.changes) \in Nat
    BY <1>3, WorkParts
  <2>8. done.changes = work.changes \o <<c>> /\ <<c>> \in Seq(Change)
    BY <2>3, <2>7, AppendIsConcat
  <2>9. Reverts(<<c>>, y, View(Kept, work))
    <3>1. Reverts(<<c>>, y, Back(c, y))
      <4> HIDE DEF c, y
      <4> QED BY <2>3, <2>4, RevertsOne
    <3> QED BY <2>3, <3>1
  <2> HIDE DEF y, x
  <2>10. Reverts(done.changes, y, x)
    <3>1. Reverts(work.changes, View(Kept, work), x)
      BY DEF x
    <3>2. Reverts(work.changes \o <<c>>, y, x)
      BY <2>7, <2>8, <2>9, <3>1, RevertsConcat
    <3> QED BY <2>8, <3>2
  <2>11. /\ done.changes \in Seq(Change) /\ done.changes # <<>>
         /\ LastModified(done.changes)
    <3>1. c.type = "Modified"
      BY DEF c, Modified
    <3>2. /\ done.changes \in Seq(Change) /\ Len(done.changes) = Len(work.changes) + 1
          /\ done.changes[Len(work.changes) + 1] = c
      BY <2>3, <2>7
    <3> QED BY <2>7, <3>1, <3>2 DEF LastModified
  <2>13. CASE Coalesces(undoSteps, kind, done.changes)
    <3> DEFINE d == Head(undoSteps).changes
    <3>1. /\ kind = "UpdateNote" /\ undoSteps # <<>> /\ IsNoteEdit(d) /\ IsNoteEdit(done.changes)
          /\ d[1].obj = done.changes[1].obj
      BY <2>13 DEF Coalesces
    <3>2. saved = <<>>
      BY <2>13 DEF saved
    <3>3. undoSteps' = undoSteps
      BY <1>2, <3>1, <3>2 DEF HasChanges
    <3>4. Head(undoSteps) \in UndoableOp
      BY <1>4, <3>1
    <3>5. d \in Seq(Change)
      BY <3>4 DEF UndoableOp
    <3> HIDE DEF d
    <3>6. ASSUME NEW z, Reverts(d, x, z) PROVE Reverts(d, y, z)
      BY <2>10, <2>11, <3>1, <3>5, <3>6, CoalescedReverts
    <3>7. Lined(undoSteps, y, ls, p)
      <4>1. Lined(undoSteps, x, ls, p)
        BY DEF x
      <4>2. \A z : Reverts(Head(undoSteps).changes, x, z) => Reverts(Head(undoSteps).changes, y, z)
        BY <3>6 DEF d
      <4> QED BY <1>4, <2>4, <2>6, <3>1, <4>1, <4>2, LinedSwap
    <3>8. p # <<>>
      <4>1. Len(undoSteps) # 0
        BY <1>4, <3>1
      <4> QED BY <1>p, <4>1
    <3> QED BY <1>4, <1>9, <2>3, <2>6, <3>3, <3>7, <3>8 DEF y
  <2>14. CASE kind # "SkipUndo" /\ ~Coalesces(undoSteps, kind, done.changes)
    <3>1. saved = done.changes
      BY <2>14 DEF saved
    <3>2. undoSteps' = PushUndo(undoSteps, step)
      BY <1>2, <2>11, <2>14, <3>1 DEF HasChanges
    <3>3. step \in UndoSteps /\ step.changes = done.changes
      <4>1. step = Step(kind, done.changes, counter + 1)
        BY <3>1 DEF step
      <4> QED BY <1>4, <1>5, <2>11, <2>14, <4>1, StepIs
    <3> DEFINE q == <<Seen(x)>> \o SubSeq(p, 1, IF Len(p) < UndoLimit - 1 THEN Len(p) ELSE UndoLimit - 1)
    <3>4. undoSteps' \in Seq(UndoSteps) /\ Lined(undoSteps', y, ls, q)
      <4>1. Lined(undoSteps, x, ls, p)
        BY DEF x
      <4> QED BY <1>4, <2>4, <2>6, <2>10, <3>2, <3>3, <4>1, LinedPushUndo
    <3>5. q = <<Seen(View(Kept, Work))>> \o SubSeq(p, 1, IF Len(p) < UndoLimit - 1 THEN Len(p) ELSE UndoLimit - 1)
      BY DEF x
    <3> HIDE DEF q
    <3> QED BY <1>9, <2>3, <2>6, <3>4, <3>5 DEF y
  <2> QED BY <1>11, <2>13, <2>14
<1> QED BY <1>10, <1>11

\* The only change saved leads back.
LEMMA SavedReverts ==
    ASSUME NEW w \in Works, NEW K \in SUBSET Objects, w.changes = <<>>, NEW u, NEW c, Saved(K, w, u, c)
    PROVE  u \in Works /\ u.ok = w.ok /\ u.changes = <<c>> /\ u.changes # <<>>
           /\ Reverts(u.changes, View(K, u), View(K, w))
<1>1. u \in Works /\ u.ok = w.ok /\ c \in Change /\ Fits(c, View(K, u)) /\ Back(c, View(K, u)) = View(K, w)
  BY DEF Saved
<1>2. u.changes = <<c>>
  BY DEF Saved
<1>3. View(K, u) \in Views
  BY <1>1, ViewIs
<1>4. Reverts(<<c>>, View(K, u), Back(c, View(K, u)))
  BY <1>1, <1>3, RevertsOne
<1> QED BY <1>1, <1>2, <1>4

\* An object is there before and after.
LEMMA UpdateReady ==
    ASSUME QInv, NEW o \in Objects, rows[o] # Absent, NEW row \in Row,
           NEW u, u = UpdateUndoable(Work, o, row)
    PROVE  /\ u \in Works /\ u.ok /\ u.mod = mod /\ u.changes # <<>>
           /\ u.rows = [rows EXCEPT ![o] = row] /\ u.graves = graves
           /\ Sound(View(Kept, u)) /\ Reverts(u.changes, View(Kept, u), View(Kept, Work))
<1>1. /\ Work \in Works /\ Work.rows = rows /\ Work.graves = graves /\ Work.mod = mod
      /\ Work.changes = <<>> /\ Work.ok /\ rows \in Rows
      /\ \A a \in graves : rows[a] = Absent
      /\ Kept \in SUBSET Objects
  BY QInvParts
<1>2. Work.rows[o] # Absent
  BY <1>1
<1>3. /\ Saved(Kept, Work, u, Updated(o, Work.rows[o]))
      /\ u.rows = [Work.rows EXCEPT ![o] = row] /\ u.graves = Work.graves /\ u.mod = Work.mod
  <2>1. Saved(Kept, Work, u, Updated(o, Work.rows[o]))
    BY <1>1, <1>2, UpdateSaves
  <2> QED BY <1>1, <1>2, <2>1, UpdateWrites DEF Wrote
<1>4. u \in Works /\ u.ok = Work.ok /\ u.changes # <<>> /\ Reverts(u.changes, View(Kept, u), View(Kept, Work))
  BY <1>1, <1>3, SavedReverts
<1>5. u.rows = [rows EXCEPT ![o] = row] /\ u.graves = graves
  BY <1>1, <1>3, Zenon
<1>6. \A a \in u.graves : u.rows[a] = Absent
  <2>1. ASSUME NEW a \in graves PROVE u.rows[a] = Absent
    <3>1. a \in Objects /\ a # o
      BY <1>1, QInvParts
    <3> QED BY <1>1, <1>5, <3>1 DEF Rows
  <2> QED BY <1>5, <2>1
<1>7. Sound(View(Kept, u))
  BY <1>1, <1>4, <1>6, SoundIs
<1> QED BY <1>1, <1>3, <1>4, <1>5, <1>7

\* An edited row is a row.
LEMMA EditedRow ==
    ASSUME NEW row \in Row, NEW v \in Values, NEW b \in BOOLEAN
    PROVE  /\ [row EXCEPT !.val = v, !.pending = TRUE] \in Row
           /\ [row EXCEPT !.collapsed = b, !.pending = TRUE] \in Row
           /\ [row EXCEPT !.collapsed = b, !.pending = TRUE].val = row.val
BY DEF Row

\* The edits of one object.
LEMMA UpdateNoteMoves ==
    ASSUME QInv, NEW p, NEW f, Lined(undoSteps, View(Kept, Work), ls, p),
           NEW n \in Notes, NEW v \in Values, UpdateNote(n, v)
    PROVE  Moves(p, f)
<1> DEFINE row == [Work.rows[n] EXCEPT !.val = v, !.pending = TRUE]
           u == UpdateUndoable(Work, n, row)
           work == IF rows[n].val = v THEN Work ELSE u
           kind == "UpdateNote"
<1>1. n \in Objects /\ rows[n] # Absent
  BY DEF UpdateNote, Present, Objects
<1>2. Normal(kind, work)
  BY DEF UpdateNote, Edited
<1>3. /\ Work \in Works /\ Work.ok /\ Work.mod = mod /\ Work.rows = rows /\ rows \in Rows
      /\ Work.changes = <<>> /\ Sound(View(Kept, Work)) /\ View(Kept, Work) \in Views
      /\ Kept \in SUBSET Objects
  BY QInvParts
<1>4. rows[n] \in Row
  BY <1>1, <1>3 DEF Rows
<1>5. row \in Row
  BY <1>3, <1>4, EditedRow
<1>6. Reverts(Work.changes, View(Kept, Work), View(Kept, Work))
  BY <1>3, RevertsNothing
<1> HIDE DEF row
<1>7. /\ u \in Works /\ u.ok /\ u.mod = mod /\ u.changes # <<>>
      /\ Sound(View(Kept, u)) /\ Reverts(u.changes, View(Kept, u), View(Kept, Work))
  BY <1>1, <1>5, UpdateReady
<1> HIDE DEF u
<1>8. /\ work \in Works /\ work.ok /\ work.mod = mod /\ Sound(View(Kept, work))
      /\ Reverts(work.changes, View(Kept, work), View(Kept, Work))
      /\ work.changes = <<>> => work = Work
  BY <1>3, <1>6, <1>7
<1>9. kind \in Kinds /\ kind # "Custom" /\ kind # "SkipUndo"
  BY DEF Kinds
<1> HIDE DEF work, kind
<1> QED BY <1>2, <1>8, <1>9, NormalMoves

LEMMA UpdateDeckMoves ==
    ASSUME QInv, NEW p, NEW f, Lined(undoSteps, View(Kept, Work), ls, p),
           NEW d \in Decks, NEW v \in Values, UpdateDeck(d, v)
    PROVE  Moves(p, f)
<1> DEFINE row == [Work.rows[d] EXCEPT !.val = v, !.pending = TRUE]
           u == UpdateUndoable(Work, d, row)
           kind == "UpdateDeck"
<1>1. d \in Objects /\ rows[d] # Absent
  BY DEF UpdateDeck, Present, Objects
<1>2. Normal(kind, u)
  BY DEF UpdateDeck, Edited
<1>3. Work.rows = rows /\ rows \in Rows
  BY QInvParts
<1>4. rows[d] \in Row
  BY <1>1, <1>3 DEF Rows
<1>5. row \in Row
  BY <1>3, <1>4, EditedRow
<1> HIDE DEF row
<1>7. /\ u \in Works /\ u.ok /\ u.mod = mod /\ u.changes # <<>>
      /\ Sound(View(Kept, u)) /\ Reverts(u.changes, View(Kept, u), View(Kept, Work))
  BY <1>1, <1>5, UpdateReady
<1>9. kind \in Kinds /\ kind # "Custom" /\ kind # "SkipUndo"
  BY DEF Kinds
<1> HIDE DEF u, kind
<1> QED BY <1>2, <1>7, <1>9, NormalMoves

\* Each undo step, and each redo step, sets the mtime.
LEMMA StepsRestamp ==
    ASSUME NEW steps
    PROVE  /\ steps \in Seq(UndoSteps) => \A i \in 1..Len(steps) : Restamps(steps[i].changes)
           /\ steps \in Seq(RedoSteps) => \A i \in 1..Len(steps) : Restamps(steps[i].changes)
<1>1. ASSUME steps \in Seq(UndoSteps), NEW i \in 1..Len(steps) PROVE Restamps(steps[i].changes)
  <2>1. steps[i] \in UndoSteps
    BY <1>1
  <2>2. steps[i].changes \in Seq(Change) /\ LastModified(steps[i].changes)
    BY <2>1 DEF UndoSteps, UndoableOp
  <2> DEFINE c == steps[i].changes
  <2>3. c \in Seq(Change) /\ LastModified(c)
    BY <2>2
  <2> HIDE DEF c
  <2>4. c # <<>> => Len(c) \in 1..Len(c)
    BY <2>3
  <2>5. Restamps(c)
    BY <2>3, <2>4 DEF LastModified, Restamps
  <2> QED BY <2>5 DEF c
<1>2. ASSUME steps \in Seq(RedoSteps), NEW i \in 1..Len(steps) PROVE Restamps(steps[i].changes)
  <2>1. steps[i] \in RedoSteps
    BY <1>2
  <2>2. steps[i].changes \in Seq(Change) /\ FirstModified(steps[i].changes)
    BY <2>1 DEF RedoSteps, UndoableOp
  <2> DEFINE c == steps[i].changes
  <2>3. c \in Seq(Change) /\ FirstModified(c)
    BY <2>2
  <2> HIDE DEF c
  <2>4. c # <<>> => 1 \in 1..Len(c)
    BY <2>3
  <2>5. Restamps(c)
    BY <2>3, <2>4 DEF FirstModified, Restamps
  <2> QED BY <2>5 DEF c
<1> QED BY <1>1, <1>2

\* Outside what is written, and but for the mtime, the view stays.
LEMMA ForgetStamp ==
    ASSUME NEW w \in Works, NEW u \in Works, NEW K \in SUBSET Objects, NEW D \in SUBSET Objects,
           u.graves = w.graves,
           \A o \in Objects : Look(o, u.rows[o], K \ D) = Look(o, w.rows[o], K \ D)
    PROVE  View(K \ D, u) = Stamp(Forget(View(K, w), D), u.mod)
<1>1. Forget(View(K, w), D) = View(K \ D, w)
  BY ForgetView
<1>2. Looked(K \ D, u.rows) = Looked(K \ D, w.rows)
  BY DEF Looked
<1> QED BY <1>1, <1>2 DEF View, Stamp

\* The writing case of SetCollapsed.
LEMMA CollapseMoves ==
    ASSUME QInv, NEW p, NEW f, Lined(undoSteps, View(Kept, Work), ls, p),
           NEW d \in Decks, rows[d] # Absent, NEW row \in Row, row.val = rows[d].val,
           NEW u, u = UpdateUndoable(Work, d, row),
           Transact("NormalOp", "SkipUndo", undoSteps, redoSteps, u), Unlogged({d})
    PROVE  Moves(p, f)
<1> DEFINE x == View(Kept, Work)
           done == SetModified(u, now')
<1>1. d \in Objects /\ {d} \in SUBSET Objects
  BY DEF Objects
<1>2. /\ Work \in Works /\ Work.rows = rows /\ Work.graves = graves /\ rows \in Rows
      /\ graves \subseteq Objects /\ mod \in Nat /\ ls \in Nat /\ now \in Nat /\ counter \in Nat
      /\ modifiedByProxy \in BOOLEAN /\ trx \in Seq(Snapshot)
      /\ undoSteps \in Seq(UndoSteps) /\ undoSteps \in Seq(UndoableOp)
      /\ Kept \in SUBSET Objects /\ x \in Views
  BY QInvParts
<1>3. /\ u \in Works /\ u.ok /\ u.changes # <<>>
      /\ u.rows = [rows EXCEPT ![d] = row] /\ u.graves = graves
      /\ Sound(View(Kept, u))
  BY <1>1, UpdateReady
<1>4. BumpMtime("NormalOp", "SkipUndo", u) = done
  BY <1>3 DEF BumpMtime, HasChanges
<1>5. /\ Elapse /\ counter' = counter + 1 /\ ls' = ls
      /\ modifiedByProxy' = modifiedByProxy /\ trx' = trx
      /\ rows' = done.rows /\ graves' = done.graves /\ mod' = done.mod
      /\ undoSteps' = undoSteps /\ redoSteps' = <<>>
  <2>1. ~Coalesces(undoSteps, "SkipUndo", done.changes)
    BY DEF Coalesces
  <2> HIDE DEF done
  <2> QED BY <1>3, <1>4, <2>1 DEF Transact, RedoAtStart, proxy
<1>6. now' \in Nat /\ counter' \in Nat
  BY <1>2, <1>5, Elapsed
<1>7. Saved(Kept, u, done, Modified(u.mod))
  BY <1>2, <1>3, <1>6, ModifiedSaves
<1>8. done.rows = u.rows /\ done.graves = u.graves /\ done.mod = now'
  BY <1>3, <1>6, ModifiedWrites DEF Wrote
<1> HIDE DEF done, x
<1>9. done \in Works
  BY <1>7 DEF Saved
<1>10. \A o \in done.graves : done.rows[o] = Absent
  BY <1>2, <1>3, <1>8, SoundIs
<1>11. /\ unlogged' \subseteq Objects /\ Kept' \in SUBSET Objects
       /\ \/ undoSteps' = <<>> /\ redoSteps' = <<>> /\ trx' = <<>>
          \/ unlogged \subseteq unlogged' /\ Kept' = Kept \ {d}
  BY <1>1, UnloggedIs
<1>12. /\ View(Kept', Work') = View(Kept', done)
       /\ rows' \in Rows /\ graves' \subseteq Objects /\ mod' \in Nat
  BY <1>5, <1>9, WorkAfter
<1>13. TypeOK'
  <2>1. redoSteps' \in Seq(RedoSteps) /\ undoSteps' \in Seq(UndoSteps)
    BY <1>2, <1>5
  <2> QED BY <1>2, <1>5, <1>6, <1>11, <1>12, <2>1, TypeKept
<1>14. Proper(View(Kept', Work'), ls') /\ now' # ls
  <2>1. Sound(View(Kept', done))
    BY <1>9, <1>10, <1>11, SoundIs
  <2> QED BY <1>5, <1>8, <1>9, <1>11, <1>12, <2>1, ProperAfter
<1>15. CASE undoSteps' = <<>> /\ redoSteps' = <<>> /\ trx' = <<>>
  <2>1. Calm'
    BY <1>5, <1>15, CalmWithoutTrx
  <2> QED BY <1>13, <1>14, <1>15, <2>1, Forgets
<1>16. CASE unlogged \subseteq unlogged' /\ Kept' = Kept \ {d}
  <2>1. Calm'
    BY <1>5, <1>16, CalmAfter
  <2> DEFINE z == Forget(x, {d})
             y == Stamp(z, now')
  <2>2. View(Kept', Work') = y
    <3>1. ASSUME NEW o \in Objects
          PROVE  Look(o, done.rows[o], Kept \ {d}) = Look(o, Work.rows[o], Kept \ {d})
      <4>1. CASE o = d
        <5>1. done.rows[d] = row /\ Work.rows[d] = rows[d]
          BY <1>1, <1>2, <1>3, <1>8 DEF Rows
        <5>2. row # Absent
          BY ObjectAssumption
        <5> QED BY <4>1, <5>1, <5>2 DEF Look
      <4>2. CASE o # d
        <5>1. done.rows[o] = Work.rows[o]
          BY <1>2, <1>3, <1>8, <4>2 DEF Rows
        <5> QED BY <5>1
      <4> QED BY <4>1, <4>2
    <3>2. done.graves = Work.graves
      BY <1>2, <1>3, <1>8
    <3>3. View(Kept \ {d}, done) = Stamp(Forget(View(Kept, Work), {d}), done.mod)
      BY <1>1, <1>2, <1>9, <3>1, <3>2, ForgetStamp
    <3> QED BY <1>8, <1>12, <1>16, <3>3 DEF x
  <2>3. Lined(undoSteps, z, ls, p)
    <3>1. Lined(undoSteps, x, ls, p)
      BY DEF x
    <3> HIDE DEF z
    <3>2. Lined(undoSteps, Forget(x, {d}), ls, p)
      BY <1>2, <3>1, LinedForget
    <3> QED BY <3>2 DEF z
  <2>4. Seen(z) = Seen(x)
    BY <1>2, ForgetProper
  <2> HIDE DEF z
  <2>5. \A i \in 1..Len(undoSteps) : Restamps(undoSteps[i].changes)
    BY <1>2, StepsRestamp
  <2>6. Lined(undoSteps, y, ls, p)
    BY <1>2, <1>6, <1>14, <2>3, <2>5, LinedStamp
  <2>7. z \in Views /\ Proper(z, ls)
    BY <1>2, <2>3, LinedProper
  <2>8. y \in Views /\ Proper(y, ls) /\ Seen(y) = Seen(x)
    BY <1>6, <1>14, <2>4, <2>7, StampIs
  <2> HIDE DEF y
  <2>9. Lined(Reverse(redoSteps'), View(Kept', Work'), ls', <<>>)
    BY <1>5, <2>2, <2>8, LinedEmpty, EmptyReverse
  <2>10. Lined(undoSteps', View(Kept', Work'), ls', p)
    BY <1>5, <2>2, <2>6
  <2>11. Turn(p, Seen(View(Kept, Work)), f, p, Seen(View(Kept', Work')), <<>>)
    BY <2>2, <2>8 DEF Turn, x
  <2>12. undoSteps' \in Seq(UndoSteps) /\ redoSteps' \in Seq(RedoSteps)
    BY <1>2, <1>5
  <2> QED BY <1>13, <2>1, <2>9, <2>10, <2>11, <2>12 DEF Moves
<1> QED BY <1>11, <1>15, <1>16

LEMMA SetCollapsedMoves ==
    ASSUME QInv, NEW p, NEW f, Lined(undoSteps, View(Kept, Work), ls, p),
           NEW d \in Decks, NEW b \in BOOLEAN, SetCollapsed(d, b)
    PROVE  Moves(p, f)
<1>1. d \in Objects /\ rows[d] # Absent
  BY DEF SetCollapsed, Present, Objects
<1>2. /\ Work \in Works /\ Work.ok /\ Work.mod = mod /\ Work.rows = rows /\ rows \in Rows
      /\ Work.changes = <<>> /\ Sound(View(Kept, Work)) /\ View(Kept, Work) \in Views
  BY QInvParts
<1>3. CASE rows[d].collapsed = b
  <2>1. Normal("SkipUndo", Work)
    BY <1>3 DEF SetCollapsed
  <2>2. Reverts(Work.changes, View(Kept, Work), View(Kept, Work))
    BY <1>2, RevertsNothing
  <2>3. "SkipUndo" \in Kinds
    BY DEF Kinds
  <2> QED BY <1>2, <2>1, <2>2, <2>3, NormalMoves
<1>4. CASE rows[d].collapsed # b
  <2> DEFINE row == [rows[d] EXCEPT !.collapsed = b, !.pending = TRUE]
  <2>1. /\ Transact("NormalOp", "SkipUndo", undoSteps, redoSteps, UpdateUndoable(Work, d, row))
        /\ Unlogged({d})
    BY <1>4 DEF SetCollapsed
  <2>2. rows[d] \in Row
    BY <1>1, <1>2 DEF Rows
  <2>3. row \in Row /\ row.val = rows[d].val
    <3> DEFINE old == rows[d]
    <3>1. old \in Row
      BY <2>2
    <3>2. row = [old EXCEPT !.collapsed = b, !.pending = TRUE]
      OBVIOUS
    <3> HIDE DEF old
    <3>3. row \in Row /\ row.val = old.val
      BY <3>1, <3>2 DEF Row
    <3> QED BY <3>3 DEF old
  <2> HIDE DEF row
  <2> QED BY <1>1, <2>1, <2>3, CollapseMoves
<1> QED BY <1>3, <1>4

LEMMA AddObjectMoves ==
    ASSUME QInv, NEW p, NEW f, Lined(undoSteps, View(Kept, Work), ls, p),
           NEW o \in Objects, NEW v \in Values, AddObject(o, v)
    PROVE  Moves(p, f)
<1> DEFINE row == [val |-> v, collapsed |-> FALSE, pending |-> TRUE]
           u == AddUndoable(Work, o, row)
           kind == "Add"
<1>1. rows[o] = Absent /\ o \notin graves
  BY DEF AddObject, Present
<1>2. Normal(kind, u)
  BY DEF AddObject
<1>3. /\ Work \in Works /\ Work.ok /\ Work.mod = mod /\ Work.rows = rows /\ rows \in Rows
      /\ Work.changes = <<>> /\ Work.graves = graves /\ graves \subseteq Objects
      /\ \A a \in graves : rows[a] = Absent
      /\ Kept \in SUBSET Objects
  BY QInvParts
<1>4. row \in Row
  BY DEF Row
<1>5. Work.rows[o] = Absent
  BY <1>1, <1>3
<1> HIDE DEF row
<1>6. /\ Saved(Kept, Work, u, Added(o, row))
      /\ u.rows = [Work.rows EXCEPT ![o] = row] /\ u.graves = Work.graves /\ u.mod = Work.mod
  <2>1. Saved(Kept, Work, u, Added(o, row))
    BY <1>3, <1>4, <1>5, AddSaves
  <2> QED BY <1>3, <1>4, <1>5, <2>1, AddWrites DEF Wrote
<1> HIDE DEF u
<1>7. u \in Works /\ u.ok = Work.ok /\ u.changes # <<>> /\ Reverts(u.changes, View(Kept, u), View(Kept, Work))
  BY <1>3, <1>6, SavedReverts
<1>8. u.rows = [rows EXCEPT ![o] = row] /\ u.graves = graves
  BY <1>3, <1>6
<1>9. \A a \in u.graves : u.rows[a] = Absent
  <2>1. ASSUME NEW a \in graves PROVE u.rows[a] = Absent
    <3>1. a \in Objects /\ a # o
      BY <1>1, <1>3
    <3> QED BY <1>3, <1>8, <3>1 DEF Rows
  <2> QED BY <1>8, <2>1
<1>10. Sound(View(Kept, u))
  BY <1>3, <1>7, <1>9, SoundIs
<1>11. kind \in Kinds /\ kind # "Custom" /\ kind # "SkipUndo"
  BY DEF Kinds
<1>12. u \in Works /\ u.ok /\ u.mod = mod
  BY <1>3, <1>6, <1>7
<1> HIDE DEF kind
<1> QED BY <1>2, <1>7, <1>10, <1>11, <1>12, NormalMoves

\* The only two changes saved lead back.
LEMMA SavedTwice ==
    ASSUME NEW w \in Works, NEW K \in SUBSET Objects, w.changes = <<>>,
           NEW v, NEW c, Saved(K, w, v, c), NEW u, NEW d, Saved(K, v, u, d)
    PROVE  u \in Works /\ u.ok = w.ok /\ u.changes # <<>>
           /\ Reverts(u.changes, View(K, u), View(K, w))
<1>1. v \in Works /\ v.ok = w.ok /\ v.changes = <<c>> /\ Reverts(v.changes, View(K, v), View(K, w))
  BY SavedReverts
<1>2. /\ u \in Works /\ u.ok = v.ok /\ d \in Change /\ u.changes = Append(v.changes, d)
      /\ Fits(d, View(K, u)) /\ Back(d, View(K, u)) = View(K, v)
  BY DEF Saved
<1>3. View(K, u) \in Views /\ v.changes \in Seq(Change)
  BY <1>1, <1>2, ViewIs, WorkParts
<1>4. Reverts(<<d>>, View(K, u), Back(d, View(K, u)))
  BY <1>2, <1>3, RevertsOne
<1>5. <<d>> \in Seq(Change) /\ u.changes = v.changes \o <<d>>
  BY <1>2, <1>3, AppendIsConcat
<1>6. Reverts(<<d>>, View(K, u), View(K, v))
  BY <1>2, <1>4
<1>7. Reverts(v.changes \o <<d>>, View(K, u), View(K, w))
  BY <1>1, <1>3, <1>5, <1>6, RevertsConcat
<1>8. u.changes # <<>>
  BY <1>2, <1>3, AppendProperties
<1> QED BY <1>1, <1>2, <1>5, <1>7, <1>8

\* Removals with their grave, failures, and operations without undo.
LEMMA RemoveObjectMoves ==
    ASSUME QInv, NEW p, NEW f, Lined(undoSteps, View(Kept, Work), ls, p),
           NEW o \in Objects, RemoveObject(o)
    PROVE  Moves(p, f)
<1> DEFINE u == RemoveWithGrave(Work, o)
           kind == "Remove"
<1>1. rows[o] # Absent /\ Normal(kind, u)
  BY DEF RemoveObject, Present
<1>2. /\ Work \in Works /\ Work.ok /\ Work.mod = mod /\ Work.rows = rows /\ rows \in Rows
      /\ Work.changes = <<>> /\ Work.graves = graves /\ graves \subseteq Objects
      /\ \A a \in graves : rows[a] = Absent
      /\ Kept \in SUBSET Objects
  BY QInvParts
<1>3. Work.rows[o] # Absent /\ o \notin Work.graves /\ Work.rows[o] \in Row
  BY <1>1, <1>2 DEF Rows
<1>4. /\ u \in Works /\ u.ok /\ u.changes # <<>> /\ Reverts(u.changes, View(Kept, u), View(Kept, Work))
      /\ u.rows = [rows EXCEPT ![o] = Absent] /\ u.graves = graves \cup {o} /\ u.mod = mod
  <2>1. CASE o \in Notes
    <3> DEFINE v == RemoveWithoutGrave(Work, o, Work.rows[o])
    <3>1. u = AddGrave(v, o)
      BY <2>1 DEF RemoveWithGrave
    <3>2. /\ Saved(Kept, Work, v, Removed(o, Work.rows[o]))
          /\ v.rows = [Work.rows EXCEPT ![o] = Absent] /\ v.graves = Work.graves /\ v.mod = Work.mod
      <4>1. Saved(Kept, Work, v, Removed(o, Work.rows[o]))
        BY <1>2, <1>3, RemoveSaves
      <4> QED BY <1>2, <1>3, <4>1, RemoveWrites DEF Wrote
    <3> HIDE DEF u, v
    <3>3. v \in Works /\ o \notin v.graves
      BY <1>3, <3>2 DEF Saved
    <3>4. Saved(Kept, v, u, GraveAdded(o)) /\ u.rows = v.rows /\ u.graves = v.graves \cup {o} /\ u.mod = v.mod
      <4>1. Saved(Kept, v, u, GraveAdded(o))
        BY <1>2, <3>1, <3>3, AddGraveSaves
      <4> QED BY <3>1, <3>3, <4>1, AddGraveWrites DEF Wrote
    <3>5. u \in Works /\ u.ok = Work.ok /\ u.changes # <<>> /\ Reverts(u.changes, View(Kept, u), View(Kept, Work))
      BY <1>2, <3>2, <3>4, SavedTwice
    <3> QED BY <1>2, <3>2, <3>4, <3>5
  <2>2. CASE o \notin Notes
    <3> DEFINE v == AddGrave(Work, o)
    <3>1. u = RemoveWithoutGrave(v, o, Work.rows[o])
      BY <2>2 DEF RemoveWithGrave
    <3>2. /\ Saved(Kept, Work, v, GraveAdded(o)) /\ v.rows = Work.rows /\ v.graves = Work.graves \cup {o}
          /\ v.mod = Work.mod
      <4>1. Saved(Kept, Work, v, GraveAdded(o))
        BY <1>2, <1>3, AddGraveSaves
      <4> QED BY <1>2, <1>3, <4>1, AddGraveWrites DEF Wrote
    <3> HIDE DEF u, v
    <3>3. /\ v \in Works /\ v.rows[o] # Absent /\ v.rows[o] \in Row
          /\ u = RemoveWithoutGrave(v, o, v.rows[o])
      BY <1>3, <3>1, <3>2 DEF Saved
    <3>4. /\ Saved(Kept, v, u, Removed(o, v.rows[o]))
          /\ u.rows = [v.rows EXCEPT ![o] = Absent] /\ u.graves = v.graves /\ u.mod = v.mod
      <4>1. Saved(Kept, v, u, Removed(o, v.rows[o]))
        BY <1>2, <3>3, RemoveSaves
      <4> QED BY <3>3, <4>1, RemoveWrites DEF Wrote
    <3>5. u \in Works /\ u.ok = Work.ok /\ u.changes # <<>> /\ Reverts(u.changes, View(Kept, u), View(Kept, Work))
      BY <1>2, <3>2, <3>4, SavedTwice
    <3> QED BY <1>2, <3>2, <3>4, <3>5
  <2> QED BY <2>1, <2>2
<1> HIDE DEF u
<1>5. \A a \in u.graves : u.rows[a] = Absent
  <2>1. ASSUME NEW a \in u.graves PROVE u.rows[a] = Absent
    <3>1. a \in Objects /\ (a = o \/ a \in graves)
      BY <1>2, <1>4
    <3> QED BY <1>2, <1>4, <3>1 DEF Rows
  <2> QED BY <2>1
<1>6. Sound(View(Kept, u))
  BY <1>2, <1>4, <1>5, SoundIs
<1>7. kind \in Kinds /\ kind # "Custom" /\ kind # "SkipUndo"
  BY DEF Kinds
<1> HIDE DEF kind
<1> QED BY <1>1, <1>4, <1>6, <1>7, NormalMoves

LEMMA FailedOpMoves ==
    ASSUME QInv, NEW p, NEW f, FailedOp
    PROVE  Moves(p, f)
<1> DEFINE work == [Work EXCEPT !.ok = FALSE]
<1>1. ~work.ok
  BY DEF Work
<1>2. Transact("NormalOp", "Failed", undoSteps, redoSteps, work) /\ unlogged' = unlogged
  BY DEF FailedOp, Normal
<1> HIDE DEF work
<1>3. /\ Elapse /\ counter' = counter + 1 /\ UNCHANGED <<ls, proxy>>
      /\ undoSteps' = <<>> /\ redoSteps' = <<>> /\ UNCHANGED tables
  BY <1>1, <1>2 DEF Transact, Discard
<1>4. rows' = rows /\ graves' = graves /\ mod' = mod /\ ls' = ls /\ modifiedByProxy' = modifiedByProxy /\ trx' = trx
  BY <1>3 DEF tables, proxy
<1>5. /\ rows \in Rows /\ graves \subseteq Objects /\ mod \in Nat /\ ls \in Nat
      /\ now \in Nat /\ counter \in Nat /\ modifiedByProxy \in BOOLEAN /\ trx \in Seq(Snapshot)
      /\ Proper(View(Kept, Work), ls) /\ unlogged \subseteq Objects
      /\ Kept \in SUBSET Objects
  BY QInvParts
<1>6. now' \in Nat /\ counter' \in Nat
  BY <1>3, <1>5, Elapsed
<1>7. undoSteps' \in Seq(UndoSteps) /\ redoSteps' \in Seq(RedoSteps)
  BY <1>3
<1>8. TypeOK'
  BY <1>2, <1>4, <1>5, <1>6, <1>7, TypeKept
<1>9. Calm'
  BY <1>2, <1>3, <1>4, CalmAfter
<1>10. View(Kept', Work') = View(Kept, Work)
  BY <1>2, <1>4, KeptKept DEF Work
<1> QED BY <1>3, <1>4, <1>5, <1>8, <1>9, <1>10, Forgets

LEMMA NoUndoOpMoves ==
    ASSUME QInv, NEW p, NEW f, NEW o \in Objects, NEW v \in Values, NoUndoOp(o, v)
    PROVE  Moves(p, f)
<1>1. /\ Elapse /\ rows[o] # Absent
      /\ rows' = [rows EXCEPT ![o].val = v, ![o].pending = TRUE]
      /\ mod' = now' /\ undoSteps' = <<>> /\ redoSteps' = <<>>
      /\ graves' = graves /\ ls' = ls /\ counter' = counter
      /\ modifiedByProxy' = modifiedByProxy /\ trx' = trx /\ Unlogged({})
  BY DEF NoUndoOp, proxy, Present
<1>2. /\ rows \in Rows /\ graves \subseteq Objects /\ mod \in Nat /\ ls \in Nat
      /\ now \in Nat /\ counter \in Nat /\ modifiedByProxy \in BOOLEAN /\ trx \in Seq(Snapshot)
      /\ \A a \in graves : rows[a] = Absent
  BY QInvParts
<1>3. now' \in Nat /\ counter' \in Nat
  BY <1>1, <1>2, Elapsed
<1>4. rows[o] \in Row
  BY <1>1, <1>2 DEF Rows
<1>5. rows' \in Rows /\ \A a \in Objects : a # o => rows'[a] = rows[a]
  BY <1>1, <1>2, <1>4 DEF Rows, Row
<1>a. /\ unlogged' \subseteq Objects /\ Kept' \in SUBSET Objects
      /\ trx' = <<>> \/ unlogged \subseteq unlogged'
  <2>1. {} \in SUBSET Objects
    OBVIOUS
  <2> QED BY <1>1, <2>1, UnloggedIs
<1>6. TypeOK'
  <2>1. undoSteps' \in Seq(UndoSteps) /\ redoSteps' \in Seq(RedoSteps)
    BY <1>1
  <2> QED BY <1>1, <1>2, <1>3, <1>5, <1>a, <2>1, TypeKept
<1>7. Calm'
  BY <1>1, <1>a, CalmAfter, CalmWithoutTrx
<1> DEFINE w == [rows |-> rows', graves |-> graves', mod |-> mod', changes |-> <<>>, ok |-> TRUE]
<1>8. w \in Works /\ w.rows = rows' /\ w.graves = graves' /\ w.mod = now' /\ Work' = w
  BY <1>1, <1>2, <1>3, <1>5 DEF Works, Work
<1> HIDE DEF w
<1>9. \A a \in w.graves : w.rows[a] = Absent
  <2>1. ASSUME NEW a \in graves PROVE rows'[a] = Absent
    BY <1>1, <1>2, <1>5
  <2> QED BY <1>1, <1>8, <2>1
<1>10. Sound(View(Kept', w))
  BY <1>a, <1>8, <1>9, SoundIs
<1>11. Proper(View(Kept', w), ls)
  BY <1>1, <1>a, <1>8, <1>10, ProperAfter
<1> QED BY <1>1, <1>6, <1>7, <1>8, <1>11, Forgets

\* s lists the elements of S, n of them.
Lists(s, n, S) ==
    /\ n \in Nat /\ s \in [1..n -> S]
    /\ \A x \in S : \E i \in 1..n : s[i] = x

\* SetToSeq lists a finite set.
LEMMA SetToSeqLists ==
    ASSUME NEW S, IsFiniteSet(S)
    PROVE  \E n : Lists(SetToSeq(S), n, S)
<1> DEFINE n == Cardinality(S)
<1>1. n \in Nat /\ ExistsBijection(1..n, S)
  BY FS_CardinalityType
<1>2. \E f \in [1..n -> S] : IsInjective(f)
  BY <1>1 DEF ExistsBijection, Bijection, Injection
<1>3. SetToSeq(S) \in [1..n -> S] /\ IsInjective(SetToSeq(S))
  BY <1>2 DEF SetToSeq
<1> HIDE DEF n
<1>4. SetToSeq(S) \in Injection(1..n, S)
  BY <1>3 DEF Injection
<1>5. Cardinality(1..n) = n
  <2>1. Cardinality(1..n) = IF 1 > n THEN 0 ELSE n - 1 + 1
    BY <1>1, FS_Interval
  <2> QED BY <1>1, <2>1
<1>6. SetToSeq(S) \in Surjection(1..n, S)
  BY <1>4, <1>5, FS_Injection DEF n
<1>7. \A x \in S : \E i \in 1..n : SetToSeq(S)[i] = x
  BY <1>6 DEF Surjection
<1> QED BY <1>1, <1>3, <1>7 DEF Lists

\* u is w after new rows for `found`, with a change for each that saves the old
\* row.
Rewrites(w, u, found, new) ==
    /\ u.rows = new /\ u.graves = w.graves /\ u.mod = w.mod
    /\ \A o \in Objects : IF o \in found THEN w.rows[o] # Absent /\ new[o] # Absent
                          ELSE new[o] = w.rows[o]

\* One change for each object in the order, which saves its row.
SavesEach(cs, w, order, n) == cs = [i \in 1..n |-> Updated(order[i], w.rows[order[i]])]

LEMMA ReplacedReverts ==
    ASSUME NEW w \in Works, NEW K \in SUBSET Objects, NEW found \in SUBSET Objects, NEW new \in Rows,
           NEW u \in Works, Rewrites(w, u, found, new),
           NEW order, NEW n, Lists(order, n, found),
           NEW cs, SavesEach(cs, w, order, n)
    PROVE  cs \in Seq(Change) /\ Len(cs) = n /\ Reverts(cs, View(K, u), View(K, w))
<1>0. /\ cs = [i \in 1..n |-> Updated(order[i], w.rows[order[i]])]
      /\ u.rows = new /\ u.graves = w.graves /\ u.mod = w.mod
      /\ \A o \in Objects : IF o \in found THEN w.rows[o] # Absent /\ new[o] # Absent
                            ELSE new[o] = w.rows[o]
  BY DEF Rewrites, SavesEach
<1>1. n \in Nat /\ order \in [1..n -> found] /\ \A o \in found : \E i \in 1..n : order[i] = o
  BY DEF Lists
<1>2. w.rows \in Rows
  BY WorkParts
<1>3. \A i \in 1..n : order[i] \in Objects /\ w.rows[order[i]] \in Row /\ w.rows[order[i]] # Absent
  <2>1. ASSUME NEW i \in 1..n PROVE order[i] \in Objects /\ w.rows[order[i]] \in Row /\ w.rows[order[i]] # Absent
    <3> DEFINE o == order[i]
    <3>1. o \in found
      BY <1>1
    <3> HIDE DEF o
    <3>2. o \in Objects /\ w.rows[o] # Absent
      BY <1>0, <3>1
    <3>3. w.rows[o] \in Row
      BY <1>2, <3>2 DEF Rows
    <3> QED BY <3>2, <3>3 DEF o
  <2> QED BY <2>1
<1>4. \A i \in 1..n : cs[i] = Updated(order[i], w.rows[order[i]]) /\ cs[i] \in Change
  BY <1>0, <1>3, MadeChanges
<1>5. cs \in Seq(Change) /\ Len(cs) = n
  <2>1. cs \in [1..n -> Change]
    BY <1>0, <1>3, MadeChanges
  <2> QED BY <1>1, <2>1, FunctionIsSeq
<1>6. \A i \in 1..n : cs[i].type = "Updated" /\ cs[i].obj = order[i] /\ cs[i].row = w.rows[order[i]]
  <2>1. \A o, row : LET c == Updated(o, row) IN c.type = "Updated" /\ c.obj = o /\ c.row = row
    BY DEF Updated
  <2> QED BY <1>4, <2>1
<1> DEFINE x == View(K, w)
           y == View(K, u)
           Put(i, o) == IF \E j \in i..n : order[j] = o THEN x.objs[o] ELSE y.objs[o]
           O(i) == [o \in Objects |-> Put(i, o)]
           h == [i \in 1..(n + 1) |-> [objs |-> O(i), graves |-> y.graves, mod |-> y.mod, kept |-> y.kept]]
<1>7. /\ x \in Views /\ x.objs = Looked(K, w.rows) /\ x.graves = w.graves /\ x.mod = w.mod /\ x.kept = K
  BY ViewIs
<1>8. /\ y \in Views /\ y.objs = Looked(K, new) /\ y.graves = x.graves /\ y.mod = x.mod /\ y.kept = K
  BY <1>0, <1>7, ViewIs
<1>9. \A o \in Objects : x.objs[o] = Look(o, w.rows[o], K) /\ y.objs[o] = Look(o, new[o], K)
  BY <1>7, <1>8 DEF Looked
<1>10. \A o \in Objects : (o \notin found => y.objs[o] = x.objs[o]) /\ (o \in found => y.objs[o] # Absent /\ x.objs[o] # Absent)
  <2>1. ASSUME NEW o \in Objects, o \in found PROVE y.objs[o] # Absent /\ x.objs[o] # Absent
    <3>1. w.rows[o] \in Row /\ new[o] \in Row
      BY <1>0, <1>2, <2>1 DEF Rows
    <3> QED BY <1>9, <3>1, LookIs
  <2> QED BY <1>0, <1>9, <2>1
<1>11. /\ x = [objs |-> x.objs, graves |-> x.graves, mod |-> x.mod, kept |-> x.kept]
       /\ y = [objs |-> y.objs, graves |-> y.graves, mod |-> y.mod, kept |-> y.kept]
       /\ x.objs \in Rows /\ y.objs \in Rows
       /\ y.graves \in SUBSET Objects /\ y.mod \in Nat /\ y.kept = K /\ K \in SUBSET Objects
  BY <1>7, <1>8 DEF Views
<1> HIDE DEF x, y
<1>12. \A i \in 1..(n + 1) : h[i] = [objs |-> O(i), graves |-> y.graves, mod |-> y.mod, kept |-> y.kept]
  OBVIOUS
<1>13. \A i \in 1..(n + 1) : O(i) \in Rows
  BY <1>11 DEF Rows
<1>14. h \in [1..(n + 1) -> Views]
  <2> HIDE DEF O
  <2> QED BY <1>11, <1>13 DEF Views
<1> HIDE DEF h
<1>15. h[n + 1] = y
  <2>1. n + 1 \in 1..(n + 1) /\ (n + 1)..n = {}
    BY <1>1
  <2>2. O(n + 1) = y.objs
    BY <1>11, <2>1 DEF Rows
  <2> HIDE DEF O
  <2> QED BY <1>11, <1>12, <2>1, <2>2
<1>16. h[1] = x
  <2>1. 1 \in 1..(n + 1)
    BY <1>1
  <2>2. \A o \in Objects : Put(1, o) = x.objs[o]
    BY <1>1, <1>10
  <2>3. O(1) = x.objs
    <3> HIDE DEF Put
    <3> QED BY <1>11, <2>2 DEF Rows
  <2> HIDE DEF O
  <2> QED BY <1>7, <1>8, <1>11, <1>12, <2>1, <2>3
<1>17. ASSUME NEW i \in 1..n PROVE Fits(cs[i], h[i + 1]) /\ h[i] = Back(cs[i], h[i + 1])
  <2> DEFINE o == order[i]
             j == i + 1
  <2>1. i \in 1..(n + 1) /\ j \in 1..(n + 1) /\ i..n = {i} \cup (j..n)
    BY <1>1
  <2>2. o \in found /\ o \in Objects /\ Look(o, w.rows[o], K) = x.objs[o] /\ x.objs[o] # Absent /\ y.objs[o] # Absent
    BY <1>1, <1>9, <1>10
  <2>3. cs[i].type = "Updated" /\ cs[i].obj = o /\ cs[i].row = w.rows[o] /\ cs[i] \in Change
    BY <1>4, <1>6
  <2>o. order[i] = o
    OBVIOUS
  <2> HIDE DEF o, j
  <2>4. Put(i, o) = x.objs[o] /\ \A a \in Objects : a # o => Put(i, a) = Put(j, a)
    BY <2>1, <2>o
  <2>5. O(i) = [O(j) EXCEPT ![o] = x.objs[o]]
    <3> HIDE DEF Put
    <3> QED BY <2>2, <2>4
  <2>6. O(j)[o] # Absent
    BY <2>2
  <2> HIDE DEF O, Put
  <2>7. h[j] = [objs |-> O(j), graves |-> y.graves, mod |-> y.mod, kept |-> y.kept] /\ h[j] \in Views
    BY <1>12, <1>14, <2>1
  <2>8. h[j].objs = O(j) /\ h[j].graves = y.graves /\ h[j].mod = y.mod /\ h[j].kept = K
    BY <1>11, <2>7
  <2>9. Fits(cs[i], h[j])
    BY <2>3, <2>6, <2>8 DEF Fits
  <2>10. Back(cs[i], h[j]) = [objs |-> [h[j].objs EXCEPT ![o] = Look(o, w.rows[o], K)],
                               graves |-> h[j].graves, mod |-> h[j].mod, kept |-> K]
    BY <2>3, <2>7, <2>8, BackIs
  <2>11. Back(cs[i], h[j]) = [objs |-> O(i), graves |-> y.graves, mod |-> y.mod, kept |-> y.kept]
    BY <1>11, <2>2, <2>5, <2>8, <2>10
  <2>12. h[i] = Back(cs[i], h[j])
    BY <1>12, <2>1, <2>11
  <2> QED BY <2>9, <2>12 DEF j
<1>18. Trace(cs, y, h)
  BY <1>5, <1>14, <1>15, <1>17 DEF Trace
<1> QED BY <1>5, <1>16, <1>18 DEF Reverts, x, y

\* One step with changes to several notes.
LEMMA FindAndReplaceMoves ==
    ASSUME QInv, NEW p, NEW f, Lined(undoSteps, View(Kept, Work), ls, p),
           NEW v \in Values, FindAndReplace(v)
    PROVE  Moves(p, f)
<1> DEFINE found == {n \in Notes : Present(n) /\ rows[n].val # v}
           order == SetToSeq(found)
           new == [o \in Objects |-> IF o \in found
                                     THEN [rows[o] EXCEPT !.val = v, !.pending = TRUE]
                                     ELSE rows[o]]
           cs == [i \in 1..Len(order) |-> Updated(order[i], rows[order[i]])]
           u == [Work EXCEPT !.rows = new, !.changes = cs]
           kind == "FindAndReplace"
<1>1. Normal(kind, u) /\ found # {}
  BY DEF FindAndReplace
<1>2. /\ Work \in Works /\ Work.ok /\ Work.mod = mod /\ Work.rows = rows /\ rows \in Rows
      /\ Work.graves = graves /\ \A a \in graves : rows[a] = Absent
      /\ Kept \in SUBSET Objects
  BY QInvParts
<1>3. found \in SUBSET Objects /\ found \subseteq Notes /\ \A o \in found : rows[o] # Absent
  BY DEF Objects, Present
<1>4. IsFiniteSet(found)
  <2> HIDE DEF found
  <2> QED BY <1>3, ObjectAssumption, FS_Subset
<1> HIDE DEF found
<1>5. PICK n : Lists(order, n, found)
  BY <1>4, SetToSeqLists
<1>6. Len(order) = n /\ n # 0 /\ n \in Nat
  <2>1. n \in Nat /\ order \in [1..n -> found] /\ \A x \in found : \E i \in 1..n : order[i] = x
    BY <1>5 DEF Lists
  <2> HIDE DEF order
  <2>2. Len(order) = n
    BY <2>1, FunctionIsSeq
  <2> QED BY <1>1, <2>1, <2>2
<1>7. new \in Rows /\ \A o \in Objects : IF o \in found THEN rows[o] # Absent /\ new[o] # Absent ELSE new[o] = rows[o]
  <2>1. ASSUME NEW o \in found PROVE [rows[o] EXCEPT !.val = v, !.pending = TRUE] \in Row
    <3> DEFINE row == rows[o]
    <3>1. row \in Row
      BY <1>2, <1>3 DEF Rows
    <3> HIDE DEF row
    <3>2. [row EXCEPT !.val = v, !.pending = TRUE] \in Row
      BY <3>1, EditedRow
    <3> QED BY <3>2 DEF row
  <2>2. Absent \notin Row
    BY ObjectAssumption
  <2> QED BY <1>2, <1>3, <2>1, <2>2 DEF Rows
<1>8. cs = [i \in 1..n |-> Updated(order[i], Work.rows[order[i]])]
  BY <1>2, <1>6
<1> HIDE DEF new, cs, order
<1> DEFINE x == [Work EXCEPT !.rows = new]
<1>9. x \in Works /\ x.rows = new /\ x.graves = Work.graves /\ x.mod = Work.mod
  BY <1>2, <1>7 DEF Works
<1> HIDE DEF x
<1>10. cs \in Seq(Change) /\ Len(cs) = n /\ Reverts(cs, View(Kept, x), View(Kept, Work))
  <2>1. \A o \in Objects : IF o \in found THEN Work.rows[o] # Absent /\ new[o] # Absent ELSE new[o] = Work.rows[o]
    BY <1>2, <1>7
  <2>2. new \in Rows /\ Work \in Works
    BY <1>2, <1>7
  <2>3. Rewrites(Work, x, found, new)
    BY <1>9, <2>1 DEF Rewrites
  <2>4. SavesEach(cs, Work, order, n)
    BY <1>8 DEF SavesEach
  <2>5. x \in Works
    BY <1>9
  <2> QED BY <1>2, <1>3, <1>5, <2>2, <2>3, <2>4, <2>5, ReplacedReverts
<1>11. u \in Works /\ u.ok /\ u.mod = mod /\ u.changes = cs /\ u.rows = new /\ u.graves = graves
  BY <1>2, <1>7, <1>10 DEF Works
<1> HIDE DEF u
<1>12. View(Kept, u) = View(Kept, x)
  BY <1>2, <1>9, <1>11 DEF View
<1>13. Reverts(u.changes, View(Kept, u), View(Kept, Work)) /\ u.changes # <<>>
  <2>1. cs # <<>>
    BY <1>6, <1>10
  <2> QED BY <1>10, <1>11, <1>12, <2>1
<1>14. \A a \in u.graves : u.rows[a] = Absent
  <2>1. ASSUME NEW a \in graves PROVE new[a] = Absent
    <3>1. a \in Objects /\ a \notin found
      BY <1>2, <1>3, QInvParts
    <3> QED BY <1>2, <1>7, <3>1
  <2> QED BY <1>11, <2>1
<1>15. Sound(View(Kept, u))
  BY <1>2, <1>11, <1>14, SoundIs
<1>16. kind \in Kinds /\ kind # "Custom" /\ kind # "SkipUndo"
  BY DEF Kinds
<1> HIDE DEF kind
<1> QED BY <1>1, <1>11, <1>13, <1>15, <1>16, NormalMoves

-----------------------------------------------------------------------------
(* Undo and redo.                                                           *)

\* What replaying a step whose changes lead back to y leaves.
Replayed(w, changes, y) ==
    /\ w \in Works /\ w.ok /\ View(Kept, w) = y
    /\ Reverts(w.changes, y, View(Kept, Work))
    /\ w.changes \in Seq(Change)
    /\ w.changes = <<>> <=> changes = <<>>
    /\ FirstModified(changes) => LastModified(w.changes)
    /\ LastModified(changes) => FirstModified(w.changes)

\* Replaying the changes of a step succeeds and saves what leads forward again.
LEMMA StepReplayed ==
    ASSUME QInv, NEW changes \in Seq(Change), NEW y, Reverts(changes, View(Kept, Work), y)
    PROVE  Replayed(Replay(changes, Work), changes, y)
<1>1. Work \in Works /\ Work.ok /\ Work.changes = <<>> /\ Kept \in SUBSET Objects
  BY QInvParts
<1>2. PICK h : Trace(changes, View(Kept, Work), h) /\ h[1] = y
  BY DEF Reverts
<1> DEFINE w == Replay(changes, Work)
<1>3. w \in Works /\ w.ok /\ View(Kept, w) = h[1] /\ Mirrors(w.changes, changes, h)
  BY <1>1, <1>2, ReplayFollows
<1> HIDE DEF w
<1>4. /\ Reverts(w.changes, h[1], View(Kept, Work)) /\ w.changes \in Seq(Change)
      /\ w.changes = <<>> <=> changes = <<>>
      /\ FirstModified(changes) => LastModified(w.changes)
      /\ LastModified(changes) => FirstModified(w.changes)
  BY <1>2, <1>3, MirrorReverts
<1>5. Replayed(w, changes, y)
  BY <1>2, <1>3, <1>4 DEF Replayed
<1> QED BY <1>5 DEF w

\* A transaction whose closure succeeds leaves typed tables behind.
LEMMA TablesAfter ==
    ASSUME QInv, Elapse, counter' = counter + 1, ls' = ls,
           modifiedByProxy' = modifiedByProxy, trx' = trx, unlogged' = unlogged,
           NEW w \in Works, rows' = w.rows, graves' = w.graves, mod' = w.mod,
           undoSteps' \in Seq(UndoSteps), redoSteps' \in Seq(RedoSteps)
    PROVE  TypeOK' /\ Calm' /\ View(Kept', Work') = View(Kept, w)
<1>1. /\ now \in Nat /\ counter \in Nat /\ ls \in Nat
      /\ modifiedByProxy \in BOOLEAN /\ trx \in Seq(Snapshot)
      /\ unlogged \subseteq Objects
  BY QInvParts
<1>2. now' \in Nat /\ counter' \in Nat
  BY <1>1, Elapsed
<1>3. View(Kept', Work') = View(Kept, w) /\ rows' \in Rows /\ graves' \subseteq Objects /\ mod' \in Nat
  BY KeptKept, WorkAfter
<1>4. Calm'
  BY CalmAfter
<1>5. TypeOK'
  BY <1>1, <1>2, <1>3, TypeKept
<1> QED BY <1>3, <1>4, <1>5

\* An undo goes to the nearest past content, and what was present becomes the
\* nearest future one.  It is never coalesced: what it saves begins with the mtime.
LEMMA UndoMoves ==
    ASSUME QInv, NEW p, NEW f, Lined(undoSteps, View(Kept, Work), ls, p),
           Lined(Reverse(redoSteps), View(Kept, Work), ls, f), Undo
    PROVE  Moves(p, f)
<1> DEFINE undone == Head(undoSteps)
           rest == Tail(undoSteps)
           w == Replay(undone.changes, Work)
           step == Step(undone.kind, w.changes, counter + 1)
<1>1. undoSteps # <<>> /\ Transact("Undoing", undone.kind, rest, redoSteps, w) /\ unlogged' = unlogged
  BY DEF Undo
<1>2. /\ undoSteps \in Seq(UndoableOp) /\ undoSteps \in Seq(UndoSteps) /\ redoSteps \in Seq(RedoSteps)
      /\ redoSteps \in Seq(UndoableOp) /\ now \in Nat /\ counter \in Nat /\ ls \in Nat
      /\ View(Kept, Work) \in Views
  BY QInvParts
<1>l. PICK y : Leads(undoSteps, View(Kept, Work), ls, p, y)
  BY <1>1, <1>2, LinedTail
<1>3. /\ y \in Views
      /\ Proper(y, ls)
      /\ Reverts(undone.changes, View(Kept, Work), y)
      /\ Lined(rest, y, ls, Tail(p))
      /\ p # <<>> /\ Head(p) = Seen(y)
  BY <1>l DEF Leads
<1>4. undone \in UndoSteps /\ rest \in Seq(UndoSteps)
  BY <1>1, <1>2, TailIs
<1>5. /\ undone.kind \in Kinds /\ undone.changes \in Seq(Change) /\ undone.kind # "SkipUndo"
      /\ undone.changes = <<>> => undone.kind = "Custom"
      /\ LastModified(undone.changes)
  BY <1>4 DEF UndoSteps, UndoableOp
<1>6. Replayed(w, undone.changes, y)
  BY <1>3, <1>5, StepReplayed
<1> HIDE DEF w
<1>7. /\ w \in Works /\ w.ok /\ View(Kept, w) = y /\ Reverts(w.changes, y, View(Kept, Work))
      /\ w.changes \in Seq(Change) /\ (w.changes = <<>> <=> undone.changes = <<>>)
      /\ FirstModified(w.changes)
  BY <1>5, <1>6 DEF Replayed
<1>8. ~Coalesces(rest, undone.kind, w.changes)
  <2>1. ASSUME IsNoteEdit(w.changes) PROVE FALSE
    BY <1>7, <2>1 DEF IsNoteEdit, FirstModified
  <2> QED BY <2>1 DEF Coalesces
<1>9. HasChanges(undone.kind, w.changes) /\ undone.kind # "SkipUndo"
  BY <1>5, <1>7 DEF HasChanges
<1>10. /\ Elapse /\ counter' = counter + 1 /\ ls' = ls
       /\ modifiedByProxy' = modifiedByProxy /\ trx' = trx
       /\ rows' = w.rows /\ graves' = w.graves /\ mod' = w.mod
       /\ undoSteps' = rest /\ redoSteps' = Append(redoSteps, step)
  <2> DEFINE mode == "Undoing"
             kind == undone.kind
             saved == IF Coalesces(rest, kind, w.changes) THEN <<>> ELSE w.changes
  <2>1. mode \in {"NormalOp", "Undoing", "Redoing"} /\ mode = "Undoing" /\ mode # "NormalOp"
    OBVIOUS
  <2>2. Transact(mode, kind, rest, redoSteps, w) /\ w = BumpMtime(mode, kind, w)
    BY <1>1 DEF BumpMtime
  <2>3. saved = w.changes /\ step = Step(kind, saved, counter + 1)
    BY <1>8
  <2>4. HasChanges(kind, saved) /\ kind # "SkipUndo"
    BY <1>9, <2>3
  <2>5. saved = (IF Coalesces(rest, kind, w.changes) THEN <<>> ELSE w.changes)
    OBVIOUS
  <2> HIDE DEF mode, kind, saved, step, rest, undone
  <2>6. /\ Elapse /\ counter' = counter + 1 /\ ls' = ls
        /\ modifiedByProxy' = modifiedByProxy /\ trx' = trx
        /\ rows' = w.rows /\ graves' = w.graves /\ mod' = w.mod
        /\ undoSteps' = (IF HasChanges(kind, saved) /\ kind # "SkipUndo" /\ mode # "Undoing"
                         THEN PushUndo(rest, Step(kind, saved, counter + 1))
                         ELSE rest)
        /\ redoSteps' = (IF HasChanges(kind, saved) /\ kind # "SkipUndo" /\ mode = "Undoing"
                         THEN Append(redoSteps, Step(kind, saved, counter + 1))
                         ELSE IF mode = "NormalOp" THEN <<>> ELSE redoSteps)
    BY <1>7, <2>1, <2>2, <2>5, TransactIs
  <2> QED BY <2>1, <2>3, <2>4, <2>6
<1> HIDE DEF rest, undone
<1>11. now' \in Nat
  BY <1>2, <1>10, Elapsed
<1>12. step \in UndoableOp /\ step.changes = w.changes /\ step \in RedoSteps
  BY <1>2, <1>5, <1>7, <1>11, StepIs
<1> HIDE DEF step
<1>13. undoSteps' \in Seq(UndoSteps) /\ redoSteps' \in Seq(RedoSteps)
  <2>1. Append(redoSteps, step) \in Seq(RedoSteps)
    BY <1>2, <1>12, AppendProperties
  <2> QED BY <1>4, <1>10, <2>1
<1>14. TypeOK' /\ Calm' /\ View(Kept', Work') = y
  BY <1>1, <1>7, <1>10, <1>13, TablesAfter
<1>15. Lined(undoSteps', View(Kept', Work'), ls', Tail(p))
  BY <1>3, <1>10, <1>14
<1>16. Lined(Reverse(redoSteps'), View(Kept', Work'), ls', <<Seen(View(Kept, Work))>> \o f)
  <2>1. Reverse(redoSteps') = <<step>> \o Reverse(redoSteps)
    BY <1>2, <1>10, <1>12, ReverseAppend
  <2>2. Reverse(redoSteps) \in Seq(UndoableOp)
    BY <1>2, ReverseIs
  <2>3. Reverts(step.changes, y, View(Kept, Work))
    BY <1>7, <1>12
  <2>4. Lined(<<step>> \o Reverse(redoSteps), y, ls, <<Seen(View(Kept, Work))>> \o f)
    BY <1>3, <1>12, <2>2, <2>3, LinedPush
  <2> QED BY <1>10, <1>14, <2>1, <2>4
<1>17. Turn(p, Seen(View(Kept, Work)), f, Tail(p), Seen(View(Kept', Work')), <<Seen(View(Kept, Work))>> \o f)
  BY <1>3, <1>14 DEF Turn
<1> QED BY <1>13, <1>14, <1>15, <1>16, <1>17 DEF Moves

\* An element in front of a sequence.
LEMMA ConsParts ==
    ASSUME NEW S, NEW s \in Seq(S), NEW e \in S
    PROVE  Head(<<e>> \o s) = e /\ Tail(<<e>> \o s) = s /\ <<e>> \o s # <<>> /\ <<e>> \o s \in Seq(S)
<1>1. /\ <<e>> \o s \in Seq(S) /\ Len(<<e>> \o s) = Len(s) + 1
      /\ <<e>> \o s = [i \in 1..(Len(s) + 1) |-> IF i = 1 THEN e ELSE s[i - 1]]
  BY ConsIs
<1> QED BY <1>1

\* A redo goes to the nearest future content.  The step it pushes drops none at
\* the limit, by QueuesWithinLimit; it may be coalesced with the one before.
LEMMA RedoMoves ==
    ASSUME IInv, QInv, NEW p, NEW f, Lined(undoSteps, View(Kept, Work), ls, p),
           Lined(Reverse(redoSteps), View(Kept, Work), ls, f), Redo
    PROVE  Moves(p, f)
<1> DEFINE redone == Last(redoSteps)
           rest == Front(redoSteps)
           w == Replay(redone.changes, Work)
           saved == IF Coalesces(undoSteps, redone.kind, w.changes) THEN <<>> ELSE w.changes
           step == Step(redone.kind, saved, counter + 1)
<1>1. redoSteps # <<>> /\ Transact("Redoing", redone.kind, undoSteps, rest, w) /\ unlogged' = unlogged
  BY DEF Redo
<1>2. /\ undoSteps \in Seq(UndoableOp) /\ undoSteps \in Seq(UndoSteps) /\ redoSteps \in Seq(RedoSteps)
      /\ redoSteps \in Seq(UndoableOp) /\ now \in Nat /\ counter \in Nat /\ ls \in Nat
      /\ View(Kept, Work) \in Views
  BY QInvParts
<1>r. /\ rest \in Seq(RedoSteps) /\ rest \in Seq(UndoableOp) /\ redone \in RedoSteps /\ redone \in UndoableOp
      /\ Reverse(redoSteps) = <<redone>> \o Reverse(rest)
      /\ Len(rest) = Len(redoSteps) - 1
  BY <1>1, <1>2, ReverseFront
<1>v. Reverse(rest) \in Seq(UndoableOp)
  BY <1>r, ReverseIs
<1>5. /\ redone.kind \in Kinds /\ redone.changes \in Seq(Change) /\ redone.kind # "SkipUndo"
      /\ redone.changes = <<>> => redone.kind = "Custom"
      /\ FirstModified(redone.changes)
  BY <1>r DEF RedoSteps, UndoableOp
<1>h. /\ Head(Reverse(redoSteps)) = redone /\ Tail(Reverse(redoSteps)) = Reverse(rest)
      /\ Reverse(redoSteps) # <<>> /\ Reverse(redoSteps) \in Seq(UndoableOp)
  <2> HIDE DEF redone, rest
  <2> QED BY <1>r, <1>v, ConsParts
<1>l. PICK y : Leads(Reverse(redoSteps), View(Kept, Work), ls, f, y)
  BY <1>h, LinedTail
<1>3. /\ y \in Views
      /\ Proper(y, ls)
      /\ Reverts(redone.changes, View(Kept, Work), y)
      /\ Lined(Reverse(rest), y, ls, Tail(f))
      /\ f # <<>> /\ Head(f) = Seen(y)
  BY <1>l, <1>h DEF Leads
<1>6. Replayed(w, redone.changes, y)
  BY <1>3, <1>5, StepReplayed
<1> HIDE DEF w
<1>7. /\ w \in Works /\ w.ok /\ View(Kept, w) = y /\ Reverts(w.changes, y, View(Kept, Work))
      /\ w.changes \in Seq(Change) /\ (w.changes = <<>> <=> redone.changes = <<>>)
      /\ LastModified(w.changes)
  BY <1>5, <1>6 DEF Replayed
<1>8. saved = IF Coalesces(undoSteps, redone.kind, w.changes) THEN <<>> ELSE w.changes
  OBVIOUS
<1> HIDE DEF saved
<1>10. /\ Elapse /\ counter' = counter + 1 /\ ls' = ls
       /\ modifiedByProxy' = modifiedByProxy /\ trx' = trx
       /\ rows' = w.rows /\ graves' = w.graves /\ mod' = w.mod
       /\ redoSteps' = rest
       /\ undoSteps' = (IF HasChanges(redone.kind, saved) THEN PushUndo(undoSteps, step) ELSE undoSteps)
  <2> DEFINE mode == "Redoing"
             kind == redone.kind
  <2>1. mode \in {"NormalOp", "Undoing", "Redoing"} /\ mode # "Undoing" /\ mode # "NormalOp"
    OBVIOUS
  <2>2. Transact(mode, kind, undoSteps, rest, w) /\ w = BumpMtime(mode, kind, w)
    BY <1>1 DEF BumpMtime
  <2>3. step = Step(kind, saved, counter + 1) /\ kind # "SkipUndo"
    BY <1>5
  <2>5. saved = (IF Coalesces(undoSteps, kind, w.changes) THEN <<>> ELSE w.changes)
    BY <1>8
  <2>e. kind = redone.kind
    OBVIOUS
  <2> HIDE DEF mode, kind, step, rest, redone
  <2>6. /\ Elapse /\ counter' = counter + 1 /\ ls' = ls
        /\ modifiedByProxy' = modifiedByProxy /\ trx' = trx
        /\ rows' = w.rows /\ graves' = w.graves /\ mod' = w.mod
        /\ undoSteps' = (IF HasChanges(kind, saved) /\ kind # "SkipUndo" /\ mode # "Undoing"
                         THEN PushUndo(undoSteps, Step(kind, saved, counter + 1))
                         ELSE undoSteps)
        /\ redoSteps' = (IF HasChanges(kind, saved) /\ kind # "SkipUndo" /\ mode = "Undoing"
                         THEN Append(rest, Step(kind, saved, counter + 1))
                         ELSE IF mode = "NormalOp" THEN <<>> ELSE rest)
    BY <1>7, <2>1, <2>2, <2>5, TransactIs
  <2> QED BY <2>1, <2>3, <2>6, <2>e
<1>11. now' \in Nat
  BY <1>2, <1>10, Elapsed
<1>12. redoSteps' \in Seq(RedoSteps) /\ redoSteps' = rest
  BY <1>r, <1>10
<1>p. Len(p) = Len(undoSteps)
  BY <1>2, LinedProper
\* The redone step is gone from one queue; in the other it has come back or
\* has been absorbed.
<1>13. ASSUME undoSteps' \in Seq(UndoSteps), NEW q, Lined(undoSteps', y, ls, q),
              q = <<Seen(View(Kept, Work))>> \o p \/ (p # <<>> /\ q = p)
       PROVE  Moves(p, f)
  <2> HIDE DEF rest, redone, step
  <2>1. TypeOK' /\ Calm' /\ View(Kept', Work') = y
    BY <1>1, <1>7, <1>10, <1>12, <1>13, TablesAfter
  <2>2. Lined(undoSteps', View(Kept', Work'), ls', q)
    BY <1>10, <1>13, <2>1
  <2>3. Lined(Reverse(redoSteps'), View(Kept', Work'), ls', Tail(f))
    BY <1>3, <1>10, <1>12, <2>1
  <2>4. Turn(p, Seen(View(Kept, Work)), f, q, Seen(View(Kept', Work')), Tail(f))
    BY <1>3, <1>13, <2>1 DEF Turn
  <2> QED BY <1>12, <1>13, <2>1, <2>2, <2>3, <2>4 DEF Moves
<1>14. CASE Coalesces(undoSteps, redone.kind, w.changes)
  <2> DEFINE d == Head(undoSteps).changes
             x == View(Kept, Work)
  <2>1. /\ redone.kind = "UpdateNote" /\ undoSteps # <<>> /\ IsNoteEdit(d) /\ IsNoteEdit(w.changes)
        /\ d[1].obj = w.changes[1].obj
    BY <1>14 DEF Coalesces
  <2>2. saved = <<>>
    BY <1>8, <1>14
  <2>3. undoSteps' = undoSteps
    BY <1>10, <2>1, <2>2 DEF HasChanges
  <2>4. Head(undoSteps) \in UndoableOp
    BY <1>2, <2>1
  <2>5. d \in Seq(Change)
    BY <2>4 DEF UndoableOp
  <2>a. Lined(undoSteps, x, ls, p) /\ Reverts(w.changes, y, x)
    BY <1>7
  <2> HIDE DEF d, x, redone, rest, step
  <2>6. ASSUME NEW z, Reverts(d, x, z) PROVE Reverts(d, y, z)
    BY <1>7, <2>1, <2>5, <2>6, <2>a, CoalescedReverts
  <2>7. Lined(undoSteps, y, ls, p)
    <3>1. \A z : Reverts(Head(undoSteps).changes, x, z) => Reverts(Head(undoSteps).changes, y, z)
      BY <2>6 DEF d
    <3> QED BY <1>2, <1>3, <2>1, <2>a, <3>1, LinedSwap
  <2>8. p # <<>>
    <3>1. Len(undoSteps) # 0
      BY <1>2, <2>1
    <3> QED BY <1>p, <3>1
  <2> QED BY <1>2, <1>13, <2>3, <2>7, <2>8
<1>15. CASE ~Coalesces(undoSteps, redone.kind, w.changes)
  <2>1. saved = w.changes
    BY <1>8, <1>15
  <2>2. undoSteps' = PushUndo(undoSteps, step)
    BY <1>5, <1>7, <1>10, <2>1 DEF HasChanges
  <2>3. step \in UndoSteps /\ step.changes = w.changes
    <3>1. step = Step(redone.kind, w.changes, counter + 1)
      BY <2>1
    <3> HIDE DEF step, redone
    <3> QED BY <1>2, <1>5, <1>7, <1>11, <3>1, StepIs
  <2> DEFINE x == View(Kept, Work)
             m == IF Len(p) < UndoLimit - 1 THEN Len(p) ELSE UndoLimit - 1
             q == <<Seen(x)>> \o SubSeq(p, 1, m)
  <2>a. Lined(undoSteps, x, ls, p) /\ Reverts(step.changes, y, x)
    BY <1>7, <2>3
  <2>x. x = View(Kept, Work)
    OBVIOUS
  <2> HIDE DEF x, step, redone, rest
  <2>4. undoSteps' \in Seq(UndoSteps) /\ Lined(undoSteps', y, ls, q)
    BY <1>2, <1>3, <2>2, <2>3, <2>a, LinedPushUndo
  <2>5. q = <<Seen(x)>> \o p
    <3>1. Len(undoSteps) + Len(redoSteps) <= UndoLimit
      BY DEF IInv
    <3>2. Len(undoSteps) \in Nat /\ Len(redoSteps) \in Nat /\ Len(redoSteps) # 0
      BY <1>1, <1>2
    <3>3. UndoLimit \in Nat
      BY UndoAssumption
    <3>4. Len(p) <= UndoLimit - 1 /\ Len(p) \in Nat
      BY <1>p, <3>1, <3>2, <3>3
    <3>5. m = Len(p)
      BY <3>3, <3>4
    <3>6. SubSeq(p, 1, Len(p)) = p
      <4>1. PICK line : Past(undoSteps, line) = p
        BY <2>a DEF Lined
      <4>2. p = [i \in 1..Len(undoSteps) |-> Seen(line[i])]
        BY <4>1 DEF Past
      <4> DEFINE S == {Seen(line[i]) : i \in 1..Len(undoSteps)}
      <4>3. p \in [1..Len(undoSteps) -> S]
        BY <4>2
      <4> HIDE DEF S
      <4>4. p \in Seq(S)
        BY <3>2, <4>3, FunctionIsSeq
      <4> QED BY <4>4
    <3> QED BY <3>5, <3>6
  <2> HIDE DEF q
  <2> QED BY <1>13, <2>4, <2>5, <2>x
<1> QED BY <1>14, <1>15

-----------------------------------------------------------------------------
(* Custom steps and merges.                                                 *)

\* A step that leaves tables, mtimes and proxy alone keeps the queues in line.
LEMMA SameView ==
    ASSUME UNCHANGED <<rows, graves, mod, unlogged>>
    PROVE  View(Kept', Work') = View(Kept, Work)
<1>1. Work'.rows = Work.rows /\ Work'.graves = Work.graves /\ Work'.mod = Work.mod
  BY DEF Work
<1> QED BY <1>1, KeptKept DEF View

\* A step that leaves the queues alone, and the tables as they look.
LEMMA Stutters ==
    ASSUME QInv, NEW p, NEW f, Lined(undoSteps, View(Kept, Work), ls, p),
           Lined(Reverse(redoSteps), View(Kept, Work), ls, f),
           TypeOK', Calm', View(Kept', Work') = View(Kept, Work), ls' = ls,
           undoSteps' = undoSteps, redoSteps' = redoSteps
    PROVE  Moves(p, f)
<1>1. undoSteps' \in Seq(UndoSteps) /\ redoSteps' \in Seq(RedoSteps)
  BY QInvParts
<1>2. Lined(undoSteps', View(Kept', Work'), ls', p) /\ Lined(Reverse(redoSteps'), View(Kept', Work'), ls', f)
  OBVIOUS
<1>3. Turn(p, Seen(View(Kept, Work)), f, p, Seen(View(Kept', Work')), f)
  BY DEF Turn
<1> QED BY <1>1, <1>2, <1>3 DEF Moves

\* Nothing happens.
LEMMA SameMoves ==
    ASSUME QInv, NEW p, NEW f, Lined(undoSteps, View(Kept, Work), ls, p),
           Lined(Reverse(redoSteps), View(Kept, Work), ls, f), UNCHANGED vars
    PROVE  Moves(p, f)
<1>1. /\ rows' = rows /\ graves' = graves /\ mod' = mod /\ ls' = ls /\ undoSteps' = undoSteps
      /\ redoSteps' = redoSteps /\ counter' = counter /\ modifiedByProxy' = modifiedByProxy
      /\ trx' = trx /\ now' = now /\ unlogged' = unlogged
  BY DEF vars, tables, queues, proxy
<1>2. TypeOK' /\ Calm'
  BY <1>1, KeptKept DEF QInv, TypeOK, Calm
<1>3. View(Kept', Work') = View(Kept, Work)
  BY <1>1, SameView
<1> QED BY <1>1, <1>2, <1>3, Stutters

\* A step without changes, and the merge of steps.
LEMMA AddCustomStepMoves ==
    ASSUME QInv, NEW p, NEW f, Lined(undoSteps, View(Kept, Work), ls, p), AddCustomStep
    PROVE  Moves(p, f)
<1> DEFINE step == Step("Custom", <<>>, counter + 1)
           x == View(Kept, Work)
           q == <<Seen(x)>> \o SubSeq(p, 1, IF Len(p) < UndoLimit - 1 THEN Len(p) ELSE UndoLimit - 1)
<1>1. /\ Elapse /\ counter' = counter + 1 /\ undoSteps' = PushUndo(undoSteps, step) /\ redoSteps' = <<>>
      /\ rows' = rows /\ graves' = graves /\ mod' = mod /\ ls' = ls
      /\ modifiedByProxy' = modifiedByProxy /\ trx' = trx /\ unlogged' = unlogged
  BY DEF AddCustomStep, tables, proxy
<1>2. /\ undoSteps \in Seq(UndoSteps) /\ Work \in Works /\ Work.rows = rows /\ Work.graves = graves
      /\ Work.mod = mod /\ now \in Nat /\ counter \in Nat /\ ls \in Nat
      /\ x \in Views /\ Proper(x, ls)
  BY QInvParts
<1>3. now' \in Nat
  BY <1>1, <1>2, Elapsed
<1>4. step \in UndoSteps /\ step.changes = <<>>
  <2> DEFINE kind == "Custom"
             none == <<>>
  <2>1. kind \in Kinds /\ kind # "SkipUndo" /\ kind = "Custom" /\ none \in Seq(Change) /\ none = <<>>
        /\ LastModified(none)
    BY DEF Kinds, LastModified
  <2>2. step = Step(kind, none, counter + 1)
    OBVIOUS
  <2> HIDE DEF kind, none, step
  <2> QED BY <1>2, <1>3, <2>1, <2>2, StepIs
<1>5. Reverts(step.changes, x, x)
  BY <1>2, <1>4, RevertsNothing
<1>x. Lined(undoSteps, x, ls, p)
  OBVIOUS
<1> HIDE DEF step
<1>6. undoSteps' \in Seq(UndoSteps) /\ Lined(undoSteps', x, ls, q)
  <2> HIDE DEF x
  <2> QED BY <1>1, <1>2, <1>4, <1>5, <1>x, LinedPushUndo
<1> HIDE DEF q
<1>7. redoSteps' \in Seq(RedoSteps)
  BY <1>1
<1>8. TypeOK' /\ Calm' /\ View(Kept', Work') = x
  <2> DEFINE w == Work
  <2>1. w \in Works /\ rows' = w.rows /\ graves' = w.graves /\ mod' = w.mod /\ View(Kept, w) = x
    BY <1>1, <1>2
  <2> HIDE DEF w, x
  <2> QED BY <1>1, <1>6, <1>7, <2>1, TablesAfter
<1>9. Lined(undoSteps', View(Kept', Work'), ls', q)
  BY <1>1, <1>6, <1>8
<1>10. Lined(Reverse(redoSteps'), View(Kept', Work'), ls', <<>>)
  BY <1>1, <1>2, <1>8, LinedEmpty, EmptyReverse
<1>11. Turn(p, Seen(View(Kept, Work)), f, q, Seen(View(Kept', Work')), <<>>)
  BY DEF Turn, q
<1> QED BY <1>6, <1>7, <1>8, <1>9, <1>10, <1>11 DEF Moves

LEMMA MergeMoves ==
    ASSUME QInv, NEW p, NEW f, Lined(undoSteps, View(Kept, Work), ls, p),
           Lined(Reverse(redoSteps), View(Kept, Work), ls, f), NEW n \in Nat, MergeUndoableOps(n)
    PROVE  Moves(p, f)
<1>1. PICK i \in 1..Len(undoSteps) :
          /\ undoSteps[i].counter = n
          /\ undoSteps' = <<[kind |-> undoSteps[i].kind,
                             timestamp |-> undoSteps[i].timestamp,
                             changes |-> FlattenSeq([j \in 1..i |-> undoSteps[i + 1 - j].changes]),
                             counter |-> n]>> \o SubSeq(undoSteps, i + 1, Len(undoSteps))
  BY DEF MergeUndoableOps
<1>2. /\ counter' = n /\ redoSteps' = redoSteps /\ now' = now
      /\ rows' = rows /\ graves' = graves /\ mod' = mod /\ ls' = ls
      /\ modifiedByProxy' = modifiedByProxy /\ trx' = trx /\ unlogged' = unlogged
  BY DEF MergeUndoableOps, tables, proxy
<1> DEFINE merged == [kind |-> undoSteps[i].kind, timestamp |-> undoSteps[i].timestamp,
                      changes |-> MergedChanges(undoSteps, i), counter |-> n]
           rest == SubSeq(undoSteps, i + 1, Len(undoSteps))
           q == SubSeq(p, i, Len(p))
           x == View(Kept, Work)
<1>3. undoSteps' = <<merged>> \o rest
  BY <1>1 DEF MergedChanges
<1>4. undoSteps \in Seq(UndoSteps) /\ QInv /\ TypeOK /\ Calm /\ redoSteps \in Seq(RedoSteps)
  BY QInvParts DEF QInv
<1>5. PICK line : IsLine(undoSteps, x, ls, line)
  BY DEF Lined
<1>6. Merges(MergedChanges(undoSteps, i), undoSteps, i)
  <2> HIDE DEF x
  <2> QED BY <1>4, <1>5, MergedReverts
<1>7. undoSteps[i] \in UndoSteps
  BY <1>4
<1>8. /\ undoSteps[i] \in UndoableOp /\ undoSteps[i].kind # "SkipUndo"
      /\ undoSteps[i].changes = <<>> => undoSteps[i].kind = "Custom"
  BY <1>7 DEF UndoSteps
<1>9. /\ MergedChanges(undoSteps, i) \in Seq(Change) /\ LastModified(MergedChanges(undoSteps, i))
      /\ MergedChanges(undoSteps, i) = <<>> => undoSteps[i].kind = "Custom"
  BY <1>6, <1>8 DEF Merges
<1>10. merged \in UndoableOp /\ merged.kind = undoSteps[i].kind /\ merged.changes = MergedChanges(undoSteps, i)
  BY <1>8, <1>9 DEF UndoableOp
<1> HIDE DEF merged
<1>11. merged \in UndoSteps
  BY <1>8, <1>9, <1>10 DEF UndoSteps
<1>12. rest \in Seq(UndoSteps)
  BY <1>4, LastIs
<1>13. Lined(undoSteps', x, ls, q) /\ Len(p) = Len(undoSteps)
  <2>1. Lined(undoSteps, x, ls, p)
    OBVIOUS
  <2> HIDE DEF x
  <2> QED BY <1>3, <1>4, <1>10, <2>1, LinedMerge
<1> HIDE DEF rest
<1>14. undoSteps' \in Seq(UndoSteps) /\ redoSteps' \in Seq(RedoSteps)
  BY <1>2, <1>3, <1>4, <1>11, <1>12, ConsIs
<1>15. View(Kept', Work') = x
  BY <1>2, SameView
<1>16. TypeOK' /\ Calm'
  <2>1. Calm'
    BY <1>2, <1>4, KeptKept DEF Calm
  <2>2. TypeOK'
    BY <1>2, <1>4, <1>14, TypeParts, TypeKept
  <2> QED BY <2>1, <2>2
<1>17. Lined(Reverse(redoSteps'), View(Kept', Work'), ls', f)
  BY <1>2, <1>15
<1>18. Lined(undoSteps', View(Kept', Work'), ls', q)
  BY <1>2, <1>13, <1>15
<1>19. Turn(p, Seen(View(Kept, Work)), f, q, Seen(View(Kept', Work')), f)
  <2>1. CASE i = 1
    <3>1. q = p
      <4>1. PICK k : Past(undoSteps, k) = p
        BY DEF Lined
      <4>2. p = [j \in 1..Len(undoSteps) |-> Seen(k[j])] /\ Len(undoSteps) \in Nat
        BY <1>4, <4>1 DEF Past
      <4> DEFINE S == {Seen(k[j]) : j \in 1..Len(undoSteps)}
      <4>3. p \in [1..Len(undoSteps) -> S]
        BY <4>2
      <4> HIDE DEF S
      <4>4. p \in Seq(S)
        BY <4>2, <4>3, FunctionIsSeq
      <4> QED BY <2>1, <4>4
    <3> HIDE DEF q
    <3> QED BY <1>15, <3>1 DEF Turn
  <2>2. CASE i # 1
    <3> DEFINE k == i - 1
    <3>1. k \in 1..(Len(p) - 1) /\ q = SubSeq(p, k + 1, Len(p))
      BY <1>4, <1>13, <2>2
    <3> HIDE DEF k, q
    <3> QED BY <1>15, <3>1 DEF Turn
  <2> QED BY <2>1, <2>2
<1> QED BY <1>14, <1>16, <1>17, <1>18, <1>19 DEF Moves

-----------------------------------------------------------------------------
(* Raw SQL and sync.                                                        *)

\* The tables after a step.
LEMMA WorkNext ==
    ASSUME rows' \in Rows, graves' \subseteq Objects, mod' \in Nat
    PROVE  /\ Work' \in Works /\ View(Kept', Work') \in Views
           /\ Work'.rows = rows' /\ Work'.graves = graves' /\ Work'.mod = mod'
           /\ (\A o \in graves' : rows'[o] = Absent) => Sound(View(Kept', Work'))
<1> DEFINE w == [rows |-> rows', graves |-> graves', mod |-> mod', changes |-> <<>>, ok |-> TRUE]
<1>1. w \in Works /\ w.rows = rows' /\ w.graves = graves' /\ w.mod = mod' /\ Work' = w
  BY DEF Works, Work
<1> HIDE DEF w
<1>k. Kept' \in SUBSET Objects
  BY DEF Kept
<1>2. View(Kept', w) \in Views /\ (Sound(View(Kept', w)) <=> \A o \in w.graves : w.rows[o] = Absent)
  BY <1>1, <1>k, ViewIs, SoundIs
<1> QED BY <1>1, <1>2

\* A view is proper if no grave has a row, and nothing followed is hidden.
LEMMA ProperIs ==
    ASSUME NEW w \in Works, NEW K \in SUBSET Objects, NEW l
    PROVE  Proper(View(K, w), l) <=>
             /\ \A o \in w.graves : w.rows[o] = Absent
             /\ w.mod = l => /\ w.graves = {}
                            /\ \A o \in K : w.rows[o] # Absent => ~w.rows[o].pending
<1> DEFINE x == View(K, w)
<1>1. x.objs = Looked(K, w.rows) /\ x.graves = w.graves /\ x.mod = w.mod
  BY ViewIs
<1>2. Sound(x) <=> \A o \in w.graves : w.rows[o] = Absent
  BY SoundIs
<1> HIDE DEF x
<1>3. \A o \in Objects : x.objs[o] = Look(o, w.rows[o], K)
  BY <1>1 DEF Looked
<1>4. w.rows \in [Objects -> Row \cup {Absent}]
  BY WorkParts DEF Rows
<1>5. ASSUME NEW o \in Objects
      PROVE  (x.objs[o] # Absent => ~x.objs[o].pending)
                <=> (o \in K => (w.rows[o] # Absent => ~w.rows[o].pending))
  <2>1. CASE w.rows[o] = Absent \/ o \in K
    BY <1>3, <2>1 DEF Look
  <2>2. CASE w.rows[o] # Absent /\ o \notin K
    <3>1. x.objs[o] = [val |-> w.rows[o].val, collapsed |-> FALSE, pending |-> FALSE]
      BY <1>3, <2>2 DEF Look
    <3> QED BY <2>2, <3>1
  <2> QED BY <2>1, <2>2
<1>6. (\A o \in Objects : x.objs[o] # Absent => ~x.objs[o].pending)
        <=> \A o \in K : w.rows[o] # Absent => ~w.rows[o].pending
  BY <1>5
<1>7. Visible(x, l) <=> (w.mod = l => /\ w.graves = {}
                                     /\ \A o \in K : w.rows[o] # Absent => ~w.rows[o].pending)
  BY <1>1, <1>6 DEF Visible
<1>8. Proper(x, l) <=>
             /\ \A o \in w.graves : w.rows[o] = Absent
             /\ w.mod = l => /\ w.graves = {}
                            /\ \A o \in K : w.rows[o] # Absent => ~w.rows[o].pending
  BY <1>2, <1>7 DEF Proper
<1> QED BY <1>8 DEF x

\* Raw SQL and sync.  A rollback restores what the queues are lines from, as long
\* as its transaction holds no back-end operation.
LEMMA ProxyBeginMoves ==
    ASSUME QInv, NEW p, NEW f, Lined(undoSteps, View(Kept, Work), ls, p),
           Lined(Reverse(redoSteps), View(Kept, Work), ls, f), ProxyBegin
    PROVE  Moves(p, f)
<1>1. /\ trx' = NewTrx
      /\ rows' = rows /\ graves' = graves /\ mod' = mod /\ ls' = ls /\ undoSteps' = undoSteps
      /\ redoSteps' = redoSteps /\ counter' = counter /\ modifiedByProxy' = modifiedByProxy
      /\ now' = now /\ unlogged' = unlogged
  BY DEF ProxyBegin, tables, queues
<1>2. /\ rows \in Rows /\ graves \subseteq Objects /\ mod \in Nat /\ ls \in Nat
      /\ unlogged \subseteq Objects /\ Kept \in SUBSET Objects
      /\ Work \in Works /\ Work.rows = rows /\ Work.graves = graves /\ Work.mod = mod
      /\ Proper(View(Kept, Work), ls)
  BY QInvParts
<1>3. /\ trx' \in Seq(Snapshot) /\ trx'[1].rows = rows /\ trx'[1].graves = graves
      /\ trx'[1].mod = mod /\ trx'[1].ls = ls
  <2> DEFINE s == [rows |-> rows, graves |-> graves, mod |-> mod, ls |-> ls]
  <2>1. /\ s \in Snapshot /\ s.rows = rows /\ s.graves = graves /\ s.mod = mod /\ s.ls = ls
        /\ trx' = <<s>>
    BY <1>1, <1>2 DEF Snapshot, NewTrx
  <2> HIDE DEF s
  <2> QED BY <2>1
<1>4. TypeOK'
  <2>1. undoSteps' \in Seq(UndoSteps) /\ redoSteps' \in Seq(RedoSteps) /\ now' \in Nat
        /\ counter' \in Nat /\ modifiedByProxy' \in BOOLEAN
    BY <1>1, QInvParts
  <2> QED BY <1>1, <1>2, <1>3, <2>1, TypeKept
<1>5. Calm'
  <2>1. /\ \A o \in graves : rows[o] = Absent
        /\ mod = ls => /\ graves = {}
                      /\ \A o \in Kept : rows[o] # Absent => ~rows[o].pending
    <3> DEFINE w == Work
    <3>1. /\ w \in Works /\ w.rows = rows /\ w.graves = graves /\ w.mod = mod
          /\ Proper(View(Kept, w), ls) /\ Kept \in SUBSET Objects
      BY <1>2
    <3> HIDE DEF w
    <3>2. /\ \A o \in w.graves : w.rows[o] = Absent
          /\ w.mod = ls => /\ w.graves = {}
                          /\ \A o \in Kept : w.rows[o] # Absent => ~w.rows[o].pending
      BY <3>1, ProperIs
    <3> QED BY <3>1, <3>2
  <2>2. ls <= now
    BY DEF QInv, Calm
  <2>3. Kept' = Kept
    BY <1>1, KeptKept
  <2> QED BY <1>1, <1>3, <2>1, <2>2, <2>3 DEF Calm
<1>6. View(Kept', Work') = View(Kept, Work)
  BY <1>1, SameView
<1> QED BY <1>1, <1>4, <1>5, <1>6, Stutters

\* The tables after a step are proper.
LEMMA ProperNext ==
    ASSUME rows' \in Rows, graves' \subseteq Objects, mod' \in Nat,
           \A o \in graves' : rows'[o] = Absent,
           mod' = ls' => graves' = {} /\ \A o \in Kept' : rows'[o] # Absent => ~rows'[o].pending
    PROVE  Proper(View(Kept', Work'), ls')
<1>1. Work' \in Works /\ Work'.rows = rows' /\ Work'.graves = graves' /\ Work'.mod = mod'
  BY WorkNext
<1> DEFINE w == Work'
<1>2. w \in Works /\ w.rows = rows' /\ w.graves = graves' /\ w.mod = mod'
  BY <1>1
<1> HIDE DEF w
<1>3. Kept' \in SUBSET Objects
  BY DEF Kept
<1>4. /\ \A o \in w.graves : w.rows[o] = Absent
      /\ w.mod = ls' => /\ w.graves = {}
                       /\ \A o \in Kept' : w.rows[o] # Absent => ~w.rows[o].pending
  BY <1>2
<1>5. Proper(View(Kept', w), ls')
  BY <1>2, <1>3, <1>4, ProperIs
<1> QED BY <1>5 DEF w

\* That the present tables are proper says, field by field:
LEMMA ProperNow ==
    ASSUME QInv
    PROVE  /\ \A o \in graves : rows[o] = Absent
           /\ mod = ls => graves = {} /\ \A o \in Kept : rows[o] # Absent => ~rows[o].pending
<1> DEFINE w == Work
<1>1. /\ w \in Works /\ w.rows = rows /\ w.graves = graves /\ w.mod = mod
      /\ Proper(View(Kept, w), ls) /\ Kept \in SUBSET Objects
  BY QInvParts
<1> HIDE DEF w
<1>2. /\ \A o \in w.graves : w.rows[o] = Absent
      /\ w.mod = ls => /\ w.graves = {}
                      /\ \A o \in Kept : w.rows[o] # Absent => ~w.rows[o].pending
  BY <1>1, ProperIs
<1> QED BY <1>1, <1>2

LEMMA ProxyWriteMoves ==
    ASSUME QInv, NEW p, NEW f, NEW o \in Objects, NEW row \in Row \cup {Absent}, ProxyWrite(o, row)
    PROVE  Moves(p, f)
<1>1. /\ (o \in graves => row = Absent) /\ rows' = [rows EXCEPT ![o] = row]
      /\ graves' = graves /\ mod' = mod /\ ls' = ls /\ undoSteps' = <<>> /\ redoSteps' = <<>>
      /\ counter' = counter /\ modifiedByProxy' = TRUE /\ trx' = trx /\ now' = now
      /\ unlogged' = unlogged \cup {o}
  BY DEF ProxyWrite
<1>2. /\ rows \in Rows /\ graves \subseteq Objects /\ mod \in Nat /\ ls \in Nat /\ now \in Nat
      /\ counter \in Nat /\ trx \in Seq(Snapshot) /\ unlogged \subseteq Objects
  BY QInvParts
<1>3. /\ \A a \in graves : rows[a] = Absent
      /\ mod = ls => graves = {} /\ \A a \in Kept : rows[a] # Absent => ~rows[a].pending
  BY ProperNow
<1>4. /\ rows' \in Rows /\ \A a \in graves : rows'[a] = Absent
      /\ \A a \in Objects : a # o => rows'[a] = rows[a]
  BY <1>1, <1>2, <1>3 DEF Rows
<1>5. TypeOK'
  <2>1. undoSteps' \in Seq(UndoSteps) /\ redoSteps' \in Seq(RedoSteps) /\ unlogged' \subseteq Objects
    BY <1>1, <1>2
  <2> QED BY <1>1, <1>2, <1>4, <2>1, TypeKept
<1>6. Kept' \subseteq Kept /\ Kept \subseteq Objects /\ o \notin Kept'
  BY <1>1 DEF Kept
<1>7. Calm'
  BY <1>1, <1>6 DEF Calm, QInv
<1>8. Proper(View(Kept', Work'), ls')
  BY <1>1, <1>2, <1>3, <1>4, <1>6, ProperNext
<1> QED BY <1>1, <1>5, <1>7, <1>8, Forgets

\* The end of a transaction that wrote raises the mtime: every view of the lines
\* that no step has given an mtime of its own gets the new one.
LEMMA CommitMoves ==
    ASSUME QInv, NEW p, NEW f, Lined(undoSteps, View(Kept, Work), ls, p),
           Lined(Reverse(redoSteps), View(Kept, Work), ls, f),
           TypeOK', Elapse, mod' = now', Unlogged({}), UNCHANGED <<rows, graves, ls>>,
           undoSteps' = undoSteps, redoSteps' = redoSteps, trx' = <<>>
    PROVE  Moves(p, f)
<1>1. Calm'
  BY CalmWithoutTrx
<1>2. /\ undoSteps \in Seq(UndoSteps) /\ redoSteps \in Seq(RedoSteps)
      /\ undoSteps \in Seq(UndoableOp) /\ redoSteps \in Seq(UndoableOp)
      /\ now \in Nat /\ ls \in Nat /\ rows \in Rows /\ graves \subseteq Objects
      /\ View(Kept, Work) \in Views /\ Proper(View(Kept, Work), ls)
      /\ \A o \in graves : rows[o] = Absent
  BY QInvParts
<1>3. now' \in Nat /\ now' # ls
  <2>1. now' \in Nat /\ now' > now
    BY <1>2, Elapsed
  <2>2. ls <= now
    BY DEF QInv, Calm
  <2> QED BY <1>2, <2>1, <2>2
<1>4. Proper(View(Kept', Work'), ls')
  BY <1>2, <1>3, ProperNext
<1>5. \/ undoSteps' = <<>> /\ redoSteps' = <<>>
      \/ Kept' = Kept \ {}
  <2>1. {} \in SUBSET Objects
    OBVIOUS
  <2> QED BY <2>1, UnloggedIs
<1>6. CASE undoSteps' = <<>> /\ redoSteps' = <<>>
  BY <1>1, <1>4, <1>6, Forgets
<1>7. CASE Kept' = Kept \ {}
  <2> DEFINE x == View(Kept, Work)
             y == Stamp(x, now')
             back == Reverse(redoSteps)
  <2>1. Kept' = Kept
    BY <1>7
  <2>2. View(Kept', Work') = y
    <3>1. Work'.rows = Work.rows /\ Work'.graves = Work.graves /\ Work'.mod = now'
      BY DEF Work
    <3> QED BY <2>1, <3>1 DEF View, Stamp
  <2>3. Lined(undoSteps, x, ls, p) /\ Lined(back, x, ls, f) /\ x \in Views /\ Proper(x, ls)
    BY <1>2
  <2>4. back \in Seq(RedoSteps) /\ back \in Seq(UndoableOp)
    BY <1>2, ReverseIs
  <2>5. Lined(Reverse(redoSteps'), View(Kept', Work'), ls', f) <=> Lined(back, View(Kept', Work'), ls', f)
    OBVIOUS
  <2> HIDE DEF x, back
  <2>6. \A i \in 1..Len(undoSteps) : Restamps(undoSteps[i].changes)
    BY <1>2, StepsRestamp
  <2>7. \A i \in 1..Len(back) : Restamps(back[i].changes)
    BY <2>4, StepsRestamp
  <2>8. Lined(undoSteps, Stamp(x, now'), ls, p)
    BY <1>2, <1>3, <2>3, <2>6, LinedStamp
  <2>9. Lined(back, Stamp(x, now'), ls, f)
    BY <1>3, <2>3, <2>4, <2>7, LinedStamp
  <2>10. Seen(y) = Seen(x)
    BY <1>3, <2>3, StampIs
  <2>11. Lined(undoSteps', View(Kept', Work'), ls', p) /\ Lined(Reverse(redoSteps'), View(Kept', Work'), ls', f)
    BY <2>2, <2>5, <2>8, <2>9
  <2>12. Seen(View(Kept', Work')) = Seen(View(Kept, Work))
    BY <2>2, <2>10 DEF x
  <2>13. Turn(p, Seen(View(Kept, Work)), f, p, Seen(View(Kept', Work')), f)
    BY <2>12 DEF Turn
  <2>14. undoSteps' \in Seq(UndoSteps) /\ redoSteps' \in Seq(RedoSteps)
    BY <1>2
  <2> QED BY <1>1, <2>11, <2>13, <2>14 DEF Moves
<1> QED BY <1>5, <1>6, <1>7

LEMMA ProxyCommitMoves ==
    ASSUME QInv, NEW p, NEW f, Lined(undoSteps, View(Kept, Work), ls, p),
           Lined(Reverse(redoSteps), View(Kept, Work), ls, f), ProxyCommit
    PROVE  Moves(p, f)
<1>1. /\ rows' = rows /\ graves' = graves /\ ls' = ls /\ undoSteps' = undoSteps
      /\ redoSteps' = redoSteps /\ counter' = counter /\ trx' = <<>>
  BY DEF ProxyCommit, queues
<1>2. modifiedByProxy' \in BOOLEAN
  <2>1. modifiedByProxy' = FALSE
    BY DEF ProxyCommit
  <2> QED BY <2>1, Zenon
<1>3. /\ rows \in Rows /\ graves \subseteq Objects /\ mod \in Nat /\ ls \in Nat /\ now \in Nat
      /\ counter \in Nat /\ undoSteps \in Seq(UndoSteps) /\ redoSteps \in Seq(RedoSteps)
      /\ unlogged \subseteq Objects
  BY QInvParts
<1>4. ASSUME mod' \in Nat, now' \in Nat, unlogged' \subseteq Objects
      PROVE  TypeOK'
  <2>1. trx' \in Seq(Snapshot)
    BY <1>1
  <2>2. /\ rows' \in Rows /\ graves' \subseteq Objects /\ ls' \in Nat /\ counter' \in Nat
        /\ undoSteps' \in Seq(UndoSteps) /\ redoSteps' \in Seq(RedoSteps)
    BY <1>1, <1>3
  <2> QED BY <1>2, <1>4, <2>1, <2>2, TypeKept
<1>5. CASE modifiedByProxy
  <2>1. Elapse /\ mod' = now' /\ Unlogged({})
    BY <1>5 DEF ProxyCommit
  <2>2. now' \in Nat
    BY <1>3, <2>1, Elapsed
  <2>3. unlogged' \subseteq Objects
    <3>1. {} \in SUBSET Objects
      OBVIOUS
    <3> QED BY <2>1, <3>1, UnloggedIs
  <2>4. TypeOK'
    BY <1>4, <2>1, <2>2, <2>3
  <2> QED BY <1>1, <2>1, <2>4, CommitMoves
<1>6. CASE ~modifiedByProxy
  <2>1. mod' = mod /\ now' = now /\ unlogged' = unlogged
    BY <1>6 DEF ProxyCommit
  <2>2. TypeOK'
    BY <1>3, <1>4, <2>1
  <2>3. Calm'
    BY <1>1, <2>1 DEF Calm, QInv
  <2>4. View(Kept', Work') = View(Kept, Work)
    BY <1>1, <2>1, SameView
  <2> QED BY <1>1, <2>2, <2>3, <2>4, Stutters
<1> QED BY <1>5, <1>6

LEMMA ProxyRollbackMoves ==
    ASSUME QInv, NEW p, NEW f, Lined(undoSteps, View(Kept, Work), ls, p),
           Lined(Reverse(redoSteps), View(Kept, Work), ls, f),
           "OpsRolledBack" \notin Features, ProxyRollback
    PROVE  Moves(p, f)
<1>1. /\ trx = NewTrx \/ (undoSteps = <<>> /\ redoSteps = <<>>)
      /\ trx # <<>> /\ rows' = trx[1].rows /\ graves' = trx[1].graves /\ mod' = trx[1].mod
      /\ ls' = trx[1].ls /\ trx' = <<>> /\ undoSteps' = undoSteps /\ redoSteps' = redoSteps
      /\ counter' = counter /\ modifiedByProxy' = modifiedByProxy /\ now' = now
      /\ unlogged' = unlogged
  BY DEF ProxyRollback, queues
<1>2. /\ ls <= now /\ trx[1].ls = ls
      /\ \A o \in trx[1].graves : trx[1].rows[o] = Absent
      /\ trx[1].mod = ls => /\ trx[1].graves = {}
                           /\ \A o \in Kept : trx[1].rows[o] # Absent => ~trx[1].rows[o].pending
  BY <1>1 DEF QInv, Calm
<1>3. /\ now \in Nat /\ counter \in Nat /\ undoSteps \in Seq(UndoSteps) /\ redoSteps \in Seq(RedoSteps)
      /\ modifiedByProxy \in BOOLEAN /\ trx \in Seq(Snapshot) /\ unlogged \subseteq Objects
  BY QInvParts
<1>4. trx[1] \in Snapshot
  BY <1>1, <1>3
<1>5. rows' \in Rows /\ graves' \subseteq Objects /\ mod' \in Nat /\ ls' \in Nat
  BY <1>1, <1>4 DEF Snapshot
<1>6. TypeOK'
  BY <1>1, <1>3, <1>5, TypeKept
<1>7. Calm'
  BY <1>1, <1>2 DEF Calm
<1>8. CASE trx = NewTrx
  <2>1. trx[1] = [rows |-> rows, graves |-> graves, mod |-> mod, ls |-> ls]
    BY <1>8 DEF NewTrx
  <2>2. rows' = rows /\ graves' = graves /\ mod' = mod /\ ls' = ls
    BY <1>1, <2>1
  <2>3. View(Kept', Work') = View(Kept, Work)
    BY <1>1, <2>2, SameView
  <2> QED BY <1>1, <1>6, <1>7, <2>2, <2>3, Stutters
<1>9. CASE undoSteps = <<>> /\ redoSteps = <<>>
  <2>1. Kept' = Kept
    BY <1>1, KeptKept
  <2>2. Proper(View(Kept', Work'), ls')
    BY <1>1, <1>2, <1>5, <2>1, ProperNext
  <2> QED BY <1>1, <1>6, <1>7, <1>9, <2>2, Forgets
<1> QED BY <1>1, <1>8, <1>9

LEMMA SyncMoves ==
    ASSUME QInv, NEW p, NEW f, NEW remote \in BOOLEAN, Sync(remote)
    PROVE  Moves(p, f)
<1>1. /\ trx = <<>> /\ Elapse /\ graves' = {} /\ mod' = now' /\ ls' = now'
      /\ undoSteps' = <<>> /\ redoSteps' = <<>>
      /\ counter' = counter /\ modifiedByProxy' = modifiedByProxy /\ trx' = trx /\ Unlogged({})
  BY DEF Sync, proxy
<1>2. PICK o \in Objects, r \in SyncedRow \cup {Absent} :
          rows' = Fetched(o, IF remote THEN r ELSE rows[o])
  BY DEF Sync
<1>3. /\ rows \in Rows /\ now \in Nat /\ counter \in Nat /\ modifiedByProxy \in BOOLEAN
      /\ trx \in Seq(Snapshot)
  BY QInvParts
<1>4. now' \in Nat
  BY <1>1, <1>3, Elapsed
<1> DEFINE row == IF remote THEN r ELSE rows[o]
           fetched == [rows EXCEPT ![o] = row]
<1>5. row \in Row \cup {Absent}
  BY <1>3 DEF Rows, Row, SyncedRow
<1>6. rows' = [a \in Objects |-> IF fetched[a] = Absent THEN Absent ELSE [fetched[a] EXCEPT !.pending = FALSE]]
  BY <1>2 DEF Fetched
<1> HIDE DEF row
<1>7. fetched \in Rows
  BY <1>3, <1>5 DEF Rows
<1> HIDE DEF fetched
<1>8. ASSUME NEW a \in Objects
      PROVE  rows'[a] \in Row \cup {Absent} /\ (rows'[a] # Absent => ~rows'[a].pending)
  <2>1. CASE fetched[a] = Absent
    BY <1>6, <2>1
  <2>2. CASE fetched[a] # Absent
    <3> DEFINE e == fetched[a]
    <3>1. e \in Row /\ rows'[a] = [e EXCEPT !.pending = FALSE]
      BY <1>6, <1>7, <2>2 DEF Rows
    <3> HIDE DEF e
    <3> QED BY <3>1 DEF Row
  <2> QED BY <2>1, <2>2
<1>9. rows' \in Rows
  BY <1>6, <1>8 DEF Rows
<1>10. TypeOK'
  <2>1. undoSteps' \in Seq(UndoSteps) /\ redoSteps' \in Seq(RedoSteps) /\ unlogged' \subseteq Objects
    BY <1>1 DEF Unlogged
  <2> QED BY <1>1, <1>3, <1>4, <1>9, <2>1, TypeKept
<1>11. Calm'
  BY <1>1, CalmWithoutTrx
<1>12. Kept' \subseteq Objects
  BY DEF Kept
<1>13. Proper(View(Kept', Work'), ls')
  BY <1>1, <1>4, <1>8, <1>9, <1>12, ProperNext
<1> QED BY <1>1, <1>10, <1>11, <1>13, Forgets

LEMMA FailedSyncMoves ==
    ASSUME QInv, NEW p, NEW f, FailedSync
    PROVE  Moves(p, f)
<1>1. /\ trx = <<>> /\ undoSteps' = <<>> /\ redoSteps' = <<>>
      /\ rows' = rows /\ graves' = graves /\ mod' = mod /\ ls' = ls
      /\ counter' = counter /\ modifiedByProxy' = modifiedByProxy /\ trx' = trx /\ now' = now
      /\ unlogged' = unlogged
  BY DEF FailedSync, Discard, tables, proxy
<1>2. /\ rows \in Rows /\ graves \subseteq Objects /\ mod \in Nat /\ ls \in Nat
      /\ now \in Nat /\ counter \in Nat /\ modifiedByProxy \in BOOLEAN /\ trx \in Seq(Snapshot)
      /\ Proper(View(Kept, Work), ls) /\ unlogged \subseteq Objects
  BY QInvParts
<1>3. TypeOK'
  <2>1. undoSteps' \in Seq(UndoSteps) /\ redoSteps' \in Seq(RedoSteps)
    BY <1>1
  <2> QED BY <1>1, <1>2, <2>1, TypeKept
<1>4. Calm'
  BY <1>1 DEF Calm, QInv
<1>5. View(Kept', Work') = View(Kept, Work)
  BY <1>1, SameView
<1> QED BY <1>1, <1>2, <1>3, <1>4, <1>5, Forgets

-----------------------------------------------------------------------------
(* The theorems.                                                            *)

\* Every step moves.
LEMMA NextMoves ==
    ASSUME IInv, QInv, NEW p, NEW f, Lined(undoSteps, View(Kept, Work), ls, p),
           Lined(Reverse(redoSteps), View(Kept, Work), ls, f),
           "OpsRolledBack" \notin Features, [Next]_vars
    PROVE  Moves(p, f)
<1>1. CASE EditOps
  <2>1. ASSUME NEW n \in Notes, NEW v \in Values, UpdateNote(n, v) PROVE Moves(p, f)
    BY <2>1, UpdateNoteMoves
  <2>2. ASSUME NEW d \in Decks, NEW v \in Values, UpdateDeck(d, v) PROVE Moves(p, f)
    BY <2>2, UpdateDeckMoves
  <2>3. ASSUME NEW v \in Values, FindAndReplace(v) PROVE Moves(p, f)
    BY <2>3, FindAndReplaceMoves
  <2>4. ASSUME NEW o \in Objects, NEW v \in Values, AddObject(o, v) PROVE Moves(p, f)
    BY <2>4, AddObjectMoves
  <2>5. ASSUME NEW o \in Objects, RemoveObject(o) PROVE Moves(p, f)
    BY <2>5, RemoveObjectMoves
  <2>6. ASSUME NEW d \in Decks, NEW b \in BOOLEAN, SetCollapsed(d, b) PROVE Moves(p, f)
    BY <2>6, SetCollapsedMoves
  <2>7. ASSUME NEW o \in Objects, NEW v \in Values, NoUndoOp(o, v) PROVE Moves(p, f)
    BY <2>7, NoUndoOpMoves
  <2>8. ASSUME FailedOp PROVE Moves(p, f)
    BY <2>8, FailedOpMoves
  <2> QED BY <1>1, <2>1, <2>2, <2>3, <2>4, <2>5, <2>6, <2>7, <2>8 DEF EditOps
<1>2. CASE QueueOps
  <2>1. ASSUME NEW i \in 1..Len(undoSteps), MergeUndoableOps(undoSteps[i].counter) PROVE Moves(p, f)
    <3> DEFINE n == undoSteps[i].counter
    <3>1. undoSteps \in Seq(UndoableOp)
      BY QInvParts
    <3>2. n \in Nat
      <4>1. undoSteps[i] \in UndoableOp
        BY <3>1
      <4> QED BY <4>1 DEF UndoableOp
    <3>3. MergeUndoableOps(n)
      BY <2>1
    <3> HIDE DEF n
    <3> QED BY <3>2, <3>3, MergeMoves
  <2>2. CASE Undo
    BY <2>2, UndoMoves
  <2>3. CASE Redo
    BY <2>3, RedoMoves
  <2>4. CASE AddCustomStep
    BY <2>4, AddCustomStepMoves
  <2> QED BY <1>2, <2>1, <2>2, <2>3, <2>4 DEF QueueOps
<1>3. CASE OutsideOps
  <2>1. CASE ProxyBegin
    BY <2>1, ProxyBeginMoves
  <2>2. ASSUME NEW o \in Objects,
               NEW row \in [val : Values, collapsed : {FALSE}, pending : {TRUE}] \cup {Absent},
               ProxyWrite(o, row)
        PROVE  Moves(p, f)
    <3>1. row \in Row \cup {Absent}
      BY DEF Row
    <3> QED BY <2>2, <3>1, ProxyWriteMoves
  <2>3. CASE ProxyCommit
    BY <2>3, ProxyCommitMoves
  <2>4. CASE ProxyRollback
    BY <2>4, ProxyRollbackMoves
  <2>5. ASSUME NEW remote \in BOOLEAN, Sync(remote) PROVE Moves(p, f)
    BY <2>5, SyncMoves
  <2>6. CASE FailedSync
    BY <2>6, FailedSyncMoves
  <2> QED BY <1>3, <2>1, <2>2, <2>3, <2>4, <2>5, <2>6 DEF OutsideOps
<1>4. CASE UNCHANGED vars
  BY <1>4, SameMoves
<1> QED BY <1>1, <1>2, <1>3, <1>4 DEF Next

\* The queues are empty at first, and nothing waits for upload.
LEMMA InitQInv == Init => QInv
<1> SUFFICES ASSUME Init PROVE QInv
  OBVIOUS
<1>1. /\ rows \in [Objects -> SyncedRow \cup {Absent}] /\ graves = {} /\ mod = 0 /\ ls = 0
      /\ undoSteps = <<>> /\ redoSteps = <<>> /\ counter = 0 /\ modifiedByProxy = FALSE
      /\ trx = <<>> /\ now = 0 /\ unlogged = {}
  BY DEF Init
<1>2. rows \in Rows
  BY <1>1 DEF Rows, SyncedRow, Row
<1>3. undoSteps \in Seq(UndoSteps) /\ redoSteps \in Seq(RedoSteps)
  BY <1>1
<1>4. TypeOK
  <2>1. undoSteps \in Seq(UndoableOp) /\ redoSteps \in Seq(UndoableOp) /\ trx \in Seq(Snapshot)
    BY <1>1
  <2>2. modifiedByProxy \in BOOLEAN
    BY <1>1, Zenon
  <2>3. graves \subseteq Objects /\ mod \in Nat /\ ls \in Nat /\ now \in Nat /\ counter \in Nat
        /\ unlogged \subseteq Objects
    BY <1>1
  <2> QED BY <1>2, <2>1, <2>2, <2>3, TypeParts
<1>5. Calm
  BY <1>1 DEF Calm
<1>6. Work \in Works /\ Work.rows = rows /\ Work.graves = graves
  BY <1>4, WorkIs
<1> DEFINE w == Work
           x == View(Kept, w)
<1>7. w \in Works /\ w.rows = rows /\ w.graves = {}
  BY <1>1, <1>6
<1> HIDE DEF w
<1>k. Kept \in SUBSET Objects
  BY DEF Kept
<1>8. x \in Views
  BY <1>7, <1>k, ViewIs
<1>9. \A o \in Objects : rows[o] # Absent => ~rows[o].pending
  BY <1>1 DEF SyncedRow
<1>10. Proper(x, ls)
  BY <1>7, <1>9, <1>k, ProperIs
<1> HIDE DEF x
<1>11. Lined(<<>>, x, ls, <<>>)
  BY <1>8, <1>10, LinedEmpty
<1>12. Lined(undoSteps, View(Kept, Work), ls, <<>>) /\ Lined(Reverse(redoSteps), View(Kept, Work), ls, <<>>)
  BY <1>1, <1>11, EmptyReverse DEF w, x
<1> QED BY <1>3, <1>4, <1>5, <1>12 DEF QInv

\* What the user saw and can go back to, and go forward to.
PastContents == [i \in 1..Len(undoSteps) |-> Content(Undone[i])]
FutureContents == [i \in 1..Len(redoSteps) |-> Content(Redone[i])]
\* What a collection can contain.
AllContents == [vals : [Objects -> Values \cup {Absent}], graves : SUBSET Objects]

\* Which contents replaying the queues from w passes.
Shows(w, undo, redo, p, f) ==
    /\ p = [i \in 1..Len(undo) |-> Content(ReplaySteps(undo, w)[i])]
    /\ f = [i \in 1..Len(redo) |-> Content(ReplaySteps(Reverse(redo), w)[i])]
    /\ ReplaySteps(undo, w)[Len(undo)].ok
    /\ ReplaySteps(Reverse(redo), w)[Len(redo)].ok
    /\ Content(w) \in AllContents

\* A line in both directions shows the contents the two replays pass.
LEMMA ContentsShown ==
    ASSUME NEW undo \in Seq(UndoableOp), NEW redo \in Seq(UndoableOp), NEW w \in Works, w.ok, NEW l,
           NEW K \in SUBSET Objects, NEW p, NEW f,
           Lined(undo, View(K, w), l, p), Lined(Reverse(redo), View(K, w), l, f)
    PROVE  Shows(w, undo, redo, p, f)
<1>1. /\ p = [i \in 1..Len(undo) |-> Content(ReplaySteps(undo, w)[i])]
      /\ ReplaySteps(undo, w)[Len(undo)].ok
  BY LinedReplay
<1> DEFINE r == Reverse(redo)
<1>2. r \in Seq(UndoableOp) /\ Len(r) = Len(redo)
  BY ReverseIs
<1>l. Lined(r, View(K, w), l, f)
  OBVIOUS
<1> HIDE DEF r
<1>3. /\ f = [i \in 1..Len(r) |-> Content(ReplaySteps(r, w)[i])]
      /\ ReplaySteps(r, w)[Len(r)].ok
  BY <1>2, <1>l, LinedReplay
<1>4. Content(w) \in AllContents
  <2>1. w.rows \in Rows /\ w.graves \subseteq Objects
    BY WorkParts
  <2> QED BY <2>1 DEF Content, AllContents, Rows, Row
<1> QED BY <1>1, <1>2, <1>3, <1>4 DEF Shows, r

\* The queues replay, being lines.
LEMMA Replayable == QInv => StepsAreReplayable
<1> SUFFICES ASSUME QInv PROVE StepsAreReplayable
  OBVIOUS
<1>1. PICK p, f : Lined(undoSteps, View(Kept, Work), ls, p) /\ Lined(Reverse(redoSteps), View(Kept, Work), ls, f)
  BY DEF QInv
<1>2. /\ Work \in Works /\ Work.ok /\ undoSteps \in Seq(UndoableOp) /\ redoSteps \in Seq(UndoableOp)
      /\ Kept \in SUBSET Objects
  BY QInvParts
<1> DEFINE w == Work
<1>3. w \in Works /\ w.ok /\ Lined(undoSteps, View(Kept, w), ls, p) /\ Lined(Reverse(redoSteps), View(Kept, w), ls, f)
  BY <1>1, <1>2
<1> HIDE DEF w
<1>4. Shows(w, undoSteps, redoSteps, p, f)
  BY <1>2, <1>3, ContentsShown
<1>5. QueuesReplay
  BY <1>4 DEF w, Shows, QueuesReplay, Undone, Redone
<1> QED BY <1>5 DEF QInv, StepsAreReplayable

\* A step that moves keeps the invariant.
LEMMA MovesKeep ==
    ASSUME NEW p, NEW f, Moves(p, f)
    PROVE  QInv'
BY DEF Moves, QInv

\* The invariant with that of the queues and numbers above.
Inv == IInv /\ QInv

\* It is kept.
LEMMA NextInv ==
    ASSUME "OpsRolledBack" \notin Features
    PROVE  Inv /\ [Next]_vars => Inv'
<1> SUFFICES ASSUME Inv, [Next]_vars PROVE Inv'
  OBVIOUS
<1>1. IInv /\ QInv
  BY DEF Inv
<1>2. IInv'
  BY <1>1, NextIInv
<1>3. PICK p, f : Lined(undoSteps, View(Kept, Work), ls, p) /\ Lined(Reverse(redoSteps), View(Kept, Work), ls, f)
  BY <1>1 DEF QInv
<1>4. Moves(p, f)
  BY <1>1, <1>3, NextMoves
<1>5. QInv'
  BY <1>4, MovesKeep
<1> QED BY <1>2, <1>5 DEF Inv

\* However long the sequence of edits, failures, merges, undos, redos, raw SQL and
\* syncs, no retained step ever fails with "note disappeared": both queues can be
\* replayed to their end from the tables as they are.  Except in a transaction of
\* the proxy that holds back-end operations and is rolled back.
THEOREM QueuesCanBeReplayed ==
    ASSUME "OpsRolledBack" \notin Features
    PROVE  Spec => []StepsAreReplayable
<1>1. Init => Inv
  BY InitIInv, InitQInv DEF Inv
<1>2. Inv => StepsAreReplayable
  BY Replayable DEF Inv
<1>3. Inv /\ [Next]_vars => Inv'
  BY NextInv
<1> QED BY <1>1, <1>2, <1>3, PTL DEF Spec

\* While an object or a grave waits for upload, the mtime differs from that of the
\* last sync, also after an undo has restored an mtime from before it, whatever
\* operations skip undo and whatever raw SQL is run (collection/transact.rs,
\* undo/mod.rs): but for the objects that were themselves written without a step
\* while a step or a rollback could still take the mtime back.  With the exception
\* above.
THEOREM PendingShowsInMtime ==
    ASSUME "OpsRolledBack" \notin Features
    PROVE  Spec => []PendingIsVisible
<1>1. Init => Inv
  BY InitIInv, InitQInv DEF Inv
<1>2. Inv => PendingIsVisible
  BY ProperNow DEF Inv, PendingIsVisible, Kept
<1>3. Inv /\ [Next]_vars => Inv'
  BY NextInv
<1> QED BY <1>1, <1>2, <1>3, PTL DEF Spec

\* A turn is a step of the history, or none.
LEMMA TurnIsStep ==
    ASSUME NEW p, NEW f, p = PastContents, f = FutureContents,
           NEW q, NEW g, q = PastContents', g = FutureContents',
           Content(Work') \in AllContents,
           Turn(p, Content(Work), f, q, Content(Work'), g)
    PROVE  [History!Next]_(History!vars)
<1>1. CASE /\ q = <<Content(Work)>> \o SubSeq(p, 1, IF Len(p) < UndoLimit - 1 THEN Len(p) ELSE UndoLimit - 1)
           /\ g = <<>>
  <2>1. History!Do
    BY <1>1 DEF History!Do, History!Newest, PastContents, FutureContents, AllContents
  <2> QED BY <2>1 DEF History!Next
<1>2. CASE (Content(Work') = Content(Work) \/ p # <<>>) /\ q = p /\ g = <<>>
  <2>1. History!Absorb
    BY <1>2 DEF History!Absorb, PastContents, FutureContents, AllContents
  <2> QED BY <2>1 DEF History!Next
<1>3. CASE \E k \in 1..(Len(p) - 1) : q = SubSeq(p, k + 1, Len(p)) /\ Content(Work') = Content(Work) /\ g = f
  <2>1. History!Merge
    BY <1>3 DEF History!Merge, PastContents, FutureContents, AllContents
  <2> QED BY <2>1 DEF History!Next
<1>4. CASE p # <<>> /\ Content(Work') = Head(p) /\ q = Tail(p) /\ g = <<Content(Work)>> \o f
  <2>1. History!Undo
    BY <1>4 DEF History!Undo, PastContents, FutureContents, AllContents
  <2> QED BY <2>1 DEF History!Next
<1>5. CASE /\ f # <<>> /\ Content(Work') = Head(f) /\ g = Tail(f)
           /\ q = <<Content(Work)>> \o p \/ (p # <<>> /\ q = p)
  <2>1. History!Redo
    BY <1>5 DEF History!Redo, PastContents, FutureContents, AllContents
  <2> QED BY <2>1 DEF History!Next
<1>6. CASE q = <<>> /\ g = <<>>
  <2>1. History!Forget
    BY <1>6 DEF History!Forget, PastContents, FutureContents, AllContents
  <2> QED BY <2>1 DEF History!Next
<1>7. CASE q = p /\ Content(Work') = Content(Work) /\ g = f
  BY <1>7 DEF History!vars, PastContents, FutureContents, AllContents
<1> QED BY <1>1, <1>2, <1>3, <1>4, <1>5, <1>6, <1>7 DEF Turn

\* The initial states map to initial states, and every step to a step or none.
LEMMA InitHistory == Init => History!Init
<1> SUFFICES ASSUME Init PROVE History!Init
  OBVIOUS
<1>1. undoSteps = <<>> /\ redoSteps = <<>>
  BY DEF Init
<1>2. Content(Work) \in AllContents
  <2>1. QInv
    BY InitQInv
  <2>2. Work.rows \in Rows /\ Work.graves \subseteq Objects
    BY <2>1, QInvParts
  <2> QED BY <2>2 DEF Content, AllContents, Rows, Row
<1> QED BY <1>1, <1>2 DEF History!Init, AllContents

LEMMA NextHistory ==
    ASSUME "OpsRolledBack" \notin Features
    PROVE  Inv /\ [Next]_vars => [History!Next]_(History!vars)
<1> SUFFICES ASSUME Inv, [Next]_vars PROVE [History!Next]_(History!vars)
  OBVIOUS
<1>1. IInv /\ QInv
  BY DEF Inv
<1>2. PICK p, f : Lined(undoSteps, View(Kept, Work), ls, p) /\ Lined(Reverse(redoSteps), View(Kept, Work), ls, f)
  BY <1>1 DEF QInv
<1>3. Moves(p, f)
  BY <1>1, <1>2, NextMoves
<1>4. PICK q, g : /\ Lined(undoSteps', View(Kept', Work'), ls', q)
                  /\ Lined(Reverse(redoSteps'), View(Kept', Work'), ls', g)
                  /\ Turn(p, Seen(View(Kept, Work)), f, q, Seen(View(Kept', Work')), g)
  BY <1>3 DEF Moves
<1>5. p = PastContents /\ f = FutureContents /\ Content(Work) = Seen(View(Kept, Work))
  <2> DEFINE w == Work
  <2>1. /\ w \in Works /\ w.ok /\ undoSteps \in Seq(UndoableOp) /\ redoSteps \in Seq(UndoableOp)
        /\ Lined(undoSteps, View(Kept, w), ls, p) /\ Lined(Reverse(redoSteps), View(Kept, w), ls, f)
        /\ Kept \in SUBSET Objects
    BY <1>1, <1>2, QInvParts
  <2> HIDE DEF w
  <2>2. Shows(w, undoSteps, redoSteps, p, f)
    BY <2>1, ContentsShown
  <2>3. Content(w) = Seen(View(Kept, w))
    BY <2>1, ContentIs
  <2> QED BY <2>2, <2>3 DEF w, Shows, PastContents, FutureContents, Undone, Redone
<1>6. /\ q = PastContents' /\ g = FutureContents' /\ Content(Work') = Seen(View(Kept', Work'))
      /\ Content(Work') \in AllContents
  <2> DEFINE w == Work'
             undo == undoSteps'
             redo == redoSteps'
  <2>1. w \in Works /\ w.ok /\ undo \in Seq(UndoableOp) /\ redo \in Seq(UndoableOp)
    BY <1>3 DEF Moves, TypeOK, Work, Works, Rows
  <2>2. Lined(undo, View(Kept', w), ls', q) /\ Lined(Reverse(redo), View(Kept', w), ls', g)
    BY <1>4
  <2>k. Kept' \in SUBSET Objects
    BY DEF Kept
  <2> HIDE DEF w, undo, redo
  <2>3. Shows(w, undo, redo, q, g)
    BY <2>1, <2>2, <2>k, ContentsShown
  <2>4. Content(w) = Seen(View(Kept', w))
    BY <2>1, <2>k, ContentIs
  <2> QED BY <2>3, <2>4 DEF w, undo, redo, Shows, PastContents, FutureContents, Undone, Redone
<1>7. Turn(p, Content(Work), f, q, Content(Work'), g)
  BY <1>4, <1>5, <1>6
<1> QED BY <1>5, <1>6, <1>7, TurnIsStep

\* The queues of change records implement a line of contents with a cursor:
\* Undo and Redo bring back exactly what was there, through coalesced edits,
\* merged steps, dropped ones and failures.  With the exception above.
THEOREM UndoIsHistory ==
    ASSUME "OpsRolledBack" \notin Features
    PROVE  Spec => IsHistory
<1>1. Init => Inv
  BY InitIInv, InitQInv DEF Inv
<1>2. Inv /\ [Next]_vars => Inv'
  BY NextInv
<1>3. Inv /\ [Next]_vars => [History!Next]_(History!vars)
  BY NextHistory
<1> QED BY <1>1, <1>2, <1>3, InitHistory, PTL DEF Spec, IsHistory, History!Spec
=============================================================================
