----------------------------- MODULE MCStudyQueue -----------------------------
\* Small instances of StudyQueue.
EXTENDS StudyQueue

CONSTANTS a, b, c, n, m

\* Two siblings and a card of another note.
ThreeCards == {a, b, c}
TwoNotes == (a :> n) @@ (b :> n) @@ (c :> m)

InQueue(queue, due, tried) ==
    [queue |-> queue, due |-> due, mtime |-> 0, tried |-> tried, hidden |-> "no"]

\* One card of each queue that is gathered.
AnyQueue == {InQueue("New", 0, FALSE), InQueue("DayLearn", 0, TRUE), InQueue("Review", 0, TRUE),
             InQueue("Learn", 2, TRUE)}
NewOrReview == {InQueue("New", 0, FALSE), InQueue("Review", 0, TRUE)}

SameForAll(modes) == {[card \in Cards |-> mode] : mode \in modes}

\* Deck options that bury the siblings of a queue also bury those of every queue
\* gathered later.
Monotone == SameForAll({{}, {"New"}, {"New", "Review", "DayLearn"}})
NoBurying == SameForAll({{}})

ASSUME BuryingAgrees == OptionsAgree

\* The siblings a and b start alike, share their deck options and are named
\* nowhere else: states that differ in which is which are one.
Swap == Permutations({a, b})

None == {}
OnlyC == {c}
Steps == {1, 3}
=============================================================================
