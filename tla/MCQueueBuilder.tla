--------------------------- MODULE MCQueueBuilder ---------------------------
\* A small instance of QueueBuilder.
EXTENDS QueueBuilder

CONSTANTS a1, a2, b, o,     \* cards: a1 and a2 are of one note
          root, left, deep, right,
          n1, n2, n3,
          t1, t2, t3, u1, p, q

FourCards == {a1, a2, b, o}
CardDeck == a1 :> left @@ a2 :> right @@ b :> deep @@ o :> right
CardNote == a1 :> n1 @@ a2 :> n1 @@ b :> n2 @@ o :> n3
CardPosition == a1 :> 1 @@ a2 :> 1 @@ b :> 2 @@ o :> 3
CardReturns == a1 :> {"review"} @@ a2 :> {"dayLearning"} @@ b :> {"review", "learning"} @@ o :> {"review"}

FourDecks == {root, left, deep, right}
DeckParent == root :> NoDeck @@ left :> root @@ deep :> left @@ right :> root

FourTopics == {t1, t2, t3, u1}
TopicUnit == t1 :> p @@ t2 :> p @@ t3 :> p @@ u1 :> q
TopicPrereqs == t1 :> {} @@ t2 :> {t1} @@ t3 :> {} @@ u1 :> {}
UnitOrder == p :> {} @@ q :> {p}

Limit(new, review) == [new |-> new, review |-> review]
Everywhere(x) == [d \in FourDecks |-> x]
NoteTopics == n1 :> t1 @@ n2 :> t2 @@ n3 :> u1

Plain ==
    [limit |-> root :> Limit(2, 2) @@ left :> Limit(1, 2) @@ deep :> Limit(2, 2) @@ right :> Limit(2, 1),
     ignoreReviews |-> FALSE, allParents |-> FALSE, bury |-> Everywhere({}), byPosition |-> FALSE,
     topic |-> [n \in {n1, n2, n3} |-> NoTopic], guided |-> FALSE, unlocked |-> {}, tested |-> {},
     scheduler |-> FALSE, scope |-> Everywhere("none")]

Burying ==
    [Plain EXCEPT !.ignoreReviews = TRUE, !.allParents = TRUE,
                  !.bury = Everywhere({"new", "review", "dayLearning"})]

Guided ==
    [Plain EXCEPT !.limit = Everywhere(Limit(1, 1)), !.ignoreReviews = TRUE,
                  !.byPosition = TRUE, !.topic = NoteTopics, !.guided = TRUE]

Scoped ==
    [Plain EXCEPT !.limit = Everywhere(Limit(2, 2)), !.topic = [NoteTopics EXCEPT ![n3] = NoTopic],
                  !.scheduler = TRUE,
                  !.scope = root :> "CrossUnit" @@ left :> "WithinUnit" @@ deep :> "none" @@ right :> "none"]

Within ==
    [Scoped EXCEPT !.allParents = TRUE, !.topic = n1 :> t1 @@ n2 :> t2 @@ n3 :> t3,
                   !.guided = TRUE, !.unlocked = {t2}, !.tested = {t3},
                   !.scope = Everywhere("WithinUnit")]

SomeSettings == {Plain, Burying, Guided, Scoped, Within}
=============================================================================
