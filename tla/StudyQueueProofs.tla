--------------------------- MODULE StudyQueueProofs ---------------------------
(***************************************************************************)
(* Proofs about the study queues, for any number of cards, steps, builds   *)
(* and seconds.  No card is queued twice: that holds of new queues, and an *)
(* answer takes the card off and puts it back at most once.  Undoing and   *)
(* redoing, though, put back entries from long ago, so the invariant says  *)
(* of every step that can still be undone or redone what it will find:     *)
(*                                                                         *)
(*   Types     rows, queues and steps have their types;                    *)
(*   Ordered   of two steps that answered one card in the same queues, the *)
(*             older put it back into the learning queue, and the newer    *)
(*             took it from there;                                         *)
(*   Studying  a card answered in the queues is in them at most where the  *)
(*             newest such step put it.                                    *)
(*                                                                         *)
(* The counts, and what undo and redo find, need more: each step leads     *)
(* from one content of the queues to another, and the steps that can be    *)
(* undone lead, one after the other, from what is in the queues now back   *)
(* to what was in them when they were built; those that can be redone lead *)
(* on (Lined).  A step also says what the learning count and the cutoff    *)
(* were, which is right as long as the answered card was the first one     *)
(* (Honest): as it is for a reviewer who fetches after every operation.    *)
(*                                                                         *)
(* That queued cards are unmodified needs the cards table too: the steps   *)
(* lead from one content and table to another, and wherever they lead, the *)
(* two agree and no answer buries a card of the queue (Sound).             *)
(*                                                                         *)
(* What an operation on the queues leaves is stated first, as a relation   *)
(* between the queues before and after it (Popped, WithLearning, Pushed,   *)
(* AnsweredTo, ...), with which the actions are then looked at.            *)
(***************************************************************************)
EXTENDS StudyQueue, FiniteSetTheorems, SequenceTheorems, WellFoundedInduction, TLAPS

-----------------------------------------------------------------------------
(* Sequences of entries.                                                    *)

Ids(seq) == {seq[i].id : i \in DOMAIN seq}
Once(seq) == \A j, k \in DOMAIN seq : seq[j].id = seq[k].id => j = k

Counts == [{"New", "Review", "Learning"} -> Nat]

Queues == [counts : Counts, main : Seq(MainQueueEntry), learning : Seq(LearningQueueEntry),
           cutoff : Nat, day : Nat, build : Nat]

NoneTwice(q) ==
    /\ Once(q.main)
    /\ Once(q.learning)
    /\ Ids(q.main) \cap Ids(q.learning) = {}

\* Sequences without one element, and with one more.
LEMMA RemoveAtProperties ==
    ASSUME NEW S, NEW s \in Seq(S), NEW i \in DOMAIN s
    PROVE  /\ RemoveAt(s, i) \in Seq(S)
           /\ Len(RemoveAt(s, i)) = Len(s) - 1
           /\ \A j \in 1..(Len(s) - 1) : RemoveAt(s, i)[j] = IF j < i THEN s[j] ELSE s[j + 1]
<1> DEFINE p == SubSeq(s, 1, i - 1)
           t == SubSeq(s, i + 1, Len(s))
<1>1. i \in 1..Len(s) /\ Len(s) \in Nat
      OBVIOUS
<1>2. p \in Seq(S) /\ Len(p) = i - 1 /\ \A j \in 1..(i - 1) : p[j] = s[j]
      BY <1>1
<1>3. t \in Seq(S) /\ Len(t) = Len(s) - i /\ \A j \in 1..(Len(s) - i) : t[j] = s[i + j]
      BY <1>1
<1> HIDE DEF p, t
<1>4. /\ p \o t \in Seq(S)
      /\ Len(p \o t) = Len(s) - 1
      /\ \A j \in 1..(Len(s) - 1) : (p \o t)[j] = IF j < i THEN s[j] ELSE s[j + 1]
      BY <1>1, <1>2, <1>3
<1> QED BY <1>4 DEF RemoveAt, p, t

\* An element put in at i moves those from i on one further.
LEMMA InsertAtProperties ==
    ASSUME NEW S, NEW s \in Seq(S), NEW e \in S, NEW i \in 1..(Len(s) + 1)
    PROVE  /\ InsertAt(s, i, e) \in Seq(S)
           /\ Len(InsertAt(s, i, e)) = Len(s) + 1
           /\ \A j \in 1..(Len(s) + 1) :
                InsertAt(s, i, e)[j] = IF j < i THEN s[j] ELSE IF j = i THEN e ELSE s[j - 1]
<1> DEFINE p == SubSeq(s, 1, i - 1)
           t == SubSeq(s, i, Len(s))
<1>1. Len(s) \in Nat
      OBVIOUS
<1>2. p \in Seq(S) /\ Len(p) = i - 1 /\ \A j \in 1..(i - 1) : p[j] = s[j]
      BY <1>1
<1>3. /\ t \in Seq(S) /\ Len(t) = Len(s) - i + 1
      /\ \A j \in 1..(Len(s) - i + 1) : t[j] = s[i + j - 1]
      BY <1>1
<1> HIDE DEF p, t
<1>4. /\ p \o <<e>> \in Seq(S)
      /\ Len(p \o <<e>>) = i
      /\ \A j \in 1..i : (p \o <<e>>)[j] = IF j = i THEN e ELSE s[j]
      BY <1>1, <1>2
<1> DEFINE u == p \o <<e>>
<1> HIDE DEF u
<1>5. u \in Seq(S) /\ Len(u) = i /\ \A j \in 1..i : u[j] = IF j = i THEN e ELSE s[j]
      BY <1>4 DEF u
<1>6. /\ u \o t \in Seq(S)
      /\ Len(u \o t) = Len(s) + 1
      /\ \A j \in 1..(Len(s) + 1) : (u \o t)[j] = IF j <= i THEN u[j] ELSE t[j - i]
  <2>1. /\ u \o t \in Seq(S)
        /\ Len(u \o t) = Len(u) + Len(t)
        /\ \A j \in 1..(Len(u) + Len(t)) :
                (u \o t)[j] = IF j <= Len(u) THEN u[j] ELSE t[j - Len(u)]
        BY <1>3, <1>5, ConcatProperties
  <2>2. Len(u) = i /\ Len(u) + Len(t) = Len(s) + 1
        BY <1>1, <1>3, <1>5
  <2> QED BY <2>1, <2>2
<1>7. ASSUME NEW j \in 1..(Len(s) + 1)
      PROVE  (u \o t)[j] = IF j < i THEN s[j] ELSE IF j = i THEN e ELSE s[j - 1]
  <2>1. CASE j <= i
    <3>1. j \in 1..i /\ (j = i \/ j < i)
          BY <1>1, <2>1
    <3>2. u[j] = IF j = i THEN e ELSE s[j]
          BY <1>5, <3>1
    <3>3. (u \o t)[j] = u[j]
          BY <1>6, <2>1
    <3>4. j = i => ~(j < i)
          BY <1>1
    <3> QED BY <3>1, <3>2, <3>3, <3>4
  <2>2. CASE j > i
    <3>1. j - i \in 1..(Len(s) - i + 1) /\ i + (j - i) - 1 = j - 1
          BY <1>1, <2>2
    <3>2. t[j - i] = s[j - 1]
          BY <1>3, <3>1
    <3>3. (u \o t)[j] = t[j - i] /\ ~(j < i) /\ j # i
          BY <1>1, <1>6, <2>2
    <3> QED BY <3>2, <3>3
  <2>3. j <= i \/ j > i
        BY <1>1
  <2> QED BY <2>1, <2>2, <2>3
<1>8. /\ u \o t \in Seq(S)
      /\ Len(u \o t) = Len(s) + 1
      /\ \A j \in 1..(Len(s) + 1) :
            (u \o t)[j] = IF j < i THEN s[j] ELSE IF j = i THEN e ELSE s[j - 1]
      BY <1>6, <1>7
<1> QED BY <1>8 DEF InsertAt, p, t, u

\* r is s without its element at i.
Without(r, s, i) ==
    /\ DOMAIN s = 1..(Len(r) + 1)
    /\ DOMAIN r = 1..Len(r)
    /\ Len(r) \in Nat
    /\ i \in 1..(Len(r) + 1)
    /\ \A j \in 1..Len(r) : r[j] = IF j < i THEN s[j] ELSE s[j + 1]

\* Without the element at i, the ids are those of the others.
LEMMA WithoutIds ==
    ASSUME NEW s, NEW r, NEW i, Without(r, s, i)
    PROVE  Ids(s) = Ids(r) \cup {s[i].id}
<1>1. i \in 1..(Len(r) + 1) /\ Len(r) \in Nat
      BY DEF Without
<1>2. ASSUME NEW k \in 1..(Len(r) + 1), k # i
      PROVE  s[k].id \in Ids(r)
  <2>1. CASE k < i
    <3>1. k \in DOMAIN r /\ r[k] = s[k]
          BY <1>1, <1>2, <2>1 DEF Without
    <3> QED BY <3>1 DEF Ids
  <2>2. CASE k > i
    <3>1. k - 1 \in 1..Len(r) /\ ~(k - 1 < i) /\ (k - 1) + 1 = k
          BY <1>1, <1>2, <2>2
    <3>2. k - 1 \in DOMAIN r /\ r[k - 1] = s[k]
          BY <3>1 DEF Without
    <3> QED BY <3>2 DEF Ids
  <2> QED BY <1>1, <1>2, <2>1, <2>2
<1>3. Ids(s) \subseteq Ids(r) \cup {s[i].id}
      BY <1>2 DEF Ids, Without
<1>4. ASSUME NEW j \in 1..Len(r)
      PROVE  r[j].id \in Ids(s)
  <2>1. j \in DOMAIN s /\ j + 1 \in DOMAIN s /\ (r[j] = s[j] \/ r[j] = s[j + 1])
        BY <1>1 DEF Without
  <2> QED BY <2>1 DEF Ids
<1>5. Ids(r) \cup {s[i].id} \subseteq Ids(s)
      BY <1>4 DEF Ids, Without
<1> QED BY <1>3, <1>5

\* What is left of a sequence of different cards lacks one of them.
LEMMA WithoutOnce ==
    ASSUME NEW s, NEW r, NEW i, Without(r, s, i), Once(s)
    PROVE  Once(r) /\ s[i].id \notin Ids(r)
<1>1. i \in 1..(Len(r) + 1) /\ Len(r) \in Nat
      BY DEF Without
<1>2. ASSUME NEW j \in 1..Len(r)
      PROVE  \E k \in DOMAIN s : r[j] = s[k] /\ k = IF j < i THEN j ELSE j + 1
      BY <1>1 DEF Without
<1>3. ASSUME NEW j \in 1..Len(r), NEW l \in 1..Len(r), r[j].id = r[l].id
      PROVE  j = l
  <2>1. PICK k \in DOMAIN s : r[j] = s[k] /\ k = IF j < i THEN j ELSE j + 1
        BY <1>2
  <2>2. PICK m \in DOMAIN s : r[l] = s[m] /\ m = IF l < i THEN l ELSE l + 1
        BY <1>2
  <2>3. k = m
        BY <1>3, <2>1, <2>2 DEF Once
  <2> QED BY <1>1, <2>1, <2>2, <2>3
<1>4. ASSUME NEW j \in 1..Len(r)
      PROVE  r[j].id # s[i].id
  <2>1. PICK k \in DOMAIN s : r[j] = s[k] /\ k = IF j < i THEN j ELSE j + 1
        BY <1>2
  <2>2. k # i /\ i \in DOMAIN s
        BY <1>1, <2>1 DEF Without
  <2> QED BY <2>1, <2>2 DEF Once
<1> QED BY <1>3, <1>4 DEF Once, Ids, Without

\* A card that is not in a sequence can be put anywhere into it.
LEMMA WithoutOnceBack ==
    ASSUME NEW s, NEW r, NEW i, Without(r, s, i), Once(r), s[i].id \notin Ids(r)
    PROVE  Once(s)
<1>1. i \in 1..(Len(r) + 1) /\ Len(r) \in Nat
      BY DEF Without
<1>2. ASSUME NEW k \in 1..(Len(r) + 1), k # i
      PROVE  \E j \in DOMAIN r : s[k] = r[j] /\ j = IF k < i THEN k ELSE k - 1
  <2>1. CASE k < i
        BY <1>1, <1>2, <2>1 DEF Without
  <2>2. CASE k > i
    <3>1. k - 1 \in 1..Len(r) /\ ~(k - 1 < i) /\ (k - 1) + 1 = k
          BY <1>1, <1>2, <2>2
    <3>2. k - 1 \in DOMAIN r /\ r[k - 1] = s[k]
          BY <3>1 DEF Without
    <3> QED BY <2>2, <3>2, <1>1
  <2> QED BY <1>1, <1>2, <2>1, <2>2
<1>3. ASSUME NEW k \in 1..(Len(r) + 1), k # i
      PROVE  s[k].id \in Ids(r)
      BY <1>2, <1>3 DEF Ids
<1>4. ASSUME NEW j \in 1..(Len(r) + 1), NEW l \in 1..(Len(r) + 1), s[j].id = s[l].id
      PROVE  j = l
  <2>1. CASE j = i \/ l = i
        BY <1>3, <1>4, <2>1
  <2>2. CASE j # i /\ l # i
    <3>1. PICK k \in DOMAIN r : s[j] = r[k] /\ k = IF j < i THEN j ELSE j - 1
          BY <1>2, <2>2
    <3>2. PICK m \in DOMAIN r : s[l] = r[m] /\ m = IF l < i THEN l ELSE l - 1
          BY <1>2, <2>2
    <3>3. k = m
          BY <1>4, <3>1, <3>2 DEF Once
    <3> QED BY <1>1, <2>2, <3>1, <3>2, <3>3
  <2> QED BY <2>1, <2>2
<1> QED BY <1>4 DEF Once, Without

\* The sequence operators of the model leave out, or put in, one element.
LEMMA RemoveAtIsWithout ==
    ASSUME NEW S, NEW s \in Seq(S), NEW i \in DOMAIN s
    PROVE  Without(RemoveAt(s, i), s, i) /\ RemoveAt(s, i) \in Seq(S)
<1> DEFINE r == RemoveAt(s, i)
<1>1. /\ r \in Seq(S)
      /\ Len(r) = Len(s) - 1
      /\ \A j \in 1..(Len(s) - 1) : r[j] = IF j < i THEN s[j] ELSE s[j + 1]
      BY RemoveAtProperties
<1> HIDE DEF r
<1>2. /\ DOMAIN r = 1..Len(r) /\ DOMAIN s = 1..Len(s) /\ Len(r) \in Nat /\ Len(s) \in Nat
      /\ Len(r) + 1 = Len(s)
      BY <1>1
<1>3. Without(r, s, i) /\ r \in Seq(S)
      BY <1>1, <1>2 DEF Without
<1> QED BY <1>3 DEF r

\* So does Tail, ...
LEMMA TailIsWithout ==
    ASSUME NEW S, NEW s \in Seq(S), s # <<>>
    PROVE  Without(Tail(s), s, 1) /\ Tail(s) \in Seq(S) /\ Head(s) = s[1]
<1> DEFINE r == Tail(s)
<1>1. /\ r \in Seq(S)
      /\ Len(r) = Len(s) - 1
      /\ \A j \in 1..(Len(s) - 1) : r[j] = s[j + 1]
      /\ Head(s) = s[1]
      OBVIOUS
<1> HIDE DEF r
<1>2. /\ DOMAIN r = 1..Len(r) /\ DOMAIN s = 1..Len(s) /\ Len(r) \in Nat /\ Len(s) \in Nat
      /\ Len(r) + 1 = Len(s)
      BY <1>1
<1>3. Without(r, s, 1) /\ r \in Seq(S)
      BY <1>1, <1>2 DEF Without
<1> QED BY <1>1, <1>3 DEF r

\* ... InsertAt ...
LEMMA InsertAtIsWith ==
    ASSUME NEW S, NEW s \in Seq(S), NEW e \in S, NEW i \in 1..(Len(s) + 1)
    PROVE  /\ Without(s, InsertAt(s, i, e), i)
           /\ InsertAt(s, i, e) \in Seq(S)
           /\ InsertAt(s, i, e)[i] = e
<1> DEFINE r == InsertAt(s, i, e)
<1>1. /\ r \in Seq(S)
      /\ Len(r) = Len(s) + 1
      /\ \A j \in 1..(Len(s) + 1) :
            r[j] = IF j < i THEN s[j] ELSE IF j = i THEN e ELSE s[j - 1]
      BY InsertAtProperties
<1> HIDE DEF r
<1>2. DOMAIN r = 1..(Len(s) + 1) /\ DOMAIN s = 1..Len(s) /\ Len(s) \in Nat
      BY <1>1
<1>3. r[i] = e
      BY <1>1, <1>2
<1>4. ASSUME NEW j \in 1..Len(s)
      PROVE  s[j] = IF j < i THEN r[j] ELSE r[j + 1]
  <2>1. CASE j < i
        BY <1>1, <1>2, <2>1
  <2>2. CASE ~(j < i)
    <3>1. j + 1 \in 1..(Len(s) + 1) /\ ~(j + 1 < i) /\ j + 1 # i /\ (j + 1) - 1 = j
          BY <1>2, <2>2
    <3>2. r[j + 1] = s[(j + 1) - 1]
          BY <1>1, <3>1
    <3> QED BY <2>2, <3>1, <3>2
  <2> QED BY <2>1, <2>2
<1>5. Without(s, r, i) /\ r \in Seq(S) /\ r[i] = e
      BY <1>1, <1>2, <1>3, <1>4 DEF Without
<1> QED BY <1>5 DEF r

\* ... and putting an element first.
LEMMA PrependIsWith ==
    ASSUME NEW S, NEW s \in Seq(S), NEW e \in S
    PROVE  Without(s, <<e>> \o s, 1) /\ <<e>> \o s \in Seq(S) /\ (<<e>> \o s)[1] = e
<1> DEFINE r == <<e>> \o s
<1>1. /\ r \in Seq(S)
      /\ Len(r) = Len(s) + 1
      /\ r[1] = e
      /\ \A j \in 1..Len(s) : r[j + 1] = s[j]
      OBVIOUS
<1> HIDE DEF r
<1>2. DOMAIN r = 1..(Len(s) + 1) /\ DOMAIN s = 1..Len(s) /\ Len(s) \in Nat
      BY <1>1
<1>3. Without(s, r, 1)
      BY <1>1, <1>2 DEF Without
<1> QED BY <1>1, <1>3 DEF r

\* What is counted is a number.
LEMMA CountIsNat ==
    ASSUME NEW S, NEW s \in Seq(S), NEW T \in SUBSET DOMAIN s
    PROVE  Cardinality(T) \in Nat
<1>1. IsFiniteSet(1..Len(s))
      BY FS_Interval
<1> QED BY <1>1, FS_Subset, FS_CardinalityType

-----------------------------------------------------------------------------
(* Queues, and what taking the top entry leaves.                            *)

Entries == MainQueueEntry \cup LearningQueueEntry

\* r is q with other counts and another cutoff.
SameEntries(r, q) ==
    r.main = q.main /\ r.learning = q.learning /\ r.build = q.build /\ r.day = q.day

\* A set of positions has a least one.
LEMMA LeastOfIsIn ==
    ASSUME NEW n \in Nat, NEW T \in SUBSET (1..n), T # {}
    PROVE  LeastOf(T) \in T /\ \A j \in T : LeastOf(T) <= j
<1>1. T \in SUBSET Nat
      OBVIOUS
<1>2. PICK m \in T : \A j \in T : ~(<<j, m>> \in OpToRel(<, Nat))
      BY <1>1, NatLessThanWellFounded, WFMin
<1>3. \A j \in T : ~(j < m)
      BY <1>1, <1>2 DEF OpToRel
<1>4. \A j \in T : m <= j
      BY <1>1, <1>3
<1> QED BY <1>4 DEF LeastOf

\* A card is found in learning if it is there.
LEMMA InLearningIndices ==
    ASSUME NEW q \in Queues, NEW c
    PROVE  /\ InLearning(q, c) # {} => /\ LeastOf(InLearning(q, c)) \in DOMAIN q.learning
                                       /\ q.learning[LeastOf(InLearning(q, c))].id = c
           /\ InLearning(q, c) # {} <=> c \in Ids(q.learning)
<1>1. DOMAIN q.learning = 1..Len(q.learning) /\ Len(q.learning) \in Nat
      BY DEF Queues
<1>2. InLearning(q, c) \in SUBSET (1..Len(q.learning))
      BY <1>1 DEF InLearning
<1>3. InLearning(q, c) # {} => LeastOf(InLearning(q, c)) \in InLearning(q, c)
      BY <1>1, <1>2, LeastOfIsIn
<1>4. InLearning(q, c) # {} <=> c \in Ids(q.learning)
      BY DEF InLearning, Ids
<1> QED BY <1>3, <1>4 DEF InLearning

\* Changing a count keeps the type of the queues.
LEMMA CountedIsQueues ==
    ASSUME NEW q \in Queues, NEW n \in Nat, NEW name \in {"New", "Review", "Learning"}
    PROVE  [q EXCEPT !.counts[name] = n] \in Queues
BY DEF Queues, Counts

\* What a queue has after an operation.
Popped(r, q, c) ==
    /\ r \in Queues
    /\ r.build = q.build /\ r.day = q.day /\ r.cutoff = q.cutoff
    /\ NoneTwice(r)
    /\ Ids(r.main) = Ids(q.main) \ {c}
    /\ Ids(r.learning) = Ids(q.learning) \ {c}

\* The entry on top is that of the card, and comes from one of the queues.
LEMMA TopEntryIs ==
    ASSUME NEW q \in Queues, NEW c, AtTop(q, c)
    PROVE  /\ TopEntry(q, c) \in Entries
           /\ TopEntry(q, c).id = c
           /\ c \in Ids(q.learning) => TopEntry(q, c) \in LearningQueueEntry
           /\ c \notin Ids(q.learning) => TopEntry(q, c) \in MainQueueEntry /\ q.main # <<>>
                                           /\ TopEntry(q, c) = Head(q.main) /\ c \in Ids(q.main)
<1>1. /\ q.learning \in Seq(LearningQueueEntry) /\ q.main \in Seq(MainQueueEntry)
      BY DEF Queues
<1>2. CASE c \in Ids(q.learning)
  <2>1. /\ LeastOf(InLearning(q, c)) \in DOMAIN q.learning
        /\ q.learning[LeastOf(InLearning(q, c))].id = c
        /\ InLearning(q, c) # {}
        BY <1>2, InLearningIndices
  <2>2. TopEntry(q, c) = q.learning[LeastOf(InLearning(q, c))]
        BY <2>1 DEF TopEntry
  <2> QED BY <1>1, <1>2, <2>1, <2>2 DEF Entries
<1>3. CASE c \notin Ids(q.learning)
  <2>1. InLearning(q, c) = {}
        BY <1>3, InLearningIndices
  <2>2. TopEntry(q, c) = Head(q.main) /\ q.main # <<>> /\ Head(q.main).id = c
        BY <2>1 DEF TopEntry, AtTop
  <2>3. Head(q.main) = q.main[1] /\ 1 \in DOMAIN q.main
        BY <1>1, <2>2
  <2> QED BY <1>1, <1>3, <2>2, <2>3 DEF Entries, Ids
<1> QED BY <1>2, <1>3

\* The kind of an entry says which queue it is from.
LEMMA EntryKinds ==
    ASSUME NEW e \in Entries
    PROVE  /\ CountName(e) \in {"New", "Review", "Learning"}
           /\ e \in LearningQueueEntry => e.kind = "IntradayLearning"
           /\ e \in MainQueueEntry => e.kind # "IntradayLearning"
BY DEF Entries, MainQueueEntry, LearningQueueEntry, CountName

\* Popping takes the card, and no other, from the queues.
LEMMA PopEntryKeeps ==
    ASSUME NEW q \in Queues, NoneTwice(q), NEW c, AtTop(q, c)
    PROVE  Popped(PopEntry(q, c), q, c)
<1> DEFINE entry == TopEntry(q, c)
           counted == [q EXCEPT !.counts[CountName(entry)] = Decrement(@)]
           r == PopEntry(q, c)
<1>1. entry \in Entries /\ entry.id = c
      BY TopEntryIs
<1>2. CountName(entry) \in {"New", "Review", "Learning"}
      BY <1>1, EntryKinds
<1>3. Decrement(q.counts[CountName(entry)]) \in Nat
      BY <1>2 DEF Queues, Counts, Decrement
<1>4. counted = [q EXCEPT !.counts[CountName(entry)] = Decrement(q.counts[CountName(entry)])]
      OBVIOUS
<1>5. counted \in Queues
      BY <1>2, <1>3, <1>4, CountedIsQueues
<1>6. /\ counted.main = q.main /\ counted.learning = q.learning /\ counted.build = q.build
      /\ counted.day = q.day /\ counted.cutoff = q.cutoff
      BY DEF Queues
<1>7. r = IF entry.kind = "IntradayLearning"
          THEN [counted EXCEPT !.learning = RemoveAt(@, LeastOf(InLearning(q, c)))]
          ELSE [counted EXCEPT !.main = Tail(@)]
      BY DEF PopEntry
<1>8. /\ q.learning \in Seq(LearningQueueEntry) /\ q.main \in Seq(MainQueueEntry)
      /\ Once(q.learning) /\ Once(q.main) /\ Ids(q.main) \cap Ids(q.learning) = {}
      BY DEF Queues, NoneTwice
<1>9. CASE c \in Ids(q.learning)
  <2> DEFINE k == LeastOf(InLearning(q, c))
             rest == RemoveAt(q.learning, k)
  <2>1. entry.kind = "IntradayLearning"
        BY <1>1, <1>9, TopEntryIs, EntryKinds
  <2>2. k \in DOMAIN q.learning /\ q.learning[k].id = c
        BY <1>9, InLearningIndices
  <2>3. r = [counted EXCEPT !.learning = rest]
        BY <1>6, <1>7, <2>1
  <2> HIDE DEF k, counted, r, entry
  <2>4. rest \in Seq(LearningQueueEntry) /\ Without(rest, q.learning, k)
        BY <1>8, <2>2, RemoveAtIsWithout
  <2> HIDE DEF rest
  <2>5. Once(rest) /\ q.learning[k].id \notin Ids(rest) /\ Ids(q.learning) = Ids(rest) \cup {q.learning[k].id}
        BY <1>8, <2>4, WithoutIds, WithoutOnce
  <2>6. Ids(rest) = Ids(q.learning) \ {c} /\ c \notin Ids(q.main)
        BY <1>8, <1>9, <2>2, <2>5
  <2>7. /\ r \in Queues /\ r.learning = rest /\ r.main = q.main /\ r.build = q.build
        /\ r.day = q.day /\ r.cutoff = q.cutoff
        BY <1>5, <1>6, <2>3, <2>4 DEF Queues
  <2>8. Popped(r, q, c)
        BY <1>8, <2>5, <2>6, <2>7 DEF Popped, NoneTwice
  <2> QED BY <2>8 DEF r
<1>10. CASE c \notin Ids(q.learning)
  <2> DEFINE rest == Tail(q.main)
  <2>1. entry.kind # "IntradayLearning"
        BY <1>1, <1>10, TopEntryIs, EntryKinds
  <2>2. q.main # <<>> /\ Head(q.main).id = c
        BY <1>1, <1>10, TopEntryIs
  <2>3. r = [counted EXCEPT !.main = rest]
        BY <1>6, <1>7, <2>1
  <2> HIDE DEF counted, r, entry
  <2>4. rest \in Seq(MainQueueEntry) /\ Without(rest, q.main, 1) /\ q.main[1].id = c
        BY <1>8, <2>2, TailIsWithout
  <2> HIDE DEF rest
  <2>5. Once(rest) /\ q.main[1].id \notin Ids(rest) /\ Ids(q.main) = Ids(rest) \cup {q.main[1].id}
        BY <1>8, <2>4, WithoutIds, WithoutOnce
  <2>6. Ids(rest) = Ids(q.main) \ {c}
        BY <2>4, <2>5
  <2>7. /\ r \in Queues /\ r.main = rest /\ r.learning = q.learning /\ r.build = q.build
        /\ r.day = q.day /\ r.cutoff = q.cutoff
        BY <1>5, <1>6, <2>3, <2>4 DEF Queues
  <2>8. Popped(r, q, c)
        BY <1>8, <1>10, <2>5, <2>6, <2>7 DEF Popped, NoneTwice
  <2> QED BY <2>8 DEF r
<1> QED BY <1>9, <1>10

-----------------------------------------------------------------------------
(* What the other operations on queues leave.                               *)

\* The types and the contents of queues that an operation does not touch.
Moved(r, q, k, n) == r = [q EXCEPT !.cutoff = k, !.counts["Learning"] = n]

\* Moving the cutoff and the count leaves the entries alone, ...
LEMMA CutoffAndCount ==
    ASSUME NEW q \in Queues, NEW n \in Nat, NEW k \in Nat, NEW r, Moved(r, q, k, n)
    PROVE  /\ r \in Queues
           /\ SameEntries(r, q)
           /\ r.cutoff = k
BY DEF Queues, Counts, SameEntries, Moved

\* ... as counting the cards that became due does ...
LEMMA UpdateCutoffKeeps ==
    ASSUME NEW q \in Queues, now \in Nat
    PROVE  /\ UpdateCutoffAndCount(q) \in Queues
           /\ SameEntries(UpdateCutoffAndCount(q), q)
           /\ UpdateCutoffAndCount(q).cutoff = now
<1> DEFINE T == {i \in DOMAIN q.learning :
                    q.learning[i].due > AheadCutoff(q) /\ q.learning[i].due <= now + LearnAhead}
           n == q.counts["Learning"] + Cardinality(T)
<1>1. q.learning \in Seq(LearningQueueEntry) /\ q.counts["Learning"] \in Nat
      BY DEF Queues, Counts
<1>2. T \in SUBSET DOMAIN q.learning
      OBVIOUS
<1>3. UpdateCutoffAndCount(q) = [q EXCEPT !.cutoff = now, !.counts["Learning"] = n]
      BY Zenon DEF UpdateCutoffAndCount, Count
<1> HIDE DEF T
<1>4. n \in Nat
      BY <1>1, <1>2, CountIsNat
<1> HIDE DEF n
<1> DEFINE r == UpdateCutoffAndCount(q)
           k == now
<1>5. k \in Nat /\ Moved(r, q, k, n)
      BY <1>3 DEF Moved
<1> HIDE DEF r, k
<1>6. r \in Queues /\ SameEntries(r, q) /\ r.cutoff = k
      BY <1>4, <1>5, CutoffAndCount
<1> QED BY <1>6 DEF r, k

\* ... and going back to an earlier cutoff.
LEMMA RestoreCutoffKeeps ==
    ASSUME NEW q \in Queues, NEW snapshot \in [count : Nat, cutoff : Nat]
    PROVE  /\ RestoreCutoff(q, snapshot) \in Queues
           /\ SameEntries(RestoreCutoff(q, snapshot), q)
           /\ RestoreCutoff(q, snapshot).cutoff = snapshot.cutoff
BY DEF RestoreCutoff, Queues, Counts, SameEntries

\* An entry is in the learning queue r, and the rest of it is q.
WithLearning(r, q, e) ==
    /\ r \in Queues
    /\ r.build = q.build /\ r.day = q.day /\ r.cutoff = q.cutoff
    /\ r.main = q.main
    /\ \E i \in DOMAIN r.learning : Without(q.learning, r.learning, i) /\ r.learning[i] = e

\* Inserting a card puts one entry more into learning.
LEMMA InsertLearningPlaces ==
    ASSUME NEW q \in Queues, NEW e \in LearningQueueEntry, NEW r \in InsertLearning(q, e)
    PROVE  WithLearning(r, q, e)
<1>1. q.learning \in Seq(LearningQueueEntry) /\ q.counts["Learning"] \in Nat
      BY DEF Queues, Counts
<1>2. SearchResults(q.learning, e) \subseteq 1..(Len(q.learning) + 1)
      BY <1>1 DEF SearchResults
<1>3. PICK i \in SearchResults(q.learning, e) :
            r = [q EXCEPT !.counts["Learning"] = IF e.due <= AheadCutoff(q) THEN @ + 1 ELSE @,
                          !.learning = InsertAt(@, i, e)]
      BY DEF InsertLearning
<1> DEFINE n == IF e.due <= AheadCutoff(q) THEN q.counts["Learning"] + 1 ELSE q.counts["Learning"]
           seq == InsertAt(q.learning, i, e)
<1>4. r = [q EXCEPT !.counts["Learning"] = n, !.learning = seq]
      BY <1>3
<1>5. n \in Nat
      BY <1>1
<1>6. seq \in Seq(LearningQueueEntry) /\ Without(q.learning, seq, i) /\ seq[i] = e
      BY <1>1, <1>2, InsertAtIsWith
<1>7. i \in DOMAIN seq
      BY <1>6 DEF Without
<1> HIDE DEF n, seq
<1>8. /\ r \in Queues /\ r.learning = seq /\ r.main = q.main
      /\ r.build = q.build /\ r.day = q.day /\ r.cutoff = q.cutoff
      BY <1>4, <1>5, <1>6 DEF Queues, Counts
<1> QED BY <1>6, <1>7, <1>8 DEF WithLearning

\* If its card was in neither queue, no card is in them twice.
LEMMA WithLearningOnce ==
    ASSUME NEW q \in Queues, NEW e, NEW r, WithLearning(r, q, e),
           NoneTwice(q), e.id \notin Ids(q.main) \cup Ids(q.learning)
    PROVE  NoneTwice(r) /\ Ids(r.learning) = Ids(q.learning) \cup {e.id} /\ Ids(r.main) = Ids(q.main)
<1>1. PICK i \in DOMAIN r.learning : Without(q.learning, r.learning, i) /\ r.learning[i] = e
      BY DEF WithLearning
<1>2. Once(r.learning)
      BY <1>1, WithoutOnceBack DEF NoneTwice
<1>3. Ids(r.learning) = Ids(q.learning) \cup {e.id}
      BY <1>1, WithoutIds
<1> QED BY <1>2, <1>3 DEF NoneTwice, WithLearning

\* What removing a requeued card leaves.
LEMMA RemoveLearningKeeps ==
    ASSUME NEW q \in Queues, NoneTwice(q), NEW c
    PROVE  /\ RemoveLearning(q, c) \in Queues
           /\ NoneTwice(RemoveLearning(q, c))
           /\ RemoveLearning(q, c).build = q.build
           /\ RemoveLearning(q, c).day = q.day
           /\ RemoveLearning(q, c).cutoff = q.cutoff
           /\ RemoveLearning(q, c).main = q.main
           /\ Ids(RemoveLearning(q, c).learning) = Ids(q.learning) \ {c}
<1>1. CASE c \notin Ids(q.learning)
  <2>1. RemoveLearning(q, c) = q
        BY <1>1, InLearningIndices DEF RemoveLearning
  <2> QED BY <1>1, <2>1
<1>2. CASE c \in Ids(q.learning)
  <2> DEFINE k == LeastOf(InLearning(q, c))
             rest == RemoveAt(q.learning, k)
             n == IF q.learning[k].due <= AheadCutoff(q)
                  THEN Decrement(q.counts["Learning"])
                  ELSE q.counts["Learning"]
             r == RemoveLearning(q, c)
  <2>1. k \in DOMAIN q.learning /\ q.learning[k].id = c /\ InLearning(q, c) # {}
        BY <1>2, InLearningIndices
  <2>2. r = [q EXCEPT !.learning = rest, !.counts["Learning"] = n]
        BY <2>1 DEF RemoveLearning
  <2>3. q.learning \in Seq(LearningQueueEntry) /\ q.counts["Learning"] \in Nat
        BY DEF Queues, Counts
  <2>4. n \in Nat
        BY <2>3 DEF Decrement
  <2> HIDE DEF k, r, n
  <2>5. rest \in Seq(LearningQueueEntry) /\ Without(rest, q.learning, k)
        BY <2>1, <2>3, RemoveAtIsWithout
  <2> HIDE DEF rest
  <2>6. Once(rest) /\ c \notin Ids(rest) /\ Ids(q.learning) = Ids(rest) \cup {c}
        BY <2>1, <2>5, WithoutIds, WithoutOnce DEF NoneTwice
  <2>7. /\ r \in Queues /\ r.learning = rest /\ r.main = q.main /\ r.build = q.build
        /\ r.day = q.day /\ r.cutoff = q.cutoff
        BY <2>2, <2>4, <2>5 DEF Queues, Counts
  <2>8. Ids(rest) = Ids(q.learning) \ {c}
        BY <2>6
  <2>9. NoneTwice(r)
        BY <2>6, <2>7 DEF NoneTwice
  <2> QED BY <2>7, <2>8, <2>9 DEF r
<1> QED BY <1>1, <1>2

\* Pushing an entry back.
Pushed(r, q, e) ==
    /\ r \in Queues
    /\ r.build = q.build /\ r.day = q.day /\ r.cutoff = q.cutoff
    /\ IF e \in LearningQueueEntry
       THEN r.learning = <<e>> \o q.learning /\ r.main = q.main
       ELSE r.main = <<e>> \o q.main /\ r.learning = q.learning

\* The entry of an undone answer goes to the front of its queue.
LEMMA PushUndoEntryPushes ==
    ASSUME NEW q \in Queues, NEW e \in Entries
    PROVE  Pushed(PushUndoEntry(q, e), q, e)
<1> DEFINE counted == [q EXCEPT !.counts[CountName(e)] = @ + 1]
           r == PushUndoEntry(q, e)
<1>1. CountName(e) \in {"New", "Review", "Learning"}
      BY EntryKinds
<1>2. q.counts[CountName(e)] + 1 \in Nat
      BY <1>1 DEF Queues, Counts
<1>3. counted = [q EXCEPT !.counts[CountName(e)] = q.counts[CountName(e)] + 1]
      OBVIOUS
<1>4. counted \in Queues
      BY <1>1, <1>2, <1>3, CountedIsQueues
<1>5. /\ counted.main = q.main /\ counted.learning = q.learning /\ counted.build = q.build
      /\ counted.day = q.day /\ counted.cutoff = q.cutoff
      BY DEF Queues
<1>6. r = IF e.kind = "IntradayLearning"
          THEN [counted EXCEPT !.learning = <<e>> \o @]
          ELSE [counted EXCEPT !.main = <<e>> \o @]
      BY DEF PushUndoEntry
<1>7. q.learning \in Seq(LearningQueueEntry) /\ q.main \in Seq(MainQueueEntry)
      BY DEF Queues
<1> HIDE DEF counted, r
<1>8. CASE e \in LearningQueueEntry
  <2>1. r = [counted EXCEPT !.learning = <<e>> \o q.learning]
        BY <1>5, <1>6, <1>8, EntryKinds
  <2>2. <<e>> \o q.learning \in Seq(LearningQueueEntry)
        BY <1>7, <1>8, PrependIsWith
  <2>3. Pushed(r, q, e)
        BY <1>4, <1>5, <1>8, <2>1, <2>2 DEF Pushed, Queues
  <2> QED BY <2>3 DEF r
<1>9. CASE e \notin LearningQueueEntry
  <2>0. e \in MainQueueEntry
        BY <1>9 DEF Entries
  <2>1. r = [counted EXCEPT !.main = <<e>> \o q.main]
        BY <1>5, <1>6, <2>0, EntryKinds
  <2>2. <<e>> \o q.main \in Seq(MainQueueEntry)
        BY <1>7, <2>0, PrependIsWith
  <2>3. Pushed(r, q, e)
        BY <1>4, <1>5, <1>9, <2>1, <2>2 DEF Pushed, Queues
  <2> QED BY <2>3 DEF r
<1> QED BY <1>8, <1>9

PushedIds(r, q, e) ==
    IF e \in LearningQueueEntry
    THEN Ids(r.learning) = Ids(q.learning) \cup {e.id} /\ Ids(r.main) = Ids(q.main)
    ELSE Ids(r.main) = Ids(q.main) \cup {e.id} /\ Ids(r.learning) = Ids(q.learning)

\* If its card was in neither queue, no card is in them twice.
LEMMA PushedOnce ==
    ASSUME NEW q \in Queues, NEW e \in Entries, NEW r, Pushed(r, q, e),
           NoneTwice(q), e.id \notin Ids(q.main) \cup Ids(q.learning)
    PROVE  NoneTwice(r) /\ PushedIds(r, q, e)
<1>1. q.learning \in Seq(LearningQueueEntry) /\ q.main \in Seq(MainQueueEntry)
      BY DEF Queues
<1>2. CASE e \in LearningQueueEntry
  <2>1. r.learning = <<e>> \o q.learning /\ r.main = q.main
        BY <1>2 DEF Pushed
  <2>2. Without(q.learning, r.learning, 1) /\ r.learning[1] = e
        BY <1>1, <1>2, <2>1, PrependIsWith
  <2>3. Once(r.learning) /\ Ids(r.learning) = Ids(q.learning) \cup {e.id}
        BY <2>2, WithoutOnceBack, WithoutIds DEF NoneTwice
  <2> QED BY <1>2, <2>1, <2>3 DEF NoneTwice, PushedIds
<1>3. CASE e \notin LearningQueueEntry
  <2>1. r.main = <<e>> \o q.main /\ r.learning = q.learning /\ e \in MainQueueEntry
        BY <1>3 DEF Pushed, Entries
  <2>2. Without(q.main, r.main, 1) /\ r.main[1] = e
        BY <1>1, <2>1, PrependIsWith
  <2>3. Once(r.main) /\ Ids(r.main) = Ids(q.main) \cup {e.id}
        BY <2>2, WithoutOnceBack, WithoutIds DEF NoneTwice
  <2> QED BY <1>3, <2>1, <2>3 DEF NoneTwice, PushedIds
<1> QED BY <1>2, <1>3

-----------------------------------------------------------------------------
(* New queues.                                                              *)

\* SetToSeqs: the sequences with each element once.
LEMMA SetToSeqsAre ==
    ASSUME NEW S, IsFiniteSet(S), NEW f \in SetToSeqs(S)
    PROVE  /\ f \in Seq(S)
           /\ \A i, j \in DOMAIN f : f[i] = f[j] => i = j
<1>1. Cardinality(S) \in Nat
      BY FS_CardinalityType
<1>2. f \in [1..Cardinality(S) -> S] /\ \A i, j \in 1..Cardinality(S) : i # j => f[i] # f[j]
      BY DEF SetToSeqs
<1>3. f \in Seq(S)
      BY <1>1, <1>2
<1>4. DOMAIN f = 1..Cardinality(S)
      BY <1>2
<1> QED BY <1>2, <1>3, <1>4

\* The builder meets each card that is due once.
LEMMA OrdersAre ==
    ASSUME NEW table, NEW order \in GatherOrders(table), NEW c \in Gathered(table, order)
    PROVE  c \in Cards /\ IsDue(table[c])
<1> DEFINE D == {x \in Cards : IsDue(table[x])}
<1>1. IsFiniteSet(D)
      BY StudyAssumption, FS_Subset
<1>2. order \in SetToSeqs(D)
      BY DEF GatherOrders
<1> HIDE DEF D
<1>3. order \in Seq(D)
      BY <1>1, <1>2, SetToSeqsAre
<1>4. PICK i \in DOMAIN order : c = order[i]
      BY DEF Gathered
<1>5. c \in D
      BY <1>3, <1>4
<1> QED BY <1>5 DEF D

\* The entries of cards that are due have their types.
LEMMA DueEntries ==
    ASSUME NEW c \in Cards, NEW row \in Row, IsDue(row)
    PROVE  /\ row.queue # "Learn" => MainEntry(c, row) \in MainQueueEntry
           /\ LearningEntry(c, row) \in LearningQueueEntry
           /\ MainEntry(c, row).id = c
           /\ LearningEntry(c, row).id = c
BY DEF IsDue, MainEntry, LearningEntry, MainKind, MainQueueEntry, LearningQueueEntry, Row

\* A sequence of entries of different cards.
OnceFrom(f, S, T) ==
    f \in Seq(T) /\ Once(f) /\ \A k \in Ids(f) : \E x \in S : k = x.id

\* Entries of different cards have different ids.
LEMMA OnceById ==
    ASSUME NEW S, NEW T, S \subseteq T, IsFiniteSet(S), NEW f \in SetToSeqs(S),
           \A x, y \in S : x.id = y.id => x = y
    PROVE  OnceFrom(f, S, T)
<1>1. f \in Seq(S) /\ \A i, j \in DOMAIN f : f[i] = f[j] => i = j
      BY SetToSeqsAre
<1>2. f \in Seq(T)
      BY <1>1, SeqMonotonic
<1> QED BY <1>1, <1>2 DEF Once, Ids, OnceFrom

\* The entries of finitely many cards are finitely many.
LEMMA EntriesAreFinite ==
    ASSUME NEW table, NEW gathered \in SUBSET Cards
    PROVE  /\ IsFiniteSet(MainEntries(table, gathered))
           /\ IsFiniteSet(LearningEntries(table, gathered))
<1> DEFINE A == {g \in gathered : table[g].queue # "Learn"}
           B == {g \in gathered : table[g].queue = "Learn"}
           f == [c \in A |-> MainEntry(c, table[c])]
           h == [c \in B |-> LearningEntry(c, table[c])]
<1>1. IsFiniteSet(A) /\ IsFiniteSet(B)
      BY StudyAssumption, FS_Subset
<1>2. f \in Surjection(A, MainEntries(table, gathered))
      BY DEF MainEntries, Surjection
<1>3. h \in Surjection(B, LearningEntries(table, gathered))
      BY DEF LearningEntries, Surjection
<1> HIDE DEF A, B, f, h
<1> QED BY <1>1, <1>2, <1>3, FS_Surjection

\* New queues have their types, and no card twice.
LEMMA NewQueuesAreQueues ==
    ASSUME NEW main \in Seq(MainQueueEntry), NEW learning \in Seq(LearningQueueEntry),
           now \in Nat, builds \in Nat
    PROVE  LET q == NewQueues(main, learning)
           IN  /\ q \in Queues /\ q.main = main /\ q.learning = learning
               /\ q.build = builds + 1 /\ q.cutoff = now /\ q.day = Today
<1> DEFINE N == Count(main, LAMBDA e : e.kind = "New")
           R == Count(main, LAMBDA e : e.kind = "Review")
           L == Count(main, LAMBDA e : e.kind = "InterdayLearning")
                                + Count(learning, LAMBDA e : e.due <= now + LearnAhead)
           q == NewQueues(main, learning)
<1>1. {i \in DOMAIN main : main[i].kind = "New"} \in SUBSET DOMAIN main
      OBVIOUS
<1>2. {i \in DOMAIN main : main[i].kind = "Review"} \in SUBSET DOMAIN main
      OBVIOUS
<1>3. {i \in DOMAIN main : main[i].kind = "InterdayLearning"} \in SUBSET DOMAIN main
      OBVIOUS
<1>4. {i \in DOMAIN learning : learning[i].due <= now + LearnAhead} \in SUBSET DOMAIN learning
      OBVIOUS
<1>5. N \in Nat
      BY <1>1, CountIsNat DEF Count
<1>6. R \in Nat
      BY <1>2, CountIsNat DEF Count
<1>7. Count(main, LAMBDA e : e.kind = "InterdayLearning") \in Nat
      BY <1>3, CountIsNat DEF Count
<1>8. Count(learning, LAMBDA e : e.due <= now + LearnAhead) \in Nat
      BY <1>4, CountIsNat DEF Count
<1>9. L \in Nat
      BY <1>7, <1>8
<1>10. Today \in Nat
      BY StudyAssumption DEF Today
<1>11. q = [counts |-> [New |-> N, Review |-> R, Learning |-> L],
            main |-> main, learning |-> learning,
            cutoff |-> now, day |-> Today, build |-> builds + 1]
      BY DEF NewQueues
<1> HIDE DEF N, R, L, q
<1>12. [New |-> N, Review |-> R, Learning |-> L] \in Counts
      BY <1>5, <1>6, <1>9 DEF Counts
<1>13. /\ q \in Queues /\ q.main = main /\ q.learning = learning
       /\ q.build = builds + 1 /\ q.cutoff = now /\ q.day = Today
      BY <1>10, <1>11, <1>12 DEF Queues
<1> QED BY <1>13 DEF q

\* So has whatever the builder may come up with.
LEMMA BuiltAreQueues ==
    ASSUME NEW table \in [Cards -> Row], now \in Nat, builds \in Nat, NEW q \in Built(table)
    PROVE  q \in Queues /\ NoneTwice(q) /\ q.build = builds + 1 /\ q.cutoff = now
<1>1. PICK order \in GatherOrders(table) : q \in BuiltFrom(table, Gathered(table, order))
      BY DEF Built
<1> DEFINE G == Gathered(table, order)
           M == MainEntries(table, G)
           L == LearningEntries(table, G)
<1>2. \A c \in G : c \in Cards /\ IsDue(table[c])
      BY OrdersAre
<1> HIDE DEF G
<1>3. PICK main \in SetToSeqs(M), learning \in LearningOrders(L) : q = NewQueues(main, learning)
      BY <1>1 DEF BuiltFrom, G
<1>4. learning \in SetToSeqs(L)
      BY <1>3 DEF LearningOrders
<1>5. \A x \in M : /\ x \in MainQueueEntry
                    /\ \E c \in Cards : x = MainEntry(c, table[c]) /\ x.id = c /\ table[c].queue # "Learn"
      BY <1>2, DueEntries DEF MainEntries
<1>6. \A x \in L : /\ x \in LearningQueueEntry
                    /\ \E c \in Cards : x = LearningEntry(c, table[c]) /\ x.id = c /\ table[c].queue = "Learn"
      BY <1>2, DueEntries DEF LearningEntries
<1>7. IsFiniteSet(M) /\ IsFiniteSet(L)
      BY <1>2, EntriesAreFinite
<1> HIDE DEF M, L
<1>8. OnceFrom(main, M, MainQueueEntry)
  <2>1. M \subseteq MainQueueEntry /\ \A x, y \in M : x.id = y.id => x = y
        BY <1>5
  <2> QED BY <1>3, <1>7, <2>1, OnceById
<1>9. OnceFrom(learning, L, LearningQueueEntry)
  <2>1. L \subseteq LearningQueueEntry /\ \A x, y \in L : x.id = y.id => x = y
        BY <1>6
  <2> QED BY <1>4, <1>7, <2>1, OnceById
<1>10. Ids(main) \cap Ids(learning) = {}
      BY <1>5, <1>6, <1>8, <1>9 DEF OnceFrom
<1>11. /\ q \in Queues /\ q.main = main /\ q.learning = learning
       /\ q.build = builds + 1 /\ q.cutoff = now
      BY <1>3, <1>8, <1>9, NewQueuesAreQueues DEF OnceFrom
<1> QED BY <1>8, <1>9, <1>10, <1>11 DEF NoneTwice, OnceFrom

-----------------------------------------------------------------------------
(* What an answer leaves, and what undoing and redoing it leave.            *)

Snapshots == [count : Nat, cutoff : Nat]

Updates ==
    {u \in [entry : Entries, requeue : {<<>>} \cup {<<e>> : e \in LearningQueueEntry},
            build : Nat, snapshot : Snapshots] :
        u.requeue # <<>> => u.requeue[1].id = u.entry.id}

SomeRows == UNION {[D -> Row] : D \in SUBSET Cards}

UndoableSteps ==
    [op : {"AnswerCard", "Suspend"}, rows : SomeRows, update : {<<>>} \cup {<<u>> : u \in Updates}]

\* The steps made before the nth build was replaced, until a time.
StepsUntil(n, time) ==
    {s \in UndoableSteps :
        s.update # <<>> => s.update[1].build <= n /\ s.update[1].snapshot.cutoff <= time}

\* The queues r after the answer u to c, when they were q before.
AnswerLeft(r, q, c, requeue) ==
    /\ r \in Queues
    /\ NoneTwice(r)
    /\ r.build = q.build
    /\ Ids(r.main) = Ids(q.main) \ {c}
    /\ Ids(r.learning) = (Ids(q.learning) \ {c}) \cup (IF requeue = <<>> THEN {} ELSE {c})

\* The queues r after an answer u is undone, when they were q before.
UndoLeft(r, q, u) ==
    /\ r \in Queues
    /\ NoneTwice(r)
    /\ r.build = q.build
    /\ r.cutoff = u.snapshot.cutoff
    /\ Ids(r.main) =
        Ids(q.main) \cup (IF u.entry \in LearningQueueEntry THEN {} ELSE {u.entry.id})
    /\ Ids(r.learning) =
        (Ids(q.learning) \ {u.entry.id})
            \cup (IF u.entry \in LearningQueueEntry THEN {u.entry.id} ELSE {})

\* Moving a card behind the next one changes its due time only.
LEMMA CollapsedIs ==
    ASSUME NEW q \in Queues, NEW e \in LearningQueueEntry
    PROVE  Collapsed(q, e) \in LearningQueueEntry /\ Collapsed(q, e).id = e.id
<1>1. q.learning \in Seq(LearningQueueEntry)
      BY DEF Queues
<1>2. CASE q.learning = <<>>
      BY <1>2 DEF Collapsed
<1>3. CASE q.learning # <<>>
  <2>1. Head(q.learning) \in LearningQueueEntry
        BY <1>1, <1>3
  <2>2. Head(q.learning).due + 1 \in Nat
        BY <2>1 DEF LearningQueueEntry
  <2> QED BY <2>2 DEF Collapsed, LearningQueueEntry
<1> QED BY <1>2, <1>3

\* What is left when a card is popped and, perhaps, put behind others.
LEMMA PoppedAndPlaced ==
    ASSUME NEW q \in Queues, NoneTwice(q), NEW c, AtTop(q, c), NEW requeue,
           requeue = <<>> \/ \E e \in LearningQueueEntry : requeue = <<e>> /\ e.id = c,
           NEW p \in IF requeue = <<>> THEN {PopEntry(q, c)}
                     ELSE InsertLearning(PopEntry(q, c), requeue[1])
    PROVE  AnswerLeft(p, q, c, requeue) /\ p.cutoff = q.cutoff
<1> DEFINE popped == PopEntry(q, c)
<1>1. Popped(popped, q, c)
      BY PopEntryKeeps
<1> HIDE DEF popped
<1>2. CASE requeue = <<>>
  <2>1. p = popped
        BY <1>2 DEF popped
  <2> QED BY <1>1, <1>2, <2>1 DEF Popped, AnswerLeft
<1>3. CASE requeue # <<>>
  <2>1. PICK e \in LearningQueueEntry : requeue = <<e>> /\ e.id = c
        BY <1>3
  <2>2. p \in InsertLearning(popped, e)
        BY <1>3, <2>1 DEF popped
  <2>3. popped \in Queues /\ NoneTwice(popped)
        BY <1>1 DEF Popped
  <2>4. WithLearning(p, popped, e)
        BY <2>2, <2>3, InsertLearningPlaces
  <2>5. c \notin Ids(popped.main) \cup Ids(popped.learning)
        BY <1>1 DEF Popped
  <2>6. NoneTwice(p) /\ Ids(p.learning) = Ids(popped.learning) \cup {c} /\ Ids(p.main) = Ids(popped.main)
        BY <2>1, <2>3, <2>4, <2>5, WithLearningOnce
  <2> QED BY <1>1, <1>3, <2>4, <2>6 DEF Popped, WithLearning, AnswerLeft
<1> QED BY <1>2, <1>3

\* What an answer does.
AnsweredTo(after, q, c) ==
    \E r \in Queues, u \in Updates :
        /\ after.queues = <<r>> /\ after.update = <<u>>
        /\ AnswerLeft(r, q, c, u.requeue)
        /\ r.cutoff = now
        /\ u.entry = TopEntry(q, c) /\ u.build = q.build /\ u.snapshot.cutoff = q.cutoff

\* The answer to a card leaves it at most where it was requeued to.
LEMMA AfterAnswerIs ==
    ASSUME NEW q \in Queues, NoneTwice(q), NEW c \in Cards, AtTop(q, c), NEW row \in Row,
           now \in Nat, NEW after \in AfterAnswer(q, c, row)
    PROVE  AnsweredTo(after, q, c)
<1> DEFINE popped == PopEntry(q, c)
           requeue == IF row.queue = "Learn" /\ row.hidden = "no" /\ row.due < NextDayAt
                      THEN <<Collapsed(popped, LearningEntry(c, row))>>
                      ELSE <<>>
           placed == IF requeue = <<>> THEN {popped} ELSE InsertLearning(popped, requeue[1])
<1>1. PICK p \in placed :
            after = [queues |-> <<UpdateCutoffAndCount(p)>>,
                     update |-> <<[entry |-> TopEntry(q, c), requeue |-> requeue,
                                   build |-> q.build, snapshot |-> Snapshot(p)]>>]
      BY DEF AfterAnswer
<1>2. Popped(popped, q, c)
      BY PopEntryKeeps
<1>3. LearningEntry(c, row) \in LearningQueueEntry /\ LearningEntry(c, row).id = c
      BY DEF LearningEntry, LearningQueueEntry, Row
<1>4. /\ Collapsed(popped, LearningEntry(c, row)) \in LearningQueueEntry
      /\ Collapsed(popped, LearningEntry(c, row)).id = c
      BY <1>2, <1>3, CollapsedIs DEF Popped
<1>5. requeue = <<>> \/ \E e \in LearningQueueEntry : requeue = <<e>> /\ e.id = c
      BY <1>4
<1> HIDE DEF requeue
<1>6. p \in IF requeue = <<>> THEN {PopEntry(q, c)} ELSE InsertLearning(PopEntry(q, c), requeue[1])
      BY <1>1
<1>7. AnswerLeft(p, q, c, requeue) /\ p.cutoff = q.cutoff
      BY <1>5, <1>6, PoppedAndPlaced
<1> DEFINE r == UpdateCutoffAndCount(p)
           u == [entry |-> TopEntry(q, c), requeue |-> requeue,
                 build |-> q.build, snapshot |-> Snapshot(p)]
<1>8. r \in Queues /\ SameEntries(r, p) /\ r.cutoff = now
      BY <1>7, UpdateCutoffKeeps DEF AnswerLeft
<1>9. TopEntry(q, c) \in Entries /\ TopEntry(q, c).id = c
      BY TopEntryIs
<1>10. Snapshot(p) \in Snapshots /\ Snapshot(p).cutoff = q.cutoff
      BY <1>7 DEF Snapshot, Snapshots, AnswerLeft, Queues, Counts
<1>11. u \in Updates /\ u.requeue = requeue /\ u.snapshot.cutoff = q.cutoff
  <2>1. q.build \in Nat
        BY DEF Queues
  <2>2. requeue \in {<<>>} \cup {<<e>> : e \in LearningQueueEntry}
        BY <1>5
  <2>3. requeue # <<>> => requeue[1].id = c
        BY <1>5
  <2> QED BY <1>9, <1>10, <2>1, <2>2, <2>3 DEF Updates
<1>12. AnswerLeft(r, q, c, requeue)
      BY <1>7, <1>8 DEF AnswerLeft, SameEntries, NoneTwice
<1>13. after.queues = <<r>> /\ after.update = <<u>>
      BY <1>1
<1>14. u.entry = TopEntry(q, c) /\ u.build = q.build
      OBVIOUS
<1> HIDE DEF r, u
<1> QED BY <1>8, <1>11, <1>12, <1>13, <1>14 DEF AnsweredTo

\* Undoing an answer, when its card is not in the queues but where it was put.
LEMMA QueuesUndoneAre ==
    ASSUME NEW q \in Queues, NoneTwice(q), NEW u \in Updates, queues = <<q>>,
           u.entry.id \notin Ids(q.main), u.requeue = <<>> => u.entry.id \notin Ids(q.learning),
           NEW after \in QueuesUndone(u)
    PROVE  \E r : after = <<r>> /\ UndoLeft(r, q, u)
<1> DEFINE restored == RestoreCutoff(q, u.snapshot)
           removed == IF u.requeue = <<>> THEN restored ELSE RemoveLearning(restored, u.requeue[1].id)
           r == PushUndoEntry(removed, u.entry)
           c == u.entry.id
<1>1. /\ u.entry \in Entries /\ u.snapshot \in Snapshots
      /\ u.requeue # <<>> => u.requeue[1].id = c
      BY DEF Updates
<1>2. after = <<r>>
      BY DEF QueuesUndone
<1>3. restored \in Queues /\ SameEntries(restored, q) /\ restored.cutoff = u.snapshot.cutoff
      BY <1>1, RestoreCutoffKeeps DEF Snapshots
<1>4. NoneTwice(restored)
      BY <1>3 DEF NoneTwice, SameEntries
<1> HIDE DEF restored
<1>5. /\ removed \in Queues /\ NoneTwice(removed) /\ removed.build = q.build
      /\ removed.cutoff = u.snapshot.cutoff /\ Ids(removed.main) = Ids(q.main)
      /\ Ids(removed.learning) = Ids(q.learning) \ {c}
  <2>1. CASE u.requeue = <<>>
    <3>1. removed = restored
          BY <2>1
    <3> HIDE DEF removed
    <3> QED BY <1>3, <1>4, <2>1, <3>1 DEF SameEntries
  <2>2. CASE u.requeue # <<>>
    <3>1. removed = RemoveLearning(restored, c)
          BY <1>1, <2>2
    <3> HIDE DEF removed, c
    <3> QED BY <1>3, <1>4, <3>1, RemoveLearningKeeps DEF SameEntries
  <2> QED BY <2>1, <2>2
<1> HIDE DEF removed
<1>6. Pushed(r, removed, u.entry)
      BY <1>1, <1>5, PushUndoEntryPushes
<1>7. u.entry.id \notin Ids(removed.main) \cup Ids(removed.learning)
      BY <1>5
<1> HIDE DEF r
<1>8. NoneTwice(r) /\ PushedIds(r, removed, u.entry)
      BY <1>1, <1>5, <1>6, <1>7, PushedOnce
<1>9. UndoLeft(r, q, u)
      BY <1>5, <1>6, <1>8 DEF UndoLeft, Pushed, PushedIds
<1> QED BY <1>2, <1>9

\* Redoing an answer leaves what the answer left.
LEMMA QueuesRedoneAre ==
    ASSUME NEW q \in Queues, NoneTwice(q), NEW u \in Updates, queues = <<q>>,
           AtTop(q, u.entry.id), NEW after \in QueuesRedone(u)
    PROVE  \E r : after = <<r>> /\ AnswerLeft(r, q, u.entry.id, u.requeue)
                    /\ r.cutoff = u.snapshot.cutoff
<1> DEFINE c == u.entry.id
           popped == PopEntry(q, c)
<1>1. /\ u.snapshot \in Snapshots
      /\ u.requeue = <<>> \/ \E e \in LearningQueueEntry : u.requeue = <<e>> /\ e.id = c
      BY DEF Updates
<1>2. PICK p \in IF u.requeue = <<>> THEN {popped} ELSE InsertLearning(popped, u.requeue[1]) :
            after = <<RestoreCutoff(p, u.snapshot)>>
      BY DEF QueuesRedone
<1> DEFINE r == RestoreCutoff(p, u.snapshot)
<1>3. AnswerLeft(p, q, c, u.requeue)
      BY <1>1, <1>2, PoppedAndPlaced
<1>4. r \in Queues /\ SameEntries(r, p) /\ r.cutoff = u.snapshot.cutoff
      BY <1>1, <1>3, RestoreCutoffKeeps DEF AnswerLeft, Snapshots
<1> HIDE DEF r
<1>5. AnswerLeft(r, q, c, u.requeue)
      BY <1>3, <1>4 DEF AnswerLeft, SameEntries, NoneTwice
<1> QED BY <1>2, <1>4, <1>5 DEF r

-----------------------------------------------------------------------------
(* The history: steps that can be undone, newest first, and redone.         *)

\* If both steps answered the same card in the same queues, the older one put it
\* back into the learning queue, and the newer one took it from there.
Follows(new, old) ==
    /\ new.update # <<>>
    /\ old.update # <<>>
    /\ new.update[1].build = old.update[1].build
    /\ new.update[1].entry.id = old.update[1].entry.id
    => new.update[1].entry \in LearningQueueEntry /\ old.update[1].requeue # <<>>

Ordered(undo, redo) ==
    /\ \A i, j \in DOMAIN undo : i < j => Follows(undo[i], undo[j])
    /\ \A k, l \in DOMAIN redo : k < l => Follows(redo[l], redo[k])
    /\ \A k \in DOMAIN redo, i \in DOMAIN undo : Follows(redo[k], undo[i])

\* A step that answered a card of the queues q.
Concerns(step, q) == step.update # <<>> /\ step.update[1].build = q.build

\* Once answered, a card is at most where it was requeued to.
Left(step, q) ==
    Concerns(step, q) =>
        /\ step.update[1].entry.id \notin Ids(q.main)
        /\ step.update[1].requeue = <<>> => step.update[1].entry.id \notin Ids(q.learning)

Gone(undo, q) == \A i \in DOMAIN undo : Left(undo[i], q)

\* Only what is kept of the queues matters to Follows.
LEMMA SameFollows ==
    ASSUME NEW s, NEW t, s.update = t.update, NEW x
    PROVE  (Follows(s, x) <=> Follows(t, x)) /\ (Follows(x, s) <=> Follows(x, t))
BY DEF Follows

\* seq with s before it.
IsPrepended(r, s, seq) ==
    /\ Len(seq) \in Nat
    /\ DOMAIN seq = 1..Len(seq)
    /\ DOMAIN r = 1..(Len(seq) + 1)
    /\ r[1] = s
    /\ \A i \in 1..Len(seq) : r[i + 1] = seq[i]

\* Putting an element first, and leaving the first one out.
LEMMA Prepended ==
    ASSUME NEW S, NEW seq \in Seq(S), NEW s \in S
    PROVE  IsPrepended(<<s>> \o seq, s, seq) /\ <<s>> \o seq \in Seq(S)
<1> DEFINE r == <<s>> \o seq
<1>1. /\ r \in Seq(S)
      /\ Len(r) = Len(seq) + 1
      /\ r[1] = s
      /\ \A j \in 1..Len(seq) : r[j + 1] = seq[j]
      OBVIOUS
<1> HIDE DEF r
<1>2. DOMAIN r = 1..(Len(seq) + 1) /\ DOMAIN seq = 1..Len(seq) /\ Len(seq) \in Nat
      BY <1>1
<1>3. IsPrepended(r, s, seq)
      BY <1>1, <1>2 DEF IsPrepended
<1> QED BY <1>1, <1>3 DEF r

\* A sequence that is not empty is its head before its tail.
LEMMA TailPrepended ==
    ASSUME NEW S, NEW seq \in Seq(S), seq # <<>>
    PROVE  /\ IsPrepended(seq, Head(seq), Tail(seq)) /\ Tail(seq) \in Seq(S)
           /\ Head(seq) \in S
<1> DEFINE r == Tail(seq)
<1>1. /\ r \in Seq(S)
      /\ Len(r) = Len(seq) - 1
      /\ Head(seq) = seq[1] /\ Head(seq) \in S
      /\ \A j \in 1..(Len(seq) - 1) : r[j] = seq[j + 1]
      OBVIOUS
<1> HIDE DEF r
<1>2. /\ DOMAIN r = 1..Len(r) /\ DOMAIN seq = 1..(Len(r) + 1) /\ Len(r) \in Nat
      /\ \A j \in 1..Len(r) : seq[j + 1] = r[j]
      BY <1>1
<1>3. IsPrepended(seq, Head(seq), r)
      BY <1>1, <1>2 DEF IsPrepended
<1> QED BY <1>1, <1>3 DEF r

\* The element at i is the first, or one of the others.
IsEither(i, r, s, seq) ==
    \/ i = 1 /\ r[i] = s
    \/ i > 1 /\ i - 1 \in DOMAIN seq /\ r[i] = seq[i - 1]

\* Each element is the first, or one of the others ...
LEMMA PrependedIndices ==
    ASSUME NEW r, NEW s, NEW seq, IsPrepended(r, s, seq), NEW i \in DOMAIN r
    PROVE  IsEither(i, r, s, seq)
<1>1. i \in 1..(Len(seq) + 1) /\ Len(seq) \in Nat
      BY DEF IsPrepended
<1>2. CASE i = 1
      BY <1>2 DEF IsPrepended, IsEither
<1>3. CASE i # 1
  <2>1. i - 1 \in 1..Len(seq) /\ (i - 1) + 1 = i /\ i > 1
        BY <1>1, <1>3
  <2>2. r[(i - 1) + 1] = seq[i - 1]
        BY <2>1 DEF IsPrepended
  <2> QED BY <2>1, <2>2 DEF IsPrepended, IsEither
<1> QED BY <1>2, <1>3

\* ... and each of them is there.
LEMMA PrependedElements ==
    ASSUME NEW r, NEW s, NEW seq, IsPrepended(r, s, seq)
    PROVE  /\ 1 \in DOMAIN r /\ r[1] = s
           /\ \A i \in DOMAIN seq : i \in Nat /\ i + 1 \in DOMAIN r /\ r[i + 1] = seq[i]
BY DEF IsPrepended

\* The first part of Ordered.
NewestFirst(undo) == \A i, j \in DOMAIN undo : i < j => Follows(undo[i], undo[j])
OldestFirst(redo) == \A k, l \in DOMAIN redo : k < l => Follows(redo[l], redo[k])

\* A step that follows all others can be made the newest, ...
LEMMA PrependNewest ==
    ASSUME NEW undo, NEW s, NEW r, IsPrepended(r, s, undo),
           NewestFirst(undo), \A i \in DOMAIN undo : Follows(s, undo[i])
    PROVE  NewestFirst(r)
<1> SUFFICES ASSUME NEW i \in DOMAIN r, NEW j \in DOMAIN r, i < j
             PROVE  Follows(r[i], r[j])
    BY DEF NewestFirst
<1>1. IsEither(i, r, s, undo)
      BY PrependedIndices
<1>2. IsEither(j, r, s, undo)
      BY PrependedIndices
<1>3. i \in Nat /\ j \in Nat
      BY DEF IsPrepended
<1>4. j > 1 /\ j - 1 \in DOMAIN undo /\ r[j] = undo[j - 1]
      BY <1>1, <1>2, <1>3 DEF IsEither
<1>5. CASE i = 1 /\ r[i] = s
      BY <1>4, <1>5
<1>6. CASE i > 1 /\ i - 1 \in DOMAIN undo /\ r[i] = undo[i - 1]
  <2>1. i - 1 < j - 1
        BY <1>3
  <2> QED BY <1>4, <1>6, <2>1 DEF NewestFirst
<1> QED BY <1>1, <1>5, <1>6 DEF IsEither

\* ... the newest can be taken away, ...
LEMMA TailNewest ==
    ASSUME NEW undo, NEW s, NEW r, IsPrepended(r, s, undo), NewestFirst(r)
    PROVE  NewestFirst(undo) /\ \A i \in DOMAIN undo : Follows(s, undo[i])
<1>1. 1 \in DOMAIN r /\ r[1] = s
      BY PrependedElements
<1>2. ASSUME NEW i \in DOMAIN undo
      PROVE  Follows(s, undo[i])
  <2>1. i \in Nat /\ i + 1 \in DOMAIN r /\ r[i + 1] = undo[i] /\ i # 0
        BY PrependedElements DEF IsPrepended
  <2>2. 1 < i + 1
        BY <2>1
  <2> QED BY <1>1, <2>1, <2>2 DEF NewestFirst
<1>3. ASSUME NEW i \in DOMAIN undo, NEW j \in DOMAIN undo, i < j
      PROVE  Follows(undo[i], undo[j])
  <2>1. i \in Nat /\ i + 1 \in DOMAIN r /\ r[i + 1] = undo[i]
        BY PrependedElements
  <2>2. j \in Nat /\ j + 1 \in DOMAIN r /\ r[j + 1] = undo[j]
        BY PrependedElements
  <2>3. i + 1 < j + 1
        BY <1>3, <2>1, <2>2
  <2> QED BY <2>1, <2>2, <2>3 DEF NewestFirst
<1> QED BY <1>2, <1>3 DEF NewestFirst

\* ... a step that all others follow can be made the next to redo, ...
LEMMA PrependOldest ==
    ASSUME NEW redo, NEW s, NEW r, IsPrepended(r, s, redo),
           OldestFirst(redo), \A i \in DOMAIN redo : Follows(redo[i], s)
    PROVE  OldestFirst(r)
<1> SUFFICES ASSUME NEW i \in DOMAIN r, NEW j \in DOMAIN r, i < j
             PROVE  Follows(r[j], r[i])
    BY DEF OldestFirst
<1>1. IsEither(i, r, s, redo)
      BY PrependedIndices
<1>2. IsEither(j, r, s, redo)
      BY PrependedIndices
<1>3. i \in Nat /\ j \in Nat
      BY DEF IsPrepended
<1>4. j > 1 /\ j - 1 \in DOMAIN redo /\ r[j] = redo[j - 1]
      BY <1>1, <1>2, <1>3 DEF IsEither
<1>5. CASE i = 1 /\ r[i] = s
      BY <1>4, <1>5
<1>6. CASE i > 1 /\ i - 1 \in DOMAIN redo /\ r[i] = redo[i - 1]
  <2>1. i - 1 < j - 1
        BY <1>3
  <2> QED BY <1>4, <1>6, <2>1 DEF OldestFirst
<1> QED BY <1>1, <1>5, <1>6 DEF IsEither

\* ... and the next to redo taken away.
LEMMA TailOldest ==
    ASSUME NEW redo, NEW s, NEW r, IsPrepended(r, s, redo), OldestFirst(r)
    PROVE  OldestFirst(redo) /\ \A i \in DOMAIN redo : Follows(redo[i], s)
<1>1. 1 \in DOMAIN r /\ r[1] = s
      BY PrependedElements
<1>2. ASSUME NEW i \in DOMAIN redo
      PROVE  Follows(redo[i], s)
  <2>1. i \in Nat /\ i + 1 \in DOMAIN r /\ r[i + 1] = redo[i] /\ i # 0
        BY PrependedElements DEF IsPrepended
  <2>2. 1 < i + 1
        BY <2>1
  <2> QED BY <1>1, <2>1, <2>2 DEF OldestFirst
<1>3. ASSUME NEW i \in DOMAIN redo, NEW j \in DOMAIN redo, i < j
      PROVE  Follows(redo[j], redo[i])
  <2>1. i \in Nat /\ i + 1 \in DOMAIN r /\ r[i + 1] = redo[i]
        BY PrependedElements
  <2>2. j \in Nat /\ j + 1 \in DOMAIN r /\ r[j + 1] = redo[j]
        BY PrependedElements
  <2>3. i + 1 < j + 1
        BY <1>3, <2>1, <2>2
  <2> QED BY <2>1, <2>2, <2>3 DEF OldestFirst
<1> QED BY <1>2, <1>3 DEF OldestFirst

\* Ordered, in its parts.
LEMMA OrderedIs ==
    ASSUME NEW undo, NEW redo
    PROVE  Ordered(undo, redo) <=>
                /\ NewestFirst(undo)
                /\ OldestFirst(redo)
                /\ \A k \in DOMAIN redo, i \in DOMAIN undo : Follows(redo[k], undo[i])
BY DEF Ordered, NewestFirst, OldestFirst

\* A step goes from the one sequence to the other.
LEMMA MoveToRedo ==
    ASSUME NEW undo, NEW redo, NEW s, NEW t, NEW undo1, NEW redo1,
           s.update = t.update,
           Ordered(undo1, redo), IsPrepended(undo1, s, undo), IsPrepended(redo1, t, redo)
    PROVE  Ordered(undo, redo1)
<1>1. /\ NewestFirst(undo1) /\ OldestFirst(redo)
      /\ \A k \in DOMAIN redo, i \in DOMAIN undo1 : Follows(redo[k], undo1[i])
      BY OrderedIs
<1>2. NewestFirst(undo) /\ \A i \in DOMAIN undo : Follows(s, undo[i])
      BY <1>1, TailNewest
<1>3. 1 \in DOMAIN undo1 /\ undo1[1] = s
      BY PrependedElements
<1>4. \A k \in DOMAIN redo : Follows(redo[k], s)
      BY <1>1, <1>3
<1>5. \A k \in DOMAIN redo : Follows(redo[k], t)
      BY <1>4, SameFollows
<1>6. OldestFirst(redo1)
      BY <1>1, <1>5, PrependOldest
<1>7. ASSUME NEW k \in DOMAIN redo1, NEW i \in DOMAIN undo
      PROVE  Follows(redo1[k], undo[i])
  <2>1. IsEither(k, redo1, t, redo)
        BY PrependedIndices
  <2>2. Follows(t, undo[i])
        BY <1>2, SameFollows
  <2>3. i + 1 \in DOMAIN undo1 /\ undo1[i + 1] = undo[i]
        BY PrependedElements
  <2> QED BY <1>1, <2>1, <2>2, <2>3 DEF IsEither
<1> QED BY <1>2, <1>6, <1>7, OrderedIs

\* And back.
LEMMA MoveToUndo ==
    ASSUME NEW undo, NEW redo, NEW s, NEW t, NEW undo1, NEW redo1,
           s.update = t.update,
           Ordered(undo, redo1), IsPrepended(undo1, s, undo), IsPrepended(redo1, t, redo)
    PROVE  Ordered(undo1, redo)
<1>1. /\ NewestFirst(undo) /\ OldestFirst(redo1)
      /\ \A k \in DOMAIN redo1, i \in DOMAIN undo : Follows(redo1[k], undo[i])
      BY OrderedIs
<1>2. OldestFirst(redo) /\ \A k \in DOMAIN redo : Follows(redo[k], t)
      BY <1>1, TailOldest
<1>3. 1 \in DOMAIN redo1 /\ redo1[1] = t
      BY PrependedElements
<1>4. \A i \in DOMAIN undo : Follows(t, undo[i])
      BY <1>1, <1>3
<1>5. \A i \in DOMAIN undo : Follows(s, undo[i])
      BY <1>4, SameFollows
<1>6. NewestFirst(undo1)
      BY <1>1, <1>5, PrependNewest
<1>7. ASSUME NEW k \in DOMAIN redo, NEW i \in DOMAIN undo1
      PROVE  Follows(redo[k], undo1[i])
  <2>1. IsEither(i, undo1, s, undo)
        BY PrependedIndices
  <2>2. Follows(redo[k], s)
        BY <1>2, SameFollows
  <2>3. k + 1 \in DOMAIN redo1 /\ redo1[k + 1] = redo[k]
        BY PrependedElements
  <2> QED BY <1>1, <2>1, <2>2, <2>3 DEF IsEither
<1> QED BY <1>2, <1>6, <1>7, OrderedIs

\* A new step that follows all others: nothing is left to redo.
LEMMA NothingToRedo ==
    ASSUME NEW undo, NEW redo, NEW s, NEW undo1, Ordered(undo, redo),
           IsPrepended(undo1, s, undo), \A i \in DOMAIN undo : Follows(s, undo[i])
    PROVE  Ordered(undo1, <<>>)
<1>1. NewestFirst(undo)
      BY OrderedIs
<1>2. NewestFirst(undo1)
      BY <1>1, PrependNewest
<1>3. OldestFirst(<<>>) /\ \A k \in DOMAIN <<>>, i \in DOMAIN undo1 : Follows(<<>>[k], undo1[i])
      BY DEF OldestFirst
<1> QED BY <1>2, <1>3, OrderedIs

\* The first step, and the others, left the cards.
LEMMA PrependGone ==
    ASSUME NEW undo, NEW s, NEW r, NEW q, IsPrepended(r, s, undo), Gone(undo, q), Left(s, q)
    PROVE  Gone(r, q)
<1> SUFFICES ASSUME NEW i \in DOMAIN r
             PROVE  Left(r[i], q)
    BY DEF Gone
<1>1. IsEither(i, r, s, undo)
      BY PrependedIndices
<1> QED BY <1>1 DEF Gone, IsEither

\* What all steps left, all but the newest left.
LEMMA TailGone ==
    ASSUME NEW undo, NEW s, NEW r, NEW q, IsPrepended(r, s, undo), Gone(r, q)
    PROVE  Gone(undo, q) /\ Left(s, q)
<1>1. Left(s, q)
      BY PrependedElements DEF Gone
<1>2. ASSUME NEW i \in DOMAIN undo
      PROVE  Left(undo[i], q)
  <2>1. i + 1 \in DOMAIN r /\ r[i + 1] = undo[i]
        BY PrependedElements
  <2> QED BY <2>1 DEF Gone
<1> QED BY <1>1, <1>2 DEF Gone

-----------------------------------------------------------------------------
(* Rows.                                                                    *)

\* Days and seconds are numbers.
LEMMA TimesAreNat ==
    ASSUME now \in Nat
    PROVE  /\ Today \in Nat /\ NextDayAt \in Nat
           /\ \A t \in Nat : t >= NextDayAt =>
                Today + 1 + (t - NextDayAt) \div DayLength \in Nat
<1>1. DayLength \in Nat /\ DayLength > 0
      BY StudyAssumption
<1>2. Today \in Nat
      BY <1>1 DEF Today
<1>3. NextDayAt \in Nat
      BY <1>1, <1>2 DEF NextDayAt
<1> HIDE DEF Today, NextDayAt
<1>4. ASSUME NEW t \in Nat, t >= NextDayAt
      PROVE  Today + 1 + (t - NextDayAt) \div DayLength \in Nat
  <2>1. t - NextDayAt \in Nat
        BY <1>3, <1>4
  <2>2. (t - NextDayAt) \div DayLength \in Nat
        BY <1>1, <2>1
  <2> QED BY <1>2, <2>2
<1> QED BY <1>2, <1>3, <1>4

\* A card put into learning, by seconds or by days, has a proper row ...
LEMMA InLearningForIsRow ==
    ASSUME now \in Nat, NEW row \in Row, NEW delay \in Nat
    PROVE  InLearningFor(row, delay) \in Row
<1>1. now + delay \in Nat /\ NextDayAt \in Nat
      BY TimesAreNat
<1>2. CASE now + delay < NextDayAt
      BY <1>1, <1>2 DEF InLearningFor, Row, CardQueues
<1>3. CASE ~(now + delay < NextDayAt)
  <2>1. now + delay >= NextDayAt
        BY <1>1, <1>3
  <2> DEFINE d == Today + 1 + (now + delay - NextDayAt) \div DayLength
  <2>2. d \in Nat
        BY <1>1, <2>1, TimesAreNat
  <2>3. InLearningFor(row, delay) = [row EXCEPT !.queue = "DayLearn", !.due = d]
        BY <1>3 DEF InLearningFor
  <2> HIDE DEF d
  <2> QED BY <2>2, <2>3 DEF Row, CardQueues
<1> QED BY <1>2, <1>3

\* ... and so has one that was answered.
LEMMA RatedAreRows ==
    ASSUME now \in Nat, NEW c, NEW row \in Row, NEW r \in Rated(c, row)
    PROVE  r \in Row
<1> DEFINE written == [row EXCEPT !.mtime = now, !.hidden = "no"]
           studied == [written EXCEPT !.tried = TRUE]
<1>1. written \in Row
      BY DEF Row
<1> HIDE DEF written
<1>2. studied \in Row
      BY <1>1 DEF Row
<1> HIDE DEF studied
<1>3. \A d \in Delays : d \in Nat
      BY StudyAssumption
<1>4. CASE Previewed(c, row)
  <2>1. r \in {[written EXCEPT !.queue = "Learn", !.due = now + d] : d \in Delays}
                \cup {[row EXCEPT !.queue = "Home", !.mtime = now]}
        BY <1>4 DEF Rated, written
  <2>2. CASE r \in {[written EXCEPT !.queue = "Learn", !.due = now + d] : d \in Delays}
    <3>1. PICK d \in Delays : r = [written EXCEPT !.queue = "Learn", !.due = now + d]
          BY <2>2
    <3>2. now + d \in Nat
          BY <1>3
    <3> QED BY <1>1, <3>1, <3>2 DEF Row, CardQueues
  <2>3. CASE r = [row EXCEPT !.queue = "Home", !.mtime = now]
        BY <2>3 DEF Row, CardQueues
  <2> QED BY <2>1, <2>2, <2>3
<1>5. CASE ~Previewed(c, row)
  <2>1. r \in {InLearningFor(studied, d) : d \in Delays}
                \cup {[studied EXCEPT !.queue = "Review", !.due = Today + 1]}
                \cup {[InLearningFor(studied, d) EXCEPT !.hidden = "suspended"] :
                            d \in IF row.queue = "Review" THEN Delays ELSE {}}
        BY <1>5 DEF Rated, studied, written
  <2>2. CASE r \in {InLearningFor(studied, d) : d \in Delays}
        BY <1>2, <1>3, <2>2, InLearningForIsRow
  <2>3. CASE r = [studied EXCEPT !.queue = "Review", !.due = Today + 1]
    <3>1. Today + 1 \in Nat
          BY TimesAreNat
    <3> QED BY <1>2, <2>3, <3>1 DEF Row, CardQueues
  <2>4. CASE \E d \in Delays : r = [InLearningFor(studied, d) EXCEPT !.hidden = "suspended"]
    <3>1. PICK d \in Delays : r = [InLearningFor(studied, d) EXCEPT !.hidden = "suspended"]
          BY <2>4
    <3>2. InLearningFor(studied, d) \in Row
          BY <1>2, <1>3, InLearningForIsRow
    <3> QED BY <3>1, <3>2 DEF Row
  <2> QED BY <2>1, <2>2, <2>3, <2>4
<1> QED BY <1>4, <1>5

\* Writing rows keeps the type of the table ...
LEMMA WrittenIsTable ==
    ASSUME NEW changed \in SomeRows, NEW table \in [Cards -> Row]
    PROVE  Written(changed, table) \in [Cards -> Row]
<1>1. \A c \in DOMAIN changed : changed[c] \in Row
      BY DEF SomeRows
<1> QED BY <1>1 DEF Written

\* ... and so does unburying.
LEMMA UnburiedIsTable ==
    ASSUME NEW table \in [Cards -> Row]
    PROVE  Unburied(table) \in [Cards -> Row]
<1>1. \A c \in Cards : [table[c] EXCEPT !.hidden = "no"] \in Row
      BY DEF Row
<1> QED BY <1>1 DEF Unburied

-----------------------------------------------------------------------------
(* The invariant.                                                           *)

Types ==
    /\ rows \in [Cards -> Row]
    /\ shown # <<>> => shown[1].card \in Cards
    /\ undoSteps \in Seq(StepsUntil(builds, now))
    /\ redoSteps \in Seq(StepsUntil(builds, now))
    /\ builds \in Nat
    /\ now \in Nat
    /\ outcome \in {"ok", "error", "panic"}

\* The queues q of the current build, and what was answered in them.
Current(q, undo) ==
    /\ q \in Queues
    /\ NoneTwice(q)
    /\ q.build = builds
    /\ q.cutoff <= now
    /\ Gone(undo, q)

Studying == queues = <<>> \/ \E q : queues = <<q>> /\ Current(q, undoSteps)

IInv == Types /\ Ordered(undoSteps, redoSteps) /\ Studying

\* Steps stay of their type as builds and time go on.
LEMMA StepsGrow ==
    ASSUME NEW m \in Nat, NEW n \in Nat, m <= n, NEW t \in Nat, NEW u \in Nat, t <= u,
           NEW steps \in Seq(StepsUntil(m, t))
    PROVE  steps \in Seq(StepsUntil(n, u))
<1>1. ASSUME NEW s \in StepsUntil(m, t)
      PROVE  s \in StepsUntil(n, u)
  <2>1. s \in UndoableSteps /\ (s.update # <<>> => s.update[1].build <= m /\ s.update[1].snapshot.cutoff <= t)
        BY DEF StepsUntil
  <2>2. CASE s.update = <<>>
        BY <2>1, <2>2 DEF StepsUntil
  <2>3. CASE s.update # <<>>
    <3>1. PICK x \in Updates : s.update = <<x>>
          BY <2>1, <2>3 DEF UndoableSteps
    <3>2. x.build \in Nat /\ x.snapshot.cutoff \in Nat
          BY DEF Updates, Snapshots
    <3>3. s.update[1] = x
          BY <3>1
    <3>4. x.build <= n /\ x.snapshot.cutoff <= u
          BY <2>1, <2>3, <3>2, <3>3
    <3> QED BY <2>1, <3>3, <3>4 DEF StepsUntil
  <2> QED BY <2>2, <2>3
<1> QED BY <1>1, SeqMonotonic

\* The invariant holds at the start.
LEMMA InitIInv == Init => IInv
<1> SUFFICES ASSUME Init PROVE IInv
    OBVIOUS
<1>1. rows \in [Cards -> Row]
      BY StudyAssumption DEF Init
<1>2. <<>> \in Seq(StepsUntil(builds, now))
      OBVIOUS
<1>3. Ordered(<<>>, <<>>)
      BY DEF Ordered
<1> QED BY <1>1, <1>2, <1>3 DEF Init, IInv, Types, Studying

\* The invariant says that no card is queued twice.
LEMMA IInvWellFormed ==
    ASSUME IInv
    PROVE  QueuesWellFormed
<1>1. Types /\ Studying
      BY DEF IInv
<1>2. \A i \in DOMAIN undoSteps : DOMAIN undoSteps[i].rows \subseteq Cards
  <2>1. ASSUME NEW i \in DOMAIN undoSteps
        PROVE  DOMAIN undoSteps[i].rows \subseteq Cards
    <3>1. undoSteps[i] \in UndoableSteps
          BY <1>1 DEF Types, StepsUntil
    <3> QED BY <3>1 DEF UndoableSteps, SomeRows
  <2> QED BY <2>1
<1>3. queues # <<>> =>
        /\ queues[1].main \in Seq(MainQueueEntry)
        /\ queues[1].learning \in Seq(LearningQueueEntry)
        /\ queues[1].counts \in [{"New", "Review", "Learning"} -> Nat]
        /\ queues[1].cutoff <= now
      BY <1>1 DEF Studying, Current, Queues, Counts
<1>4. TypeOK
      BY <1>1, <1>2, <1>3 DEF TypeOK, Types
<1>5. ASSUME NEW q \in Queues, NoneTwice(q),
             NEW j \in DOMAIN (q.main \o q.learning), NEW k \in DOMAIN (q.main \o q.learning),
             (q.main \o q.learning)[j].id = (q.main \o q.learning)[k].id
      PROVE  j = k
  <2> DEFINE m == q.main
             l == q.learning
             n == Len(m)
             all == m \o l
  <2>1. m \in Seq(Entries) /\ l \in Seq(Entries)
    <3>1. m \in Seq(MainQueueEntry) /\ l \in Seq(LearningQueueEntry)
          BY DEF Queues
    <3>2. MainQueueEntry \subseteq Entries /\ LearningQueueEntry \subseteq Entries
          BY DEF Entries
    <3> QED BY <3>1, <3>2, SeqMonotonic
  <2>2. Once(m) /\ Once(l) /\ Ids(m) \cap Ids(l) = {}
        BY <1>5 DEF NoneTwice
  <2> HIDE DEF m, l
  <2>3. n \in Nat /\ DOMAIN m = 1..n /\ Len(l) \in Nat /\ DOMAIN l = 1..Len(l)
        BY <2>1
  <2>4. /\ all \in Seq(Entries) /\ Len(all) = n + Len(l)
        /\ \A i \in 1..(n + Len(l)) : all[i] = IF i <= n THEN m[i] ELSE l[i - n]
        BY <2>1, ConcatProperties
  <2>5. j \in DOMAIN all /\ k \in DOMAIN all /\ all[j].id = all[k].id
        BY <1>5 DEF m, l
  <2> HIDE DEF all, n
  <2>6. j \in 1..(n + Len(l)) /\ k \in 1..(n + Len(l))
        BY <2>4, <2>5
  <2>7. ASSUME NEW i \in 1..(n + Len(l))
        PROVE  \/ i <= n /\ i \in DOMAIN m /\ all[i] = m[i] /\ all[i].id \in Ids(m)
               \/ i > n /\ i - n \in DOMAIN l /\ all[i] = l[i - n] /\ all[i].id \in Ids(l)
    <3>1. CASE i <= n
          BY <2>3, <2>4, <3>1 DEF Ids
    <3>2. CASE i > n
      <4>1. i - n \in DOMAIN l /\ all[i] = l[i - n]
            BY <2>3, <2>4, <3>2
      <4> QED BY <3>2, <4>1 DEF Ids
    <3> QED BY <2>3, <3>1, <3>2
  <2>8. \/ j <= n /\ k <= n
        \/ j > n /\ k > n
        BY <2>2, <2>5, <2>6, <2>7
  <2>9. CASE j <= n /\ k <= n
    <3>1. j \in DOMAIN m /\ all[j] = m[j] /\ k \in DOMAIN m /\ all[k] = m[k]
          BY <2>3, <2>6, <2>7, <2>9
    <3> QED BY <2>2, <2>5, <3>1 DEF Once
  <2>10. CASE j > n /\ k > n
    <3>1. j - n \in DOMAIN l /\ all[j] = l[j - n] /\ k - n \in DOMAIN l /\ all[k] = l[k - n]
          BY <2>3, <2>6, <2>7, <2>10
    <3>2. j - n = k - n
          BY <2>2, <2>5, <3>1 DEF Once
    <3> QED BY <2>3, <2>6, <3>2
  <2> QED BY <2>8, <2>9, <2>10
<1>6. EachCardOnce
  <2>1. CASE queues = <<>>
        BY <2>1 DEF EachCardOnce
  <2>2. CASE queues # <<>>
    <3>1. PICK q : queues = <<q>> /\ q \in Queues /\ NoneTwice(q)
          BY <1>1, <2>2 DEF Studying, Current
    <3>2. DOMAIN queues = {1} /\ queues[1] = q
          BY <3>1
    <3>3. \A j, k \in DOMAIN (q.main \o q.learning) :
              (q.main \o q.learning)[j].id = (q.main \o q.learning)[k].id => j = k
          BY <1>5, <3>1
    <3> QED BY <3>2, <3>3 DEF EachCardOnce
  <2> QED BY <2>1, <2>2
<1> QED BY <1>4, <1>6 DEF QueuesWellFormed

-----------------------------------------------------------------------------
(* Every action keeps the invariant.                                        *)

\* What a step consists of.
LEMMA StepsAre ==
    ASSUME NEW n, NEW t, NEW s \in StepsUntil(n, t)
    PROVE  /\ s \in UndoableSteps
           /\ s.rows \in SomeRows
           /\ s.update # <<>> => \E u \in Updates : /\ s.update = <<u>> /\ s.update[1] = u
                                                    /\ u.build <= n /\ u.snapshot.cutoff <= t
<1>1. s \in UndoableSteps /\ (s.update # <<>> => s.update[1].build <= n /\ s.update[1].snapshot.cutoff <= t)
      BY DEF StepsUntil
<1>2. CASE s.update = <<>>
      BY <1>1, <1>2 DEF UndoableSteps
<1>3. CASE s.update # <<>>
  <2>1. PICK u \in Updates : s.update = <<u>>
        BY <1>1, <1>3 DEF UndoableSteps
  <2>2. s.update[1] = u
        BY <2>1
  <2> QED BY <1>1, <1>3, <2>1, <2>2 DEF UndoableSteps
<1> QED BY <1>2, <1>3

\* A step that was undone or redone is still one, of the same answer.
LEMMA RevertedIsStep ==
    ASSUME IInv, NEW s \in StepsUntil(builds, now)
    PROVE  Reverted(s) \in StepsUntil(builds, now) /\ Reverted(s).update = s.update
<1>1. s \in UndoableSteps /\ s.rows \in SomeRows
      BY StepsAre
<1>2. rows \in [Cards -> Row]
      BY DEF IInv, Types
<1> DEFINE old == [c \in DOMAIN s.rows |-> rows[c]]
<1>3. old \in SomeRows
  <2>1. DOMAIN s.rows \in SUBSET Cards
        BY <1>1 DEF SomeRows
  <2>2. old \in [DOMAIN s.rows -> Row]
        BY <1>2, <2>1
  <2> HIDE DEF old
  <2> QED BY <2>1, <2>2 DEF SomeRows
<1>4. Reverted(s) = [op |-> s.op, rows |-> old, update |-> s.update]
      BY DEF Reverted
<1> HIDE DEF old
<1>5. Reverted(s) \in UndoableSteps /\ Reverted(s).update = s.update
      BY <1>1, <1>3, <1>4 DEF UndoableSteps
<1> QED BY <1>5 DEF StepsUntil

\* What an answer to the card on top leaves of what was answered before.
LEMMA AnswerLeaves ==
    ASSUME NEW q \in Queues, NEW c, AtTop(q, c), NEW r, NEW requeue,
           AnswerLeft(r, q, c, requeue), NEW undo, Gone(undo, q)
    PROVE  Gone(undo, r)
<1> SUFFICES ASSUME NEW i \in DOMAIN undo, Concerns(undo[i], r)
             PROVE  /\ undo[i].update[1].entry.id \notin Ids(r.main)
                    /\ undo[i].update[1].requeue = <<>> =>
                            undo[i].update[1].entry.id \notin Ids(r.learning)
    BY DEF Gone, Left
<1> DEFINE x == undo[i].update[1].entry.id
<1>1. r.build = q.build /\ Ids(r.main) = Ids(q.main) \ {c}
      BY DEF AnswerLeft
<1>2. Ids(r.learning) \subseteq Ids(q.learning) \cup {c}
      BY DEF AnswerLeft
<1>3. Concerns(undo[i], q)
      BY <1>1 DEF Concerns
<1>4. x \notin Ids(q.main) /\ (undo[i].update[1].requeue = <<>> => x \notin Ids(q.learning))
      BY <1>3 DEF Gone, Left
<1>5. c \in Ids(q.main) \cup Ids(q.learning)
      BY TopEntryIs
<1> QED BY <1>1, <1>2, <1>4, <1>5

\* What undoing the newest answer leaves of what was answered before.
LEMMA UndoLeaves ==
    ASSUME NEW q, NEW u, NEW s, s.update = <<u>>, u.build = q.build, NEW r, UndoLeft(r, q, u),
           NEW undo, Gone(undo, q), \A i \in DOMAIN undo : Follows(s, undo[i])
    PROVE  Gone(undo, r)
<1> SUFFICES ASSUME NEW i \in DOMAIN undo, Concerns(undo[i], r)
             PROVE  /\ undo[i].update[1].entry.id \notin Ids(r.main)
                    /\ undo[i].update[1].requeue = <<>> =>
                            undo[i].update[1].entry.id \notin Ids(r.learning)
    BY DEF Gone, Left
<1> DEFINE x == undo[i].update[1].entry.id
<1>1. r.build = q.build
      BY DEF UndoLeft
<1>2. Concerns(undo[i], q)
      BY <1>1 DEF Concerns
<1>3. x \notin Ids(q.main) /\ (undo[i].update[1].requeue = <<>> => x \notin Ids(q.learning))
      BY <1>2 DEF Gone, Left
<1>4. s.update # <<>> /\ s.update[1] = u
      OBVIOUS
<1>5. x = u.entry.id => u.entry \in LearningQueueEntry /\ undo[i].update[1].requeue # <<>>
      BY <1>2, <1>4 DEF Follows, Concerns
<1>6. Ids(r.main) = Ids(q.main) \cup (IF u.entry \in LearningQueueEntry THEN {} ELSE {u.entry.id})
      BY DEF UndoLeft
<1>7. Ids(r.learning) \subseteq Ids(q.learning) \cup {u.entry.id}
      BY DEF UndoLeft
<1> QED BY <1>3, <1>5, <1>6, <1>7

\* An answered card has left the queues for where it was put.
LEMMA AnsweredHasLeft ==
    ASSUME NEW s, NEW u, s.update = <<u>>, NEW q, NEW r, AnswerLeft(r, q, u.entry.id, u.requeue)
    PROVE  Left(s, r)
<1>1. s.update[1] = u
      OBVIOUS
<1> QED BY <1>1 DEF Left, AnswerLeft

\* No step is of queues built later, ...
LEMMA NewBuildNew ==
    ASSUME NEW n \in Nat, NEW t, NEW steps \in Seq(StepsUntil(n, t)), NEW q, q.build = n + 1
    PROVE  \A i \in DOMAIN steps : ~Concerns(steps[i], q)
<1> SUFFICES ASSUME NEW i \in DOMAIN steps PROVE ~Concerns(steps[i], q)
    OBVIOUS
<1>1. steps[i] \in StepsUntil(n, t)
      OBVIOUS
<1>2. CASE steps[i].update = <<>>
      BY <1>2 DEF Concerns
<1>3. CASE steps[i].update # <<>>
  <2>1. PICK u \in Updates : steps[i].update[1] = u /\ u.build <= n
        BY <1>1, <1>3, StepsAre
  <2>2. u.build \in Nat /\ u.build # n + 1
        BY <2>1 DEF Updates
  <2> QED BY <2>1, <2>2 DEF Concerns
<1> QED BY <1>2, <1>3

\* ... so no card answered before is in them because of it.
LEMMA NewBuildGone ==
    ASSUME NEW n \in Nat, NEW t, NEW steps \in Seq(StepsUntil(n, t)), NEW q, q.build = n + 1
    PROVE  Gone(steps, q)
BY NewBuildNew DEF Gone, Left

\* Asking for the counts leaves the entries alone.
LEMMA CountedKeeps ==
    ASSUME NEW q \in Queues, now \in Nat, q.cutoff <= now
    PROVE  /\ Counted(q) \in Queues
           /\ SameEntries(Counted(q), q)
           /\ Counted(q).cutoff <= now
<1>1. CASE Counted(q) = q
      BY <1>1 DEF SameEntries
<1>2. CASE Counted(q) = UpdateCutoffAndCount(q)
      BY <1>2, UpdateCutoffKeeps
<1> QED BY <1>1, <1>2 DEF Counted

\* What is presented first is in the queues.
LEMMA FirstIsEntry ==
    ASSUME NEW q \in Queues, ~NothingToShow(q)
    PROVE  First(q) \in Entries
<1>1. /\ q.learning \in Seq(LearningQueueEntry) /\ q.main \in Seq(MainQueueEntry)
      BY DEF Queues
<1>2. /\ Len(q.learning) \in Nat /\ DueNow(q) \in SUBSET (1..Len(q.learning))
      /\ DueAhead(q) \in SUBSET (1..Len(q.learning))
      BY <1>1 DEF DueNow, DueAhead
<1>3. CASE DueNow(q) # {}
  <2>1. LeastOf(DueNow(q)) \in 1..Len(q.learning)
        BY <1>2, <1>3, LeastOfIsIn
  <2> QED BY <1>1, <1>3, <2>1 DEF First, Entries
<1>4. CASE DueNow(q) = {} /\ q.main # <<>>
      BY <1>1, <1>4 DEF First, Entries
<1>5. CASE DueNow(q) = {} /\ q.main = <<>>
  <2>1. LeastOf(DueAhead(q)) \in 1..Len(q.learning)
        BY <1>2, <1>5, LeastOfIsIn DEF NothingToShow
  <2> QED BY <1>1, <1>5, <2>1 DEF First, Entries
<1> QED BY <1>3, <1>4, <1>5

\* A fetched card is a card.
LEMMA FetchShows ==
    ASSUME NEW q \in Queues, NEW table, Fetch(q, table)
    PROVE  /\ shown' # <<>> => shown'[1].card \in Cards
           /\ outcome' \in {"ok", "error", "panic"}
<1>1. CASE NothingToShow(q) \/ table[First(q).id].mtime # First(q).mtime
      BY <1>1 DEF Fetch
<1>2. CASE ~NothingToShow(q) /\ table[First(q).id].mtime = First(q).mtime
  <2>1. First(q).id \in Cards
        BY <1>2, FirstIsEntry DEF Entries, MainQueueEntry, LearningQueueEntry
  <2> QED BY <1>2, <2>1 DEF Fetch
<1> QED BY <1>1, <1>2

\* Fetching anew, or not.
LEMMA RefetchShows ==
    ASSUME IInv, Refetch
    PROVE  shown' # <<>> => shown'[1].card \in Cards
BY DEF Refetch, IInv, Types

\* Without steps, nothing is out of order.
LEMMA NoHistory ==
    ASSUME undoSteps' = <<>>, redoSteps' = <<>>
    PROVE  /\ Ordered(undoSteps', redoSteps')
           /\ \A n, t : undoSteps' \in Seq(StepsUntil(n, t)) /\ redoSteps' \in Seq(StepsUntil(n, t))
BY DEF Ordered

\* Fetching: the queues are new, or what they were.
LEMMA FetchOnNewDayIInv ==
    ASSUME IInv, FetchOnNewDay
    PROVE  IInv'
<1>1. Types
      BY DEF IInv
<1>2. rows' \in [Cards -> Row]
      BY <1>1, UnburiedIsTable DEF FetchOnNewDay, Types
<1>3. PICK q \in Built(Unburied(rows)) : queues' = <<Counted(q)>> /\ Fetch(Counted(q), rows)
      BY DEF FetchOnNewDay
<1>4. /\ builds' = builds + 1 /\ now' = now /\ now \in Nat /\ builds \in Nat
      /\ undoSteps' = <<>> /\ redoSteps' = <<>>
      BY <1>1 DEF FetchOnNewDay, Types
<1>5. q \in Queues /\ NoneTwice(q) /\ q.build = builds + 1 /\ q.cutoff = now
      BY <1>1, <1>4, UnburiedIsTable, BuiltAreQueues DEF Types
<1>r. PICK r : r = Counted(q)
      OBVIOUS
<1>6. r \in Queues /\ SameEntries(r, q) /\ r.cutoff <= now
      BY <1>4, <1>5, <1>r, CountedKeeps
<1>7. /\ shown' # <<>> => shown'[1].card \in Cards
      /\ outcome' \in {"ok", "error", "panic"}
      BY <1>3, <1>6, <1>r, FetchShows
<1>8. Types'
      BY <1>2, <1>4, <1>7, NoHistory DEF Types
<1>9. queues' = <<r>>
      BY <1>r, <1>3
<1>10. Current(r, undoSteps)'
      BY <1>4, <1>5, <1>6 DEF Current, SameEntries, NoneTwice, Gone
<1> QED BY <1>4, <1>8, <1>9, <1>10, NoHistory DEF IInv, Studying

\* Building new queues: no step is of them.
LEMMA FetchAndBuildIInv ==
    ASSUME IInv, FetchAndBuild
    PROVE  IInv'
<1>1. Types /\ Ordered(undoSteps, redoSteps)
      BY DEF IInv
<1>2. PICK q \in Built(rows) : queues' = <<Counted(q)>> /\ Fetch(Counted(q), rows)
      BY DEF FetchAndBuild
<1>3. /\ builds' = builds + 1 /\ now' = now /\ now \in Nat /\ builds \in Nat
      /\ undoSteps' = undoSteps /\ redoSteps' = redoSteps /\ rows' = rows
      BY <1>1 DEF FetchAndBuild, Types
<1>4. q \in Queues /\ NoneTwice(q) /\ q.build = builds + 1 /\ q.cutoff = now
      BY <1>1, <1>3, BuiltAreQueues DEF Types
<1>r. PICK r : r = Counted(q)
      OBVIOUS
<1>5. r \in Queues /\ SameEntries(r, q) /\ r.cutoff <= now
      BY <1>3, <1>4, <1>r, CountedKeeps
<1>6. /\ shown' # <<>> => shown'[1].card \in Cards
      /\ outcome' \in {"ok", "error", "panic"}
      BY <1>2, <1>5, <1>r, FetchShows
<1>7. /\ undoSteps \in Seq(StepsUntil(builds + 1, now))
      /\ redoSteps \in Seq(StepsUntil(builds + 1, now))
      BY <1>1, <1>3, StepsGrow DEF Types
<1>8. Types'
      BY <1>1, <1>3, <1>6, <1>7 DEF Types
<1>9. queues' = <<r>>
      BY <1>r, <1>2
<1>10. Gone(undoSteps, r)
      BY <1>1, <1>3, <1>4, <1>5, NewBuildGone DEF Types, SameEntries
<1>11. Current(r, undoSteps)'
      BY <1>3, <1>4, <1>5, <1>10 DEF Current, SameEntries, NoneTwice
<1> QED BY <1>1, <1>3, <1>8, <1>9, <1>11 DEF IInv, Studying

\* Fetching from queues that exist leaves their entries alone.
LEMMA FetchNextIInv ==
    ASSUME IInv, FetchNext
    PROVE  IInv'
<1>1. Types /\ Ordered(undoSteps, redoSteps)
      BY DEF IInv
<1>2. PICK q : queues = <<q>> /\ Current(q, undoSteps)
      BY DEF IInv, Studying, FetchNext
<1>3. queues[1] = q
      BY <1>2
<1>4. queues' = <<Counted(q)>> /\ Fetch(Counted(q), rows)
      BY <1>3 DEF FetchNext
<1>5. /\ builds' = builds /\ now' = now /\ now \in Nat
      /\ undoSteps' = undoSteps /\ redoSteps' = redoSteps /\ rows' = rows
      BY <1>1 DEF FetchNext, Types
<1>r. PICK r : r = Counted(q)
      OBVIOUS
<1>6. r \in Queues /\ SameEntries(r, q) /\ r.cutoff <= now
      BY <1>2, <1>5, <1>r, CountedKeeps DEF Current
<1>7. /\ shown' # <<>> => shown'[1].card \in Cards
      /\ outcome' \in {"ok", "error", "panic"}
      BY <1>4, <1>6, <1>r, FetchShows
<1>8. Types'
      BY <1>1, <1>5, <1>7 DEF Types
<1>9. queues' = <<r>>
      BY <1>r, <1>4
<1>10. Gone(undoSteps, r)
      BY <1>2, <1>6 DEF Current, Gone, Left, Concerns, SameEntries
<1>11. Current(r, undoSteps)'
      BY <1>2, <1>5, <1>6, <1>10 DEF Current, SameEntries, NoneTwice
<1> QED BY <1>1, <1>5, <1>8, <1>9, <1>11 DEF IInv, Studying

\* Time goes on, and the queues stay.
LEMMA TickIInv ==
    ASSUME IInv, Tick
    PROVE  IInv'
<1>1. Types /\ Ordered(undoSteps, redoSteps) /\ Studying
      BY DEF IInv
<1>2. /\ now' = now + 1 /\ now \in Nat /\ builds' = builds /\ builds \in Nat
      /\ rows' = rows /\ shown' = shown /\ outcome' = outcome /\ queues' = queues
      /\ undoSteps' = undoSteps /\ redoSteps' = redoSteps
      BY <1>1 DEF Tick, Types
<1>3. /\ undoSteps \in Seq(StepsUntil(builds, now + 1))
      /\ redoSteps \in Seq(StepsUntil(builds, now + 1))
      BY <1>1, <1>2, StepsGrow DEF Types
<1>4. Types'
      BY <1>1, <1>2, <1>3 DEF Types
<1>5. Studying'
  <2>1. ASSUME NEW q, Current(q, undoSteps)
        PROVE  Current(q, undoSteps)'
    <3>1. q.cutoff <= now + 1
          BY <1>2, <2>1 DEF Current, Queues
    <3> QED BY <1>2, <2>1, <3>1 DEF Current
  <2> QED BY <1>1, <1>2, <2>1 DEF Studying
<1> QED BY <1>1, <1>2, <1>4, <1>5 DEF IInv

\* Rolled back, or stopped: nothing is left to undo, and no queues.
LEMMA EmptiedIInv ==
    ASSUME IInv, rows' \in [Cards -> Row], queues' = <<>>, undoSteps' = <<>>, redoSteps' = <<>>,
           shown' # <<>> => shown'[1].card \in Cards,
           builds' = builds, now' = now, outcome' \in {"ok", "error", "panic"}
    PROVE  IInv'
<1>1. now \in Nat /\ builds \in Nat
      BY DEF IInv, Types
<1>2. Types'
      BY <1>1, NoHistory DEF Types
<1>3. Studying'
      BY DEF Studying
<1> QED BY <1>2, <1>3, NoHistory DEF IInv

\* A refused answer empties queues and history.
LEMMA RefuseAnswerIInv ==
    ASSUME IInv, RefuseAnswer
    PROVE  IInv'
<1>1. rows \in [Cards -> Row]
      BY DEF IInv, Types
<1>2. /\ rows' = rows /\ queues' = <<>> /\ undoSteps' = <<>> /\ redoSteps' = <<>>
      /\ shown' = <<>> /\ builds' = builds /\ now' = now /\ outcome' = "error"
      BY DEF RefuseAnswer, Failed
<1> QED BY <1>1, <1>2, EmptiedIInv

\* So does undoing or redoing an answer of yesterday.
LEMMA OnNewDayIInv ==
    ASSUME IInv, UndoOnNewDay \/ RedoOnNewDay
    PROVE  IInv'
<1>1. /\ rows \in [Cards -> Row]
      /\ shown # <<>> => shown[1].card \in Cards
      /\ undoSteps \in Seq(StepsUntil(builds, now)) /\ redoSteps \in Seq(StepsUntil(builds, now))
      BY DEF IInv, Types
<1>2. /\ queues' = <<>> /\ undoSteps' = <<>> /\ redoSteps' = <<>>
      /\ shown' = shown /\ builds' = builds /\ now' = now /\ outcome' = "panic"
      BY DEF UndoOnNewDay, RedoOnNewDay, Panic
<1>3. rows' \in [Cards -> Row]
  <2>1. CASE UndoOnNewDay
    <3>1. Head(undoSteps) \in StepsUntil(builds, now)
          BY <1>1, <2>1 DEF UndoOnNewDay
    <3>2. Head(undoSteps).rows \in SomeRows
          BY <3>1, StepsAre
    <3>3. rows' = Written(Head(undoSteps).rows, Unburied(rows))
          BY <2>1 DEF UndoOnNewDay, Panic
    <3> QED BY <1>1, <3>2, <3>3, UnburiedIsTable, WrittenIsTable
  <2>2. CASE RedoOnNewDay
    <3>1. Head(redoSteps) \in StepsUntil(builds, now)
          BY <1>1, <2>2 DEF RedoOnNewDay
    <3>2. Head(redoSteps).rows \in SomeRows
          BY <3>1, StepsAre
    <3>3. rows' = Unburied(Written(Head(redoSteps).rows, rows))
          BY <2>2 DEF RedoOnNewDay, Panic
    <3> QED BY <1>1, <3>2, <3>3, UnburiedIsTable, WrittenIsTable
  <2> QED BY <2>1, <2>2
<1> QED BY <1>1, <1>2, <1>3, EmptiedIInv

\* A new step to undo.
LEMMA DoneIs ==
    ASSUME IInv, NEW op \in {"AnswerCard", "Suspend"}, NEW changed \in SomeRows, NEW update,
           update = <<>> \/ \E u \in Updates : update = <<u>> /\ u.build <= builds
                                                /\ u.snapshot.cutoff <= now,
           Done(op, changed, update)
    PROVE  /\ rows' \in [Cards -> Row]
           /\ outcome' = "ok"
           /\ redoSteps' = <<>>
           /\ \E s \in StepsUntil(builds, now) :
                /\ undoSteps' = <<s>> \o undoSteps
                /\ s.update = update
<1>1. rows \in [Cards -> Row]
      BY DEF IInv, Types
<1> DEFINE old == [c \in DOMAIN changed |-> rows[c]]
           s == [op |-> op, rows |-> old, update |-> update]
<1>2. old \in SomeRows
  <2>1. DOMAIN changed \in SUBSET Cards
        BY DEF SomeRows
  <2>2. old \in [DOMAIN changed -> Row]
        BY <1>1, <2>1
  <2> HIDE DEF old
  <2> QED BY <2>1, <2>2 DEF SomeRows
<1>3. undoSteps' = <<s>> \o undoSteps /\ rows' = Written(changed, rows) /\ outcome' = "ok" /\ redoSteps' = <<>>
      BY DEF Done
<1> HIDE DEF old
<1>4. s \in UndoableSteps /\ s.update = update
      BY <1>2 DEF UndoableSteps
<1> HIDE DEF s
<1>5. s \in StepsUntil(builds, now)
      BY <1>4 DEF StepsUntil
<1>6. rows' \in [Cards -> Row]
      BY <1>1, <1>3, WrittenIsTable
<1> QED BY <1>3, <1>4, <1>5, <1>6

\* Suspending a card throws the queues away and makes a step.
LEMMA SetHiddenIInv ==
    ASSUME IInv, NEW c \in Cards, NEW hidden \in {"suspended", "no"}, SetHidden(c, hidden)
    PROVE  IInv'
<1> DEFINE row == [rows[c] EXCEPT !.hidden = hidden, !.mtime = now]
           changed == [x \in {c} |-> row]
<1>1. /\ rows \in [Cards -> Row] /\ now \in Nat /\ builds \in Nat
      /\ undoSteps \in Seq(StepsUntil(builds, now))
      BY DEF IInv, Types
<1>2. row \in Row
      BY <1>1 DEF Row
<1>3. Done("Suspend", changed, <<>>)
      BY DEF SetHidden
<1> HIDE DEF row
<1>4. changed \in SomeRows
  <2>1. changed \in [{c} -> Row] /\ {c} \in SUBSET Cards
        BY <1>2
  <2> HIDE DEF changed
  <2> QED BY <2>1 DEF SomeRows
<1> HIDE DEF changed
<1>5. /\ rows' \in [Cards -> Row] /\ outcome' = "ok" /\ redoSteps' = <<>>
      /\ \E s \in StepsUntil(builds, now) : undoSteps' = <<s>> \o undoSteps /\ s.update = <<>>
      BY <1>3, <1>4, DoneIs
<1>6. PICK s \in StepsUntil(builds, now) : undoSteps' = <<s>> \o undoSteps /\ s.update = <<>>
      BY <1>5
<1>7. queues' = <<>> /\ builds' = builds /\ now' = now /\ Refetch
      BY DEF SetHidden
<1>8. shown' # <<>> => shown'[1].card \in Cards
      BY <1>7, RefetchShows
<1>9. IsPrepended(undoSteps', s, undoSteps) /\ undoSteps' \in Seq(StepsUntil(builds, now))
      BY <1>1, <1>6, Prepended
<1>10. Ordered(undoSteps', <<>>)
  <2>1. \A i \in DOMAIN undoSteps : Follows(s, undoSteps[i])
        BY <1>6 DEF Follows
  <2> QED BY <1>9, <2>1, NothingToRedo DEF IInv
<1>11. Types'
      BY <1>1, <1>5, <1>7, <1>8, <1>9 DEF Types
<1> QED BY <1>5, <1>7, <1>10, <1>11 DEF IInv, Studying

\* An answer to a card that is not refused.
LEMMA AnswerIInv ==
    ASSUME IInv, Answer
    PROVE  IInv'
<1> DEFINE c == shown[1].card
           ChangedTo(row) == [x \in {c} \cup SiblingsToBury(c) |->
                    IF x = c THEN row ELSE [rows[x] EXCEPT !.hidden = "buried", !.mtime = now]]
<1>1. /\ rows \in [Cards -> Row] /\ now \in Nat /\ builds \in Nat
      /\ undoSteps \in Seq(StepsUntil(builds, now))
      BY DEF IInv, Types
<1>2. c \in Cards
      BY DEF IInv, Types, Answer
<1>a. PICK row \in Rated(c, rows[c]) : \E after \in QueuesAfterAnswer(c, row) :
            Done("AnswerCard", ChangedTo(row), after.update) /\ queues' = after.queues
      BY DEF Answer
<1>3. PICK after \in QueuesAfterAnswer(c, row) :
            Done("AnswerCard", ChangedTo(row), after.update) /\ queues' = after.queues
      BY <1>a
<1>4. row \in Row
      BY <1>1, <1>2, RatedAreRows
<1>5. ChangedTo(row) \in SomeRows
  <2> DEFINE D == {c} \cup SiblingsToBury(c)
             f == [x \in D |-> IF x = c THEN row ELSE [rows[x] EXCEPT !.hidden = "buried", !.mtime = now]]
  <2>1. D \in SUBSET Cards
        BY <1>2 DEF SiblingsToBury, Siblings
  <2>2. \A x \in D : [rows[x] EXCEPT !.hidden = "buried", !.mtime = now] \in Row
    <3>1. ASSUME NEW x \in D
          PROVE  [rows[x] EXCEPT !.hidden = "buried", !.mtime = now] \in Row
      <4>1. rows[x] \in Row
            BY <1>1, <2>1
      <4> QED BY <1>1, <4>1 DEF Row
    <3> QED BY <3>1
  <2>3. f \in [D -> Row]
        BY <1>4, <2>2
  <2> HIDE DEF D
  <2> QED BY <2>1, <2>3 DEF SomeRows, D
<1>6. PICK changed \in SomeRows : changed = ChangedTo(row)
      BY <1>5
<1>7. Done("AnswerCard", changed, after.update)
      BY <1>3, <1>6
<1>8. shown' = <<>> /\ builds' = builds /\ now' = now
      BY DEF Answer
<1> HIDE DEF c, ChangedTo
<1>9. CASE queues = <<>>
  <2>1. after.queues = <<>> /\ after.update = <<>>
        BY <1>3, <1>9 DEF QueuesAfterAnswer
  <2>2. /\ rows' \in [Cards -> Row] /\ outcome' = "ok" /\ redoSteps' = <<>>
        /\ \E s \in StepsUntil(builds, now) : undoSteps' = <<s>> \o undoSteps /\ s.update = after.update
        BY <1>7, <2>1, DoneIs
  <2>3. PICK s \in StepsUntil(builds, now) : undoSteps' = <<s>> \o undoSteps /\ s.update = <<>>
        BY <2>1, <2>2
  <2>4. IsPrepended(undoSteps', s, undoSteps) /\ undoSteps' \in Seq(StepsUntil(builds, now))
        BY <1>1, <2>3, Prepended
  <2>5. Ordered(undoSteps', <<>>)
    <3>1. \A i \in DOMAIN undoSteps : Follows(s, undoSteps[i])
          BY <2>3 DEF Follows
    <3> QED BY <2>4, <3>1, NothingToRedo DEF IInv
  <2>6. Types'
        BY <1>1, <1>8, <2>2, <2>4 DEF Types
  <2> QED BY <1>3, <2>1, <2>2, <2>5, <2>6 DEF IInv, Studying
<1>10. CASE queues # <<>>
  <2>1. PICK q : queues = <<q>> /\ Current(q, undoSteps)
        BY <1>10 DEF IInv, Studying
  <2>2. q \in Queues /\ NoneTwice(q) /\ Gone(undoSteps, q) /\ q.build = builds /\ q.cutoff <= now
        BY <2>1 DEF Current
  <2>3. queues[1] = q
        BY <2>1
  <2>4. AtTop(q, c)
        BY <1>10, <2>3 DEF Answer, Refused, c
  <2>5. after \in AfterAnswer(q, c, row)
        BY <1>3, <1>10, <2>3 DEF QueuesAfterAnswer
  <2>6. AnsweredTo(after, q, c)
        BY <1>1, <1>2, <1>4, <2>2, <2>4, <2>5, AfterAnswerIs
  <2>7. PICK r \in Queues, u \in Updates :
            /\ after.queues = <<r>> /\ after.update = <<u>>
            /\ AnswerLeft(r, q, c, u.requeue)
            /\ r.cutoff = now
            /\ u.entry = TopEntry(q, c) /\ u.build = q.build /\ u.snapshot.cutoff = q.cutoff
        BY <2>6 DEF AnsweredTo
  <2>8. u.build <= builds /\ u.snapshot.cutoff <= now
        BY <1>1, <2>2, <2>7
  <2>9. /\ rows' \in [Cards -> Row] /\ outcome' = "ok" /\ redoSteps' = <<>>
        /\ \E s \in StepsUntil(builds, now) : undoSteps' = <<s>> \o undoSteps /\ s.update = after.update
        BY <1>7, <2>7, <2>8, DoneIs
  <2>10. PICK s \in StepsUntil(builds, now) : undoSteps' = <<s>> \o undoSteps /\ s.update = <<u>>
        BY <2>7, <2>9
  <2>11. IsPrepended(undoSteps', s, undoSteps) /\ undoSteps' \in Seq(StepsUntil(builds, now))
        BY <1>1, <2>10, Prepended
  <2>12. ASSUME NEW i \in DOMAIN undoSteps
         PROVE  Follows(s, undoSteps[i])
    <3> SUFFICES ASSUME undoSteps[i].update # <<>>,
                        s.update[1].build = undoSteps[i].update[1].build,
                        s.update[1].entry.id = undoSteps[i].update[1].entry.id
                 PROVE  s.update[1].entry \in LearningQueueEntry /\ undoSteps[i].update[1].requeue # <<>>
        BY DEF Follows
    <3>1. s.update[1] = u
          BY <2>10
    <3>2. u.entry.id = c /\ (c \in Ids(q.learning) => u.entry \in LearningQueueEntry)
          /\ (c \notin Ids(q.learning) => c \in Ids(q.main))
          BY <2>2, <2>4, <2>7, TopEntryIs
    <3>3. Concerns(undoSteps[i], q)
          BY <2>7, <3>1 DEF Concerns
    <3>4. /\ undoSteps[i].update[1].entry.id \notin Ids(q.main)
          /\ undoSteps[i].update[1].requeue = <<>> => undoSteps[i].update[1].entry.id \notin Ids(q.learning)
          BY <2>2, <3>3 DEF Gone, Left
    <3> QED BY <3>1, <3>2, <3>4
  <2>13. Ordered(undoSteps', <<>>)
        BY <2>11, <2>12, NothingToRedo DEF IInv
  <2>14. Types'
        BY <1>1, <1>8, <2>9, <2>11 DEF Types
  <2>15. Gone(undoSteps, r)
        BY <2>2, <2>4, <2>7, AnswerLeaves
  <2>16. u.entry.id = c
        BY <2>2, <2>4, <2>7, TopEntryIs
  <2>17. Left(s, r)
        BY <2>7, <2>10, <2>16, AnsweredHasLeft
  <2>18. Gone(undoSteps', r)
        BY <2>11, <2>15, <2>17, PrependGone
  <2>19. /\ r \in Queues /\ NoneTwice(r) /\ r.build = builds' /\ r.cutoff <= now'
        BY <1>1, <1>8, <2>2, <2>7 DEF AnswerLeft
  <2>20. Current(r, undoSteps)'
        BY <2>18, <2>19 DEF Current
  <2>21. queues' = <<r>>
        BY <1>3, <2>7
  <2> QED BY <2>9, <2>13, <2>14, <2>20, <2>21 DEF IInv, Studying
<1> QED BY <1>9, <1>10

\* What replaying a step, with the queues kept in step, does to the rows.
LEMMA ReplayIs ==
    ASSUME IInv, NEW s \in StepsUntil(builds, now), NEW replayed, Replay(s, replayed)
    PROVE  /\ rows' \in [Cards -> Row]
           /\ outcome' = "ok"
           /\ \/ queues' = <<>>
              \/ s.update = <<>> /\ queues' = queues
              \/ s.update # <<>> /\ SameBuild(s.update[1]) /\ queues' \in replayed
<1>1. rows \in [Cards -> Row] /\ s.rows \in SomeRows
      BY StepsAre DEF IInv, Types
<1>2. rows' = Written(s.rows, rows) /\ outcome' = "ok"
      BY DEF Replay
<1>3. queues' \in IF s.op # "AnswerCard" THEN {<<>>}
                  ELSE IF s.update = <<>> THEN {queues}
                  ELSE IF SameBuild(s.update[1]) THEN replayed
                  ELSE {<<>>}
      BY DEF Replay
<1>4. rows' \in [Cards -> Row]
      BY <1>1, <1>2, WrittenIsTable
<1>5. CASE s.op # "AnswerCard"
      BY <1>2, <1>3, <1>4, <1>5
<1>6. CASE s.op = "AnswerCard" /\ s.update = <<>>
      BY <1>2, <1>3, <1>4, <1>6
<1>7. CASE s.op = "AnswerCard" /\ s.update # <<>> /\ SameBuild(s.update[1])
      BY <1>2, <1>3, <1>4, <1>7
<1>8. CASE s.op = "AnswerCard" /\ s.update # <<>> /\ ~SameBuild(s.update[1])
      BY <1>2, <1>3, <1>4, <1>8
<1> QED BY <1>5, <1>6, <1>7, <1>8

\* Undoing: the step goes to those to redo, and its card back to its place.
LEMMA UndoIInv ==
    ASSUME IInv, Undo
    PROVE  IInv'
<1>1. /\ now \in Nat /\ builds \in Nat
      /\ undoSteps \in Seq(StepsUntil(builds, now)) /\ redoSteps \in Seq(StepsUntil(builds, now))
      BY DEF IInv, Types
<1>2. PICK s : s = Head(undoSteps)
      OBVIOUS
<1>3. PICK rest : rest = Tail(undoSteps)
      OBVIOUS
<1>4. PICK t : t = Reverted(s)
      OBVIOUS
<1>5. /\ undoSteps # <<>> /\ Replay(s, QueuesUndone(s.update[1]))
      /\ undoSteps' = rest /\ redoSteps' = <<t>> \o redoSteps
      /\ Refetch /\ builds' = builds /\ now' = now
      BY <1>2, <1>3, <1>4 DEF Undo
<1>6. IsPrepended(undoSteps, s, rest) /\ rest \in Seq(StepsUntil(builds, now)) /\ s \in StepsUntil(builds, now)
      BY <1>1, <1>2, <1>3, <1>5, TailPrepended
<1>7. t \in StepsUntil(builds, now) /\ t.update = s.update
      BY <1>4, <1>6, RevertedIsStep
<1>8. IsPrepended(redoSteps', t, redoSteps) /\ redoSteps' \in Seq(StepsUntil(builds, now))
      BY <1>1, <1>5, <1>7, Prepended
<1>9. Ordered(undoSteps, redoSteps)
      BY DEF IInv
<1>10. Ordered(rest, redoSteps')
      BY <1>6, <1>7, <1>8, <1>9, MoveToRedo
<1>11. /\ rows' \in [Cards -> Row]
       /\ outcome' = "ok"
       /\ \/ queues' = <<>>
          \/ s.update = <<>> /\ queues' = queues
          \/ s.update # <<>> /\ SameBuild(s.update[1]) /\ queues' \in QueuesUndone(s.update[1])
      BY <1>5, <1>6, ReplayIs
<1>12. shown' # <<>> => shown'[1].card \in Cards
      BY <1>5, RefetchShows
<1>13. Types'
      BY <1>1, <1>5, <1>6, <1>8, <1>11, <1>12 DEF Types
<1>14. NewestFirst(undoSteps)
      BY <1>9, OrderedIs
<1>15. \A i \in DOMAIN rest : Follows(s, rest[i])
      BY <1>6, <1>14, TailNewest
<1>16. Studying'
  <2>1. CASE queues' = <<>>
        BY <2>1 DEF Studying
  <2>2. CASE queues' # <<>> /\ s.update = <<>> /\ queues' = queues
    <3>1. PICK q : queues = <<q>> /\ Current(q, undoSteps)
          BY <2>2 DEF IInv, Studying
    <3>2. Gone(rest, q)
          BY <1>6, <3>1, TailGone DEF Current
    <3>3. Current(q, undoSteps)'
          BY <1>5, <3>1, <3>2 DEF Current
    <3> QED BY <2>2, <3>1, <3>3 DEF Studying
  <2>3. CASE s.update # <<>> /\ SameBuild(s.update[1]) /\ queues' \in QueuesUndone(s.update[1])
    <3>1. PICK u \in Updates : s.update = <<u>> /\ s.update[1] = u /\ u.snapshot.cutoff <= now
          BY <1>6, <2>3, StepsAre
    <3>2. PICK q : queues = <<q>> /\ Current(q, undoSteps)
          BY <2>3 DEF IInv, Studying, SameBuild
    <3>3. q.build = u.build
          BY <2>3, <3>1, <3>2 DEF SameBuild
    <3>4. q \in Queues /\ NoneTwice(q) /\ q.build = builds /\ Gone(undoSteps, q)
          BY <3>2 DEF Current
    <3>5. Gone(rest, q) /\ Left(s, q)
          BY <1>6, <3>4, TailGone
    <3>6. Concerns(s, q)
          BY <2>3, <3>1, <3>3 DEF Concerns
    <3>7. u.entry.id \notin Ids(q.main) /\ (u.requeue = <<>> => u.entry.id \notin Ids(q.learning))
          BY <3>1, <3>5, <3>6 DEF Left
    <3>8. \E r : queues' = <<r>> /\ UndoLeft(r, q, u)
          BY <2>3, <3>1, <3>2, <3>4, <3>7, QueuesUndoneAre
    <3>9. PICK r : queues' = <<r>> /\ UndoLeft(r, q, u)
          BY <3>8
    <3>10. Gone(rest, r)
          BY <1>15, <3>1, <3>3, <3>5, <3>9, UndoLeaves
    <3>11. r \in Queues /\ NoneTwice(r) /\ r.build = builds' /\ r.cutoff <= now'
          BY <1>5, <3>1, <3>4, <3>9 DEF UndoLeft
    <3>12. Current(r, undoSteps)'
          BY <1>5, <3>10, <3>11 DEF Current
    <3> QED BY <3>9, <3>12 DEF Studying
  <2> QED BY <1>11, <2>1, <2>2, <2>3
<1> QED BY <1>5, <1>10, <1>13, <1>16 DEF IInv

\* Redoing: the step goes back, and its card leaves its place again.
LEMMA RedoIInv ==
    ASSUME IInv, Redo
    PROVE  IInv'
<1>1. /\ now \in Nat /\ builds \in Nat
      /\ undoSteps \in Seq(StepsUntil(builds, now)) /\ redoSteps \in Seq(StepsUntil(builds, now))
      BY DEF IInv, Types
<1>2. PICK s : s = Head(redoSteps)
      OBVIOUS
<1>3. PICK rest : rest = Tail(redoSteps)
      OBVIOUS
<1>4. PICK t : t = Reverted(s)
      OBVIOUS
<1>5. redoSteps # <<>> /\ Refetch /\ builds' = builds /\ now' = now
      BY DEF Redo
<1>6. IsPrepended(redoSteps, s, rest) /\ rest \in Seq(StepsUntil(builds, now)) /\ s \in StepsUntil(builds, now)
      BY <1>1, <1>2, <1>3, <1>5, TailPrepended
<1>7. shown' # <<>> => shown'[1].card \in Cards
      BY <1>5, RefetchShows
<1>8. CASE RedoRefused(s)
  <2>1. Failed
        BY <1>2, <1>8 DEF Redo
  <2>2. rows \in [Cards -> Row]
        BY DEF IInv, Types
  <2> QED BY <1>5, <1>7, <2>1, <2>2, EmptiedIInv DEF Failed
<1>9. CASE ~RedoRefused(s)
  <2>1. /\ Replay(s, QueuesRedone(s.update[1]))
        /\ undoSteps' = <<t>> \o undoSteps /\ redoSteps' = rest
        BY <1>2, <1>3, <1>4, <1>9 DEF Redo
  <2>2. t \in StepsUntil(builds, now) /\ t.update = s.update
        BY <1>4, <1>6, RevertedIsStep
  <2>3. IsPrepended(undoSteps', t, undoSteps) /\ undoSteps' \in Seq(StepsUntil(builds, now))
        BY <1>1, <2>1, <2>2, Prepended
  <2>4. Ordered(undoSteps, redoSteps)
        BY DEF IInv
  <2>5. Ordered(undoSteps', rest)
        BY <1>6, <2>2, <2>3, <2>4, MoveToUndo
  <2>6. /\ rows' \in [Cards -> Row]
        /\ outcome' = "ok"
        /\ \/ queues' = <<>>
           \/ s.update = <<>> /\ queues' = queues
           \/ s.update # <<>> /\ SameBuild(s.update[1]) /\ queues' \in QueuesRedone(s.update[1])
        BY <1>6, <2>1, ReplayIs
  <2>7. Types'
        BY <1>1, <1>5, <1>6, <1>7, <2>1, <2>3, <2>6 DEF Types
  <2>8. Studying'
    <3>1. CASE queues' = <<>>
          BY <3>1 DEF Studying
    <3>2. CASE queues' # <<>> /\ s.update = <<>> /\ queues' = queues
      <4>1. PICK q : queues = <<q>> /\ Current(q, undoSteps)
            BY <3>2 DEF IInv, Studying
      <4>2. Left(t, q)
            BY <2>2, <3>2 DEF Left, Concerns
      <4>3. Gone(undoSteps', q)
            BY <2>3, <4>1, <4>2, PrependGone DEF Current
      <4>4. Current(q, undoSteps)'
            BY <1>5, <4>1, <4>3 DEF Current
      <4> QED BY <3>2, <4>1, <4>4 DEF Studying
    <3>3. CASE s.update # <<>> /\ SameBuild(s.update[1]) /\ queues' \in QueuesRedone(s.update[1])
      <4>1. PICK u \in Updates : s.update = <<u>> /\ s.update[1] = u /\ u.snapshot.cutoff <= now
            BY <1>6, <3>3, StepsAre
      <4>2. PICK q : queues = <<q>> /\ Current(q, undoSteps)
            BY <3>3 DEF IInv, Studying, SameBuild
      <4>3. queues[1] = q
            BY <4>2
      <4>4. q \in Queues /\ NoneTwice(q) /\ q.build = builds /\ Gone(undoSteps, q)
            BY <4>2 DEF Current
      <4>5. AtTop(q, u.entry.id)
            BY <1>9, <3>3, <4>1, <4>3 DEF RedoRefused
      <4>6. \E r : queues' = <<r>> /\ AnswerLeft(r, q, u.entry.id, u.requeue)
                    /\ r.cutoff = u.snapshot.cutoff
            BY <3>3, <4>1, <4>2, <4>4, <4>5, QueuesRedoneAre
      <4>7. PICK r : queues' = <<r>> /\ AnswerLeft(r, q, u.entry.id, u.requeue)
                    /\ r.cutoff = u.snapshot.cutoff
            BY <4>6
      <4>8. Gone(undoSteps, r)
            BY <4>4, <4>5, <4>7, AnswerLeaves
      <4>9. Left(t, r)
            BY <2>2, <4>1, <4>7, AnsweredHasLeft
      <4>10. Gone(undoSteps', r)
            BY <2>3, <4>8, <4>9, PrependGone
      <4>11. r \in Queues /\ NoneTwice(r) /\ r.build = builds' /\ r.cutoff <= now'
            BY <1>5, <4>1, <4>4, <4>7 DEF AnswerLeft
      <4>12. Current(r, undoSteps)'
            BY <4>10, <4>11 DEF Current
      <4> QED BY <4>7, <4>12 DEF Studying
    <3> QED BY <2>6, <3>1, <3>2, <3>3
  <2> QED BY <2>1, <2>5, <2>7, <2>8 DEF IInv
<1> QED BY <1>8, <1>9

\* Every step keeps the invariant.
LEMMA NextIInv == IInv /\ [Next]_vars => IInv'
<1> SUFFICES ASSUME IInv, [Next]_vars PROVE IInv'
    OBVIOUS
<1>1. CASE FetchOnNewDay
      BY <1>1, FetchOnNewDayIInv
<1>2. CASE FetchAndBuild
      BY <1>2, FetchAndBuildIInv
<1>3. CASE FetchNext
      BY <1>3, FetchNextIInv
<1>4. CASE Answer
      BY <1>4, AnswerIInv
<1>5. CASE RefuseAnswer
      BY <1>5, RefuseAnswerIInv
<1>6. ASSUME NEW c \in Cards, NEW hidden \in {"suspended", "no"}, SetHidden(c, hidden)
      PROVE  IInv'
      BY <1>6, SetHiddenIInv
<1>7. CASE Undo
      BY <1>7, UndoIInv
<1>8. CASE Redo
      BY <1>8, RedoIInv
<1>9. CASE UndoOnNewDay \/ RedoOnNewDay
      BY <1>9, OnNewDayIInv
<1>10. CASE Tick
      BY <1>10, TickIInv
<1>11. CASE UNCHANGED vars
  <2>1. Types'
        BY <1>11 DEF IInv, Types, vars
  <2>2. Ordered(undoSteps, redoSteps)'
        BY <1>11 DEF IInv, vars
  <2>3. Studying'
        BY <1>11 DEF IInv, Studying, Current, vars
  <2> QED BY <2>1, <2>2, <2>3 DEF IInv
<1> QED BY <1>1, <1>2, <1>3, <1>4, <1>5, <1>6, <1>7, <1>8, <1>9, <1>10, <1>11 DEF Next

\* Queues, rows and undo steps have their types, and no card is queued twice.
THEOREM NoCardTwice == Spec => []QueuesWellFormed
<1>1. IInv => QueuesWellFormed
      BY IInvWellFormed
<1> QED BY InitIInv, NextIInv, <1>1, PTL DEF Spec

-----------------------------------------------------------------------------
(* What is in the queues: the main queue in its order, the learning queue   *)
(* in any.                                                                  *)

Contents == [main : Seq(MainQueueEntry), learning : SUBSET LearningQueueEntry]

ContentOf(q) == [main |-> q.main, learning |-> ToSet(q.learning)]

Requeued(u) == IF u.requeue = <<>> THEN {} ELSE {u.requeue[1]}

\* The answer u found the content b, and left a; each follows from the other.
Answered(u, b, a) ==
    IF u.entry \in LearningQueueEntry
    THEN /\ u.entry \in b.learning
         /\ b.main = a.main
         /\ Requeued(u) \subseteq a.learning
         /\ a.learning = (b.learning \ {u.entry}) \cup Requeued(u)
         /\ b.learning = (a.learning \ Requeued(u)) \cup {u.entry}
    ELSE /\ b.main = <<u.entry>> \o a.main
         /\ Requeued(u) \subseteq a.learning
         /\ a.learning = b.learning \cup Requeued(u)
         /\ b.learning = a.learning \ Requeued(u)

\* What is in the queues is of the right type.
LEMMA ContentsAre ==
    ASSUME NEW q \in Queues
    PROVE  ContentOf(q) \in Contents
BY DEF ContentOf, Contents, Queues, ToSet

\* One entry more in a sequence, one more in its set.
LEMMA WithoutSet ==
    ASSUME NEW s, NEW r, NEW i, Without(r, s, i)
    PROVE  ToSet(s) = ToSet(r) \cup {s[i]} /\ i \in DOMAIN s
<1>1. i \in 1..(Len(r) + 1) /\ Len(r) \in Nat /\ DOMAIN s = 1..(Len(r) + 1) /\ DOMAIN r = 1..Len(r)
      BY DEF Without
<1>2. ASSUME NEW j \in DOMAIN r
      PROVE  r[j] \in ToSet(s)
  <2>1. j \in DOMAIN s /\ j + 1 \in DOMAIN s
        BY <1>1
  <2>2. r[j] = s[j] \/ r[j] = s[j + 1]
        BY <1>1 DEF Without
  <2> QED BY <2>1, <2>2 DEF ToSet
<1>3. ASSUME NEW j \in DOMAIN s, j # i
      PROVE  s[j] \in ToSet(r)
  <2>1. CASE j < i
    <3>1. j \in 1..Len(r)
          BY <1>1, <2>1
    <3>2. r[j] = s[j]
          BY <2>1, <3>1 DEF Without
    <3> QED BY <1>1, <3>1, <3>2 DEF ToSet
  <2>2. CASE j > i
    <3>1. j - 1 \in 1..Len(r) /\ ~(j - 1 < i) /\ (j - 1) + 1 = j
          BY <1>1, <2>2
    <3>2. r[j - 1] = s[j]
          BY <3>1 DEF Without
    <3> QED BY <1>1, <3>1, <3>2 DEF ToSet
  <2> QED BY <1>1, <1>3, <2>1, <2>2
<1> QED BY <1>1, <1>2, <1>3 DEF ToSet

\* In a sequence of different cards, that entry is not among the others.
LEMMA WithoutSetBack ==
    ASSUME NEW s, NEW r, NEW i, Without(r, s, i), Once(s)
    PROVE  ToSet(r) = ToSet(s) \ {s[i]} /\ s[i] \in ToSet(s) /\ s[i] \notin ToSet(r)
<1>1. s[i].id \notin Ids(r)
      BY WithoutOnce
<1>2. s[i] \notin ToSet(r)
      BY <1>1 DEF Ids, ToSet
<1> QED BY <1>2, WithoutSet

\* In a sequence of different cards, an entry is told by its card.
LEMMA EntryOfCard ==
    ASSUME NEW s, Once(s), NEW e \in ToSet(s), NEW i \in DOMAIN s, s[i].id = e.id
    PROVE  s[i] = e
BY DEF Once, ToSet

\* The ids of the entries.
LEMMA IdsOfSet ==
    ASSUME NEW s
    PROVE  \A e \in ToSet(s) : e.id \in Ids(s)
BY DEF Ids, ToSet

\* What popping a card takes away.
Taken(p, q, e) ==
    IF e \in LearningQueueEntry
    THEN /\ p.main = q.main /\ e \in ToSet(q.learning)
         /\ ToSet(p.learning) = ToSet(q.learning) \ {e}
    ELSE q.main = <<e>> \o p.main /\ p.learning = q.learning

\* Popping takes the entry on top.
LEMMA PopEntryTakes ==
    ASSUME NEW q \in Queues, NoneTwice(q), NEW c, AtTop(q, c)
    PROVE  /\ Taken(PopEntry(q, c), q, TopEntry(q, c))
           /\ PopEntry(q, c).counts = [q.counts EXCEPT ![CountName(TopEntry(q, c))] = Decrement(@)]
<1> DEFINE entry == TopEntry(q, c)
           counted == [q EXCEPT !.counts[CountName(entry)] = Decrement(@)]
           n == [q.counts EXCEPT ![CountName(entry)] = Decrement(@)]
           r == PopEntry(q, c)
<1>1. entry \in Entries /\ entry.id = c
      BY TopEntryIs
<1>2. /\ counted.main = q.main /\ counted.learning = q.learning /\ counted.counts = n
      /\ DOMAIN counted = {"counts", "main", "learning", "cutoff", "day", "build"}
      BY DEF Queues
<1>3. r = IF entry.kind = "IntradayLearning"
          THEN [counted EXCEPT !.learning = RemoveAt(@, LeastOf(InLearning(q, c)))]
          ELSE [counted EXCEPT !.main = Tail(@)]
      BY DEF PopEntry
<1>4. /\ q.learning \in Seq(LearningQueueEntry) /\ q.main \in Seq(MainQueueEntry)
      /\ Once(q.learning)
      BY DEF Queues, NoneTwice
<1>5. CASE c \in Ids(q.learning)
  <2> DEFINE k == LeastOf(InLearning(q, c))
             rest == RemoveAt(q.learning, k)
  <2>1. entry.kind = "IntradayLearning" /\ entry \in LearningQueueEntry
        BY <1>1, <1>5, TopEntryIs, EntryKinds
  <2>2. k \in DOMAIN q.learning /\ q.learning[k].id = c
        BY <1>5, InLearningIndices
  <2>3. entry = q.learning[k]
        BY <1>5, InLearningIndices DEF TopEntry
  <2>4. r = [counted EXCEPT !.learning = rest]
        BY <1>2, <1>3, <2>1
  <2> HIDE DEF k, counted, r, entry, n
  <2>5. Without(rest, q.learning, k)
        BY <1>4, <2>2, RemoveAtIsWithout
  <2> HIDE DEF rest
  <2>6. ToSet(rest) = ToSet(q.learning) \ {entry} /\ entry \in ToSet(q.learning)
        BY <1>4, <2>3, <2>5, WithoutSetBack
  <2>7. r.learning = rest /\ r.main = q.main /\ r.counts = n
        BY <1>2, <2>4
  <2>8. Taken(r, q, entry)
        BY <2>1, <2>6, <2>7 DEF Taken
  <2> QED BY <2>7, <2>8 DEF r, entry, n
<1>6. CASE c \notin Ids(q.learning)
  <2> DEFINE rest == Tail(q.main)
  <2>1. entry.kind # "IntradayLearning" /\ entry \notin LearningQueueEntry
        BY <1>1, <1>6, TopEntryIs, EntryKinds
  <2>2. q.main # <<>> /\ entry = Head(q.main)
        BY <1>6, TopEntryIs
  <2>3. r = [counted EXCEPT !.main = rest]
        BY <1>2, <1>3, <2>1
  <2>4. q.main = <<Head(q.main)>> \o Tail(q.main)
        BY <1>4, <2>2
  <2> HIDE DEF counted, r, entry, n
  <2>5. r.main = rest /\ r.learning = q.learning /\ r.counts = n
        BY <1>2, <2>3
  <2>6. Taken(r, q, entry)
        BY <2>1, <2>2, <2>4, <2>5 DEF Taken
  <2> QED BY <2>5, <2>6 DEF r, entry, n
<1> QED BY <1>5, <1>6

\* Inserting a card.
LEMMA InsertLearningAdds ==
    ASSUME NEW q \in Queues, NEW e \in LearningQueueEntry, NEW r \in InsertLearning(q, e)
    PROVE  /\ r.main = q.main
           /\ ToSet(r.learning) = ToSet(q.learning) \cup {e}
           /\ r.counts = [q.counts EXCEPT !["Learning"] =
                            IF e.due <= AheadCutoff(q) THEN @ + 1 ELSE @]
<1>1. WithLearning(r, q, e)
      BY InsertLearningPlaces
<1>2. PICK i \in DOMAIN r.learning : Without(q.learning, r.learning, i) /\ r.learning[i] = e
      BY <1>1 DEF WithLearning
<1>3. ToSet(r.learning) = ToSet(q.learning) \cup {e}
      BY <1>2, WithoutSet
<1>4. PICK k \in SearchResults(q.learning, e) :
            r = [q EXCEPT !.counts["Learning"] = IF e.due <= AheadCutoff(q) THEN @ + 1 ELSE @,
                          !.learning = InsertAt(@, k, e)]
      BY DEF InsertLearning
<1>5. r.counts = [q.counts EXCEPT !["Learning"] = IF e.due <= AheadCutoff(q) THEN @ + 1 ELSE @]
      BY <1>4 DEF Queues
<1> QED BY <1>1, <1>3, <1>5 DEF WithLearning

\* Removing a card that is in learning.
LEMMA RemoveLearningTakes ==
    ASSUME NEW q \in Queues, NoneTwice(q), NEW e \in ToSet(q.learning)
    PROVE  /\ RemoveLearning(q, e.id).main = q.main
           /\ ToSet(RemoveLearning(q, e.id).learning) = ToSet(q.learning) \ {e}
           /\ RemoveLearning(q, e.id).counts =
                [q.counts EXCEPT !["Learning"] =
                    IF e.due <= AheadCutoff(q) THEN Decrement(@) ELSE @]
<1> DEFINE c == e.id
           k == LeastOf(InLearning(q, c))
           rest == RemoveAt(q.learning, k)
           r == RemoveLearning(q, c)
<1>1. q.learning \in Seq(LearningQueueEntry) /\ Once(q.learning)
      BY DEF Queues, NoneTwice
<1>2. c \in Ids(q.learning)
      BY IdsOfSet
<1>3. k \in DOMAIN q.learning /\ q.learning[k].id = c /\ InLearning(q, c) # {}
      BY <1>2, InLearningIndices
<1>4. q.learning[k] = e
      BY <1>1, <1>3, EntryOfCard
<1>5. r = [q EXCEPT !.learning = rest,
                    !.counts["Learning"] = IF q.learning[k].due <= AheadCutoff(q)
                                           THEN Decrement(@) ELSE @]
      BY <1>3 DEF RemoveLearning
<1>6. r.main = q.main /\ r.learning = rest
      /\ r.counts = [q.counts EXCEPT !["Learning"] =
                        IF q.learning[k].due <= AheadCutoff(q) THEN Decrement(@) ELSE @]
      BY <1>5 DEF Queues
<1> HIDE DEF k, r
<1>7. Without(rest, q.learning, k)
      BY <1>1, <1>3, RemoveAtIsWithout
<1> HIDE DEF rest
<1>8. ToSet(rest) = ToSet(q.learning) \ {e}
      BY <1>1, <1>4, <1>7, WithoutSetBack
<1> QED BY <1>4, <1>6, <1>8 DEF r

\* Pushing an entry back.
LEMMA PushUndoEntryAdds ==
    ASSUME NEW q \in Queues, NEW e \in Entries
    PROVE  /\ IF e \in LearningQueueEntry
              THEN /\ PushUndoEntry(q, e).main = q.main
                   /\ ToSet(PushUndoEntry(q, e).learning) = ToSet(q.learning) \cup {e}
              ELSE /\ PushUndoEntry(q, e).main = <<e>> \o q.main
                   /\ ToSet(PushUndoEntry(q, e).learning) = ToSet(q.learning)
           /\ PushUndoEntry(q, e).counts = [q.counts EXCEPT ![CountName(e)] = @ + 1]
<1> DEFINE r == PushUndoEntry(q, e)
           counted == [q EXCEPT !.counts[CountName(e)] = @ + 1]
           n == [q.counts EXCEPT ![CountName(e)] = @ + 1]
<1>1. Pushed(r, q, e)
      BY PushUndoEntryPushes
<1>2. q.learning \in Seq(LearningQueueEntry)
      BY DEF Queues
<1>3. counted.counts = n
      BY DEF Queues
<1>4. r.counts = n
  <2>1. r = IF e.kind = "IntradayLearning"
            THEN [counted EXCEPT !.learning = <<e>> \o @]
            ELSE [counted EXCEPT !.main = <<e>> \o @]
        BY DEF PushUndoEntry
  <2> HIDE DEF counted, n, r
  <2> QED BY <1>3, <2>1
<1> HIDE DEF r, n
<1>5. CASE e \in LearningQueueEntry
  <2>1. r.main = q.main /\ r.learning = <<e>> \o q.learning
        BY <1>1, <1>5 DEF Pushed
  <2>2. Without(q.learning, r.learning, 1) /\ r.learning[1] = e
        BY <1>2, <1>5, <2>1, PrependIsWith
  <2>3. ToSet(r.learning) = ToSet(q.learning) \cup {e}
        BY <2>2, WithoutSet
  <2> QED BY <1>4, <1>5, <2>1, <2>3 DEF r, n
<1>6. CASE e \notin LearningQueueEntry
  <2>1. r.main = <<e>> \o q.main /\ r.learning = q.learning
        BY <1>1, <1>6 DEF Pushed
  <2> QED BY <1>4, <1>6, <2>1 DEF r, n
<1> QED BY <1>5, <1>6

\* What is put before a sequence says what the sequence is.
LEMMA PrependedSame ==
    ASSUME NEW S, NEW s \in Seq(S), NEW t \in Seq(S), NEW e, <<e>> \o s = <<e>> \o t
    PROVE  s = t
<1>1. /\ Len(<<e>> \o s) = Len(s) + 1 /\ \A j \in 1..Len(s) : (<<e>> \o s)[j + 1] = s[j]
      /\ Len(<<e>> \o t) = Len(t) + 1 /\ \A j \in 1..Len(t) : (<<e>> \o t)[j + 1] = t[j]
      /\ Len(s) \in Nat /\ Len(t) \in Nat
  <2>1. s \in Seq(S \cup {e}) /\ t \in Seq(S \cup {e})
        BY SeqMonotonic
  <2> QED BY <2>1
<1>2. Len(s) = Len(t) /\ \A j \in 1..Len(s) : s[j] = t[j]
      BY <1>1
<1> QED BY <1>2, SeqEqual

\* An answer leaves one content, and undoing it one.
LEMMA AnsweredOnce ==
    ASSUME NEW u, NEW b, NEW a1 \in Contents, NEW a2 \in Contents, Answered(u, b, a1), Answered(u, b, a2)
    PROVE  a1 = a2
<1>1. a1.learning = a2.learning
      BY DEF Answered
<1>2. a1.main \in Seq(MainQueueEntry) /\ a2.main \in Seq(MainQueueEntry)
      BY DEF Contents
<1>3. a1.main = a2.main
  <2>1. CASE u.entry \in LearningQueueEntry
        BY <2>1 DEF Answered
  <2>2. CASE u.entry \notin LearningQueueEntry
    <3>1. <<u.entry>> \o a1.main = <<u.entry>> \o a2.main
          BY <2>2 DEF Answered
    <3> QED BY <1>2, <3>1, PrependedSame
  <2> QED BY <2>1, <2>2
<1> QED BY <1>1, <1>3 DEF Contents

\* What an answer leaves, before the cutoff moves.
LEMMA PlacedContent ==
    ASSUME NEW q \in Queues, NoneTwice(q), NEW c, AtTop(q, c), NEW requeue,
           requeue = <<>> \/ \E e \in LearningQueueEntry : requeue = <<e>> /\ e.id = c,
           NEW p \in IF requeue = <<>> THEN {PopEntry(q, c)}
                     ELSE InsertLearning(PopEntry(q, c), requeue[1]),
           NEW u, u.entry = TopEntry(q, c), u.requeue = requeue
    PROVE  Answered(u, ContentOf(q), ContentOf(p))
<1> DEFINE popped == PopEntry(q, c)
           e == u.entry
<1>1. Popped(popped, q, c)
      BY PopEntryKeeps
<1>2. Taken(popped, q, e)
      BY PopEntryTakes
<1> HIDE DEF popped
<1>3. CASE requeue = <<>>
  <2>1. p = popped /\ Requeued(u) = {}
        BY <1>3 DEF popped, Requeued
  <2> QED BY <1>2, <2>1 DEF Taken, Answered, ContentOf
<1>4. CASE requeue # <<>>
  <2>1. PICK x \in LearningQueueEntry : requeue = <<x>> /\ x.id = c
        BY <1>4
  <2>2. p \in InsertLearning(popped, x) /\ popped \in Queues /\ Requeued(u) = {x}
        BY <1>1, <1>4, <2>1 DEF popped, Requeued, Popped
  <2>3. p.main = popped.main /\ ToSet(p.learning) = ToSet(popped.learning) \cup {x}
        BY <2>2, InsertLearningAdds
  <2>4. x \notin ToSet(popped.learning)
    <3>1. c \notin Ids(popped.learning)
          BY <1>1 DEF Popped
    <3> QED BY <2>1, <3>1, IdsOfSet
  <2>5. CASE e \in LearningQueueEntry
    <3>1. /\ popped.main = q.main /\ e \in ToSet(q.learning)
          /\ ToSet(popped.learning) = ToSet(q.learning) \ {e}
          BY <1>2, <2>5 DEF Taken
    <3> DEFINE B == ToSet(q.learning)
               A == ToSet(p.learning)
    <3>2. e \in B /\ {x} \subseteq A /\ A = (B \ {e}) \cup {x} /\ B = (A \ {x}) \cup {e}
          BY <2>3, <2>4, <3>1
    <3> QED BY <2>2, <2>3, <2>5, <3>1, <3>2 DEF Answered, ContentOf
  <2>6. CASE e \notin LearningQueueEntry
    <3>1. q.main = <<e>> \o popped.main /\ ToSet(popped.learning) = ToSet(q.learning)
          BY <1>2, <2>6 DEF Taken
    <3> DEFINE B == ToSet(q.learning)
               A == ToSet(p.learning)
    <3>2. {x} \subseteq A /\ A = B \cup {x} /\ B = A \ {x}
          BY <2>3, <2>4, <3>1
    <3> QED BY <2>2, <2>3, <2>6, <3>1, <3>2 DEF Answered, ContentOf
  <2> QED BY <2>5, <2>6
<1> QED BY <1>3, <1>4

\* The parts of undoing an answer.
UndoneParts(r, q, u) ==
    \E restored, removed \in Queues :
        /\ restored = RestoreCutoff(q, u.snapshot) /\ SameEntries(restored, q) /\ NoneTwice(restored)
        /\ removed = IF u.requeue = <<>> THEN restored ELSE RemoveLearning(restored, u.requeue[1].id)
        /\ NoneTwice(removed) /\ removed.cutoff = restored.cutoff
        /\ r = PushUndoEntry(removed, u.entry)

\* Undoing an answer has these parts.
LEMMA UndoneIsParts ==
    ASSUME NEW q \in Queues, NoneTwice(q), NEW u \in Updates, queues = <<q>>,
           NEW after \in QueuesUndone(u)
    PROVE  \E r : after = <<r>> /\ UndoneParts(r, q, u)
<1>1. u.entry \in Entries /\ u.snapshot \in Snapshots
      BY DEF Updates
<1>2. PICK restored : restored = RestoreCutoff(q, u.snapshot)
      OBVIOUS
<1>3. PICK removed : removed = IF u.requeue = <<>> THEN restored ELSE RemoveLearning(restored, u.requeue[1].id)
      OBVIOUS
<1>4. after = <<PushUndoEntry(removed, u.entry)>>
      BY <1>2, <1>3 DEF QueuesUndone
<1>5. restored \in Queues /\ SameEntries(restored, q)
      BY <1>1, <1>2, RestoreCutoffKeeps DEF Snapshots
<1>6. NoneTwice(restored)
      BY <1>5 DEF NoneTwice, SameEntries
<1>7. removed \in Queues /\ NoneTwice(removed) /\ removed.cutoff = restored.cutoff
      BY <1>3, <1>5, <1>6, RemoveLearningKeeps
<1>8. PICK r : r = PushUndoEntry(removed, u.entry)
      OBVIOUS
<1>9. UndoneParts(r, q, u)
      BY <1>2, <1>3, <1>5, <1>6, <1>7, <1>8 DEF UndoneParts
<1> QED BY <1>4, <1>8, <1>9

\* The content of the queues between, when the card is where it was put.
LEMMA RemovedContent ==
    ASSUME NEW u \in Updates, NEW q \in Queues, NEW restored \in Queues, NEW removed \in Queues,
           SameEntries(restored, q), NoneTwice(restored), Requeued(u) \subseteq ToSet(q.learning),
           removed = IF u.requeue = <<>> THEN restored ELSE RemoveLearning(restored, u.requeue[1].id)
    PROVE  removed.main = q.main /\ ToSet(removed.learning) = ToSet(q.learning) \ Requeued(u)
<1>1. restored.main = q.main /\ restored.learning = q.learning
      BY DEF SameEntries
<1>2. CASE u.requeue = <<>>
      BY <1>1, <1>2 DEF Requeued
<1>3. CASE u.requeue # <<>>
  <2>1. PICK x : x = u.requeue[1]
        OBVIOUS
  <2>2. Requeued(u) = {x} /\ x \in ToSet(restored.learning) /\ removed = RemoveLearning(restored, x.id)
        BY <1>1, <1>3, <2>1 DEF Requeued
  <2>3. /\ RemoveLearning(restored, x.id).main = restored.main
        /\ ToSet(RemoveLearning(restored, x.id).learning) = ToSet(restored.learning) \ {x}
        BY <2>2, RemoveLearningTakes
  <2> QED BY <1>1, <2>2, <2>3
<1> QED BY <1>2, <1>3

\* Undoing an answer brings back what it found.
LEMMA UndoneContent ==
    ASSUME NEW q \in Queues, NEW u \in Updates, NEW b \in Contents, Answered(u, b, ContentOf(q)),
           NEW r, UndoneParts(r, q, u)
    PROVE  ContentOf(r) = b
<1>1. PICK restored, removed \in Queues :
        /\ restored = RestoreCutoff(q, u.snapshot) /\ SameEntries(restored, q) /\ NoneTwice(restored)
        /\ removed = IF u.requeue = <<>> THEN restored ELSE RemoveLearning(restored, u.requeue[1].id)
        /\ NoneTwice(removed) /\ removed.cutoff = restored.cutoff
        /\ r = PushUndoEntry(removed, u.entry)
      BY DEF UndoneParts
<1>2. u.entry \in Entries
      BY DEF Updates
<1>3. Requeued(u) \subseteq ToSet(q.learning)
      BY DEF Answered, ContentOf
<1>4. removed.main = q.main /\ ToSet(removed.learning) = ToSet(q.learning) \ Requeued(u)
      BY <1>1, <1>3, RemovedContent
<1>5. CASE u.entry \in LearningQueueEntry
  <2>1. r.main = removed.main /\ ToSet(r.learning) = ToSet(removed.learning) \cup {u.entry}
        BY <1>1, <1>2, <1>5, PushUndoEntryAdds
  <2>2. b.main = q.main /\ b.learning = (ToSet(q.learning) \ Requeued(u)) \cup {u.entry}
        BY <1>5 DEF Answered, ContentOf
  <2>3. r.main = b.main /\ ToSet(r.learning) = b.learning
        BY <1>4, <2>1, <2>2
  <2> QED BY <2>3 DEF Contents, ContentOf
<1>6. CASE u.entry \notin LearningQueueEntry
  <2>1. r.main = <<u.entry>> \o removed.main /\ ToSet(r.learning) = ToSet(removed.learning)
        BY <1>1, <1>2, <1>6, PushUndoEntryAdds
  <2>2. b.main = <<u.entry>> \o q.main /\ b.learning = ToSet(q.learning) \ Requeued(u)
        BY <1>6 DEF Answered, ContentOf
  <2>3. r.main = b.main /\ ToSet(r.learning) = b.learning
        BY <1>4, <2>1, <2>2
  <2> QED BY <2>3 DEF Contents, ContentOf
<1> QED BY <1>5, <1>6

\* What an answer found is what it finds again.
LEMMA FoundAgain ==
    ASSUME NEW q \in Queues, NoneTwice(q), NEW u \in Updates, NEW a, Answered(u, ContentOf(q), a)
    PROVE  AtTop(q, u.entry.id) /\ TopEntry(q, u.entry.id) = u.entry
<1> DEFINE e == u.entry
<1>1. e \in Entries /\ q.main \in Seq(MainQueueEntry) /\ a.main = a.main
      BY DEF Updates, Queues
<1>2. CASE e \in LearningQueueEntry
  <2>1. e \in ToSet(q.learning)
        BY <1>2 DEF Answered, ContentOf
  <2>2. e.id \in Ids(q.learning)
        BY <2>1, IdsOfSet
  <2>3. /\ InLearning(q, e.id) # {} /\ LeastOf(InLearning(q, e.id)) \in DOMAIN q.learning
        /\ q.learning[LeastOf(InLearning(q, e.id))].id = e.id
        BY <2>2, InLearningIndices
  <2>4. q.learning[LeastOf(InLearning(q, e.id))] = e
        BY <2>1, <2>3, EntryOfCard DEF NoneTwice
  <2> QED BY <2>3, <2>4 DEF AtTop, TopEntry
<1>3. CASE e \notin LearningQueueEntry
  <2>1. q.main = <<e>> \o a.main
        BY <1>3 DEF Answered, ContentOf
  <2>2. q.main # <<>> /\ Head(q.main) = e /\ 1 \in DOMAIN q.main /\ q.main[1] = e
    <3>1. ContentOf(q).main = q.main
          BY DEF ContentOf
    <3> QED BY <1>1, <2>1
  <2>3. e.id \in Ids(q.main)
        BY <2>2 DEF Ids
  <2>4. InLearning(q, e.id) = {}
        BY <2>3, InLearningIndices DEF NoneTwice
  <2> QED BY <2>2, <2>4 DEF AtTop, TopEntry
<1> QED BY <1>2, <1>3

\* The parts of redoing an answer.
RedoneParts(r, q, u) ==
    \E p \in IF u.requeue = <<>> THEN {PopEntry(q, u.entry.id)}
             ELSE InsertLearning(PopEntry(q, u.entry.id), u.requeue[1]) :
        p \in Queues /\ r = RestoreCutoff(p, u.snapshot)

\* Redoing an answer has these parts.
LEMMA RedoneIsParts ==
    ASSUME NEW q \in Queues, NoneTwice(q), NEW u \in Updates, queues = <<q>>,
           AtTop(q, u.entry.id), NEW after \in QueuesRedone(u)
    PROVE  \E r : after = <<r>> /\ RedoneParts(r, q, u)
<1>1. u.requeue = <<>> \/ \E e \in LearningQueueEntry : u.requeue = <<e>> /\ e.id = u.entry.id
      BY DEF Updates
<1>2. PICK p \in IF u.requeue = <<>> THEN {PopEntry(q, u.entry.id)}
                 ELSE InsertLearning(PopEntry(q, u.entry.id), u.requeue[1]) :
            after = <<RestoreCutoff(p, u.snapshot)>>
      BY DEF QueuesRedone
<1>3. AnswerLeft(p, q, u.entry.id, u.requeue)
      BY <1>1, <1>2, PoppedAndPlaced
<1> QED BY <1>2, <1>3 DEF AnswerLeft, RedoneParts

\* Redoing an answer leaves what it left.
LEMMA RedoneContent ==
    ASSUME NEW q \in Queues, NoneTwice(q), NEW u \in Updates, NEW a \in Contents,
           Answered(u, ContentOf(q), a), NEW r, RedoneParts(r, q, u)
    PROVE  ContentOf(r) = a
<1>1. AtTop(q, u.entry.id) /\ TopEntry(q, u.entry.id) = u.entry
      BY FoundAgain
<1>2. /\ u.requeue = <<>> \/ \E e \in LearningQueueEntry : u.requeue = <<e>> /\ e.id = u.entry.id
      /\ u.snapshot \in [count : Nat, cutoff : Nat]
      BY DEF Updates, Snapshots
<1>3. PICK p \in IF u.requeue = <<>> THEN {PopEntry(q, u.entry.id)}
                 ELSE InsertLearning(PopEntry(q, u.entry.id), u.requeue[1]) :
            p \in Queues /\ r = RestoreCutoff(p, u.snapshot)
      BY DEF RedoneParts
<1>4. Answered(u, ContentOf(q), ContentOf(p))
      BY <1>1, <1>2, <1>3, PlacedContent
<1>5. ContentOf(p) \in Contents
      BY <1>3, ContentsAre
<1>6. ContentOf(p) = a
      BY <1>4, <1>5, AnsweredOnce
<1>7. SameEntries(r, p)
      BY <1>2, <1>3, RestoreCutoffKeeps
<1> QED BY <1>6, <1>7 DEF SameEntries, ContentOf

-----------------------------------------------------------------------------
(* The contents that the steps lead through, backwards and forwards.        *)

\* The entries of a main queue of one kind, and those due by some time.
OfKind(main, kind) == {e \in ToSet(main) : e.kind = kind}
DueBy(entries, time) == {e \in entries : e.due <= time}

\* The learning count, of the content and with the cutoff.
LearningCount(content, cutoff) ==
    Cardinality(OfKind(content.main, "InterdayLearning"))
        + Cardinality(DueBy(content.learning, cutoff + LearnAhead))

\* The entry is the first one to be presented.
PresentedFirst(entry, content, cutoff) ==
    \/ entry \in LearningQueueEntry /\ entry.due <= cutoff
    \/ /\ \A e \in content.learning : e.due > cutoff
       /\ entry \in LearningQueueEntry =>
            content.main = <<>> /\ entry.due <= cutoff + LearnAhead

\* The card was on top of b when it was answered, and the snapshot is of a.
Honest(u, b, a) ==
    /\ PresentedFirst(u.entry, b, u.snapshot.cutoff)
    /\ u.snapshot.count = LearningCount(a, u.snapshot.cutoff)

\* The step led from b to a: only answers in the queues of this build did something.
Linked(step, build, b, a) ==
    IF step.update # <<>> /\ step.update[1].build = build
    THEN /\ Answered(step.update[1], b, a)
         /\ Refetches => Honest(step.update[1], b, a)
    ELSE b = a

\* Undoing, or redoing, the step leads from `from` to `to`.
Goes(step, build, from, to, back) ==
    IF back THEN Linked(step, build, to, from) ELSE Linked(step, build, from, to)

\* The steps lead on from the content, through a path of contents.
Leads(path, steps, build, content, back) ==
    /\ DOMAIN path = 1..(Len(steps) + 1)
    /\ path[1] = content
    /\ \A i \in DOMAIN steps : Goes(steps[i], build, path[i], path[i + 1], back)

LeadOn(steps, build, content, back) ==
    \E path \in Seq(Contents) : Leads(path, steps, build, content, back)

\* Only what is kept of the queues matters.
LEMMA SameGoes ==
    ASSUME NEW s, NEW t, t.update = s.update, NEW build, NEW x, NEW y, NEW back, Goes(s, build, x, y, back)
    PROVE  Goes(t, build, x, y, back)
BY DEF Goes, Linked

\* Whoever goes back can go forth.
LEMMA GoesBack ==
    ASSUME NEW s, NEW build, NEW x, NEW y, Goes(s, build, x, y, TRUE)
    PROVE  Goes(s, build, y, x, FALSE)
BY DEF Goes

\* And the other way round.
LEMMA GoesForth ==
    ASSUME NEW s, NEW build, NEW x, NEW y, Goes(s, build, x, y, FALSE)
    PROVE  Goes(s, build, y, x, TRUE)
BY DEF Goes

\* The first step leads to a content from which the others lead on.
LEMMA LeadsOn ==
    ASSUME NEW steps, NEW s, NEW rest, IsPrepended(steps, s, rest), Len(steps) = Len(rest) + 1,
           NEW build, NEW x, NEW back, LeadOn(steps, build, x, back)
    PROVE  \E y \in Contents : Goes(s, build, x, y, back) /\ LeadOn(rest, build, y, back)
<1>1. PICK path \in Seq(Contents) : Leads(path, steps, build, x, back)
      BY DEF LeadOn
<1>2. /\ Len(rest) \in Nat /\ DOMAIN rest = 1..Len(rest) /\ DOMAIN steps = 1..(Len(rest) + 1)
      /\ steps[1] = s /\ \A i \in 1..Len(rest) : steps[i + 1] = rest[i]
      BY DEF IsPrepended
<1>3. /\ DOMAIN path = 1..(Len(rest) + 2) /\ path[1] = x
      /\ \A i \in 1..(Len(rest) + 1) : Goes(steps[i], build, path[i], path[i + 1], back)
      BY <1>1, <1>2 DEF Leads
<1>4. Len(path) = Len(rest) + 2 /\ path # <<>>
      BY <1>2, <1>3
<1> DEFINE p == Tail(path)
<1>5. p \in Seq(Contents) /\ DOMAIN p = 1..(Len(rest) + 1) /\ \A i \in 1..(Len(rest) + 1) : p[i] = path[i + 1]
      BY <1>2, <1>4
<1> HIDE DEF p
<1>6. path[2] \in Contents /\ p[1] = path[2]
      BY <1>2, <1>3, <1>5
<1>7. Goes(s, build, x, path[2], back)
  <2>1. 1 \in 1..(Len(rest) + 1) /\ 1 + 1 = 2
        BY <1>2
  <2>2. Goes(steps[1], build, path[1], path[1 + 1], back)
        BY <1>3, <2>1
  <2> QED BY <1>2, <1>3, <2>1, <2>2
<1>8. ASSUME NEW i \in 1..Len(rest)
      PROVE  Goes(rest[i], build, p[i], p[i + 1], back)
  <2>1. i \in 1..(Len(rest) + 1) /\ i + 1 \in 1..(Len(rest) + 1)
        BY <1>2
  <2>2. Goes(steps[i + 1], build, path[i + 1], path[(i + 1) + 1], back)
        BY <1>3, <2>1
  <2>3. steps[i + 1] = rest[i] /\ p[i] = path[i + 1] /\ p[i + 1] = path[(i + 1) + 1]
        BY <1>2, <1>5, <2>1
  <2> QED BY <2>2, <2>3
<1>9. Leads(p, rest, build, path[2], back)
      BY <1>2, <1>5, <1>6, <1>8 DEF Leads
<1> QED BY <1>5, <1>6, <1>7, <1>9 DEF LeadOn

\* A step that leads to where the others lead on leads on.
LEMMA LeadsToo ==
    ASSUME NEW steps, NEW s, NEW rest, IsPrepended(steps, s, rest), Len(steps) = Len(rest) + 1,
           NEW build, NEW x \in Contents, NEW y, NEW back,
           Goes(s, build, x, y, back), LeadOn(rest, build, y, back)
    PROVE  LeadOn(steps, build, x, back)
<1>1. PICK path \in Seq(Contents) : Leads(path, rest, build, y, back)
      BY DEF LeadOn
<1>2. /\ Len(rest) \in Nat /\ DOMAIN rest = 1..Len(rest) /\ DOMAIN steps = 1..(Len(rest) + 1)
      BY DEF IsPrepended
<1>3. /\ DOMAIN path = 1..(Len(rest) + 1) /\ path[1] = y
      /\ \A i \in DOMAIN rest : Goes(rest[i], build, path[i], path[i + 1], back)
      BY <1>1 DEF Leads
<1>4. Len(path) = Len(rest) + 1
      BY <1>2, <1>3
<1>5. PICK p : p = <<x>> \o path
      OBVIOUS
<1>6. IsPrepended(p, x, path) /\ p \in Seq(Contents)
      BY <1>5, Prepended
<1>7. DOMAIN p = 1..(Len(rest) + 2) /\ p[1] = x /\ \A i \in 1..(Len(rest) + 1) : p[i + 1] = path[i]
      BY <1>2, <1>4, <1>6 DEF IsPrepended
<1>8. ASSUME NEW i \in DOMAIN steps
      PROVE  Goes(steps[i], build, p[i], p[i + 1], back)
  <2>1. IsEither(i, steps, s, rest)
        BY PrependedIndices
  <2>2. CASE i = 1 /\ steps[i] = s
    <3>1. 1 \in 1..(Len(rest) + 1)
          BY <1>2
    <3>2. p[i] = x /\ p[i + 1] = y
          BY <1>3, <1>7, <2>2, <3>1
    <3> QED BY <2>2, <3>2
  <2>3. CASE i > 1 /\ i - 1 \in DOMAIN rest /\ steps[i] = rest[i - 1]
    <3>1. (i - 1) + 1 = i /\ i - 1 \in 1..(Len(rest) + 1) /\ i \in 1..(Len(rest) + 1)
          BY <1>2, <2>3
    <3>2. p[i] = path[i - 1] /\ p[i + 1] = path[(i - 1) + 1]
          BY <1>7, <3>1
    <3>3. Goes(rest[i - 1], build, path[i - 1], path[(i - 1) + 1], back)
          BY <1>3, <2>3
    <3> QED BY <2>3, <3>2, <3>3
  <2> QED BY <2>1, <2>2, <2>3 DEF IsEither
<1>9. DOMAIN p = 1..(Len(steps) + 1)
      BY <1>2, <1>7
<1> QED BY <1>6, <1>7, <1>8, <1>9 DEF Leads, LeadOn

\* Steps that did nothing lead nowhere else.
LEMMA NothingLeads ==
    ASSUME NEW S, NEW steps \in Seq(S), NEW q,
           \A i \in DOMAIN steps : ~Concerns(steps[i], q), NEW x \in Contents, NEW back
    PROVE  LeadOn(steps, q.build, x, back)
<1> DEFINE path == [i \in 1..(Len(steps) + 1) |-> x]
<1>1. Len(steps) \in Nat /\ DOMAIN steps = 1..Len(steps)
      OBVIOUS
<1>2. path \in Seq(Contents)
      BY <1>1
<1>3. ASSUME NEW i \in DOMAIN steps
      PROVE  Goes(steps[i], q.build, path[i], path[i + 1], back)
  <2>1. path[i] = x /\ path[i + 1] = x
        BY <1>1
  <2>2. ~(steps[i].update # <<>> /\ steps[i].update[1].build = q.build)
        BY DEF Concerns
  <2> HIDE DEF path
  <2> QED BY <2>1, <2>2 DEF Goes, Linked
<1>4. DOMAIN path = 1..(Len(steps) + 1) /\ path[1] = x
      BY <1>1
<1> HIDE DEF path
<1> QED BY <1>2, <1>3, <1>4 DEF Leads, LeadOn

\* What can still be undone leads back, and what can be redone leads on.
Lined(q, undo, redo) ==
    /\ LeadOn(undo, q.build, ContentOf(q), TRUE)
    /\ LeadOn(redo, q.build, ContentOf(q), FALSE)

-----------------------------------------------------------------------------
(* Counting.                                                                *)

NewAndReviewRight(q) ==
    /\ q.counts["New"] = Cardinality(OfKind(q.main, "New"))
    /\ q.counts["Review"] = Cardinality(OfKind(q.main, "Review"))

LearningRight(q) == q.counts["Learning"] = LearningCount(ContentOf(q), q.cutoff)

\* What a sequence holds is finite.
LEMMA SetIsFinite ==
    ASSUME NEW S, NEW seq \in Seq(S)
    PROVE  IsFiniteSet(ToSet(seq))
<1> DEFINE f == [i \in 1..Len(seq) |-> seq[i]]
<1>1. Len(seq) \in Nat /\ DOMAIN seq = 1..Len(seq)
      OBVIOUS
<1>2. f \in Surjection(1..Len(seq), ToSet(seq))
      BY <1>1 DEF Surjection, ToSet
<1>3. IsFiniteSet(1..Len(seq))
      BY <1>1, FS_Interval
<1> HIDE DEF f
<1> QED BY <1>2, <1>3, FS_Surjection

\* And so is each part of it.
LEMMA PartsAreFinite ==
    ASSUME NEW S, NEW seq \in Seq(S)
    PROVE  /\ \A kind : IsFiniteSet(OfKind(seq, kind)) /\ Cardinality(OfKind(seq, kind)) \in Nat
           /\ \A t : /\ IsFiniteSet(DueBy(ToSet(seq), t))
                     /\ Cardinality(DueBy(ToSet(seq), t)) \in Nat
<1>1. IsFiniteSet(ToSet(seq))
      BY SetIsFinite
<1>2. ASSUME NEW kind
      PROVE  IsFiniteSet(OfKind(seq, kind)) /\ Cardinality(OfKind(seq, kind)) \in Nat
  <2>1. OfKind(seq, kind) \in SUBSET ToSet(seq)
        BY DEF OfKind
  <2> QED BY <1>1, <2>1, FS_Subset, FS_CardinalityType
<1>3. ASSUME NEW t
      PROVE  IsFiniteSet(DueBy(ToSet(seq), t)) /\ Cardinality(DueBy(ToSet(seq), t)) \in Nat
  <2>1. DueBy(ToSet(seq), t) \in SUBSET ToSet(seq)
        BY DEF DueBy
  <2> QED BY <1>1, <2>1, FS_Subset, FS_CardinalityType
<1> QED BY <1>2, <1>3

\* Counting positions is counting entries, when no card is there twice.
LEMMA IndexCount ==
    ASSUME NEW S, NEW seq \in Seq(S), Once(seq), NEW T, NEW I,
           T \subseteq ToSet(seq), I = {i \in DOMAIN seq : seq[i] \in T}
    PROVE  IsFiniteSet(I) /\ IsFiniteSet(T) /\ Cardinality(I) = Cardinality(T)
<1> DEFINE f == [i \in I |-> seq[i]]
<1>1. Len(seq) \in Nat /\ DOMAIN seq = 1..Len(seq)
      OBVIOUS
<1>2. IsFiniteSet(1..Len(seq))
      BY <1>1, FS_Interval
<1>3. I \in SUBSET (1..Len(seq))
      BY <1>1
<1>4. IsFiniteSet(I)
      BY <1>2, <1>3, FS_Subset
<1>5. f \in Surjection(I, T)
  <2>1. f \in [I -> T]
        OBVIOUS
  <2>2. ASSUME NEW e \in T
        PROVE  \E i \in I : f[i] = e
    <3>1. PICK i \in DOMAIN seq : e = seq[i]
          BY DEF ToSet
    <3> QED BY <3>1
  <2> HIDE DEF f
  <2> QED BY <2>1, <2>2 DEF Surjection
<1>6. f \in Injection(I, T)
  <2>1. \A i, j \in I : f[i] = f[j] => i = j
        BY DEF Once
  <2>2. f \in [I -> T]
        OBVIOUS
  <2> HIDE DEF f
  <2> QED BY <2>1, <2>2 DEF Injection, IsInjective
<1> HIDE DEF f
<1>7. IsFiniteSet(T) /\ Cardinality(T) = Cardinality(I)
      BY <1>4, <1>5, <1>6, FS_Surjection
<1> QED BY <1>4, <1>7

\* The counts of the model, as counts of entries.
LEMMA CountKind ==
    ASSUME NEW S, NEW seq \in Seq(S), Once(seq), NEW kind
    PROVE  Count(seq, LAMBDA e : e.kind = kind) = Cardinality(OfKind(seq, kind))
<1> DEFINE I == {i \in DOMAIN seq : seq[i].kind = kind}
           T == OfKind(seq, kind)
<1>1. T \subseteq ToSet(seq) /\ I = {i \in DOMAIN seq : seq[i] \in T}
      BY DEF OfKind, ToSet
<1> HIDE DEF T
<1>2. Cardinality(I) = Cardinality(T)
  <2> HIDE DEF I
  <2> QED BY <1>1, IndexCount
<1> QED BY <1>2 DEF Count, T

\* Counting those due by some time.
LEMMA CountDue ==
    ASSUME NEW S, NEW seq \in Seq(S), Once(seq), NEW time
    PROVE  Count(seq, LAMBDA e : e.due <= time) = Cardinality(DueBy(ToSet(seq), time))
<1> DEFINE I == {i \in DOMAIN seq : seq[i].due <= time}
           T == DueBy(ToSet(seq), time)
<1>1. T \subseteq ToSet(seq) /\ I = {i \in DOMAIN seq : seq[i] \in T}
      BY DEF DueBy, ToSet
<1> HIDE DEF T
<1>2. Cardinality(I) = Cardinality(T)
  <2> HIDE DEF I
  <2> QED BY <1>1, IndexCount
<1> QED BY <1>2 DEF Count, T

\* The entries that become due between two times.
LEMMA CountBetween ==
    ASSUME NEW seq \in Seq(LearningQueueEntry), Once(seq), NEW t \in Nat, NEW u \in Nat, t <= u
    PROVE  Cardinality(DueBy(ToSet(seq), t)) + Cardinality({i \in DOMAIN seq : seq[i].due > t /\ seq[i].due <= u})
            = Cardinality(DueBy(ToSet(seq), u))
<1> DEFINE I == {i \in DOMAIN seq : seq[i].due > t /\ seq[i].due <= u}
           T == {e \in ToSet(seq) : e.due > t /\ e.due <= u}
           old == DueBy(ToSet(seq), t)
           new == DueBy(ToSet(seq), u)
<1>1. T \subseteq ToSet(seq) /\ I = {i \in DOMAIN seq : seq[i] \in T}
      BY DEF ToSet
<1>2. \A e \in ToSet(seq) : e.due \in Nat
  <2>1. \A e \in LearningQueueEntry : e.due \in Nat
        BY DEF LearningQueueEntry
  <2>2. \A i \in DOMAIN seq : seq[i] \in LearningQueueEntry
        OBVIOUS
  <2> QED BY <2>1, <2>2 DEF ToSet
<1>3. new = old \cup T /\ old \cap T = {}
      BY <1>2 DEF DueBy
<1>4. IsFiniteSet(old) /\ Cardinality(old) \in Nat
      BY PartsAreFinite
<1> HIDE DEF I, T, old, new
<1>5. IsFiniteSet(T) /\ Cardinality(I) = Cardinality(T)
      BY <1>1, IndexCount
<1>6. Cardinality(T) \in Nat
      BY <1>5, FS_CardinalityType
<1>7. Cardinality(new) = Cardinality(old) + Cardinality(T) - Cardinality({})
      BY <1>3, <1>4, <1>5, FS_Union
<1>8. Cardinality(old) + Cardinality(I) = Cardinality(new)
      BY <1>4, <1>5, <1>6, <1>7, FS_EmptySet
<1> QED BY <1>8 DEF I, old, new

\* One entry more, or less.
LEMMA DueByAdd ==
    ASSUME NEW S, IsFiniteSet(S), NEW e, e \notin S, NEW t, NEW T, T = S \cup {e}
    PROVE  Cardinality(DueBy(T, t)) = Cardinality(DueBy(S, t)) + (IF e.due <= t THEN 1 ELSE 0)
<1>1. DueBy(S, t) \in SUBSET S /\ e \notin DueBy(S, t)
      BY DEF DueBy
<1>2. IsFiniteSet(DueBy(S, t))
      BY <1>1, FS_Subset
<1>3. Cardinality(DueBy(S, t)) \in Nat
      BY <1>2, FS_CardinalityType
<1>4. CASE e.due <= t
  <2>1. DueBy(T, t) = DueBy(S, t) \cup {e}
        BY <1>4 DEF DueBy
  <2> QED BY <1>1, <1>2, <1>4, <2>1, FS_AddElement
<1>5. CASE ~(e.due <= t)
  <2>1. DueBy(T, t) = DueBy(S, t)
        BY <1>5 DEF DueBy
  <2> QED BY <1>3, <1>5, <2>1
<1> QED BY <1>4, <1>5

\* seq is main with e in front.
InFront(seq, e, main) == Without(main, seq, 1) /\ seq[1] = e

\* One entry more in front of the main queue.
LEMMA KindAdd ==
    ASSUME NEW S, NEW main \in Seq(S), NEW e, NEW seq, InFront(seq, e, main), Once(seq), NEW kind
    PROVE  /\ e.kind = kind => Cardinality(OfKind(seq, kind)) = Cardinality(OfKind(main, kind)) + 1
           /\ e.kind # kind => Cardinality(OfKind(seq, kind)) = Cardinality(OfKind(main, kind))
<1>1. Without(main, seq, 1) /\ seq[1] = e
      BY DEF InFront
<1>2. ToSet(seq) = ToSet(main) \cup {e} /\ e \notin ToSet(main)
  <2>1. ToSet(seq) = ToSet(main) \cup {seq[1]}
        BY <1>1, WithoutSet
  <2>2. seq[1] \notin ToSet(main)
        BY <1>1, WithoutSetBack
  <2> QED BY <1>1, <2>1, <2>2
<1>3. IsFiniteSet(OfKind(main, kind)) /\ Cardinality(OfKind(main, kind)) \in Nat
      BY PartsAreFinite
<1>4. e \notin OfKind(main, kind)
      BY <1>2 DEF OfKind
<1>5. CASE e.kind = kind
  <2>1. OfKind(seq, kind) = OfKind(main, kind) \cup {e}
        BY <1>2, <1>5 DEF OfKind
  <2> QED BY <1>3, <1>4, <1>5, <2>1, FS_AddElement
<1>6. CASE e.kind # kind
  <2>1. OfKind(seq, kind) = OfKind(main, kind)
        BY <1>2, <1>6 DEF OfKind
  <2> QED BY <1>3, <1>6, <2>1
<1> QED BY <1>5, <1>6

\* What the names of the counts stand for.
LEMMA CountNames ==
    ASSUME NEW e \in Entries
    PROVE  /\ e \in LearningQueueEntry => CountName(e) = "Learning"
           /\ e \in MainQueueEntry =>
                /\ e.kind \in {"New", "Review", "InterdayLearning"}
                /\ CountName(e) = IF e.kind = "InterdayLearning" THEN "Learning" ELSE e.kind
BY DEF LearningQueueEntry, MainQueueEntry, CountName

\* One count changes.
Recounted(n, m, name, k) ==
    /\ n \in Counts /\ m \in Counts
    /\ n[name] = k
    /\ \A other \in {"New", "Review", "Learning"} : other # name => n[other] = m[other]

\* Writing one count changes that one.
LEMMA RecountedBy ==
    ASSUME NEW m \in Counts, NEW name \in {"New", "Review", "Learning"}, NEW k \in Nat,
           NEW n, n = [m EXCEPT ![name] = k]
    PROVE  Recounted(n, m, name, k)
BY DEF Recounted, Counts

\* The learning count is that of the main queue and that of the other.
LEMMA LearningIs ==
    ASSUME NEW q \in Queues
    PROVE  /\ Cardinality(OfKind(q.main, "InterdayLearning")) \in Nat
           /\ \A t : Cardinality(DueBy(ToSet(q.learning), t)) \in Nat
           /\ IsFiniteSet(ToSet(q.learning))
           /\ \A t : LearningCount(ContentOf(q), t) =
                Cardinality(OfKind(q.main, "InterdayLearning"))
                    + Cardinality(DueBy(ToSet(q.learning), t + LearnAhead))
<1>1. q.main \in Seq(MainQueueEntry) /\ q.learning \in Seq(LearningQueueEntry)
      BY DEF Queues
<1> QED BY <1>1, PartsAreFinite, SetIsFinite DEF LearningCount, ContentOf

\* Popping keeps the counts right, the learning count if the card was counted.
LEMMA PopRight ==
    ASSUME NEW q \in Queues, NoneTwice(q), NEW c, AtTop(q, c), NewAndReviewRight(q)
    PROVE  /\ NewAndReviewRight(PopEntry(q, c))
           /\ LearningRight(q) /\ (TopEntry(q, c) \in LearningQueueEntry =>
                                        TopEntry(q, c).due <= AheadCutoff(q))
                => LearningRight(PopEntry(q, c))
<1> DEFINE e == TopEntry(q, c)
           p == PopEntry(q, c)
           n == [q.counts EXCEPT ![CountName(e)] = Decrement(@)]
           k == Decrement(q.counts[CountName(e)])
<1>1. Popped(p, q, c)
      BY PopEntryKeeps
<1>2. Taken(p, q, e) /\ p.counts = n
      BY PopEntryTakes
<1>3. e \in Entries /\ (e \in LearningQueueEntry \/ e \in MainQueueEntry)
      BY TopEntryIs DEF Entries
<1>4. /\ q.counts \in Counts /\ q.main \in Seq(MainQueueEntry) /\ q.learning \in Seq(LearningQueueEntry)
      /\ p \in Queues /\ p.cutoff = q.cutoff
      BY <1>1 DEF Queues, Popped
<1>5. CountName(e) \in {"New", "Review", "Learning"}
      BY <1>3, EntryKinds
<1>6. k \in Nat
      BY <1>4, <1>5 DEF Counts, Decrement
<1>7. p.counts = [q.counts EXCEPT ![CountName(e)] = k]
      BY <1>2
<1> HIDE DEF e, p, n, k
<1>8. Recounted(p.counts, q.counts, CountName(e), k)
      BY <1>4, <1>5, <1>6, <1>7, RecountedBy
<1>9. k = Decrement(q.counts[CountName(e)])
      BY DEF k
<1>10. AheadCutoff(q) = q.cutoff + LearnAhead
      BY DEF AheadCutoff
<1>11. CASE e \in LearningQueueEntry
  <2>1. CountName(e) = "Learning"
        BY <1>3, <1>11, CountNames
  <2>2. p.main = q.main /\ e \in ToSet(q.learning) /\ ToSet(p.learning) = ToSet(q.learning) \ {e}
        BY <1>2, <1>11 DEF Taken
  <2>3. NewAndReviewRight(p)
        BY <1>8, <2>1, <2>2 DEF NewAndReviewRight, Recounted
  <2>4. ASSUME LearningRight(q), e.due <= AheadCutoff(q)
        PROVE  LearningRight(p)
    <3> DEFINE K == Cardinality(OfKind(q.main, "InterdayLearning"))
               D == Cardinality(DueBy(ToSet(q.learning), q.cutoff + LearnAhead))
               d == Cardinality(DueBy(ToSet(p.learning), q.cutoff + LearnAhead))
    <3>1. q.counts["Learning"] = K + D /\ K \in Nat /\ D \in Nat
          BY <2>4, LearningIs DEF LearningRight
    <3>2. LearningCount(ContentOf(p), p.cutoff) = K + d /\ d \in Nat /\ IsFiniteSet(ToSet(p.learning))
          BY <1>4, <2>2, LearningIs
    <3>3. D = d + 1
      <4>1. e \notin ToSet(p.learning) /\ ToSet(q.learning) = ToSet(p.learning) \cup {e}
            BY <2>2
      <4>2. D = d + (IF e.due <= q.cutoff + LearnAhead THEN 1 ELSE 0)
            BY <3>2, <4>1, DueByAdd
      <4> QED BY <1>10, <2>4, <4>2
    <3>4. p.counts["Learning"] = Decrement(q.counts["Learning"])
          BY <1>8, <1>9, <2>1 DEF Recounted
    <3> HIDE DEF K, D, d
    <3>5. Decrement(K + D) = K + d
          BY <3>1, <3>2, <3>3 DEF Decrement
    <3> QED BY <3>1, <3>2, <3>4, <3>5 DEF LearningRight
  <2> QED BY <1>11, <2>3, <2>4 DEF e, p
<1>12. CASE e \notin LearningQueueEntry
  <2>1. /\ e \in MainQueueEntry /\ e.kind \in {"New", "Review", "InterdayLearning"}
        /\ CountName(e) = IF e.kind = "InterdayLearning" THEN "Learning" ELSE e.kind
        BY <1>3, <1>12, CountNames
  <2>2. q.main = <<e>> \o p.main /\ p.learning = q.learning
        BY <1>2, <1>12 DEF Taken
  <2>3. p.main \in Seq(MainQueueEntry) /\ Once(q.main)
        BY <1>4 DEF Queues, NoneTwice
  <2>4. ASSUME NEW kind
        PROVE  /\ Cardinality(OfKind(q.main, kind))
                    = Cardinality(OfKind(p.main, kind)) + (IF e.kind = kind THEN 1 ELSE 0)
               /\ Cardinality(OfKind(p.main, kind)) \in Nat
    <3> HIDE DEF e, p
    <3>f. InFront(q.main, e, p.main)
          BY <2>1, <2>2, <2>3, PrependIsWith DEF InFront
    <3>1. /\ e.kind = kind => Cardinality(OfKind(q.main, kind)) = Cardinality(OfKind(p.main, kind)) + 1
          /\ e.kind # kind => Cardinality(OfKind(q.main, kind)) = Cardinality(OfKind(p.main, kind))
          BY <2>3, <3>f, KindAdd
    <3>2. Cardinality(OfKind(p.main, kind)) \in Nat
          BY <2>3, PartsAreFinite
    <3> QED BY <3>1, <3>2
  <2>5. NewAndReviewRight(p)
    <3>1. ASSUME NEW kind \in {"New", "Review"}
          PROVE  p.counts[kind] = Cardinality(OfKind(p.main, kind))
      <4>1. q.counts[kind] = Cardinality(OfKind(q.main, kind))
            BY DEF NewAndReviewRight
      <4>2. CASE e.kind = kind
        <5>1. CountName(e) = kind
              BY <2>1, <4>2
        <5>2. p.counts[kind] = Decrement(q.counts[kind])
              BY <1>8, <1>9, <5>1 DEF Recounted
        <5>3. q.counts[kind] = Cardinality(OfKind(p.main, kind)) + 1
              BY <2>4, <4>1, <4>2
        <5> QED BY <2>4, <5>2, <5>3 DEF Decrement
      <4>3. CASE e.kind # kind
        <5>1. CountName(e) # kind
              BY <2>1, <4>3
        <5>2. p.counts[kind] = q.counts[kind]
              BY <1>8, <5>1 DEF Recounted
        <5> QED BY <2>4, <4>1, <4>3, <5>2
      <4> QED BY <4>2, <4>3
    <3> QED BY <3>1 DEF NewAndReviewRight
  <2>6. ASSUME LearningRight(q)
        PROVE  LearningRight(p)
    <3> DEFINE K == Cardinality(OfKind(q.main, "InterdayLearning"))
               L == Cardinality(OfKind(p.main, "InterdayLearning"))
               D == Cardinality(DueBy(ToSet(q.learning), q.cutoff + LearnAhead))
    <3>1. q.counts["Learning"] = K + D /\ K \in Nat /\ D \in Nat
          BY <2>6, LearningIs DEF LearningRight
    <3>2. LearningCount(ContentOf(p), p.cutoff) = L + D /\ L \in Nat
          BY <1>4, <2>2, LearningIs
    <3>3. K = L + (IF e.kind = "InterdayLearning" THEN 1 ELSE 0)
          BY <2>4
    <3>4. CASE e.kind = "InterdayLearning"
      <4>1. p.counts["Learning"] = Decrement(q.counts["Learning"])
            BY <1>8, <1>9, <2>1, <3>4 DEF Recounted
      <4> HIDE DEF K, L, D
      <4>2. Decrement(K + D) = L + D
            BY <3>1, <3>2, <3>3, <3>4 DEF Decrement
      <4> QED BY <3>1, <3>2, <4>1, <4>2 DEF LearningRight
    <3>5. CASE e.kind # "InterdayLearning"
      <4>1. CountName(e) # "Learning"
            BY <2>1, <3>5
      <4>2. p.counts["Learning"] = q.counts["Learning"]
            BY <1>8, <4>1 DEF Recounted
      <4> HIDE DEF K, L, D
      <4>3. K = L
            BY <3>1, <3>2, <3>3, <3>5
      <4> QED BY <3>1, <3>2, <4>2, <4>3 DEF LearningRight
    <3> QED BY <3>4, <3>5
  <2> QED BY <2>5, <2>6 DEF p
<1> QED BY <1>11, <1>12

\* So does inserting a card that is not there.
LEMMA InsertRight ==
    ASSUME NEW q \in Queues, NEW e \in LearningQueueEntry, e \notin ToSet(q.learning),
           NEW r \in InsertLearning(q, e), NewAndReviewRight(q)
    PROVE  NewAndReviewRight(r) /\ (LearningRight(q) => LearningRight(r))
<1>1. r \in Queues /\ r.cutoff = q.cutoff
      BY InsertLearningPlaces DEF WithLearning
<1> DEFINE n == [q.counts EXCEPT !["Learning"] = IF e.due <= AheadCutoff(q) THEN @ + 1 ELSE @]
           k == IF e.due <= AheadCutoff(q) THEN q.counts["Learning"] + 1 ELSE q.counts["Learning"]
<1>2. r.main = q.main /\ ToSet(r.learning) = ToSet(q.learning) \cup {e} /\ r.counts = n
      BY InsertLearningAdds
<1>3. q.counts \in Counts
      BY DEF Queues
<1>4. k \in Nat /\ n = [q.counts EXCEPT !["Learning"] = k]
      BY <1>3 DEF Counts
<1> HIDE DEF n, k
<1>5. Recounted(r.counts, q.counts, "Learning", k)
      BY <1>2, <1>3, <1>4, RecountedBy
<1>6. NewAndReviewRight(r)
      BY <1>2, <1>5 DEF NewAndReviewRight, Recounted
<1>7. ASSUME LearningRight(q)
      PROVE  LearningRight(r)
  <2> DEFINE K == Cardinality(OfKind(q.main, "InterdayLearning"))
             D == Cardinality(DueBy(ToSet(q.learning), q.cutoff + LearnAhead))
             d == Cardinality(DueBy(ToSet(r.learning), q.cutoff + LearnAhead))
  <2>1. q.counts["Learning"] = K + D /\ K \in Nat /\ D \in Nat /\ IsFiniteSet(ToSet(q.learning))
        BY <1>7, LearningIs DEF LearningRight
  <2>2. LearningCount(ContentOf(r), r.cutoff) = K + d /\ d \in Nat
        BY <1>1, <1>2, LearningIs
  <2>3. d = D + (IF e.due <= q.cutoff + LearnAhead THEN 1 ELSE 0)
        BY <1>2, <2>1, DueByAdd
  <2>4. r.counts["Learning"] = k
        BY <1>5 DEF Recounted
  <2> HIDE DEF K, D, d
  <2>5. k = K + d
        BY <2>1, <2>2, <2>3 DEF k, AheadCutoff
  <2> QED BY <2>2, <2>4, <2>5 DEF LearningRight
<1> QED BY <1>6, <1>7

\* So does removing a card that is there.
LEMMA RemoveRight ==
    ASSUME NEW q \in Queues, NoneTwice(q), NEW e \in ToSet(q.learning), NewAndReviewRight(q)
    PROVE  /\ NewAndReviewRight(RemoveLearning(q, e.id))
           /\ LearningRight(q) => LearningRight(RemoveLearning(q, e.id))
<1> DEFINE r == RemoveLearning(q, e.id)
           n == [q.counts EXCEPT !["Learning"] = IF e.due <= AheadCutoff(q) THEN Decrement(@) ELSE @]
           k == IF e.due <= AheadCutoff(q) THEN Decrement(q.counts["Learning"]) ELSE q.counts["Learning"]
<1>1. r \in Queues /\ r.cutoff = q.cutoff
      BY RemoveLearningKeeps
<1>2. r.main = q.main /\ ToSet(r.learning) = ToSet(q.learning) \ {e} /\ r.counts = n
      BY RemoveLearningTakes
<1>3. q.counts \in Counts
      BY DEF Queues
<1>4. k \in Nat /\ n = [q.counts EXCEPT !["Learning"] = k]
      BY <1>3 DEF Counts, Decrement
<1> HIDE DEF n, k, r
<1>5. Recounted(r.counts, q.counts, "Learning", k)
      BY <1>2, <1>3, <1>4, RecountedBy
<1>6. NewAndReviewRight(r)
      BY <1>2, <1>5 DEF NewAndReviewRight, Recounted
<1>7. ASSUME LearningRight(q)
      PROVE  LearningRight(r)
  <2> DEFINE K == Cardinality(OfKind(q.main, "InterdayLearning"))
             D == Cardinality(DueBy(ToSet(q.learning), q.cutoff + LearnAhead))
             d == Cardinality(DueBy(ToSet(r.learning), q.cutoff + LearnAhead))
  <2>1. q.counts["Learning"] = K + D /\ K \in Nat /\ D \in Nat
        BY <1>7, LearningIs DEF LearningRight
  <2>2. LearningCount(ContentOf(r), r.cutoff) = K + d /\ d \in Nat /\ IsFiniteSet(ToSet(r.learning))
        BY <1>1, <1>2, LearningIs
  <2>3. D = d + (IF e.due <= q.cutoff + LearnAhead THEN 1 ELSE 0)
    <3>1. e \notin ToSet(r.learning) /\ ToSet(q.learning) = ToSet(r.learning) \cup {e}
          BY <1>2
    <3> QED BY <2>2, <3>1, DueByAdd
  <2>4. r.counts["Learning"] = k
        BY <1>5 DEF Recounted
  <2> HIDE DEF K, D, d
  <2>5. k = K + d
        BY <2>1, <2>2, <2>3 DEF k, AheadCutoff, Decrement
  <2> QED BY <2>2, <2>4, <2>5 DEF LearningRight
<1> QED BY <1>6, <1>7 DEF r

\* So does pushing an entry back that will be presented.
LEMMA PushRight ==
    ASSUME NEW q \in Queues, NoneTwice(q), NEW e \in Entries,
           e.id \notin Ids(q.main) \cup Ids(q.learning),
           NewAndReviewRight(q), LearningRight(q),
           e \in LearningQueueEntry => e.due <= AheadCutoff(q)
    PROVE  NewAndReviewRight(PushUndoEntry(q, e)) /\ LearningRight(PushUndoEntry(q, e))
<1> DEFINE r == PushUndoEntry(q, e)
           n == [q.counts EXCEPT ![CountName(e)] = @ + 1]
           k == q.counts[CountName(e)] + 1
<1>1. Pushed(r, q, e)
      BY PushUndoEntryPushes
<1>2. /\ IF e \in LearningQueueEntry
         THEN r.main = q.main /\ ToSet(r.learning) = ToSet(q.learning) \cup {e}
         ELSE r.main = <<e>> \o q.main /\ ToSet(r.learning) = ToSet(q.learning)
      /\ r.counts = n
      BY PushUndoEntryAdds
<1>3. q.counts \in Counts /\ CountName(e) \in {"New", "Review", "Learning"} /\ q.main \in Seq(MainQueueEntry)
      BY EntryKinds DEF Queues
<1>4. k \in Nat /\ n = [q.counts EXCEPT ![CountName(e)] = k]
      BY <1>3 DEF Counts
<1> HIDE DEF n, k, r
<1>5. Recounted(r.counts, q.counts, CountName(e), k) /\ k = q.counts[CountName(e)] + 1
      BY <1>2, <1>3, <1>4, RecountedBy DEF k
<1>6. r \in Queues /\ r.cutoff = q.cutoff /\ NoneTwice(r)
      BY <1>1, PushedOnce DEF Pushed
<1> DEFINE K == Cardinality(OfKind(q.main, "InterdayLearning"))
           L == Cardinality(OfKind(r.main, "InterdayLearning"))
           D == Cardinality(DueBy(ToSet(q.learning), q.cutoff + LearnAhead))
           d == Cardinality(DueBy(ToSet(r.learning), q.cutoff + LearnAhead))
<1>7. q.counts["Learning"] = K + D /\ K \in Nat /\ D \in Nat /\ IsFiniteSet(ToSet(q.learning))
      BY LearningIs DEF LearningRight
<1>8. LearningCount(ContentOf(r), r.cutoff) = L + d /\ L \in Nat /\ d \in Nat
      BY <1>6, LearningIs
<1> HIDE DEF K, L, D, d
<1>9. CASE e \in LearningQueueEntry
  <2>1. CountName(e) = "Learning"
        BY <1>9, CountNames
  <2>2. r.main = q.main /\ ToSet(r.learning) = ToSet(q.learning) \cup {e} /\ e \notin ToSet(q.learning)
        BY <1>2, <1>9, IdsOfSet
  <2>3. NewAndReviewRight(r)
        BY <1>5, <2>1, <2>2 DEF NewAndReviewRight, Recounted
  <2>4. d = D + (IF e.due <= q.cutoff + LearnAhead THEN 1 ELSE 0)
        BY <1>7, <2>2, DueByAdd DEF D, d
  <2>5. d = D + 1 /\ L = K
        BY <1>9, <2>2, <2>4 DEF AheadCutoff, L, K
  <2>6. r.counts["Learning"] = q.counts["Learning"] + 1
        BY <1>5, <2>1 DEF Recounted
  <2>7. r.counts["Learning"] = L + d
        BY <1>7, <2>5, <2>6
  <2> QED BY <1>8, <2>3, <2>7 DEF LearningRight, r
<1>10. CASE e \notin LearningQueueEntry
  <2>1. /\ e \in MainQueueEntry /\ e.kind \in {"New", "Review", "InterdayLearning"}
        /\ CountName(e) = IF e.kind = "InterdayLearning" THEN "Learning" ELSE e.kind
        BY <1>10, CountNames DEF Entries
  <2>2. r.main = <<e>> \o q.main /\ ToSet(r.learning) = ToSet(q.learning)
        BY <1>2, <1>10
  <2>3. Once(r.main)
        BY <1>6 DEF NoneTwice
  <2>4. ASSUME NEW kind
        PROVE  /\ Cardinality(OfKind(r.main, kind))
                    = Cardinality(OfKind(q.main, kind)) + (IF e.kind = kind THEN 1 ELSE 0)
               /\ Cardinality(OfKind(q.main, kind)) \in Nat
    <3>f. InFront(r.main, e, q.main)
          BY <1>3, <2>1, <2>2, PrependIsWith DEF InFront
    <3>1. /\ e.kind = kind => Cardinality(OfKind(r.main, kind)) = Cardinality(OfKind(q.main, kind)) + 1
          /\ e.kind # kind => Cardinality(OfKind(r.main, kind)) = Cardinality(OfKind(q.main, kind))
          BY <1>3, <2>3, <3>f, KindAdd
    <3>2. Cardinality(OfKind(q.main, kind)) \in Nat
          BY <1>3, PartsAreFinite
    <3> QED BY <3>1, <3>2
  <2>5. ASSUME NEW kind \in {"New", "Review"}
        PROVE  r.counts[kind] = Cardinality(OfKind(r.main, kind))
    <3>1. q.counts[kind] = Cardinality(OfKind(q.main, kind))
          BY DEF NewAndReviewRight
    <3>2. CASE e.kind = kind
      <4>1. CountName(e) = kind
            BY <2>1, <3>2
      <4>2. r.counts[kind] = q.counts[kind] + 1
            BY <1>5, <4>1 DEF Recounted
      <4> QED BY <2>4, <3>1, <3>2, <4>2
    <3>3. CASE e.kind # kind
      <4>1. CountName(e) # kind
            BY <2>1, <3>3
      <4>2. r.counts[kind] = q.counts[kind]
            BY <1>5, <4>1 DEF Recounted
      <4> QED BY <2>4, <3>1, <3>3, <4>2
    <3> QED BY <3>2, <3>3
  <2>6. NewAndReviewRight(r)
        BY <2>5 DEF NewAndReviewRight
  <2>7. L = K + (IF e.kind = "InterdayLearning" THEN 1 ELSE 0) /\ d = D
        BY <2>2, <2>4 DEF L, K, D, d
  <2>8. r.counts["Learning"] = L + d
    <3>1. CASE e.kind = "InterdayLearning"
      <4>1. CountName(e) = "Learning"
            BY <2>1, <3>1
      <4>2. r.counts["Learning"] = q.counts["Learning"] + 1
            BY <1>5, <4>1 DEF Recounted
      <4> QED BY <1>7, <2>7, <3>1, <4>2
    <3>2. CASE e.kind # "InterdayLearning"
      <4>1. CountName(e) # "Learning"
            BY <2>1, <3>2
      <4>2. r.counts["Learning"] = q.counts["Learning"]
            BY <1>5, <4>1 DEF Recounted
      <4> QED BY <1>7, <2>7, <3>2, <4>2
    <3> QED BY <3>1, <3>2
  <2> QED BY <1>8, <2>6, <2>8 DEF LearningRight, r
<1> QED BY <1>9, <1>10

CountsRight(q) == NewAndReviewRight(q) /\ LearningRight(q)

\* So does letting in the cards that became due.
LEMMA UpdateRight ==
    ASSUME NEW q \in Queues, NoneTwice(q), now \in Nat, q.cutoff <= now, CountsRight(q),
           NEW r, r = UpdateCutoffAndCount(q)
    PROVE  CountsRight(r)
<1> DEFINE I == {i \in DOMAIN q.learning :
                    q.learning[i].due > AheadCutoff(q) /\ q.learning[i].due <= now + LearnAhead}
           D == Cardinality(DueBy(ToSet(q.learning), q.cutoff + LearnAhead))
           d == Cardinality(DueBy(ToSet(q.learning), now + LearnAhead))
           K == Cardinality(OfKind(q.main, "InterdayLearning"))
           k == q.counts["Learning"] + Cardinality(I)
<1>1. r \in Queues /\ SameEntries(r, q) /\ r.cutoff = now
      BY UpdateCutoffKeeps
<1>2. r = [q EXCEPT !.cutoff = now, !.counts["Learning"] = k]
      BY DEF UpdateCutoffAndCount, Count
<1>3. q.learning \in Seq(LearningQueueEntry) /\ Once(q.learning) /\ q.cutoff \in Nat /\ q.counts \in Counts
      BY DEF Queues, NoneTwice
<1>4. r.counts = [q.counts EXCEPT !["Learning"] = k]
  <2> HIDE DEF k
  <2> QED BY <1>2 DEF Queues
<1>5. /\ q.cutoff + LearnAhead \in Nat /\ now + LearnAhead \in Nat
      /\ q.cutoff + LearnAhead <= now + LearnAhead
      BY <1>3, StudyAssumption
<1>6. I = {i \in DOMAIN q.learning :
            q.learning[i].due > q.cutoff + LearnAhead /\ q.learning[i].due <= now + LearnAhead}
      BY DEF AheadCutoff
<1>7. D + Cardinality(I) = d
      BY <1>3, <1>5, <1>6, CountBetween
<1>8. q.counts["Learning"] = K + D /\ K \in Nat /\ D \in Nat
      BY LearningIs DEF CountsRight, LearningRight
<1>9. LearningCount(ContentOf(r), r.cutoff) = K + d /\ d \in Nat
      BY <1>1, LearningIs DEF SameEntries
<1>10. r.counts["Learning"] = k
       BY <1>3, <1>4 DEF Counts
<1>11. r.counts["New"] = q.counts["New"] /\ r.counts["Review"] = q.counts["Review"]
  <2> HIDE DEF k
  <2> QED BY <1>3, <1>4 DEF Counts
<1>i. PICK n : n = Cardinality(I)
      OBVIOUS
<1> HIDE DEF I, D, d, K
<1>12. k = K + d
  <2>1. D + n = d /\ k = (K + D) + n
        BY <1>7, <1>8, <1>i
  <2>2. d \in Nat /\ D \in Nat /\ K \in Nat
        BY <1>8, <1>9
  <2>3. n \in Nat
    <3>1. I \in SUBSET (1..Len(q.learning)) /\ Len(q.learning) \in Nat
          BY <1>3 DEF I
    <3>2. IsFiniteSet(1..Len(q.learning))
          BY <3>1, FS_Interval
    <3> QED BY <1>i, <3>1, <3>2, FS_Subset, FS_CardinalityType
  <2> HIDE DEF k
  <2> QED BY <2>1, <2>2, <2>3
<1> HIDE DEF k
<1>13. LearningRight(r)
      BY <1>9, <1>10, <1>12 DEF LearningRight
<1>14. NewAndReviewRight(r)
      BY <1>1, <1>11 DEF CountsRight, NewAndReviewRight, SameEntries
<1> QED BY <1>13, <1>14 DEF CountsRight

\* Going back to a cutoff, and to the learning count there was.
LEMMA RestoreRight ==
    ASSUME NEW q \in Queues, NEW snapshot \in Snapshots, NewAndReviewRight(q),
           NEW r, r = RestoreCutoff(q, snapshot)
    PROVE  /\ NewAndReviewRight(r)
           /\ snapshot.count = LearningCount(ContentOf(q), snapshot.cutoff) => LearningRight(r)
<1>1. SameEntries(r, q) /\ r.cutoff = snapshot.cutoff
      BY RestoreCutoffKeeps DEF Snapshots
<1>2. /\ r.counts["Learning"] = snapshot.count
      /\ r.counts["New"] = q.counts["New"] /\ r.counts["Review"] = q.counts["Review"]
      BY DEF RestoreCutoff, Queues, Counts, Snapshots
<1>3. ContentOf(r) = ContentOf(q)
      BY <1>1 DEF ContentOf, SameEntries
<1>4. NewAndReviewRight(r)
      BY <1>1, <1>2 DEF NewAndReviewRight, SameEntries
<1>5. ASSUME snapshot.count = LearningCount(ContentOf(q), snapshot.cutoff)
      PROVE  LearningRight(r)
      BY <1>1, <1>2, <1>3, <1>5 DEF LearningRight
<1> QED BY <1>4, <1>5

\* Asking for the counts keeps them right.
LEMMA CountedRight ==
    ASSUME NEW q \in Queues, NoneTwice(q), now \in Nat, q.cutoff <= now, CountsRight(q)
    PROVE  CountsRight(Counted(q))
<1>1. CASE Counted(q) = q
      BY <1>1
<1>2. CASE Counted(q) = UpdateCutoffAndCount(q)
      BY <1>2, UpdateRight
<1> QED BY <1>1, <1>2 DEF Counted

\* What the builder counts is there.
LEMMA BuiltRight ==
    ASSUME NEW table \in [Cards -> Row], now \in Nat, builds \in Nat, NEW q \in Built(table)
    PROVE  CountsRight(q)
<1>1. q \in Queues /\ NoneTwice(q) /\ q.cutoff = now
      BY BuiltAreQueues
<1>a. PICK order \in GatherOrders(table) : q \in BuiltFrom(table, Gathered(table, order))
      BY DEF Built
<1>b. PICK main \in SetToSeqs(MainEntries(table, Gathered(table, order))) :
        \E learning \in LearningOrders(LearningEntries(table, Gathered(table, order))) :
            q = NewQueues(main, learning)
      BY <1>a DEF BuiltFrom
<1>c. PICK learning : q = NewQueues(main, learning)
      BY <1>b
<1>2. q.main = main /\ q.learning = learning
      BY <1>c DEF NewQueues
<1>3. /\ q.counts["New"] = Count(main, LAMBDA e : e.kind = "New")
      /\ q.counts["Review"] = Count(main, LAMBDA e : e.kind = "Review")
      /\ q.counts["Learning"] = Count(main, LAMBDA e : e.kind = "InterdayLearning")
                                + Count(learning, LAMBDA e : e.due <= now + LearnAhead)
      BY <1>c DEF NewQueues
<1>4. main \in Seq(MainQueueEntry) /\ Once(main) /\ learning \in Seq(LearningQueueEntry) /\ Once(learning)
      BY <1>1, <1>2 DEF Queues, NoneTwice
<1>5. ASSUME NEW kind
      PROVE  Count(main, LAMBDA e : e.kind = kind) = Cardinality(OfKind(main, kind))
      BY <1>4, CountKind
<1>6. Count(learning, LAMBDA e : e.due <= now + LearnAhead)
        = Cardinality(DueBy(ToSet(learning), now + LearnAhead))
      BY <1>4, CountDue
<1>7. NewAndReviewRight(q)
      BY <1>2, <1>3, <1>5 DEF NewAndReviewRight
<1>8. LearningRight(q)
      BY <1>1, <1>2, <1>3, <1>5, <1>6 DEF LearningRight, LearningCount, ContentOf
<1> QED BY <1>7, <1>8 DEF CountsRight

\* Right counts are what CountsMatch asks for.
LEMMA RightIsMatch ==
    ASSUME NEW q \in Queues, NoneTwice(q), CountsRight(q), queues = <<q>>
    PROVE  CountsMatch
<1>1. q.main \in Seq(MainQueueEntry) /\ Once(q.main) /\ q.learning \in Seq(LearningQueueEntry) /\ Once(q.learning)
      BY DEF Queues, NoneTwice
<1>2. ASSUME NEW kind
      PROVE  Count(q.main, LAMBDA e : e.kind = kind) = Cardinality(OfKind(q.main, kind))
      BY <1>1, CountKind
<1>3. Count(q.learning, LAMBDA e : e.due <= AheadCutoff(q))
        = Cardinality(DueBy(ToSet(q.learning), AheadCutoff(q)))
      BY <1>1, CountDue
<1>4. /\ q.counts["New"] = Count(q.main, LAMBDA e : e.kind = "New")
      /\ q.counts["Review"] = Count(q.main, LAMBDA e : e.kind = "Review")
      BY <1>2 DEF CountsRight, NewAndReviewRight
<1>5. q.counts["Learning"] = Count(q.main, LAMBDA e : e.kind = "InterdayLearning")
                                + Count(q.learning, LAMBDA e : e.due <= AheadCutoff(q))
      BY <1>2, <1>3 DEF CountsRight, LearningRight, LearningCount, ContentOf, AheadCutoff
<1>6. DOMAIN queues = {1} /\ queues[1] = q
      OBVIOUS
<1>7. \A i \in DOMAIN queues : queues[i] = q
      BY <1>6
<1> QED BY <1>4, <1>5, <1>7 DEF CountsMatch, Count

-----------------------------------------------------------------------------
(* What comes first.                                                        *)

\* An entry pushed back that is to be presented first is.
LEMMA PushedIsFirst ==
    ASSUME NEW q \in Queues, NEW e \in Entries, NEW r, Pushed(r, q, e),
           PresentedFirst(e, ContentOf(r), r.cutoff)
    PROVE  ~NothingToShow(r) /\ First(r) = e
<1>1. /\ q.learning \in Seq(LearningQueueEntry) /\ q.main \in Seq(MainQueueEntry)
      /\ r.learning \in Seq(LearningQueueEntry) /\ r.main \in Seq(MainQueueEntry) /\ r.cutoff \in Nat
      BY DEF Queues, Pushed
<1>2. Len(r.learning) \in Nat /\ DOMAIN r.learning = 1..Len(r.learning)
      BY <1>1
<1>3. ASSUME \A x \in ToSet(r.learning) : x.due > r.cutoff
      PROVE  DueNow(r) = {}
  <2>1. ASSUME NEW i \in DOMAIN r.learning
        PROVE  ~(r.learning[i].due <= r.cutoff)
    <3>a. r.learning[i] \in LearningQueueEntry
          BY <1>1
    <3>1. r.learning[i] \in ToSet(r.learning) /\ r.learning[i].due \in Nat
          BY <3>a DEF ToSet, LearningQueueEntry
    <3>2. r.learning[i].due > r.cutoff
          BY <1>3, <3>1
    <3> QED BY <1>1, <3>1, <3>2
  <2> QED BY <2>1 DEF DueNow
<1>4. CASE e \in LearningQueueEntry
  <2>1. r.learning = <<e>> \o q.learning
        BY <1>4 DEF Pushed
  <2>2. 1 \in DOMAIN r.learning /\ r.learning[1] = e
        BY <1>1, <1>4, <2>1
  <2>3. ASSUME NEW T \in SUBSET DOMAIN r.learning, 1 \in T
        PROVE  LeastOf(T) = 1
    <3>1. LeastOf(T) \in T /\ LeastOf(T) <= 1
          BY <1>2, <2>3, LeastOfIsIn
    <3>2. LeastOf(T) \in 1..Len(r.learning)
          BY <1>2, <3>1
    <3> QED BY <3>1, <3>2
  <2>4. CASE e.due <= r.cutoff
    <3>1. 1 \in DueNow(r) /\ DueNow(r) \in SUBSET DOMAIN r.learning
          BY <2>2, <2>4 DEF DueNow
    <3>2. LeastOf(DueNow(r)) = 1
          BY <2>3, <3>1
    <3> QED BY <2>2, <3>1, <3>2 DEF First, NothingToShow
  <2>5. CASE ~(e.due <= r.cutoff)
    <3>1. /\ \A x \in ToSet(r.learning) : x.due > r.cutoff
          /\ r.main = <<>> /\ e.due <= r.cutoff + LearnAhead
          BY <1>4, <2>5 DEF PresentedFirst, ContentOf
    <3>2. DueNow(r) = {}
          BY <1>3, <3>1
    <3>3. e \in ToSet(r.learning)
          BY <2>2 DEF ToSet
    <3>4. 1 \in DueAhead(r) /\ DueAhead(r) \in SUBSET DOMAIN r.learning
          BY <2>2, <3>1, <3>3 DEF DueAhead, AheadCutoff
    <3>5. LeastOf(DueAhead(r)) = 1
          BY <2>3, <3>4
    <3> QED BY <2>2, <3>1, <3>2, <3>4, <3>5 DEF First, NothingToShow
  <2> QED BY <2>4, <2>5
<1>5. CASE e \notin LearningQueueEntry
  <2>1. r.main = <<e>> \o q.main /\ e \in MainQueueEntry
        BY <1>5 DEF Pushed, Entries
  <2>2. r.main # <<>> /\ Head(r.main) = e
        BY <1>1, <2>1
  <2>3. DueNow(r) = {}
        BY <1>3, <1>5 DEF PresentedFirst, ContentOf
  <2> QED BY <2>2, <2>3 DEF First, NothingToShow
<1> QED BY <1>4, <1>5

\* What is presented first is on top, and is what PresentedFirst says.
LEMMA FirstIsOnTop ==
    ASSUME NEW q \in Queues, NoneTwice(q), ~NothingToShow(q)
    PROVE  /\ TopEntry(q, First(q).id) = First(q)
           /\ PresentedFirst(First(q), ContentOf(q), q.cutoff)
           /\ First(q) \in LearningQueueEntry => First(q).due <= AheadCutoff(q)
<1>1. /\ q.learning \in Seq(LearningQueueEntry) /\ q.main \in Seq(MainQueueEntry)
      /\ Once(q.learning) /\ q.cutoff \in Nat /\ LearnAhead \in Nat
      BY StudyAssumption DEF Queues, NoneTwice
<1>2. /\ Len(q.learning) \in Nat /\ DueNow(q) \in SUBSET (1..Len(q.learning))
      /\ DueAhead(q) \in SUBSET (1..Len(q.learning)) /\ DOMAIN q.learning = 1..Len(q.learning)
      BY <1>1 DEF DueNow, DueAhead
<1>3. ASSUME NEW i \in DOMAIN q.learning
      PROVE  TopEntry(q, q.learning[i].id) = q.learning[i] /\ q.learning[i] \in LearningQueueEntry
  <2> DEFINE c == q.learning[i].id
  <2>1. c \in Ids(q.learning)
        BY DEF Ids
  <2>2. /\ InLearning(q, c) # {} /\ LeastOf(InLearning(q, c)) \in DOMAIN q.learning
        /\ q.learning[LeastOf(InLearning(q, c))].id = c
        BY <2>1, InLearningIndices
  <2>3. LeastOf(InLearning(q, c)) = i
        BY <1>1, <2>2 DEF Once
  <2> QED BY <1>1, <2>2, <2>3 DEF TopEntry
<1>4. CASE DueNow(q) # {}
  <2>1. LeastOf(DueNow(q)) \in DueNow(q)
        BY <1>2, <1>4, LeastOfIsIn
  <2>2. PICK i : i = LeastOf(DueNow(q))
        OBVIOUS
  <2>3. i \in DOMAIN q.learning /\ q.learning[i].due <= q.cutoff /\ First(q) = q.learning[i]
        BY <1>4, <2>1, <2>2 DEF DueNow, First
  <2>4. TopEntry(q, q.learning[i].id) = q.learning[i] /\ q.learning[i] \in LearningQueueEntry
        BY <1>3, <2>3
  <2>5. q.learning[i].due \in Nat
        BY <2>4 DEF LearningQueueEntry
  <2>6. q.learning[i].due <= AheadCutoff(q)
        BY <1>1, <2>3, <2>5 DEF AheadCutoff
  <2> QED BY <2>3, <2>4, <2>6 DEF PresentedFirst
<1>5. CASE DueNow(q) = {}
  <2>1. \A e \in ToSet(q.learning) : e.due > q.cutoff
    <3>1. ASSUME NEW i \in DOMAIN q.learning
          PROVE  q.learning[i].due > q.cutoff
      <4>a. q.learning[i] \in LearningQueueEntry
            BY <1>1
      <4>1. q.learning[i].due \in Nat /\ ~(q.learning[i].due <= q.cutoff)
            BY <1>5, <4>a DEF DueNow, LearningQueueEntry
      <4> QED BY <1>1, <4>1
    <3> QED BY <3>1 DEF ToSet
  <2>2. CASE q.main # <<>>
    <3>1. First(q) = Head(q.main) /\ Head(q.main) \in MainQueueEntry /\ Head(q.main) = q.main[1]
          /\ 1 \in DOMAIN q.main
          BY <1>1, <1>5, <2>2 DEF First
    <3>2. First(q) \notin LearningQueueEntry
          BY <3>1 DEF MainQueueEntry, LearningQueueEntry
    <3>3. First(q).id \in Ids(q.main)
          BY <3>1 DEF Ids
    <3>4. InLearning(q, First(q).id) = {}
          BY <3>3, InLearningIndices DEF NoneTwice
    <3>5. TopEntry(q, First(q).id) = First(q)
          BY <3>1, <3>4 DEF TopEntry
    <3> QED BY <2>1, <3>2, <3>5 DEF PresentedFirst, ContentOf
  <2>3. CASE q.main = <<>>
    <3>1. LeastOf(DueAhead(q)) \in DueAhead(q)
          BY <1>2, <1>5, <2>3, LeastOfIsIn DEF NothingToShow
    <3>2. PICK i : i = LeastOf(DueAhead(q))
          OBVIOUS
    <3>3. i \in DOMAIN q.learning /\ q.learning[i].due <= AheadCutoff(q) /\ First(q) = q.learning[i]
          BY <1>5, <2>3, <3>1, <3>2 DEF DueAhead, First
    <3>4. TopEntry(q, q.learning[i].id) = q.learning[i] /\ q.learning[i] \in LearningQueueEntry
          BY <1>3, <3>3
    <3> QED BY <2>1, <2>3, <3>3, <3>4 DEF PresentedFirst, ContentOf, AheadCutoff
  <2> QED BY <2>2, <2>3
<1> QED BY <1>4, <1>5

-----------------------------------------------------------------------------
(* The counts after an answer, and after it is undone and redone.           *)

\* Undoing an honest answer keeps the counts right, and presents its card first.
LEMMA UndoneRight ==
    ASSUME NEW q \in Queues, NoneTwice(q), NewAndReviewRight(q),
           NEW u \in Updates, NEW b \in Contents,
           Answered(u, b, ContentOf(q)), Honest(u, b, ContentOf(q)),
           u.entry.id \notin Ids(q.main), u.requeue = <<>> => u.entry.id \notin Ids(q.learning),
           NEW r, UndoneParts(r, q, u)
    PROVE  CountsRight(r) /\ ~NothingToShow(r) /\ First(r) = u.entry
<1>1. PICK restored, removed \in Queues :
        /\ restored = RestoreCutoff(q, u.snapshot) /\ SameEntries(restored, q) /\ NoneTwice(restored)
        /\ removed = IF u.requeue = <<>> THEN restored ELSE RemoveLearning(restored, u.requeue[1].id)
        /\ NoneTwice(removed) /\ removed.cutoff = restored.cutoff
        /\ r = PushUndoEntry(removed, u.entry)
      BY DEF UndoneParts
<1>2. /\ u.entry \in Entries /\ u.snapshot \in Snapshots
      /\ u.requeue # <<>> => u.requeue[1].id = u.entry.id
      BY DEF Updates
<1>3. restored.cutoff = u.snapshot.cutoff
      BY <1>1, <1>2, RestoreCutoffKeeps DEF Snapshots
<1>4. CountsRight(restored)
  <2>1. u.snapshot.count = LearningCount(ContentOf(q), u.snapshot.cutoff)
        BY DEF Honest
  <2> QED BY <1>1, <1>2, <2>1, RestoreRight DEF CountsRight
<1>5. CountsRight(removed) /\ u.entry.id \notin Ids(removed.main) \cup Ids(removed.learning)
  <2>1. restored.main = q.main /\ restored.learning = q.learning
        BY <1>1 DEF SameEntries
  <2>2. CASE u.requeue = <<>>
        BY <1>1, <1>4, <2>1, <2>2
  <2>3. CASE u.requeue # <<>>
    <3>1. PICK x : x = u.requeue[1]
          OBVIOUS
    <3>2. x \in ToSet(restored.learning) /\ removed = RemoveLearning(restored, x.id) /\ x.id = u.entry.id
          BY <1>1, <1>2, <2>1, <2>3, <3>1 DEF Answered, ContentOf, Requeued
    <3>3. CountsRight(RemoveLearning(restored, x.id))
          BY <1>1, <1>4, <3>2, RemoveRight DEF CountsRight
    <3>4. /\ RemoveLearning(restored, x.id).main = restored.main
          /\ Ids(RemoveLearning(restored, x.id).learning) = Ids(restored.learning) \ {x.id}
          BY <1>1, RemoveLearningKeeps
    <3> QED BY <2>1, <3>2, <3>3, <3>4
  <2> QED BY <2>2, <2>3
<1>6. Pushed(r, removed, u.entry)
      BY <1>1, <1>2, PushUndoEntryPushes
<1>7. ContentOf(r) = b
      BY UndoneContent
<1>8. r.cutoff = u.snapshot.cutoff
      BY <1>1, <1>3, <1>6 DEF Pushed
<1>9. PresentedFirst(u.entry, ContentOf(r), r.cutoff)
      BY <1>7, <1>8 DEF Honest
<1>10. ~NothingToShow(r) /\ First(r) = u.entry
       BY <1>1, <1>2, <1>6, <1>9, PushedIsFirst
<1>11. u.entry \in LearningQueueEntry => u.entry.due <= AheadCutoff(removed)
  <2>1. ASSUME u.entry \in LearningQueueEntry
        PROVE  u.entry.due <= removed.cutoff + LearnAhead
    <3>1. u.entry.due \in Nat /\ removed.cutoff \in Nat /\ LearnAhead \in Nat
          BY <1>1, <2>1, StudyAssumption DEF LearningQueueEntry, Queues
    <3>2. u.entry.due <= removed.cutoff \/ u.entry.due <= removed.cutoff + LearnAhead
          BY <1>1, <1>3, <1>8, <1>9, <2>1 DEF PresentedFirst
    <3> QED BY <3>1, <3>2
  <2> QED BY <2>1 DEF AheadCutoff
<1>12. CountsRight(r)
       BY <1>1, <1>2, <1>5, <1>11, PushRight DEF CountsRight
<1> QED BY <1>10, <1>12

\* Redoing an honest answer keeps the counts right.
LEMMA RedoneRight ==
    ASSUME NEW q \in Queues, NoneTwice(q), NewAndReviewRight(q),
           NEW u \in Updates, NEW a \in Contents,
           Answered(u, ContentOf(q), a), Honest(u, ContentOf(q), a),
           NEW r, RedoneParts(r, q, u)
    PROVE  CountsRight(r)
<1>1. AtTop(q, u.entry.id) /\ TopEntry(q, u.entry.id) = u.entry
      BY FoundAgain
<1>2. /\ u.requeue = <<>> \/ \E e \in LearningQueueEntry : u.requeue = <<e>> /\ e.id = u.entry.id
      /\ u.snapshot \in Snapshots
      BY DEF Updates
<1>3. PICK p \in IF u.requeue = <<>> THEN {PopEntry(q, u.entry.id)}
                 ELSE InsertLearning(PopEntry(q, u.entry.id), u.requeue[1]) :
            p \in Queues /\ r = RestoreCutoff(p, u.snapshot)
      BY DEF RedoneParts
<1>4. Answered(u, ContentOf(q), ContentOf(p))
      BY <1>1, <1>2, <1>3, PlacedContent
<1>5. ContentOf(p) \in Contents
      BY <1>3, ContentsAre
<1>6. ContentOf(p) = a
      BY <1>4, <1>5, AnsweredOnce
<1>7. PICK popped : popped = PopEntry(q, u.entry.id)
      OBVIOUS
<1>8. NewAndReviewRight(popped)
      BY <1>1, <1>7, PopRight
<1>9. Popped(popped, q, u.entry.id)
      BY <1>1, <1>7, PopEntryKeeps
<1>10. NewAndReviewRight(p)
  <2>1. CASE u.requeue = <<>>
        BY <1>3, <1>7, <1>8, <2>1
  <2>2. CASE u.requeue # <<>>
    <3>1. PICK x \in LearningQueueEntry : u.requeue = <<x>> /\ x.id = u.entry.id
          BY <1>2, <2>2
    <3>2. p \in InsertLearning(popped, x) /\ popped \in Queues
          BY <1>3, <1>7, <1>9, <2>2, <3>1 DEF Popped
    <3>3. x \notin ToSet(popped.learning)
      <4>1. x.id \notin Ids(popped.learning)
            BY <1>9, <3>1 DEF Popped
      <4> QED BY <4>1, IdsOfSet
    <3> QED BY <1>8, <3>2, <3>3, InsertRight
  <2> QED BY <2>1, <2>2
<1>11. u.snapshot.count = LearningCount(ContentOf(p), u.snapshot.cutoff)
       BY <1>6 DEF Honest
<1>12. NewAndReviewRight(r) /\ LearningRight(r)
       BY <1>2, <1>3, <1>10, <1>11, RestoreRight
<1> QED BY <1>12 DEF CountsRight

\* The counts when a card is popped and, perhaps, put behind others.
LEMMA PlacedRight ==
    ASSUME NEW q \in Queues, NoneTwice(q), CountsRight(q), NEW c, AtTop(q, c),
           TopEntry(q, c) \in LearningQueueEntry => TopEntry(q, c).due <= AheadCutoff(q),
           NEW requeue,
           requeue = <<>> \/ \E e \in LearningQueueEntry : requeue = <<e>> /\ e.id = c,
           NEW p \in IF requeue = <<>> THEN {PopEntry(q, c)}
                     ELSE InsertLearning(PopEntry(q, c), requeue[1])
    PROVE  CountsRight(p)
<1>1. PICK popped : popped = PopEntry(q, c)
      OBVIOUS
<1>2. CountsRight(popped)
  <2>1. /\ NewAndReviewRight(PopEntry(q, c))
        /\ LearningRight(q) /\ (TopEntry(q, c) \in LearningQueueEntry =>
                                    TopEntry(q, c).due <= AheadCutoff(q))
                => LearningRight(PopEntry(q, c))
        BY PopRight DEF CountsRight
  <2> QED BY <1>1, <2>1 DEF CountsRight
<1>3. Popped(popped, q, c)
      BY <1>1, PopEntryKeeps
<1>4. CASE requeue = <<>>
      BY <1>1, <1>2, <1>4
<1>5. CASE requeue # <<>>
  <2>1. PICK x \in LearningQueueEntry : requeue = <<x>> /\ x.id = c
        BY <1>5
  <2>2. p \in InsertLearning(popped, x) /\ popped \in Queues
        BY <1>1, <1>3, <1>5, <2>1 DEF Popped
  <2>3. x \notin ToSet(popped.learning)
    <3>1. x.id \notin Ids(popped.learning)
          BY <1>3, <2>1 DEF Popped
    <3> QED BY <3>1, IdsOfSet
  <2> QED BY <1>2, <2>2, <2>3, InsertRight DEF CountsRight
<1> QED BY <1>4, <1>5

\* What an answer leads to: when the card is the one presented first, the counts
\* stay right and the snapshot tells how they were.
Progress(r, u, q, first) ==
    /\ r \in Queues /\ u \in Updates
    /\ r.build = q.build /\ u.build = q.build
    /\ Answered(u, ContentOf(q), ContentOf(r))
    /\ first => CountsRight(r) /\ Honest(u, ContentOf(q), ContentOf(r))

AnswerLeads(after, q, first) ==
    \E r, u : after.queues = <<r>> /\ after.update = <<u>> /\ Progress(r, u, q, first)

\* The card was fetched from these queues, and they are counted right.
IsFirst(q, c) == CountsRight(q) /\ ~NothingToShow(q) /\ First(q).id = c

\* What answer_card makes of the queues is such progress.
LEMMA AfterAnswerLeads ==
    ASSUME NEW q \in Queues, NoneTwice(q), NEW c \in Cards, AtTop(q, c), NEW row \in Row,
           now \in Nat, q.cutoff <= now, NEW after \in AfterAnswer(q, c, row)
    PROVE  AnswerLeads(after, q, IsFirst(q, c))
<1> DEFINE popped == PopEntry(q, c)
           requeue == IF row.queue = "Learn" /\ row.hidden = "no" /\ row.due < NextDayAt
                      THEN <<Collapsed(popped, LearningEntry(c, row))>>
                      ELSE <<>>
           placed == IF requeue = <<>> THEN {popped} ELSE InsertLearning(popped, requeue[1])
<1>1. PICK p \in placed :
            after = [queues |-> <<UpdateCutoffAndCount(p)>>,
                     update |-> <<[entry |-> TopEntry(q, c), requeue |-> requeue,
                                   build |-> q.build, snapshot |-> Snapshot(p)]>>]
      BY DEF AfterAnswer
<1>2. Popped(popped, q, c)
      BY PopEntryKeeps
<1>3. LearningEntry(c, row) \in LearningQueueEntry /\ LearningEntry(c, row).id = c
      BY DEF LearningEntry, LearningQueueEntry, Row
<1>4. /\ Collapsed(popped, LearningEntry(c, row)) \in LearningQueueEntry
      /\ Collapsed(popped, LearningEntry(c, row)).id = c
      BY <1>2, <1>3, CollapsedIs DEF Popped
<1>5. requeue = <<>> \/ \E e \in LearningQueueEntry : requeue = <<e>> /\ e.id = c
      BY <1>4
<1> HIDE DEF requeue
<1>6. p \in IF requeue = <<>> THEN {PopEntry(q, c)} ELSE InsertLearning(PopEntry(q, c), requeue[1])
      BY <1>1
<1>7. AnswerLeft(p, q, c, requeue) /\ p.cutoff = q.cutoff
      BY <1>5, <1>6, PoppedAndPlaced
<1>8. p \in Queues /\ NoneTwice(p) /\ p.build = q.build
      BY <1>7 DEF AnswerLeft
<1>9. PICK r : r = UpdateCutoffAndCount(p)
      OBVIOUS
<1>10. PICK u : u = [entry |-> TopEntry(q, c), requeue |-> requeue,
                     build |-> q.build, snapshot |-> Snapshot(p)]
       OBVIOUS
<1>11. after.queues = <<r>> /\ after.update = <<u>>
       BY <1>1, <1>9, <1>10
<1>12. r \in Queues /\ SameEntries(r, p)
       BY <1>8, <1>9, UpdateCutoffKeeps
<1>13. Answered(u, ContentOf(q), ContentOf(p))
       BY <1>5, <1>6, <1>10, PlacedContent
<1>14. ContentOf(r) = ContentOf(p) /\ r.build = q.build
       BY <1>8, <1>12 DEF SameEntries, ContentOf
<1>15. u \in Updates /\ u.build = q.build
  <2>1. q.build \in Nat
        BY DEF Queues
  <2>2. requeue \in {<<>>} \cup {<<e>> : e \in LearningQueueEntry}
        BY <1>5
  <2>3. requeue # <<>> => requeue[1].id = c
        BY <1>5
  <2>4. TopEntry(q, c) \in Entries /\ TopEntry(q, c).id = c
        BY TopEntryIs
  <2>5. Snapshot(p) \in Snapshots
        BY <1>8 DEF Snapshot, Snapshots, Queues, Counts
  <2> QED BY <1>10, <2>1, <2>2, <2>3, <2>4, <2>5 DEF Updates
<1>16. ASSUME IsFirst(q, c)
       PROVE  CountsRight(r) /\ Honest(u, ContentOf(q), ContentOf(r))
  <2>1. CountsRight(q) /\ ~NothingToShow(q) /\ First(q).id = c
        BY <1>16 DEF IsFirst
  <2>2. /\ TopEntry(q, c) = First(q)
        /\ PresentedFirst(First(q), ContentOf(q), q.cutoff)
        /\ First(q) \in LearningQueueEntry => First(q).due <= AheadCutoff(q)
        BY <2>1, FirstIsOnTop
  <2>3. CountsRight(p)
        BY <1>5, <1>6, <2>1, <2>2, PlacedRight
  <2>4. p.cutoff <= now
        BY <1>7
  <2>5. CountsRight(r)
        BY <1>8, <1>9, <2>3, <2>4, UpdateRight
  <2>6. u.snapshot.cutoff = q.cutoff /\ u.snapshot.count = LearningCount(ContentOf(p), q.cutoff)
        /\ u.entry = First(q)
    <3>1. u.snapshot = [count |-> p.counts["Learning"], cutoff |-> p.cutoff]
          BY <1>10 DEF Snapshot
    <3>2. p.counts["Learning"] = LearningCount(ContentOf(p), p.cutoff)
          BY <2>3 DEF CountsRight, LearningRight
    <3>3. u.entry = First(q)
          BY <1>10, <2>2
    <3> QED BY <1>7, <3>1, <3>2, <3>3
  <2>7. Honest(u, ContentOf(q), ContentOf(r))
        BY <1>14, <2>2, <2>6 DEF Honest
  <2> QED BY <2>5, <2>7
<1>17. Progress(r, u, q, IsFirst(q, c))
       BY <1>12, <1>13, <1>14, <1>15, <1>16 DEF Progress
<1> QED BY <1>11, <1>17 DEF AnswerLeads

-----------------------------------------------------------------------------
(* Every action keeps the steps leading through the contents.               *)

Known(q, undo, redo) == Lined(q, undo, redo) /\ (Refetches => CountsRight(q))

\* The steps lead from the content of the queues, and the counts are right.
Chained == \A q : queues = <<q>> => Known(q, undoSteps, redoSteps)

\* A reviewer who fetches after every operation is shown the first card.
ShownFirst ==
    Refetches /\ shown # <<>> /\ outcome # "panic" =>
        \E q : queues = <<q>> /\ ~NothingToShow(q) /\ First(q).id = shown[1].card

\* Nothing is known of queues that are not there, ...
LEMMA NoneChained ==
    ASSUME queues' = <<>>
    PROVE  Chained'
BY DEF Chained

\* ... and what is known of those that are is known of them only.
LEMMA OneChained ==
    ASSUME NEW r, queues' = <<r>>, Known(r, undoSteps', redoSteps')
    PROVE  Chained'
<1>1. ASSUME NEW q, queues' = <<q>>
      PROVE  q = r
      BY <1>1
<1> QED BY <1>1 DEF Chained

\* Nothing is shown.
LEMMA NoneShown ==
    ASSUME shown' = <<>> \/ outcome' = "panic"
    PROVE  ShownFirst'
BY DEF ShownFirst

\* After an operation that the reviewer fetches after, nothing is shown.
LEMMA RefetchedShown ==
    ASSUME Refetch
    PROVE  ShownFirst'
BY DEF Refetch, ShownFirst

\* Queues with the same entries are led to and from by the same steps.
LEMMA SameLined ==
    ASSUME NEW q, NEW r, SameEntries(r, q), NEW undo, NEW redo, Lined(q, undo, redo)
    PROVE  Lined(r, undo, redo)
<1>1. ContentOf(r) = ContentOf(q) /\ r.build = q.build
      BY DEF SameEntries, ContentOf
<1> QED BY <1>1 DEF Lined

\* Fetching shows what comes first.
LEMMA FetchShowsFirst ==
    ASSUME NEW r, NEW table, queues' = <<r>>, Fetch(r, table)
    PROVE  ShownFirst'
<1>1. CASE NothingToShow(r) \/ table[First(r).id].mtime # First(r).mtime
  <2>1. shown' = <<>>
        BY <1>1 DEF Fetch
  <2> QED BY <2>1, NoneShown
<1>2. CASE ~NothingToShow(r) /\ table[First(r).id].mtime = First(r).mtime
  <2>1. shown'[1].card = First(r).id
        BY <1>2 DEF Fetch
  <2> QED BY <1>2, <2>1 DEF ShownFirst
<1> QED BY <1>1, <1>2

\* New queues, when no step is of them.
LEMMA NewLined ==
    ASSUME NEW r \in Queues, NEW U, NEW undo \in Seq(U), NEW R, NEW redo \in Seq(R),
           \A i \in DOMAIN undo : ~Concerns(undo[i], r),
           \A i \in DOMAIN redo : ~Concerns(redo[i], r)
    PROVE  Lined(r, undo, redo)
<1>1. ContentOf(r) \in Contents
      BY ContentsAre
<1>2. LeadOn(undo, r.build, ContentOf(r), TRUE)
      BY <1>1, NothingLeads
<1>3. LeadOn(redo, r.build, ContentOf(r), FALSE)
      BY <1>1, NothingLeads
<1> QED BY <1>2, <1>3 DEF Lined

\* On a new day there are no steps.
LEMMA FetchOnNewDayChained ==
    ASSUME IInv, FetchOnNewDay
    PROVE  Chained' /\ ShownFirst'
<1>1. rows \in [Cards -> Row] /\ now \in Nat /\ builds \in Nat
      BY DEF IInv, Types
<1>2. PICK q \in Built(Unburied(rows)) : queues' = <<Counted(q)>> /\ Fetch(Counted(q), rows)
      BY DEF FetchOnNewDay
<1>3. undoSteps' = <<>> /\ redoSteps' = <<>>
      BY DEF FetchOnNewDay
<1>4. q \in Queues /\ NoneTwice(q) /\ q.cutoff = now /\ CountsRight(q)
      BY <1>1, UnburiedIsTable, BuiltAreQueues, BuiltRight
<1>5. PICK r : r = Counted(q)
      OBVIOUS
<1>6. r \in Queues
      BY <1>1, <1>4, <1>5, CountedKeeps
<1>7. CountsRight(r)
      BY <1>1, <1>4, <1>5, CountedRight
<1>8. Lined(r, undoSteps', redoSteps')
  <2>1. undoSteps' \in Seq({}) /\ redoSteps' \in Seq({})
        BY <1>3
  <2>2. DOMAIN undoSteps' = {} /\ DOMAIN redoSteps' = {}
        BY <1>3
  <2> QED BY <1>6, <2>1, <2>2, NewLined
<1>9. queues' = <<r>> /\ Fetch(r, rows)
      BY <1>2, <1>5
<1>10. Known(r, undoSteps', redoSteps')
       BY <1>7, <1>8 DEF Known
<1>11. Chained'
       BY <1>9, <1>10, OneChained
<1>12. ShownFirst'
       BY <1>9, FetchShowsFirst
<1> QED BY <1>11, <1>12

\* No step is of queues that were just built.
LEMMA FetchAndBuildChained ==
    ASSUME IInv, FetchAndBuild
    PROVE  Chained' /\ ShownFirst'
<1>1. /\ rows \in [Cards -> Row] /\ now \in Nat /\ builds \in Nat
      /\ undoSteps \in Seq(StepsUntil(builds, now)) /\ redoSteps \in Seq(StepsUntil(builds, now))
      BY DEF IInv, Types
<1>2. PICK q \in Built(rows) : queues' = <<Counted(q)>> /\ Fetch(Counted(q), rows)
      BY DEF FetchAndBuild
<1>3. undoSteps' = undoSteps /\ redoSteps' = redoSteps
      BY DEF FetchAndBuild
<1>4. q \in Queues /\ NoneTwice(q) /\ q.cutoff = now /\ q.build = builds + 1 /\ CountsRight(q)
      BY <1>1, BuiltAreQueues, BuiltRight
<1>5. PICK r : r = Counted(q)
      OBVIOUS
<1>6. r \in Queues /\ r.build = builds + 1
      BY <1>1, <1>4, <1>5, CountedKeeps DEF SameEntries
<1>7. CountsRight(r)
      BY <1>1, <1>4, <1>5, CountedRight
<1>8. Lined(r, undoSteps', redoSteps')
  <2>1. \A i \in DOMAIN undoSteps : ~Concerns(undoSteps[i], r)
        BY <1>1, <1>6, NewBuildNew
  <2>2. \A i \in DOMAIN redoSteps : ~Concerns(redoSteps[i], r)
        BY <1>1, <1>6, NewBuildNew
  <2>3. Lined(r, undoSteps, redoSteps)
        BY <1>1, <1>6, <2>1, <2>2, NewLined
  <2> QED BY <1>3, <2>3
<1>9. queues' = <<r>> /\ Fetch(r, rows)
      BY <1>2, <1>5
<1>10. Known(r, undoSteps', redoSteps')
       BY <1>7, <1>8 DEF Known
<1>11. Chained'
       BY <1>9, <1>10, OneChained
<1>12. ShownFirst'
       BY <1>9, FetchShowsFirst
<1> QED BY <1>11, <1>12

\* Fetching the next card moves the cutoff at most.
LEMMA FetchNextChained ==
    ASSUME IInv, Chained, FetchNext
    PROVE  Chained' /\ ShownFirst'
<1>1. now \in Nat
      BY DEF IInv, Types
<1>2. PICK q : queues = <<q>> /\ Current(q, undoSteps)
      BY DEF IInv, Studying, FetchNext
<1>3. queues[1] = q /\ q \in Queues /\ NoneTwice(q) /\ q.cutoff <= now
      BY <1>2 DEF Current
<1>4. PICK r : r = Counted(q)
      OBVIOUS
<1>5. queues' = <<r>> /\ Fetch(r, rows) /\ undoSteps' = undoSteps /\ redoSteps' = redoSteps
      BY <1>3, <1>4 DEF FetchNext
<1>6. Known(q, undoSteps, redoSteps)
      BY <1>2 DEF Chained
<1>7. SameEntries(r, q)
      BY <1>1, <1>3, <1>4, CountedKeeps
<1>8. Lined(r, undoSteps, redoSteps)
      BY <1>6, <1>7, SameLined DEF Known
<1>9. Refetches => CountsRight(r)
      BY <1>1, <1>3, <1>4, <1>6, CountedRight DEF Known
<1>10. Known(r, undoSteps', redoSteps')
       BY <1>5, <1>8, <1>9 DEF Known
<1>11. Chained'
       BY <1>5, <1>10, OneChained
<1>12. ShownFirst'
       BY <1>5, FetchShowsFirst
<1> QED BY <1>11, <1>12

\* A new step leads back to the content that was answered.
LEMMA AnswerChained ==
    ASSUME IInv, Chained, ShownFirst, outcome # "panic", Answer
    PROVE  Chained' /\ ShownFirst'
<1>1. /\ rows \in [Cards -> Row] /\ now \in Nat
      /\ undoSteps \in Seq(StepsUntil(builds, now))
      BY DEF IInv, Types
<1>2. PICK c : c = shown[1].card
      OBVIOUS
<1>3. shown # <<>> /\ c \in Cards /\ shown' = <<>> /\ ~Refused(shown[1])
      BY <1>2 DEF IInv, Types, Answer
<1>4. ShownFirst'
      BY <1>3, NoneShown
<1> DEFINE ChangedTo(row) == [x \in {c} \cup SiblingsToBury(c) |->
                    IF x = c THEN row ELSE [rows[x] EXCEPT !.hidden = "buried", !.mtime = now]]
<1>a. PICK row \in Rated(c, rows[c]) : \E after \in QueuesAfterAnswer(c, row) :
            Done("AnswerCard", ChangedTo(row), after.update) /\ queues' = after.queues
      BY <1>2 DEF Answer
<1>5. PICK after \in QueuesAfterAnswer(c, row) :
            Done("AnswerCard", ChangedTo(row), after.update) /\ queues' = after.queues
      BY <1>a
<1>6. row \in Row
      BY <1>1, <1>3, RatedAreRows
<1>7. \E s : undoSteps' = <<s>> \o undoSteps /\ s.update = after.update
  <2> DEFINE old == [x \in DOMAIN ChangedTo(row) |-> rows[x]]
             s == [op |-> "AnswerCard", rows |-> old, update |-> after.update]
  <2>1. undoSteps' = <<s>> \o undoSteps
        BY <1>5 DEF Done
  <2>2. s.update = after.update
        OBVIOUS
  <2> HIDE DEF s
  <2> QED BY <2>1, <2>2
<1>8. redoSteps' = <<>>
      BY <1>5 DEF Done
<1> HIDE DEF ChangedTo
<1>9. CASE queues = <<>>
  <2>1. after.queues = <<>>
        BY <1>5, <1>9 DEF QueuesAfterAnswer
  <2>2. Chained'
        BY <1>5, <2>1, NoneChained
  <2> QED BY <1>4, <2>2
<1>10. CASE queues # <<>>
  <2>1. PICK q : queues = <<q>> /\ Current(q, undoSteps)
        BY <1>10 DEF IInv, Studying
  <2>2. q \in Queues /\ NoneTwice(q) /\ q.cutoff <= now /\ queues[1] = q
        BY <2>1 DEF Current
  <2>3. AtTop(q, c)
        BY <1>2, <1>3, <1>10, <2>2 DEF Refused
  <2>4. after \in AfterAnswer(q, c, row)
        BY <1>5, <1>10, <2>2 DEF QueuesAfterAnswer
  <2>5. AnswerLeads(after, q, IsFirst(q, c))
        BY <1>1, <1>3, <1>6, <2>2, <2>3, <2>4, AfterAnswerLeads
  <2>6. PICK r, u : after.queues = <<r>> /\ after.update = <<u>> /\ Progress(r, u, q, IsFirst(q, c))
        BY <2>5 DEF AnswerLeads
  <2>7. Known(q, undoSteps, redoSteps)
        BY <2>1 DEF Chained
  <2>8. Refetches => IsFirst(q, c)
    <3>1. ASSUME Refetches
          PROVE  IsFirst(q, c)
      <4>1. PICK x : queues = <<x>> /\ ~NothingToShow(x) /\ First(x).id = shown[1].card
            BY <1>3, <3>1 DEF ShownFirst
      <4>2. x = q
            BY <2>1, <4>1
      <4>3. CountsRight(q)
            BY <2>7, <3>1 DEF Known
      <4> QED BY <1>2, <4>1, <4>2, <4>3 DEF IsFirst
    <3> QED BY <3>1
  <2>9. PICK s : undoSteps' = <<s>> \o undoSteps /\ s.update = after.update
        BY <1>7
  <2>10. s.update # <<>> /\ s.update[1] = u
         BY <2>6, <2>9
  <2>11. /\ r \in Queues /\ r.build = q.build /\ u.build = q.build
         /\ Answered(u, ContentOf(q), ContentOf(r))
         /\ Refetches => CountsRight(r) /\ Honest(u, ContentOf(q), ContentOf(r))
         BY <2>6, <2>8 DEF Progress
  <2>12. Goes(s, r.build, ContentOf(r), ContentOf(q), TRUE)
         BY <2>10, <2>11 DEF Goes, Linked
  <2>13. IsPrepended(undoSteps', s, undoSteps) /\ Len(undoSteps') = Len(undoSteps) + 1
    <3>1. undoSteps \in Seq(StepsUntil(builds, now) \cup {s})
          BY <1>1, SeqMonotonic
    <3>2. IsPrepended(undoSteps', s, undoSteps)
          BY <2>9, <3>1, Prepended
    <3> QED BY <2>9, <3>1, <3>2
  <2>14. LeadOn(undoSteps, r.build, ContentOf(q), TRUE)
         BY <2>7, <2>11 DEF Known, Lined
  <2>15. ContentOf(r) \in Contents
         BY <2>11, ContentsAre
  <2>16. LeadOn(undoSteps', r.build, ContentOf(r), TRUE)
         BY <2>12, <2>13, <2>14, <2>15, LeadsToo
  <2>17. LeadOn(redoSteps', r.build, ContentOf(r), FALSE)
    <3>1. redoSteps' \in Seq({}) /\ DOMAIN redoSteps' = {}
          BY <1>8
    <3> QED BY <2>15, <3>1, NothingLeads
  <2>18. Known(r, undoSteps', redoSteps')
         BY <2>11, <2>16, <2>17 DEF Known, Lined
  <2>19. queues' = <<r>>
         BY <1>5, <2>6
  <2>20. Chained'
         BY <2>18, <2>19, OneChained
  <2> QED BY <1>4, <2>20
<1> QED BY <1>9, <1>10

\* What undoing the step s leaves of what it was made with.
BackAgain(s, r) ==
    Refetches /\ s.update # <<>> =>
        ~NothingToShow(r) /\ First(r).id = s.update[1].entry.id

\* Undoing a step that did something: it leads back, and forth again.
LEMMA UndoneLeads ==
    ASSUME NEW q \in Queues, NoneTwice(q), queues = <<q>>, NEW s, NEW u \in Updates,
           s.update = <<u>>, u.build = q.build, Left(s, q), Refetches => CountsRight(q),
           NEW b \in Contents, Goes(s, q.build, ContentOf(q), b, TRUE),
           queues' \in QueuesUndone(u)
    PROVE  \E r : /\ queues' = <<r>> /\ r \in Queues /\ r.build = q.build /\ ContentOf(r) = b
                  /\ Refetches => CountsRight(r)
                  /\ BackAgain(s, r)
<1>1. s.update # <<>> /\ s.update[1] = u
      OBVIOUS
<1>2. Linked(s, q.build, b, ContentOf(q))
      BY DEF Goes
<1>3. Answered(u, b, ContentOf(q)) /\ (Refetches => Honest(u, b, ContentOf(q)))
      BY <1>1, <1>2 DEF Linked
<1>4. u.entry.id \notin Ids(q.main) /\ (u.requeue = <<>> => u.entry.id \notin Ids(q.learning))
      BY <1>1 DEF Left, Concerns
<1>5. \E r : queues' = <<r>> /\ UndoLeft(r, q, u)
      BY <1>4, QueuesUndoneAre
<1>6. PICK r : queues' = <<r>> /\ UndoLeft(r, q, u)
      BY <1>5
<1>7. \E x : queues' = <<x>> /\ UndoneParts(x, q, u)
      BY UndoneIsParts
<1>8. UndoneParts(r, q, u)
  <2>1. PICK x : queues' = <<x>> /\ UndoneParts(x, q, u)
        BY <1>7
  <2>2. x = r
        BY <1>6, <2>1
  <2> QED BY <2>1, <2>2
<1>9. ContentOf(r) = b
      BY <1>3, <1>8, UndoneContent
<1>10. ASSUME Refetches
       PROVE  CountsRight(r) /\ ~NothingToShow(r) /\ First(r) = u.entry
  <2>1. NewAndReviewRight(q) /\ Honest(u, b, ContentOf(q))
        BY <1>3, <1>10 DEF CountsRight
  <2> QED BY <1>3, <1>4, <1>8, <2>1, UndoneRight
<1>11. BackAgain(s, r)
       BY <1>1, <1>10 DEF BackAgain
<1>12. r \in Queues /\ r.build = q.build
       BY <1>6 DEF UndoLeft
<1> QED BY <1>6, <1>9, <1>10, <1>11, <1>12

\* Redoing one: it is found on top, and leads on.
LEMMA RedoneLeads ==
    ASSUME NEW q \in Queues, NoneTwice(q), queues = <<q>>, NEW s, NEW u \in Updates,
           s.update = <<u>>, u.build = q.build, Refetches => CountsRight(q),
           NEW a \in Contents, Goes(s, q.build, ContentOf(q), a, FALSE),
           queues' \in QueuesRedone(u)
    PROVE  \E r : /\ queues' = <<r>> /\ r \in Queues /\ r.build = q.build /\ ContentOf(r) = a
                  /\ Refetches => CountsRight(r)
<1>1. s.update # <<>> /\ s.update[1] = u
      OBVIOUS
<1>2. Linked(s, q.build, ContentOf(q), a)
      BY DEF Goes
<1>3. Answered(u, ContentOf(q), a) /\ (Refetches => Honest(u, ContentOf(q), a))
      BY <1>1, <1>2 DEF Linked
<1>4. AtTop(q, u.entry.id)
      BY <1>3, FoundAgain
<1>5. \E x : queues' = <<x>> /\ AnswerLeft(x, q, u.entry.id, u.requeue)
                /\ x.cutoff = u.snapshot.cutoff
      BY <1>4, QueuesRedoneAre
<1>6. PICK r : queues' = <<r>> /\ AnswerLeft(r, q, u.entry.id, u.requeue)
      BY <1>5
<1>7. \E x : queues' = <<x>> /\ RedoneParts(x, q, u)
      BY <1>4, RedoneIsParts
<1>8. RedoneParts(r, q, u)
  <2>1. PICK x : queues' = <<x>> /\ RedoneParts(x, q, u)
        BY <1>7
  <2>2. x = r
        BY <1>6, <2>1
  <2> QED BY <2>1, <2>2
<1>9. ContentOf(r) = a
      BY <1>3, <1>8, RedoneContent
<1>10. ASSUME Refetches
       PROVE  CountsRight(r)
  <2>1. NewAndReviewRight(q) /\ Honest(u, ContentOf(q), a)
        BY <1>3, <1>10 DEF CountsRight
  <2> QED BY <1>3, <1>8, <2>1, RedoneRight
<1>11. r \in Queues /\ r.build = q.build
       BY <1>6 DEF AnswerLeft
<1> QED BY <1>6, <1>9, <1>10, <1>11

\* A step that is not of these queues leads nowhere else.
LEMMA ElsewhereGoes ==
    ASSUME NEW s, NEW q, ~Concerns(s, q), NEW x, NEW y, NEW back, Goes(s, q.build, x, y, back)
    PROVE  x = y
BY DEF Concerns, Goes, Linked

\* The step at the head, and what it leads to.
LEMMA HeadLeads ==
    ASSUME NEW T, NEW steps \in Seq(T), steps # <<>>, NEW build, NEW x, NEW back,
           LeadOn(steps, build, x, back)
    PROVE  \E y \in Contents : /\ Goes(Head(steps), build, x, y, back)
                               /\ LeadOn(Tail(steps), build, y, back)
<1>1. PICK s : s = Head(steps)
      OBVIOUS
<1>2. PICK rest : rest = Tail(steps)
      OBVIOUS
<1>3. IsPrepended(steps, s, rest)
      BY <1>1, <1>2, TailPrepended
<1>4. Len(steps) = Len(rest) + 1
      BY <1>2
<1>5. \E y \in Contents : Goes(s, build, x, y, back) /\ LeadOn(rest, build, y, back)
      BY <1>3, <1>4, LeadsOn
<1> QED BY <1>1, <1>2, <1>5

\* One more step before the others.
LEMMA MoreLeads ==
    ASSUME NEW T, NEW steps \in Seq(T), NEW s, NEW build, NEW x \in Contents, NEW y, NEW back,
           Goes(s, build, x, y, back), LeadOn(steps, build, y, back)
    PROVE  LeadOn(<<s>> \o steps, build, x, back)
<1>1. steps \in Seq(T \cup {s})
      BY SeqMonotonic
<1>2. PICK more : more = <<s>> \o steps
      OBVIOUS
<1>3. IsPrepended(more, s, steps) /\ Len(more) = Len(steps) + 1
      BY <1>1, <1>2, Prepended
<1>4. LeadOn(more, build, x, back)
      BY <1>3, LeadsToo
<1> QED BY <1>2, <1>4

\* Undoing leads one step back.
LEMMA UndoChained ==
    ASSUME IInv, Chained, Undo
    PROVE  /\ Chained' /\ ShownFirst'
           /\ \A r : queues' = <<r>> => BackAgain(Head(undoSteps), r)
<1>1. /\ undoSteps \in Seq(StepsUntil(builds, now)) /\ redoSteps \in Seq(StepsUntil(builds, now))
      BY DEF IInv, Types
<1>2. PICK s : s = Head(undoSteps)
      OBVIOUS
<1>3. PICK t : t = Reverted(s)
      OBVIOUS
<1>4. /\ undoSteps # <<>> /\ Replay(s, QueuesUndone(s.update[1]))
      /\ undoSteps' = Tail(undoSteps) /\ redoSteps' = <<t>> \o redoSteps /\ Refetch
      BY <1>2, <1>3 DEF Undo
<1>5. s \in StepsUntil(builds, now)
      BY <1>1, <1>2, <1>4
<1>6. t.update = s.update
      BY <1>3, <1>5, RevertedIsStep
<1>7. \/ queues' = <<>>
      \/ s.update = <<>> /\ queues' = queues
      \/ s.update # <<>> /\ SameBuild(s.update[1]) /\ queues' \in QueuesUndone(s.update[1])
      BY <1>4, <1>5, ReplayIs
<1>8. ShownFirst'
      BY <1>4, RefetchedShown
<1>9. ASSUME NEW q, queues = <<q>>, NEW r, queues' = <<r>>, r \in Queues, r.build = q.build,
             Refetches => CountsRight(r),
             NEW b \in Contents, Goes(s, q.build, ContentOf(q), b, TRUE),
             LeadOn(Tail(undoSteps), q.build, b, TRUE), ContentOf(r) = b
      PROVE  Chained'
  <2>1. Known(q, undoSteps, redoSteps) /\ q \in Queues
        BY <1>9 DEF Chained, IInv, Studying, Current
  <2>2. ContentOf(q) \in Contents
        BY <2>1, ContentsAre
  <2>3. Goes(s, q.build, b, ContentOf(q), FALSE)
        BY <1>9, GoesBack
  <2>4. Goes(t, q.build, b, ContentOf(q), FALSE)
        BY <1>6, <2>3, SameGoes
  <2>5. LeadOn(redoSteps, q.build, ContentOf(q), FALSE)
        BY <2>1 DEF Known, Lined
  <2>6. LeadOn(<<t>> \o redoSteps, q.build, b, FALSE)
        BY <1>1, <1>9, <2>4, <2>5, MoreLeads
  <2>7. Lined(r, undoSteps', redoSteps')
        BY <1>4, <1>9, <2>6 DEF Lined
  <2> QED BY <1>9, <2>7, OneChained DEF Known
<1>10. ASSUME NEW q, queues = <<q>>
       PROVE  \E b \in Contents : /\ Goes(s, q.build, ContentOf(q), b, TRUE)
                                  /\ LeadOn(Tail(undoSteps), q.build, b, TRUE)
  <2>1. LeadOn(undoSteps, q.build, ContentOf(q), TRUE)
        BY <1>10 DEF Chained, Known, Lined
  <2> QED BY <1>1, <1>2, <1>4, <2>1, HeadLeads
<1>11. CASE queues' = <<>>
  <2>1. Chained'
        BY <1>11, NoneChained
  <2>2. \A r : queues' # <<r>>
        BY <1>11
  <2> QED BY <1>8, <2>1, <2>2
<1>12. CASE queues' # <<>> /\ s.update = <<>> /\ queues' = queues
  <2>1. PICK q : queues = <<q>> /\ Current(q, undoSteps)
        BY <1>12 DEF IInv, Studying
  <2>2. PICK b \in Contents : /\ Goes(s, q.build, ContentOf(q), b, TRUE)
                              /\ LeadOn(Tail(undoSteps), q.build, b, TRUE)
        BY <1>10, <2>1
  <2>3. ContentOf(q) = b
        BY <1>12, <2>2, ElsewhereGoes DEF Concerns
  <2>4. q \in Queues /\ (Refetches => CountsRight(q)) /\ queues' = <<q>>
        BY <1>12, <2>1 DEF Chained, Known, Current
  <2>5. Chained'
        BY <1>9, <2>1, <2>2, <2>3, <2>4
  <2>6. \A r : BackAgain(s, r)
        BY <1>12 DEF BackAgain
  <2> QED BY <1>2, <1>8, <2>5, <2>6
<1>13. CASE s.update # <<>> /\ SameBuild(s.update[1]) /\ queues' \in QueuesUndone(s.update[1])
  <2>1. PICK u \in Updates : s.update = <<u>> /\ s.update[1] = u
        BY <1>5, <1>13, StepsAre
  <2>2. PICK q : queues = <<q>> /\ Current(q, undoSteps)
        BY <1>13 DEF IInv, Studying, SameBuild
  <2>3. q \in Queues /\ NoneTwice(q) /\ u.build = q.build /\ queues' \in QueuesUndone(u)
        /\ (Refetches => CountsRight(q))
        BY <1>13, <2>1, <2>2 DEF Current, SameBuild, Chained, Known
  <2>4. Left(s, q)
    <3>1. IsPrepended(undoSteps, s, Tail(undoSteps))
          BY <1>1, <1>2, <1>4, TailPrepended
    <3>2. Gone(undoSteps, q)
          BY <2>2 DEF Current
    <3> QED BY <3>1, <3>2, TailGone
  <2>5. PICK b \in Contents : /\ Goes(s, q.build, ContentOf(q), b, TRUE)
                              /\ LeadOn(Tail(undoSteps), q.build, b, TRUE)
        BY <1>10, <2>2
  <2>6. \E r : /\ queues' = <<r>> /\ r \in Queues /\ r.build = q.build /\ ContentOf(r) = b
               /\ Refetches => CountsRight(r)
               /\ BackAgain(s, r)
        BY <2>1, <2>2, <2>3, <2>4, <2>5, UndoneLeads
  <2>7. PICK r : /\ queues' = <<r>> /\ r \in Queues /\ r.build = q.build /\ ContentOf(r) = b
                 /\ Refetches => CountsRight(r)
                 /\ BackAgain(s, r)
        BY <2>6
  <2>8. Chained'
        BY <1>9, <2>2, <2>5, <2>7
  <2>9. \A x : queues' = <<x>> => x = r
        BY <2>7
  <2> QED BY <1>2, <1>8, <2>7, <2>8, <2>9
<1> QED BY <1>7, <1>11, <1>12, <1>13

\* Redoing finds its card, and leads one step on.
LEMMA RedoChained ==
    ASSUME IInv, Chained, Redo
    PROVE  Chained' /\ ShownFirst' /\ outcome' # "error"
<1>1. /\ undoSteps \in Seq(StepsUntil(builds, now)) /\ redoSteps \in Seq(StepsUntil(builds, now))
      BY DEF IInv, Types
<1>2. PICK s : s = Head(redoSteps)
      OBVIOUS
<1>3. PICK t : t = Reverted(s)
      OBVIOUS
<1>4. redoSteps # <<>> /\ Refetch
      BY DEF Redo
<1>5. s \in StepsUntil(builds, now)
      BY <1>1, <1>2, <1>4
<1>6. t.update = s.update
      BY <1>3, <1>5, RevertedIsStep
<1>7. ASSUME NEW q, queues = <<q>>
      PROVE  \E a \in Contents : /\ Goes(s, q.build, ContentOf(q), a, FALSE)
                                 /\ LeadOn(Tail(redoSteps), q.build, a, FALSE)
  <2>1. LeadOn(redoSteps, q.build, ContentOf(q), FALSE)
        BY <1>7 DEF Chained, Known, Lined
  <2> QED BY <1>1, <1>2, <1>4, <2>1, HeadLeads
<1>8. ~RedoRefused(s)
  <2> SUFFICES ASSUME s.update # <<>>, SameBuild(s.update[1])
               PROVE  AtTop(queues[1], s.update[1].entry.id)
      BY DEF RedoRefused
  <2>1. PICK u \in Updates : s.update = <<u>> /\ s.update[1] = u
        BY <1>5, StepsAre
  <2>2. PICK q : queues = <<q>> /\ Current(q, undoSteps)
        BY DEF IInv, Studying, SameBuild
  <2>3. q \in Queues /\ NoneTwice(q) /\ queues[1] = q /\ u.build = q.build
        BY <2>1, <2>2 DEF Current, SameBuild
  <2>4. PICK a \in Contents : Goes(s, q.build, ContentOf(q), a, FALSE)
        BY <1>7, <2>2
  <2>5. Answered(u, ContentOf(q), a)
        BY <2>1, <2>3, <2>4 DEF Goes, Linked
  <2>6. AtTop(q, u.entry.id)
        BY <2>3, <2>5, FoundAgain
  <2> QED BY <2>1, <2>3, <2>6
<1>9. /\ Replay(s, QueuesRedone(s.update[1]))
      /\ undoSteps' = <<t>> \o undoSteps /\ redoSteps' = Tail(redoSteps)
      BY <1>2, <1>3, <1>8 DEF Redo
<1>10. /\ outcome' = "ok"
       /\ \/ queues' = <<>>
          \/ s.update = <<>> /\ queues' = queues
          \/ s.update # <<>> /\ SameBuild(s.update[1]) /\ queues' \in QueuesRedone(s.update[1])
      BY <1>5, <1>9, ReplayIs
<1>11. ShownFirst'
       BY <1>4, RefetchedShown
<1>12. ASSUME NEW q, queues = <<q>>, NEW r, queues' = <<r>>, r \in Queues, r.build = q.build,
              Refetches => CountsRight(r),
              NEW a \in Contents, Goes(s, q.build, ContentOf(q), a, FALSE),
              LeadOn(Tail(redoSteps), q.build, a, FALSE), ContentOf(r) = a
       PROVE  Chained'
  <2>1. Known(q, undoSteps, redoSteps)
        BY <1>12 DEF Chained
  <2>2. Goes(s, q.build, a, ContentOf(q), TRUE)
        BY <1>12, GoesForth
  <2>3. Goes(t, q.build, a, ContentOf(q), TRUE)
        BY <1>6, <2>2, SameGoes
  <2>4. LeadOn(undoSteps, q.build, ContentOf(q), TRUE)
        BY <2>1 DEF Known, Lined
  <2>5. LeadOn(<<t>> \o undoSteps, q.build, a, TRUE)
        BY <1>1, <1>12, <2>3, <2>4, MoreLeads
  <2>6. Lined(r, undoSteps', redoSteps')
        BY <1>9, <1>12, <2>5 DEF Lined
  <2> QED BY <1>12, <2>6, OneChained DEF Known
<1>13. CASE queues' = <<>>
  <2>1. Chained'
        BY <1>13, NoneChained
  <2> QED BY <1>10, <1>11, <2>1
<1>14. CASE queues' # <<>> /\ s.update = <<>> /\ queues' = queues
  <2>1. PICK q : queues = <<q>> /\ Current(q, undoSteps)
        BY <1>14 DEF IInv, Studying
  <2>2. PICK a \in Contents : /\ Goes(s, q.build, ContentOf(q), a, FALSE)
                              /\ LeadOn(Tail(redoSteps), q.build, a, FALSE)
        BY <1>7, <2>1
  <2>3. ContentOf(q) = a
        BY <1>14, <2>2, ElsewhereGoes DEF Concerns
  <2>4. q \in Queues /\ (Refetches => CountsRight(q)) /\ queues' = <<q>>
        BY <1>14, <2>1 DEF Chained, Known, Current
  <2>5. Chained'
        BY <1>12, <2>1, <2>2, <2>3, <2>4
  <2> QED BY <1>10, <1>11, <2>5
<1>15. CASE s.update # <<>> /\ SameBuild(s.update[1]) /\ queues' \in QueuesRedone(s.update[1])
  <2>1. PICK u \in Updates : s.update = <<u>> /\ s.update[1] = u
        BY <1>5, <1>15, StepsAre
  <2>2. PICK q : queues = <<q>> /\ Current(q, undoSteps)
        BY <1>15 DEF IInv, Studying, SameBuild
  <2>3. q \in Queues /\ NoneTwice(q) /\ u.build = q.build /\ queues' \in QueuesRedone(u)
        /\ (Refetches => CountsRight(q))
        BY <1>15, <2>1, <2>2 DEF Current, SameBuild, Chained, Known
  <2>4. PICK a \in Contents : /\ Goes(s, q.build, ContentOf(q), a, FALSE)
                              /\ LeadOn(Tail(redoSteps), q.build, a, FALSE)
        BY <1>7, <2>2
  <2>5. \E r : /\ queues' = <<r>> /\ r \in Queues /\ r.build = q.build /\ ContentOf(r) = a
               /\ Refetches => CountsRight(r)
        BY <2>1, <2>2, <2>3, <2>4, RedoneLeads
  <2>6. PICK r : /\ queues' = <<r>> /\ r \in Queues /\ r.build = q.build /\ ContentOf(r) = a
                 /\ Refetches => CountsRight(r)
        BY <2>5
  <2>7. Chained'
        BY <1>12, <2>2, <2>4, <2>6
  <2> QED BY <1>10, <1>11, <2>7
<1> QED BY <1>10, <1>13, <1>14, <1>15

-----------------------------------------------------------------------------
(* The counts, undo and redo.                                               *)

\* What holds of the queues, of the steps and of what is shown.
Study == IInv /\ Chained /\ ShownFirst

\* It holds at the start, ...
LEMMA InitStudy == Init => Study
<1> SUFFICES ASSUME Init PROVE Study
    OBVIOUS
<1>1. queues = <<>> /\ shown = <<>>
      BY DEF Init
<1> QED BY <1>1, InitIInv DEF Study, Chained, ShownFirst

\* ... when queues are thrown away and nothing is shown any longer, ...
LEMMA ThrownAwayChained ==
    ASSUME RefuseAnswer \/ UndoOnNewDay \/ RedoOnNewDay
           \/ \E c \in Cards, hidden \in {"suspended", "no"} : SetHidden(c, hidden)
    PROVE  Chained' /\ ShownFirst'
<1>1. CASE RefuseAnswer
  <2>1. queues' = <<>> /\ shown' = <<>>
        BY <1>1 DEF RefuseAnswer, Failed
  <2> QED BY <2>1, NoneChained, NoneShown
<1>2. CASE UndoOnNewDay \/ RedoOnNewDay
  <2>1. queues' = <<>> /\ outcome' = "panic"
        BY <1>2 DEF UndoOnNewDay, RedoOnNewDay, Panic
  <2> QED BY <2>1, NoneChained, NoneShown
<1>3. CASE \E c \in Cards, hidden \in {"suspended", "no"} : SetHidden(c, hidden)
  <2>1. queues' = <<>> /\ Refetch
        BY <1>3 DEF SetHidden
  <2> QED BY <2>1, NoneChained, RefetchedShown
<1> QED BY <1>1, <1>2, <1>3

\* ... and when they stay as they are.
LEMMA StaysChained ==
    ASSUME Chained, ShownFirst, queues' = queues, undoSteps' = undoSteps, redoSteps' = redoSteps,
           shown' = shown, outcome' = outcome
    PROVE  Chained' /\ ShownFirst'
BY DEF Chained, ShownFirst

\* So every step keeps it.
LEMMA NextStudy == Study /\ [Next]_vars => Study'
<1> SUFFICES ASSUME Study, [Next]_vars PROVE Study'
    OBVIOUS
<1>1. IInv /\ Chained /\ ShownFirst
      BY DEF Study
<1>2. IInv'
      BY <1>1, NextIInv
<1>3. Chained' /\ ShownFirst'
  <2>1. CASE FetchOnNewDay
        BY <1>1, <2>1, FetchOnNewDayChained
  <2>2. CASE FetchAndBuild
        BY <1>1, <2>2, FetchAndBuildChained
  <2>3. CASE FetchNext
        BY <1>1, <2>3, FetchNextChained
  <2>4. CASE outcome # "panic" /\ Answer
        BY <1>1, <2>4, AnswerChained
  <2>5. CASE \/ RefuseAnswer \/ UndoOnNewDay \/ RedoOnNewDay
             \/ \E c \in Cards, hidden \in {"suspended", "no"} : SetHidden(c, hidden)
        BY <2>5, ThrownAwayChained
  <2>6. CASE Undo
        BY <1>1, <2>6, UndoChained
  <2>7. CASE Redo
        BY <1>1, <2>7, RedoChained
  <2>8. CASE Tick
    <3>1. /\ queues' = queues /\ undoSteps' = undoSteps /\ redoSteps' = redoSteps
          /\ shown' = shown /\ outcome' = outcome
          BY <2>8 DEF Tick
    <3> QED BY <1>1, <3>1, StaysChained
  <2>9. CASE UNCHANGED vars
    <3>1. /\ queues' = queues /\ undoSteps' = undoSteps /\ redoSteps' = redoSteps
          /\ shown' = shown /\ outcome' = outcome
          BY <2>9 DEF vars
    <3> QED BY <1>1, <3>1, StaysChained
  <2> QED BY <2>1, <2>2, <2>3, <2>4, <2>5, <2>6, <2>7, <2>8, <2>9 DEF Next
<1> QED BY <1>2, <1>3 DEF Study

\* What was answered and undone can be redone: the card is found on top.
THEOREM RedoAlwaysFound == Spec => RedoIsNotRefused
<1>1. Study /\ [Next]_vars => [Redo => outcome' # "error"]_vars
  <2> SUFFICES ASSUME Study, Redo PROVE outcome' # "error"
      OBVIOUS
  <2> QED BY RedoChained DEF Study
<1> QED BY InitStudy, NextStudy, <1>1, PTL DEF Spec, RedoIsNotRefused

\* The counts are right, if the reviewer answers the card that was fetched last.
THEOREM CountsAreRight ==
    ASSUME Refetches
    PROVE  Spec => []CountsMatch
<1>1. Study => CountsMatch
  <2> SUFFICES ASSUME Study PROVE CountsMatch
      OBVIOUS
  <2>1. IInv /\ Chained
        BY DEF Study
  <2>2. CASE queues = <<>>
        BY <2>2 DEF CountsMatch
  <2>3. CASE queues # <<>>
    <3>1. PICK q : queues = <<q>> /\ Current(q, undoSteps)
          BY <2>1, <2>3 DEF IInv, Studying
    <3>2. q \in Queues /\ NoneTwice(q) /\ CountsRight(q)
          BY <2>1, <3>1 DEF Current, Chained, Known
    <3> QED BY <3>1, <3>2, RightIsMatch
  <2> QED BY <2>2, <2>3
<1> QED BY InitStudy, NextStudy, <1>1, PTL DEF Spec

\* And undoing an answer presents its card again, first of all.
THEOREM UndoneComesFirst ==
    ASSUME Refetches
    PROVE  Spec => UndoShowsCardAgain
<1>1. Study /\ [Next]_vars =>
        [\A i \in DOMAIN queues' :
            (Undo /\ undoSteps[1].update # <<>>) =>
                /\ ~NothingToShow(queues'[i])
                /\ First(queues'[i]).id = undoSteps[1].update[1].entry.id]_vars
  <2> SUFFICES ASSUME Study, [Next]_vars, NEW i \in DOMAIN queues', Undo, undoSteps[1].update # <<>>
               PROVE  /\ ~NothingToShow(queues'[i])
                      /\ First(queues'[i]).id = undoSteps[1].update[1].entry.id
      OBVIOUS
  <2>1. IInv /\ Chained /\ IInv'
        BY NextStudy DEF Study
  <2>2. PICK r : queues' = <<r>>
        BY <2>1 DEF IInv, Studying
  <2>3. queues'[i] = r
        BY <2>2
  <2>4. BackAgain(Head(undoSteps), r)
        BY <2>1, <2>2, UndoChained
  <2>5. Head(undoSteps) = undoSteps[1]
    <3>1. undoSteps \in Seq(StepsUntil(builds, now)) /\ undoSteps # <<>>
          BY <2>1 DEF IInv, Types, Undo
    <3> QED BY <3>1
  <2> QED BY <2>3, <2>4, <2>5 DEF BackAgain
<1> QED BY InitStudy, NextStudy, <1>1, PTL DEF Spec, UndoShowsCardAgain

-----------------------------------------------------------------------------
(* The queues together with the cards table.                                *)

\* The content of the queues with the cards table and the deck options.
Points == [content : Contents, table : [Cards -> Row], options : Presets]

Held(content) == Ids(content.main) \cup {e.id : e \in content.learning}

\* The entries have the mtimes of their cards, and no answer to one of these
\* cards buries another one.
Sound(point) ==
    /\ \A e \in ToSet(point.content.main) : point.table[e.id].mtime = e.mtime
    /\ \A e \in point.content.learning :
            point.table[e.id].mtime = e.mtime /\ point.table[e.id].queue = "Learn"
    /\ \A c \in Held(point.content), e \in ToSet(point.content.main) :
            e.id \in Siblings(c) => point.table[e.id].queue \notin point.options[c]

\* Undoing, or redoing, a step of these queues leads to such a point.
Passes(step, build, from, to, back) ==
    step.update # <<>> /\ step.update[1].build = build =>
        /\ IF back THEN Answered(step.update[1], to.content, from.content)
                   ELSE Answered(step.update[1], from.content, to.content)
        /\ to.table = Written(step.rows, from.table)
        /\ to.options = from.options
        /\ Sound(to)

Road(path, steps, build, point, back) ==
    /\ DOMAIN path = 1..(Len(steps) + 1)
    /\ path[1] = point
    /\ \A i \in DOMAIN steps : Passes(steps[i], build, path[i], path[i + 1], back)

RoadFrom(steps, build, point, back) ==
    \E path \in Seq(Points) : Road(path, steps, build, point, back)

\* The step at the head, and the point it leads to.
LEMMA HeadPasses ==
    ASSUME NEW T, NEW steps \in Seq(T), steps # <<>>, NEW build, NEW x, NEW back,
           RoadFrom(steps, build, x, back)
    PROVE  \E y \in Points : /\ Passes(Head(steps), build, x, y, back)
                             /\ RoadFrom(Tail(steps), build, y, back)
<1>1. PICK path \in Seq(Points) : Road(path, steps, build, x, back)
      BY DEF RoadFrom
<1>2. PICK s : s = Head(steps)
      OBVIOUS
<1>3. PICK rest : rest = Tail(steps)
      OBVIOUS
<1>4. /\ Len(rest) \in Nat /\ DOMAIN rest = 1..Len(rest) /\ DOMAIN steps = 1..(Len(rest) + 1)
      /\ steps[1] = s /\ \A i \in 1..Len(rest) : steps[i + 1] = rest[i]
  <2>1. IsPrepended(steps, s, rest)
        BY <1>2, <1>3, TailPrepended
  <2> QED BY <2>1 DEF IsPrepended
<1>5. /\ DOMAIN path = 1..(Len(rest) + 2) /\ path[1] = x
      /\ \A i \in 1..(Len(rest) + 1) : Passes(steps[i], build, path[i], path[i + 1], back)
  <2>1. Len(steps) = Len(rest) + 1
        BY <1>4
  <2> QED BY <1>1, <1>4, <2>1 DEF Road
<1>6. Len(path) = Len(rest) + 2 /\ path # <<>>
      BY <1>4, <1>5
<1> DEFINE p == Tail(path)
<1>7. p \in Seq(Points) /\ DOMAIN p = 1..(Len(rest) + 1) /\ \A i \in 1..(Len(rest) + 1) : p[i] = path[i + 1]
      BY <1>4, <1>6
<1> HIDE DEF p
<1>8. path[2] \in Points /\ p[1] = path[2]
      BY <1>4, <1>5, <1>7
<1>9. Passes(s, build, x, path[2], back)
  <2>1. 1 \in 1..(Len(rest) + 1) /\ 1 + 1 = 2
        BY <1>4
  <2>2. Passes(steps[1], build, path[1], path[1 + 1], back)
        BY <1>5, <2>1
  <2> QED BY <1>4, <1>5, <2>1, <2>2
<1>10. ASSUME NEW i \in 1..Len(rest)
       PROVE  Passes(rest[i], build, p[i], p[i + 1], back)
  <2>1. i \in 1..(Len(rest) + 1) /\ i + 1 \in 1..(Len(rest) + 1)
        BY <1>4
  <2>2. Passes(steps[i + 1], build, path[i + 1], path[(i + 1) + 1], back)
        BY <1>5, <2>1
  <2>3. steps[i + 1] = rest[i] /\ p[i] = path[i + 1] /\ p[i + 1] = path[(i + 1) + 1]
        BY <1>4, <1>7, <2>1
  <2> QED BY <2>2, <2>3
<1>11. Road(p, rest, build, path[2], back)
       BY <1>4, <1>7, <1>8, <1>10 DEF Road
<1> QED BY <1>2, <1>3, <1>7, <1>8, <1>9, <1>11 DEF RoadFrom

\* One more step before the others.
LEMMA MorePasses ==
    ASSUME NEW T, NEW rest \in Seq(T), NEW s, NEW build, NEW x \in Points, NEW y, NEW back,
           Passes(s, build, x, y, back), RoadFrom(rest, build, y, back)
    PROVE  RoadFrom(<<s>> \o rest, build, x, back)
<1>1. PICK path \in Seq(Points) : Road(path, rest, build, y, back)
      BY DEF RoadFrom
<1>2. PICK steps : steps = <<s>> \o rest
      OBVIOUS
<1>3. IsPrepended(steps, s, rest) /\ Len(steps) = Len(rest) + 1
  <2>1. rest \in Seq(T \cup {s})
        BY SeqMonotonic
  <2> QED BY <1>2, <2>1, Prepended
<1>4. /\ Len(rest) \in Nat /\ DOMAIN rest = 1..Len(rest) /\ DOMAIN steps = 1..(Len(rest) + 1)
      BY <1>3 DEF IsPrepended
<1>5. /\ DOMAIN path = 1..(Len(rest) + 1) /\ path[1] = y
      /\ \A i \in DOMAIN rest : Passes(rest[i], build, path[i], path[i + 1], back)
      BY <1>1 DEF Road
<1>6. Len(path) = Len(rest) + 1
      BY <1>4, <1>5
<1>7. PICK p : p = <<x>> \o path
      OBVIOUS
<1>8. IsPrepended(p, x, path) /\ p \in Seq(Points)
      BY <1>7, Prepended
<1>9. DOMAIN p = 1..(Len(rest) + 2) /\ p[1] = x /\ \A i \in 1..(Len(rest) + 1) : p[i + 1] = path[i]
      BY <1>4, <1>6, <1>8 DEF IsPrepended
<1>10. ASSUME NEW i \in DOMAIN steps
       PROVE  Passes(steps[i], build, p[i], p[i + 1], back)
  <2>1. IsEither(i, steps, s, rest)
        BY <1>3, PrependedIndices
  <2>2. CASE i = 1 /\ steps[i] = s
    <3>1. 1 \in 1..(Len(rest) + 1)
          BY <1>4
    <3>2. p[i] = x /\ p[i + 1] = y
          BY <1>5, <1>9, <2>2, <3>1
    <3> QED BY <2>2, <3>2
  <2>3. CASE i > 1 /\ i - 1 \in DOMAIN rest /\ steps[i] = rest[i - 1]
    <3>1. (i - 1) + 1 = i /\ i - 1 \in 1..(Len(rest) + 1) /\ i \in 1..(Len(rest) + 1)
          BY <1>4, <2>3
    <3>2. p[i] = path[i - 1] /\ p[i + 1] = path[(i - 1) + 1]
          BY <1>9, <3>1
    <3>3. Passes(rest[i - 1], build, path[i - 1], path[(i - 1) + 1], back)
          BY <1>5, <2>3
    <3> QED BY <2>3, <3>2, <3>3
  <2> QED BY <2>1, <2>2, <2>3 DEF IsEither
<1>11. DOMAIN p = 1..(Len(steps) + 1)
       BY <1>3, <1>4, <1>9
<1> QED BY <1>2, <1>8, <1>9, <1>10, <1>11 DEF Road, RoadFrom

\* Steps of other queues lead anywhere.
LEMMA OthersPass ==
    ASSUME NEW S, NEW steps \in Seq(S), NEW q,
           \A i \in DOMAIN steps : ~Concerns(steps[i], q), NEW x \in Points, NEW back
    PROVE  RoadFrom(steps, q.build, x, back)
<1> DEFINE path == [i \in 1..(Len(steps) + 1) |-> x]
<1>1. Len(steps) \in Nat /\ DOMAIN steps = 1..Len(steps)
      OBVIOUS
<1>2. path \in Seq(Points)
      BY <1>1
<1>3. DOMAIN path = 1..(Len(steps) + 1) /\ path[1] = x
      BY <1>1
<1> HIDE DEF path
<1>4. ASSUME NEW i \in DOMAIN steps
      PROVE  Passes(steps[i], q.build, path[i], path[i + 1], back)
      BY DEF Passes, Concerns
<1> QED BY <1>2, <1>3, <1>4 DEF Road, RoadFrom

\* What a step has written is what its reverse overwrites.
LEMMA WrittenBack ==
    ASSUME NEW table \in [Cards -> Row], NEW changed, DOMAIN changed \subseteq Cards,
           NEW after, after = Written(changed, table),
           NEW old, old = [c \in DOMAIN changed |-> table[c]]
    PROVE  table = Written(old, after)
<1>1. \A c \in Cards : c \notin DOMAIN changed => after[c] = table[c]
      BY DEF Written
<1>2. DOMAIN old = DOMAIN changed /\ \A c \in DOMAIN changed : old[c] = table[c]
      OBVIOUS
<1>3. Written(old, after) = [c \in Cards |-> table[c]]
      BY <1>1, <1>2 DEF Written
<1> QED BY <1>3

\* The reverse of a step leads back.
LEMMA ReversePasses ==
    ASSUME NEW s, s.rows \in SomeRows, NEW build, NEW x \in Points, NEW y, NEW back \in BOOLEAN,
           Passes(s, build, x, y, back), Sound(x),
           NEW t, t.update = s.update, t.rows = [c \in DOMAIN s.rows |-> x.table[c]]
    PROVE  Passes(t, build, y, x, ~back)
<1> SUFFICES ASSUME t.update # <<>>, t.update[1].build = build
             PROVE  /\ IF ~back THEN Answered(t.update[1], x.content, y.content)
                               ELSE Answered(t.update[1], y.content, x.content)
                    /\ x.table = Written(t.rows, y.table)
                    /\ x.options = y.options
                    /\ Sound(x)
    BY DEF Passes
<1>1. /\ IF back THEN Answered(s.update[1], y.content, x.content)
                 ELSE Answered(s.update[1], x.content, y.content)
      /\ y.table = Written(s.rows, x.table)
      /\ y.options = x.options
      BY DEF Passes
<1>2. x.table \in [Cards -> Row] /\ DOMAIN s.rows \subseteq Cards
      BY DEF Points, SomeRows
<1>3. x.table = Written(t.rows, y.table)
      BY <1>1, <1>2, WrittenBack
<1> QED BY <1>1, <1>3

-----------------------------------------------------------------------------
(* What is gathered is never buried by what is gathered.                    *)

\* The queues are gathered one after the other.
LEMMA OrdersAreSorted ==
    ASSUME NEW table, NEW order \in GatherOrders(table)
    PROVE  /\ order \in Seq({c \in Cards : IsDue(table[c])})
           /\ \A i, j \in DOMAIN order :
                i < j => GatherOrd(table[order[i]].queue) <= GatherOrd(table[order[j]].queue)
<1>1. IsFiniteSet({c \in Cards : IsDue(table[c])})
      BY StudyAssumption, FS_Subset
<1>2. order \in SetToSeqs({c \in Cards : IsDue(table[c])})
      BY DEF GatherOrders
<1>3. order \in Seq({c \in Cards : IsDue(table[c])})
      BY <1>1, <1>2, SetToSeqsAre
<1>4. \A i, j \in 1..Len(order) :
            i < j => GatherOrd(table[order[i]].queue) <= GatherOrd(table[order[j]].queue)
      BY DEF GatherOrders, IsSorted
<1> QED BY <1>3, <1>4

\* No card that was gathered has options to bury a sibling that was gathered too.
LEMMA GatheredSpared ==
    ASSUME OptionsAgree, preset \in Presets, NEW table \in [Cards -> Row],
           NEW order \in GatherOrders(table), NEW c \in Gathered(table, order),
           NEW s \in Gathered(table, order), s \in Siblings(c), table[s].queue # "Learn"
    PROVE  table[s].queue \notin preset[c]
<1>1. /\ order \in Seq({x \in Cards : IsDue(table[x])})
      /\ \A i, j \in DOMAIN order :
            i < j => GatherOrd(table[order[i]].queue) <= GatherOrd(table[order[j]].queue)
      BY OrdersAreSorted
<1>2. PICK i \in DOMAIN order :
        /\ c = order[i]
        /\ \/ table[c].queue = "Learn"
           \/ \A k \in 1..(i - 1) : order[k] \in Siblings(c) => table[c].queue \notin preset[order[k]]
      BY DEF Gathered
<1>3. PICK j \in DOMAIN order :
        /\ s = order[j]
        /\ \A k \in 1..(j - 1) : order[k] \in Siblings(s) => table[s].queue \notin preset[order[k]]
      BY DEF Gathered
<1>4. /\ c \in Cards /\ s \in Cards /\ IsDue(table[c]) /\ IsDue(table[s])
      BY <1>1, <1>2, <1>3
<1>5. c \in Siblings(s) /\ s # c
      BY <1>4 DEF Siblings
<1>6. i \in Nat /\ j \in Nat /\ i >= 1 /\ j >= 1 /\ i # j
      BY <1>1, <1>2, <1>3, <1>5
<1>7. CASE i < j
  <2>1. i \in 1..(j - 1)
        BY <1>6, <1>7
  <2> QED BY <1>2, <1>3, <1>5, <2>1
<1>8. CASE j < i
  <2>1. j \in 1..(i - 1)
        BY <1>6, <1>8
  <2>2. GatherOrd(table[s].queue) <= GatherOrd(table[c].queue)
        BY <1>1, <1>2, <1>3, <1>8
  <2>3. table[s].queue \in {"New", "DayLearn", "Review"} /\ table[c].queue \in {"New", "Learn", "DayLearn", "Review"}
        BY <1>4 DEF IsDue
  <2>4. table[c].queue # "Learn"
        BY <2>2, <2>3 DEF GatherOrd
  <2>5. table[c].queue \notin preset[s]
        BY <1>2, <1>3, <2>1, <2>4
  <2>6. \A k \in preset[c] : {x \in {"New", "DayLearn", "Review"} : GatherOrd(k) <= GatherOrd(x)} \subseteq preset[s]
        BY <1>4 DEF OptionsAgree
  <2> QED BY <2>2, <2>3, <2>4, <2>5, <2>6
<1> QED BY <1>6, <1>7, <1>8

\* New queues are sound.
LEMMA BuiltSound ==
    ASSUME OptionsAgree, preset \in Presets, NEW table \in [Cards -> Row], now \in Nat, builds \in Nat,
           NEW q \in Built(table), NEW point,
           point = [content |-> ContentOf(q), table |-> table, options |-> preset]
    PROVE  Sound(point)
<1>1. PICK order \in GatherOrders(table) : q \in BuiltFrom(table, Gathered(table, order))
      BY DEF Built
<1>2. PICK G : G = Gathered(table, order)
      OBVIOUS
<1>3. \A c \in G : c \in Cards /\ IsDue(table[c])
      BY <1>2, OrdersAre
<1>4. G \in SUBSET Cards
      BY <1>3
<1>5. PICK M : M = MainEntries(table, G)
      OBVIOUS
<1>6. PICK L : L = LearningEntries(table, G)
      OBVIOUS
<1>7. PICK main \in SetToSeqs(M), learning \in LearningOrders(L) : q = NewQueues(main, learning)
      BY <1>1, <1>2, <1>5, <1>6 DEF BuiltFrom
<1>8. learning \in SetToSeqs(L)
      BY <1>7 DEF LearningOrders
<1>9. IsFiniteSet(M) /\ IsFiniteSet(L)
      BY <1>4, <1>5, <1>6, EntriesAreFinite
<1>10. main \in Seq(M)
       BY <1>7, <1>9, SetToSeqsAre
<1>11. learning \in Seq(L)
       BY <1>8, <1>9, SetToSeqsAre
<1>12. q.main = main /\ q.learning = learning
       BY <1>7 DEF NewQueues
<1>13. point.content = ContentOf(q) /\ point.table = table /\ point.options = preset
       OBVIOUS
<1>14. point.content.main = main /\ point.content.learning = ToSet(learning)
       BY <1>12, <1>13 DEF ContentOf
<1>15. ToSet(main) \subseteq M /\ ToSet(learning) \subseteq L
       BY <1>10, <1>11 DEF ToSet
<1>16. \A e \in M : e.id \in G /\ table[e.id].mtime = e.mtime /\ table[e.id].queue # "Learn"
       BY <1>5 DEF MainEntries, MainEntry
<1>17. \A e \in L : e.id \in G /\ table[e.id].mtime = e.mtime /\ table[e.id].queue = "Learn"
       BY <1>6 DEF LearningEntries, LearningEntry
<1>18. Held(point.content) \subseteq G
  <2>1. Ids(main) \subseteq G
        BY <1>10, <1>16 DEF Ids
  <2>2. \A e \in ToSet(learning) : e.id \in G
        BY <1>15, <1>17
  <2> QED BY <1>14, <2>1, <2>2 DEF Held
<1>19. ASSUME NEW c \in Held(point.content), NEW e \in ToSet(main), e.id \in Siblings(c)
       PROVE  table[e.id].queue \notin preset[c]
  <2>1. c \in G /\ e.id \in G /\ table[e.id].queue # "Learn"
        BY <1>15, <1>16, <1>18
  <2> QED BY <1>2, <1>19, <2>1, GatheredSpared
<1> QED BY <1>13, <1>14, <1>15, <1>16, <1>17, <1>19 DEF Sound

-----------------------------------------------------------------------------
(* What an answer does to the cards.                                        *)

\* The card that was answered was in the queues.
LEMMA AnsweredHeld ==
    ASSUME NEW q \in Queues, NEW r \in Queues, NEW u, Answered(u, ContentOf(q), ContentOf(r))
    PROVE  u.entry.id \in Held(ContentOf(q))
<1>1. /\ ContentOf(q).main = q.main /\ ContentOf(q).learning = ToSet(q.learning)
      /\ ContentOf(r).main = r.main
      BY DEF ContentOf
<1>2. CASE u.entry \in LearningQueueEntry
  <2>1. u.entry \in ContentOf(q).learning
        BY <1>2 DEF Answered
  <2> QED BY <2>1 DEF Held
<1>3. CASE u.entry \notin LearningQueueEntry
  <2>1. r.main \in Seq(MainQueueEntry) /\ q.main = <<u.entry>> \o r.main
        BY <1>1, <1>3 DEF Queues, Answered
  <2>2. r.main \in Seq(MainQueueEntry \cup {u.entry})
        BY <2>1, SeqMonotonic
  <2>3. IsPrepended(q.main, u.entry, r.main)
        BY <2>1, <2>2, Prepended
  <2>4. 1 \in DOMAIN q.main /\ q.main[1] = u.entry
        BY <2>1, <2>3 DEF IsPrepended
  <2>5. u.entry.id \in Ids(q.main)
        BY <2>4 DEF Ids
  <2> QED BY <1>1, <2>5 DEF Held
<1> QED BY <1>2, <1>3

\* An answer leaves entries that were there, and the answered card's own.
LEMMA AnsweredKeeps ==
    ASSUME NEW q \in Queues, NEW r \in Queues, NEW u \in Updates,
           AnswerLeft(r, q, u.entry.id, u.requeue), Answered(u, ContentOf(q), ContentOf(r))
    PROVE  /\ \A e \in ToSet(r.main) : e \in ToSet(q.main) /\ e.id # u.entry.id
           /\ \A e \in ToSet(r.learning) :
                \/ e \in ToSet(q.learning) /\ e.id # u.entry.id
                \/ u.requeue # <<>> /\ e = u.requeue[1] /\ e.id = u.entry.id
           /\ Held(ContentOf(r)) \subseteq Held(ContentOf(q))
<1>1. /\ ContentOf(q).main = q.main /\ ContentOf(q).learning = ToSet(q.learning)
      /\ ContentOf(r).main = r.main /\ ContentOf(r).learning = ToSet(r.learning)
      BY DEF ContentOf
<1>2. /\ NoneTwice(r)
      /\ Ids(r.main) = Ids(q.main) \ {u.entry.id}
      /\ Ids(r.learning) = (Ids(q.learning) \ {u.entry.id})
                                \cup (IF u.requeue = <<>> THEN {} ELSE {u.entry.id})
      BY DEF AnswerLeft
<1>3. u.requeue # <<>> => u.requeue[1].id = u.entry.id
      BY DEF Updates
<1>4. /\ Requeued(u) \subseteq ToSet(r.learning)
      /\ ToSet(r.learning) \subseteq ToSet(q.learning) \cup Requeued(u)
      /\ u.entry \in LearningQueueEntry => u.entry \in ToSet(q.learning) /\ q.main = r.main
      /\ u.entry \notin LearningQueueEntry => q.main = <<u.entry>> \o r.main
      BY <1>1 DEF Answered
<1>5. ToSet(r.main) \subseteq ToSet(q.main)
  <2>1. CASE u.entry \in LearningQueueEntry
        BY <1>4, <2>1
  <2>2. CASE u.entry \notin LearningQueueEntry
    <3>1. q.main \in Seq(MainQueueEntry) /\ r.main \in Seq(MainQueueEntry) /\ q.main = <<u.entry>> \o r.main
          BY <1>4, <2>2 DEF Queues
    <3>2. r.main \in Seq(MainQueueEntry \cup {u.entry})
          BY <3>1, SeqMonotonic
    <3>3. IsPrepended(q.main, u.entry, r.main)
          BY <3>1, <3>2, Prepended
    <3>4. \A i \in DOMAIN r.main : i + 1 \in DOMAIN q.main /\ q.main[i + 1] = r.main[i]
          BY <3>1, <3>3 DEF IsPrepended
    <3> QED BY <3>4 DEF ToSet
  <2> QED BY <2>1, <2>2
<1>6. u.entry.id \in Held(ContentOf(q))
      BY AnsweredHeld
<1>7. \A e \in ToSet(r.main) : e.id # u.entry.id
      BY <1>2, IdsOfSet
<1>8. ASSUME NEW e \in ToSet(r.learning)
      PROVE  \/ e \in ToSet(q.learning) /\ e.id # u.entry.id
             \/ u.requeue # <<>> /\ e = u.requeue[1] /\ e.id = u.entry.id
  <2>1. CASE e.id # u.entry.id
        BY <1>3, <1>4, <2>1 DEF Requeued
  <2>2. CASE e.id = u.entry.id
    <3>1. u.requeue # <<>>
          BY <1>2, <2>2, IdsOfSet
    <3>2. u.requeue[1] \in ToSet(r.learning)
          BY <1>4, <3>1 DEF Requeued
    <3>3. PICK i \in DOMAIN r.learning : r.learning[i] = e
          BY DEF ToSet
    <3>4. PICK j \in DOMAIN r.learning : r.learning[j] = u.requeue[1]
          BY <3>2 DEF ToSet
    <3>5. i = j
          BY <1>2, <1>3, <2>2, <3>1, <3>3, <3>4 DEF NoneTwice, Once
    <3> QED BY <2>2, <3>1, <3>3, <3>4, <3>5
  <2> QED BY <2>1, <2>2
<1>9. Held(ContentOf(r)) \subseteq Held(ContentOf(q))
  <2>1. Held(ContentOf(q)) = Ids(q.main) \cup Ids(q.learning)
        BY <1>1 DEF Held, Ids, ToSet
  <2>2. Held(ContentOf(r)) = Ids(r.main) \cup Ids(r.learning)
        BY <1>1 DEF Held, Ids, ToSet
  <2> QED BY <1>2, <1>6, <2>1, <2>2
<1> QED BY <1>5, <1>7, <1>8, <1>9

\* What an answer to c does to the table: siblings are buried if the options say so.
AnswerWrites(after, table, options, c, row) ==
    /\ after[c] = row
    /\ \A x \in Cards \ {c} :
        \/ after[x] = table[x]
        \/ x \in Siblings(c) /\ table[x].queue \in options[c] /\ after[x].queue = table[x].queue

\* answer_card writes the card and buries siblings.
LEMMA AnswerWritesRows ==
    ASSUME NEW c \in Cards, NEW row, rows \in [Cards -> Row], NEW changed, NEW after,
           changed = [x \in {c} \cup SiblingsToBury(c) |->
                        IF x = c THEN row ELSE [rows[x] EXCEPT !.hidden = "buried", !.mtime = now]],
           after = Written(changed, rows)
    PROVE  AnswerWrites(after, rows, preset, c, row)
<1>1. \A x \in Cards : after[x] = IF x \in DOMAIN changed THEN changed[x] ELSE rows[x]
      BY DEF Written
<1>2. DOMAIN changed = {c} \cup SiblingsToBury(c) /\ changed[c] = row
      OBVIOUS
<1>3. ASSUME NEW x \in Cards \ {c}, x \in SiblingsToBury(c)
      PROVE  x \in Siblings(c) /\ rows[x].queue \in preset[c] /\ after[x].queue = rows[x].queue
  <2>1. x \in Siblings(c) /\ rows[x].queue \in preset[c]
        BY <1>3 DEF SiblingsToBury
  <2>2. after[x] = [rows[x] EXCEPT !.hidden = "buried", !.mtime = now]
        BY <1>1, <1>2, <1>3
  <2>3. rows[x] \in Row
        OBVIOUS
  <2> QED BY <2>1, <2>2, <2>3 DEF Row
<1> QED BY <1>1, <1>2, <1>3 DEF AnswerWrites

\* A card goes back to the queue with the mtime it was just given.
LEMMA RequeuedAsWritten ==
    ASSUME NEW q, NEW c, NEW row \in Row, NEW after \in AfterAnswer(q, c, row), NEW u, after.update = <<u>>,
           u.requeue # <<>>
    PROVE  row.queue = "Learn" /\ u.requeue[1].mtime = row.mtime
<1> DEFINE popped == PopEntry(q, c)
           requeue == IF row.queue = "Learn" /\ row.hidden = "no" /\ row.due < NextDayAt
                      THEN <<Collapsed(popped, LearningEntry(c, row))>>
                      ELSE <<>>
           placed == IF requeue = <<>> THEN {popped} ELSE InsertLearning(popped, requeue[1])
<1>1. PICK p \in placed :
            after = [queues |-> <<UpdateCutoffAndCount(p)>>,
                     update |-> <<[entry |-> TopEntry(q, c), requeue |-> requeue,
                                   build |-> q.build, snapshot |-> Snapshot(p)]>>]
      BY DEF AfterAnswer
<1> HIDE DEF placed
<1>2. u.requeue = requeue
      BY <1>1
<1>3. row.queue = "Learn" /\ u.requeue[1] = Collapsed(popped, LearningEntry(c, row))
      BY <1>2
<1>4. Collapsed(popped, LearningEntry(c, row)).mtime = row.mtime
  <2>1. PICK e : e = LearningEntry(c, row)
        OBVIOUS
  <2>2. e.mtime = row.mtime /\ "mtime" \in DOMAIN e
        BY <2>1 DEF LearningEntry
  <2>3. Collapsed(popped, e).mtime = e.mtime
        BY <2>1 DEF Collapsed, LearningEntry
  <2> QED BY <2>1, <2>2, <2>3
<1> QED BY <1>3, <1>4

\* So an answer leads from a sound point to a sound one.
LEMMA AnswerSound ==
    ASSUME NEW q \in Queues, NEW r \in Queues, NEW u \in Updates,
           AnswerLeft(r, q, u.entry.id, u.requeue), Answered(u, ContentOf(q), ContentOf(r)),
           NEW row, u.requeue # <<>> => row.queue = "Learn" /\ u.requeue[1].mtime = row.mtime,
           NEW x \in Points, x.content = ContentOf(q), Sound(x),
           NEW y, y.content = ContentOf(r), y.options = x.options,
           AnswerWrites(y.table, x.table, x.options, u.entry.id, row)
    PROVE  Sound(y)
<1> DEFINE c == u.entry.id
<1>1. /\ \A e \in ToSet(r.main) : e \in ToSet(q.main) /\ e.id # c
      /\ \A e \in ToSet(r.learning) :
            \/ e \in ToSet(q.learning) /\ e.id # c
            \/ u.requeue # <<>> /\ e = u.requeue[1] /\ e.id = c
      /\ Held(y.content) \subseteq Held(x.content)
      BY AnsweredKeeps
<1>2. /\ x.content.main = q.main /\ x.content.learning = ToSet(q.learning)
      /\ y.content.main = r.main /\ y.content.learning = ToSet(r.learning)
      BY DEF ContentOf
<1>3. /\ \A e \in ToSet(q.main) : x.table[e.id].mtime = e.mtime
      /\ \A e \in ToSet(q.learning) : x.table[e.id].mtime = e.mtime /\ x.table[e.id].queue = "Learn"
      /\ \A k \in Held(x.content), e \in ToSet(q.main) :
            e.id \in Siblings(k) => x.table[e.id].queue \notin x.options[k]
      BY <1>2 DEF Sound
<1>4. /\ y.table[c] = row
      /\ \A z \in Cards \ {c} :
            \/ y.table[z] = x.table[z]
            \/ z \in Siblings(c) /\ x.table[z].queue \in x.options[c] /\ y.table[z].queue = x.table[z].queue
      BY DEF AnswerWrites
<1>5. /\ \A e \in ToSet(q.main) : e.id \in Cards
      /\ \A e \in ToSet(q.learning) : e.id \in Cards
  <2>1. q.main \in Seq(MainQueueEntry) /\ q.learning \in Seq(LearningQueueEntry)
        BY DEF Queues
  <2>2. ToSet(q.main) \subseteq MainQueueEntry /\ ToSet(q.learning) \subseteq LearningQueueEntry
        BY <2>1 DEF ToSet
  <2> QED BY <2>2 DEF MainQueueEntry, LearningQueueEntry
<1>6. c \in Cards /\ "Learn" \notin x.options[c]
  <2>1. c \in Cards
    <3>1. u.entry \in Entries
          BY DEF Updates
    <3> QED BY <3>1 DEF Entries, MainQueueEntry, LearningQueueEntry
  <2>2. x.options \in [Cards -> SUBSET {"New", "DayLearn", "Review"}]
        BY StudyAssumption DEF Points
  <2>3. x.options[c] \subseteq {"New", "DayLearn", "Review"}
        BY <2>1, <2>2
  <2> QED BY <2>1, <2>3
<1>7. c \in Held(x.content)
  <2>1. u.entry.id \in Held(ContentOf(q))
        BY AnsweredHeld
  <2> QED BY <2>1
<1>8. ASSUME NEW e \in ToSet(r.main)
      PROVE  y.table[e.id] = x.table[e.id] /\ e \in ToSet(q.main)
      BY <1>1, <1>3, <1>4, <1>5, <1>7, <1>8
<1>9. ASSUME NEW e \in ToSet(r.learning)
      PROVE  y.table[e.id].mtime = e.mtime /\ y.table[e.id].queue = "Learn"
  <2>1. CASE e \in ToSet(q.learning) /\ e.id # c
    <3>1. x.table[e.id].mtime = e.mtime /\ x.table[e.id].queue = "Learn" /\ e.id \in Cards \ {c}
          BY <1>3, <1>5, <2>1
    <3>2. y.table[e.id] = x.table[e.id]
          BY <1>4, <1>6, <3>1
    <3> QED BY <3>1, <3>2
  <2>2. CASE u.requeue # <<>> /\ e = u.requeue[1] /\ e.id = c
        BY <1>4, <2>2
  <2> QED BY <1>1, <2>1, <2>2
<1> HIDE DEF c
<1>10. \A e \in ToSet(r.main) : y.table[e.id].mtime = e.mtime
       BY <1>3, <1>8
<1>11. \A k \in Held(y.content), e \in ToSet(r.main) :
            e.id \in Siblings(k) => y.table[e.id].queue \notin y.options[k]
       BY <1>1, <1>3, <1>8
<1> QED BY <1>2, <1>9, <1>10, <1>11 DEF Sound

-----------------------------------------------------------------------------
(* Every action keeps the queues in agreement with the cards.               *)

Here(q, table, options) == [content |-> ContentOf(q), table |-> table, options |-> options]

\* The queues agree with the cards, and so will they after undoing and redoing.
InStep(point, build, undo, redo) ==
    /\ Sound(point)
    /\ RoadFrom(undo, build, point, TRUE)
    /\ RoadFrom(redo, build, point, FALSE)

Tracked == \A q : queues = <<q>> => InStep(Here(q, rows, preset), q.build, undoSteps, redoSteps)

\* Each answer tells what it did to the queues.
Told(steps) == \A i \in DOMAIN steps : steps[i].op = "AnswerCard" => steps[i].update # <<>>

\* Nothing has to agree with queues that are not there, ...
LEMMA NoneTracked ==
    ASSUME queues' = <<>>
    PROVE  Tracked'
BY DEF Tracked

\* ... and only one point with those that are.
LEMMA OneTracked ==
    ASSUME NEW r, queues' = <<r>>, NEW y, y = Here(r, rows', preset'),
           InStep(y, r.build, undoSteps', redoSteps')
    PROVE  Tracked'
<1>1. ASSUME NEW q, queues' = <<q>>
      PROVE  q = r
      BY <1>1
<1> QED BY <1>1 DEF Tracked

\* The queues, the cards and the options make a point.
LEMMA HereIsPoint ==
    ASSUME NEW q \in Queues, NEW table \in [Cards -> Row], NEW options \in Presets,
           NEW x, x = Here(q, table, options)
    PROVE  x \in Points /\ x.content = ContentOf(q) /\ x.table = table /\ x.options = options
<1>1. ContentOf(q) \in Contents
      BY ContentsAre
<1> QED BY <1>1 DEF Here, Points

\* There is only one such point.
LEMMA PointIsHere ==
    ASSUME NEW y \in Points, NEW q, NEW table, NEW options,
           y.content = ContentOf(q), y.table = table, y.options = options
    PROVE  y = Here(q, table, options)
BY DEF Here, Points

\* No steps, ...
LEMMA NoneTold ==
    ASSUME NEW steps, steps = <<>>
    PROVE  Told(steps)
BY DEF Told

\* ... one less ...
LEMMA TailTold ==
    ASSUME NEW T, NEW steps \in Seq(T), steps # <<>>, Told(steps)
    PROVE  Told(Tail(steps))
<1>1. \A i \in DOMAIN Tail(steps) : i + 1 \in DOMAIN steps /\ Tail(steps)[i] = steps[i + 1]
      OBVIOUS
<1> QED BY <1>1 DEF Told

\* ... and one more.
LEMMA MoreTold ==
    ASSUME NEW T, NEW rest \in Seq(T), Told(rest), NEW s, s.op = "AnswerCard" => s.update # <<>>,
           NEW steps, steps = <<s>> \o rest
    PROVE  Told(steps)
<1>1. rest \in Seq(T \cup {s})
      BY SeqMonotonic
<1>2. IsPrepended(steps, s, rest)
      BY <1>1, Prepended
<1>3. ASSUME NEW i \in DOMAIN steps
      PROVE  steps[i].op = "AnswerCard" => steps[i].update # <<>>
  <2>1. IsEither(i, steps, s, rest)
        BY <1>2, PrependedIndices
  <2> QED BY <2>1 DEF IsEither, Told
<1> QED BY <1>3 DEF Told

\* New queues agree with the cards, and no step is of them.
LEMMA NewTracked ==
    ASSUME OptionsAgree, preset \in Presets, NEW table \in [Cards -> Row], now \in Nat, builds \in Nat,
           NEW q \in Built(table), NEW r, r = Counted(q),
           queues' = <<r>>, rows' = table, preset' = preset,
           NEW U, undoSteps' \in Seq(U), NEW R, redoSteps' \in Seq(R),
           \A i \in DOMAIN undoSteps' : ~Concerns(undoSteps'[i], r),
           \A i \in DOMAIN redoSteps' : ~Concerns(redoSteps'[i], r)
    PROVE  Tracked'
<1>1. q \in Queues /\ q.cutoff = now
      BY BuiltAreQueues
<1>2. r \in Queues /\ SameEntries(r, q)
      BY <1>1, CountedKeeps
<1>3. ContentOf(r) = ContentOf(q)
      BY <1>2 DEF SameEntries, ContentOf
<1>4. PICK x : x = Here(r, table, preset)
      OBVIOUS
<1>5. x \in Points
      BY <1>2, <1>4, HereIsPoint
<1>6. x = [content |-> ContentOf(q), table |-> table, options |-> preset]
      BY <1>3, <1>4 DEF Here
<1>7. Sound(x)
      BY <1>6, BuiltSound
<1>8. RoadFrom(undoSteps', r.build, x, TRUE)
      BY <1>5, OthersPass
<1>9. RoadFrom(redoSteps', r.build, x, FALSE)
      BY <1>5, OthersPass
<1>10. x = Here(r, rows', preset')
       BY <1>4
<1> QED BY <1>7, <1>8, <1>9, <1>10, OneTracked DEF InStep

\* On a new day there are no steps, ...
LEMMA FetchOnNewDayTracked ==
    ASSUME OptionsAgree, IInv, preset \in Presets, FetchOnNewDay
    PROVE  Tracked' /\ Told(undoSteps') /\ Told(redoSteps')
<1>1. rows \in [Cards -> Row] /\ now \in Nat /\ builds \in Nat
      BY DEF IInv, Types
<1>2. PICK q \in Built(Unburied(rows)) : queues' = <<Counted(q)>>
      BY DEF FetchOnNewDay
<1>3. /\ undoSteps' = <<>> /\ redoSteps' = <<>> /\ rows' = Unburied(rows) /\ preset' = preset
      BY DEF FetchOnNewDay
<1>4. PICK table : table = Unburied(rows)
      OBVIOUS
<1>5. table \in [Cards -> Row]
      BY <1>1, <1>4, UnburiedIsTable
<1>6. PICK r : r = Counted(q)
      OBVIOUS
<1>7. undoSteps' \in Seq({}) /\ redoSteps' \in Seq({}) /\ DOMAIN undoSteps' = {} /\ DOMAIN redoSteps' = {}
      BY <1>3
<1>8. q \in Built(table) /\ queues' = <<r>> /\ rows' = table
      BY <1>2, <1>3, <1>4, <1>6
<1>9. Tracked'
      BY <1>1, <1>3, <1>5, <1>6, <1>7, <1>8, NewTracked
<1> QED BY <1>3, <1>9, NoneTold

\* ... and otherwise those there are, are not of new queues.
LEMMA FetchAndBuildTracked ==
    ASSUME OptionsAgree, IInv, preset \in Presets, FetchAndBuild
    PROVE  Tracked'
<1>1. /\ rows \in [Cards -> Row] /\ now \in Nat /\ builds \in Nat
      /\ undoSteps \in Seq(StepsUntil(builds, now)) /\ redoSteps \in Seq(StepsUntil(builds, now))
      BY DEF IInv, Types
<1>2. PICK q \in Built(rows) : queues' = <<Counted(q)>>
      BY DEF FetchAndBuild
<1>3. undoSteps' = undoSteps /\ redoSteps' = redoSteps /\ rows' = rows /\ preset' = preset
      BY DEF FetchAndBuild
<1>4. PICK r : r = Counted(q)
      OBVIOUS
<1>5. q \in Queues /\ q.cutoff = now /\ q.build = builds + 1
      BY <1>1, BuiltAreQueues
<1>6. r.build = builds + 1
      BY <1>1, <1>4, <1>5, CountedKeeps DEF SameEntries
<1>7. \A i \in DOMAIN undoSteps : ~Concerns(undoSteps[i], r)
      BY <1>1, <1>6, NewBuildNew
<1>8. \A i \in DOMAIN redoSteps : ~Concerns(redoSteps[i], r)
      BY <1>1, <1>6, NewBuildNew
<1>9. /\ undoSteps' \in Seq(StepsUntil(builds, now)) /\ redoSteps' \in Seq(StepsUntil(builds, now))
      /\ \A i \in DOMAIN undoSteps' : ~Concerns(undoSteps'[i], r)
      /\ \A i \in DOMAIN redoSteps' : ~Concerns(redoSteps'[i], r)
      BY <1>1, <1>3, <1>7, <1>8
<1>10. queues' = <<r>>
       BY <1>2, <1>4
<1> QED BY <1>1, <1>2, <1>3, <1>4, <1>9, <1>10, NewTracked

\* Fetching the next card changes no entry.
LEMMA FetchNextTracked ==
    ASSUME IInv, Tracked, FetchNext
    PROVE  Tracked'
<1>1. now \in Nat
      BY DEF IInv, Types
<1>2. PICK q : queues = <<q>> /\ Current(q, undoSteps)
      BY DEF IInv, Studying, FetchNext
<1>3. queues[1] = q /\ q \in Queues /\ q.cutoff <= now
      BY <1>2 DEF Current
<1>4. PICK r : r = Counted(q)
      OBVIOUS
<1>5. /\ queues' = <<r>> /\ undoSteps' = undoSteps /\ redoSteps' = redoSteps
      /\ rows' = rows /\ preset' = preset
      BY <1>3, <1>4 DEF FetchNext
<1>6. SameEntries(r, q)
      BY <1>1, <1>3, <1>4, CountedKeeps
<1>7. ContentOf(r) = ContentOf(q) /\ r.build = q.build
      BY <1>6 DEF SameEntries, ContentOf
<1>8. InStep(Here(q, rows, preset), q.build, undoSteps, redoSteps)
      BY <1>2 DEF Tracked
<1>9. PICK x : x = Here(q, rows, preset)
      OBVIOUS
<1>10. x = Here(r, rows', preset')
       BY <1>5, <1>7, <1>9 DEF Here
<1>11. InStep(x, r.build, undoSteps', redoSteps')
       BY <1>5, <1>7, <1>8, <1>9
<1> QED BY <1>5, <1>10, <1>11, OneTracked

\* A new step leads back to the point that was answered.
LEMMA AnswerTracked ==
    ASSUME Refetches, Study, IInv', preset \in Presets, Tracked, Told(undoSteps),
           outcome # "panic", Answer
    PROVE  Tracked' /\ Told(undoSteps') /\ Told(redoSteps')
<1>1. /\ rows \in [Cards -> Row] /\ now \in Nat /\ rows' \in [Cards -> Row]
      /\ undoSteps \in Seq(StepsUntil(builds, now))
      BY DEF Study, IInv, Types
<1>2. PICK c : c = shown[1].card
      OBVIOUS
<1>3. shown # <<>> /\ c \in Cards /\ ~Refused(shown[1]) /\ preset' = preset
      BY <1>2 DEF Study, IInv, Types, Answer
<1>4. PICK q : queues = <<q>>
      BY <1>3 DEF Study, ShownFirst
<1>5. Current(q, undoSteps) /\ Chained
      BY <1>4 DEF Study, IInv, Studying
<1>6. q \in Queues /\ NoneTwice(q) /\ q.cutoff <= now /\ queues[1] = q /\ queues # <<>>
      BY <1>4, <1>5 DEF Current
<1>7. AtTop(q, c)
      BY <1>2, <1>3, <1>6 DEF Refused
<1> DEFINE ChangedTo(row) == [x \in {c} \cup SiblingsToBury(c) |->
                    IF x = c THEN row ELSE [rows[x] EXCEPT !.hidden = "buried", !.mtime = now]]
<1>a. PICK row \in Rated(c, rows[c]) : \E after \in QueuesAfterAnswer(c, row) :
            Done("AnswerCard", ChangedTo(row), after.update) /\ queues' = after.queues
      BY <1>2 DEF Answer
<1>8. PICK after \in QueuesAfterAnswer(c, row) :
            Done("AnswerCard", ChangedTo(row), after.update) /\ queues' = after.queues
      BY <1>a
<1>9. row \in Row
      BY <1>1, <1>3, RatedAreRows
<1>10. PICK changed : changed = ChangedTo(row)
       OBVIOUS
<1>11. DOMAIN changed = {c} \cup SiblingsToBury(c) /\ DOMAIN changed \subseteq Cards
       BY <1>3, <1>10 DEF SiblingsToBury, Siblings
<1>12. AnswerWrites(Written(changed, rows), rows, preset, c, row)
       BY <1>1, <1>3, <1>10, AnswerWritesRows
<1>13. after \in AfterAnswer(q, c, row)
       BY <1>6, <1>8 DEF QueuesAfterAnswer
<1>14. AnsweredTo(after, q, c)
       BY <1>1, <1>3, <1>6, <1>7, <1>9, <1>13, AfterAnswerIs
<1>15. AnswerLeads(after, q, IsFirst(q, c))
       BY <1>1, <1>3, <1>6, <1>7, <1>9, <1>13, AfterAnswerLeads
<1>16. PICK r \in Queues, u \in Updates :
            /\ after.queues = <<r>> /\ after.update = <<u>>
            /\ AnswerLeft(r, q, c, u.requeue)
            /\ u.entry = TopEntry(q, c) /\ u.build = q.build
       BY <1>14 DEF AnsweredTo
<1>17. Answered(u, ContentOf(q), ContentOf(r)) /\ r.build = q.build
  <2>1. PICK r2, u2 : after.queues = <<r2>> /\ after.update = <<u2>> /\ Progress(r2, u2, q, IsFirst(q, c))
        BY <1>15 DEF AnswerLeads
  <2>2. r2 = r /\ u2 = u
        BY <1>16, <2>1
  <2> QED BY <2>1, <2>2 DEF Progress
<1>18. u.entry.id = c
       BY <1>6, <1>7, <1>16, TopEntryIs
<1>19. u.requeue # <<>> => row.queue = "Learn" /\ u.requeue[1].mtime = row.mtime
       BY <1>9, <1>13, <1>16, RequeuedAsWritten
<1> DEFINE s == [op |-> "AnswerCard", rows |-> [x \in DOMAIN changed |-> rows[x]], update |-> after.update]
<1>20. /\ rows' = Written(changed, rows) /\ redoSteps' = <<>>
       /\ undoSteps' = <<s>> \o undoSteps
       BY <1>8, <1>10 DEF Done
<1>21. /\ s.rows = [x \in DOMAIN changed |-> rows[x]]
       /\ s.update # <<>> /\ s.update[1] = u
       BY <1>16
<1> HIDE DEF s, ChangedTo
<1>22. PICK x : x = Here(q, rows, preset)
       OBVIOUS
<1>23. PICK y : y = Here(r, rows', preset')
       OBVIOUS
<1>24. x \in Points /\ x.content = ContentOf(q) /\ x.table = rows /\ x.options = preset
       BY <1>1, <1>6, <1>22, HereIsPoint
<1>25. y \in Points /\ y.content = ContentOf(r) /\ y.table = rows' /\ y.options = preset
  <2>1. preset' \in Presets
        BY <1>3
  <2> QED BY <1>1, <1>3, <1>16, <1>23, <2>1, HereIsPoint
<1>26. Sound(x) /\ RoadFrom(undoSteps, q.build, x, TRUE)
       BY <1>4, <1>22 DEF Tracked, InStep
<1>27. Sound(y)
  <2>1. AnswerWrites(y.table, x.table, x.options, u.entry.id, row)
        BY <1>12, <1>18, <1>20, <1>24, <1>25
  <2>2. AnswerLeft(r, q, u.entry.id, u.requeue)
        BY <1>16, <1>18
  <2>3. y.options = x.options
        BY <1>24, <1>25
  <2> QED BY <1>6, <1>16, <1>17, <1>19, <1>24, <1>25, <1>26, <2>1, <2>2, <2>3, AnswerSound
<1>28. Passes(s, r.build, y, x, TRUE)
  <2>1. rows = Written(s.rows, rows')
    <3>1. PICK new : new = rows'
          OBVIOUS
    <3>2. PICK old : old = s.rows
          OBVIOUS
    <3>3. new = Written(changed, rows) /\ old = [z \in DOMAIN changed |-> rows[z]]
          BY <1>20, <1>21, <3>1, <3>2
    <3>4. rows = Written(old, new)
          BY <1>1, <1>11, <3>3, WrittenBack
    <3> QED BY <3>1, <3>2, <3>4
  <2>2. x.table = Written(s.rows, y.table) /\ x.options = y.options
        BY <1>24, <1>25, <2>1
  <2>3. Answered(s.update[1], x.content, y.content)
        BY <1>17, <1>21, <1>24, <1>25
  <2> QED BY <1>26, <2>2, <2>3 DEF Passes
<1>29. RoadFrom(undoSteps', r.build, y, TRUE)
  <2>1. RoadFrom(undoSteps, r.build, x, TRUE)
        BY <1>17, <1>26
  <2>2. RoadFrom(<<s>> \o undoSteps, r.build, y, TRUE)
        BY <1>1, <1>25, <1>28, <2>1, MorePasses
  <2> QED BY <1>20, <2>2
<1>30. RoadFrom(redoSteps', r.build, y, FALSE)
  <2>1. redoSteps' \in Seq({}) /\ DOMAIN redoSteps' = {}
        BY <1>20
  <2> QED BY <1>25, <2>1, OthersPass
<1>31. queues' = <<r>>
       BY <1>8, <1>16
<1>32. InStep(y, r.build, undoSteps', redoSteps')
       BY <1>27, <1>29, <1>30 DEF InStep
<1>33. Tracked'
       BY <1>23, <1>31, <1>32, OneTracked
<1>34. Told(undoSteps')
       BY <1>1, <1>20, <1>21, MoreTold
<1>35. Told(redoSteps')
       BY <1>20, NoneTold
<1> QED BY <1>33, <1>34, <1>35

\* A replayed step that leaves queues is an answer in them.
LEMMA ReplayedHere ==
    ASSUME NEW s, NEW replayed, Replay(s, replayed), queues' # <<>>,
           s.op = "AnswerCard" => s.update # <<>>
    PROVE  s.update # <<>> /\ SameBuild(s.update[1]) /\ queues' \in replayed
BY DEF Replay

\* The point that a replayed answer leads to is where the queues then are.
LEMMA ReplayedPoint ==
    ASSUME IInv', preset' = preset, NEW q, NEW s, rows' = Written(s.rows, rows),
           NEW x, x = Here(q, rows, preset), NEW y \in Points, NEW back,
           s.update # <<>>, s.update[1].build = q.build, Passes(s, q.build, x, y, back),
           NEW r, ContentOf(r) = y.content
    PROVE  y = Here(r, rows', preset') /\ Sound(y)
<1>1. x.table = rows /\ x.options = preset
      BY DEF Here
<1>2. y.table = Written(s.rows, x.table) /\ y.options = x.options /\ Sound(y)
      BY DEF Passes
<1>3. y.content = ContentOf(r) /\ y.table = rows' /\ y.options = preset'
      BY <1>1, <1>2
<1>4. y = Here(r, rows', preset')
      BY <1>3, PointIsHere
<1> QED BY <1>2, <1>4

\* What Reverted keeps.
LEMMA RevertedIs ==
    ASSUME NEW s, NEW t, t = Reverted(s)
    PROVE  t.op = s.op /\ t.update = s.update /\ t.rows = [c \in DOMAIN s.rows |-> rows[c]]
BY DEF Reverted

\* Undoing goes back to an earlier point.
LEMMA UndoTracked ==
    ASSUME IInv, IInv', preset \in Presets, Tracked, Told(undoSteps), Told(redoSteps), Undo
    PROVE  Tracked' /\ Told(undoSteps') /\ Told(redoSteps')
<1>1. /\ undoSteps \in Seq(StepsUntil(builds, now)) /\ redoSteps \in Seq(StepsUntil(builds, now))
      /\ rows \in [Cards -> Row] /\ builds \in Nat
      BY DEF IInv, Types
<1>2. PICK s : s = Head(undoSteps)
      OBVIOUS
<1>3. PICK t : t = Reverted(s)
      OBVIOUS
<1>4. /\ undoSteps # <<>> /\ Replay(s, QueuesUndone(s.update[1]))
      /\ undoSteps' = Tail(undoSteps) /\ redoSteps' = <<t>> \o redoSteps
      /\ preset' = preset /\ builds' = builds
      BY <1>2, <1>3 DEF Undo
<1>5. s \in StepsUntil(builds, now) /\ (s.op = "AnswerCard" => s.update # <<>>)
  <2>1. 1 \in DOMAIN undoSteps /\ s = undoSteps[1]
        BY <1>1, <1>2, <1>4
  <2> QED BY <1>1, <2>1 DEF Told
<1>6. t.op = s.op /\ t.update = s.update /\ t.rows = [c \in DOMAIN s.rows |-> rows[c]]
      BY <1>3, RevertedIs
<1>7. Told(undoSteps')
      BY <1>1, <1>4, TailTold
<1>8. Told(redoSteps')
      BY <1>1, <1>4, <1>5, <1>6, MoreTold
<1>9. CASE queues' = <<>>
      BY <1>7, <1>8, <1>9, NoneTracked
<1>10. CASE queues' # <<>>
  <2>1. s.update # <<>> /\ SameBuild(s.update[1]) /\ queues' \in QueuesUndone(s.update[1])
        BY <1>4, <1>5, <1>10, ReplayedHere
  <2>2. PICK u \in Updates : s.update = <<u>> /\ s.update[1] = u
        BY <1>5, <2>1, StepsAre
  <2>3. PICK q : queues = <<q>> /\ Current(q, undoSteps)
        BY <2>1 DEF IInv, Studying, SameBuild
  <2>4. q \in Queues /\ NoneTwice(q) /\ u.build = q.build /\ q.build = builds /\ queues' \in QueuesUndone(u)
        BY <2>1, <2>2, <2>3 DEF Current, SameBuild
  <2>5. PICK r : queues' = <<r>> /\ UndoneParts(r, q, u)
        BY <2>3, <2>4, UndoneIsParts
  <2>6. r \in Queues /\ r.build = q.build
    <3>1. PICK z : queues' = <<z>> /\ z \in Queues /\ z.build = builds'
          BY <1>10 DEF IInv, Studying, Current
    <3>2. z = r
          BY <2>5, <3>1
    <3> QED BY <1>4, <2>4, <3>1, <3>2
  <2>7. PICK x : x = Here(q, rows, preset)
        OBVIOUS
  <2>8. x \in Points /\ x.content = ContentOf(q) /\ x.table = rows
        BY <1>1, <2>4, <2>7, HereIsPoint
  <2>9. InStep(x, q.build, undoSteps, redoSteps)
        BY <2>3, <2>7 DEF Tracked
  <2>10. PICK y \in Points : Passes(s, q.build, x, y, TRUE) /\ RoadFrom(Tail(undoSteps), q.build, y, TRUE)
    <3>1. RoadFrom(undoSteps, q.build, x, TRUE)
          BY <2>9 DEF InStep
    <3> QED BY <1>1, <1>2, <1>4, <3>1, HeadPasses
  <2>11. Answered(u, y.content, ContentOf(q)) /\ y.content \in Contents
    <3>1. Answered(s.update[1], y.content, x.content)
          BY <2>1, <2>2, <2>4, <2>10 DEF Passes
    <3> QED BY <2>2, <2>8, <3>1 DEF Points
  <2>12. ContentOf(r) = y.content
         BY <2>4, <2>5, <2>11, UndoneContent
  <2>13. rows' = Written(s.rows, rows)
         BY <1>4 DEF Replay
  <2>14. y = Here(r, rows', preset') /\ Sound(y)
         BY <1>4, <2>1, <2>2, <2>4, <2>7, <2>10, <2>12, <2>13, ReplayedPoint
  <2>15. Passes(t, q.build, y, x, FALSE)
    <3>1. s.rows \in SomeRows
          BY <1>5, StepsAre
    <3>2. Sound(x) /\ t.rows = [c \in DOMAIN s.rows |-> x.table[c]]
          BY <1>6, <2>8, <2>9 DEF InStep
    <3>3. Passes(t, q.build, y, x, ~TRUE)
          BY <1>6, <2>8, <2>10, <3>1, <3>2, ReversePasses
    <3> QED BY <3>3
  <2>16. RoadFrom(redoSteps', r.build, y, FALSE)
    <3>1. RoadFrom(redoSteps, q.build, x, FALSE)
          BY <2>9 DEF InStep
    <3>2. RoadFrom(<<t>> \o redoSteps, q.build, y, FALSE)
          BY <1>1, <2>10, <2>15, <3>1, MorePasses
    <3> QED BY <1>4, <2>6, <3>2
  <2>17. InStep(y, r.build, undoSteps', redoSteps')
         BY <1>4, <2>6, <2>10, <2>14, <2>16 DEF InStep
  <2>18. Tracked'
         BY <2>5, <2>14, <2>17, OneTracked
  <2> QED BY <1>7, <1>8, <2>18
<1> QED BY <1>9, <1>10

\* Redoing goes on to a later one.
LEMMA RedoTracked ==
    ASSUME IInv, IInv', preset \in Presets, Tracked, Told(undoSteps), Told(redoSteps), Redo
    PROVE  Tracked' /\ Told(undoSteps') /\ Told(redoSteps')
<1>1. /\ undoSteps \in Seq(StepsUntil(builds, now)) /\ redoSteps \in Seq(StepsUntil(builds, now))
      /\ rows \in [Cards -> Row] /\ builds \in Nat
      BY DEF IInv, Types
<1>2. PICK s : s = Head(redoSteps)
      OBVIOUS
<1>3. PICK t : t = Reverted(s)
      OBVIOUS
<1>4. redoSteps # <<>> /\ preset' = preset /\ builds' = builds
      BY DEF Redo
<1>5. s \in StepsUntil(builds, now) /\ (s.op = "AnswerCard" => s.update # <<>>)
  <2>1. 1 \in DOMAIN redoSteps /\ s = redoSteps[1]
        BY <1>1, <1>2, <1>4
  <2> QED BY <1>1, <2>1 DEF Told
<1>6. t.op = s.op /\ t.update = s.update /\ t.rows = [c \in DOMAIN s.rows |-> rows[c]]
      BY <1>3, RevertedIs
<1>7. CASE RedoRefused(s)
  <2>1. queues' = <<>> /\ undoSteps' = <<>> /\ redoSteps' = <<>>
        BY <1>2, <1>7 DEF Redo, Failed
  <2> QED BY <2>1, NoneTracked, NoneTold
<1>8. CASE ~RedoRefused(s)
  <2>1. /\ Replay(s, QueuesRedone(s.update[1]))
        /\ undoSteps' = <<t>> \o undoSteps /\ redoSteps' = Tail(redoSteps)
        BY <1>2, <1>3, <1>8 DEF Redo
  <2>2. Told(redoSteps')
        BY <1>1, <1>4, <2>1, TailTold
  <2>3. Told(undoSteps')
        BY <1>1, <1>5, <1>6, <2>1, MoreTold
  <2>4. CASE queues' = <<>>
        BY <2>2, <2>3, <2>4, NoneTracked
  <2>5. CASE queues' # <<>>
    <3>1. s.update # <<>> /\ SameBuild(s.update[1]) /\ queues' \in QueuesRedone(s.update[1])
          BY <1>5, <2>1, <2>5, ReplayedHere
    <3>2. PICK u \in Updates : s.update = <<u>> /\ s.update[1] = u
          BY <1>5, <3>1, StepsAre
    <3>3. PICK q : queues = <<q>> /\ Current(q, undoSteps)
          BY <3>1 DEF IInv, Studying, SameBuild
    <3>4. q \in Queues /\ NoneTwice(q) /\ u.build = q.build /\ q.build = builds
          /\ queues' \in QueuesRedone(u) /\ AtTop(q, u.entry.id)
          BY <1>8, <3>1, <3>2, <3>3 DEF Current, SameBuild, RedoRefused
    <3>5. PICK r : queues' = <<r>> /\ RedoneParts(r, q, u)
          BY <3>3, <3>4, RedoneIsParts
    <3>6. r \in Queues /\ r.build = q.build
      <4>1. PICK z : queues' = <<z>> /\ z \in Queues /\ z.build = builds'
            BY <2>5 DEF IInv, Studying, Current
      <4>2. z = r
            BY <3>5, <4>1
      <4> QED BY <1>4, <3>4, <4>1, <4>2
    <3>7. PICK x : x = Here(q, rows, preset)
          OBVIOUS
    <3>8. x \in Points /\ x.content = ContentOf(q) /\ x.table = rows
          BY <1>1, <3>4, <3>7, HereIsPoint
    <3>9. InStep(x, q.build, undoSteps, redoSteps)
          BY <3>3, <3>7 DEF Tracked
    <3>10. PICK y \in Points : Passes(s, q.build, x, y, FALSE) /\ RoadFrom(Tail(redoSteps), q.build, y, FALSE)
      <4>1. RoadFrom(redoSteps, q.build, x, FALSE)
            BY <3>9 DEF InStep
      <4> QED BY <1>1, <1>2, <1>4, <4>1, HeadPasses
    <3>11. Answered(u, ContentOf(q), y.content) /\ y.content \in Contents
      <4>1. Answered(s.update[1], x.content, y.content)
            BY <3>1, <3>2, <3>4, <3>10 DEF Passes
      <4> QED BY <3>2, <3>8, <4>1 DEF Points
    <3>12. ContentOf(r) = y.content
           BY <3>4, <3>5, <3>11, RedoneContent
    <3>13. rows' = Written(s.rows, rows)
           BY <2>1 DEF Replay
    <3>14. y = Here(r, rows', preset') /\ Sound(y)
           BY <1>4, <3>1, <3>2, <3>4, <3>7, <3>10, <3>12, <3>13, ReplayedPoint
    <3>15. Passes(t, q.build, y, x, TRUE)
      <4>1. s.rows \in SomeRows
            BY <1>5, StepsAre
      <4>2. Sound(x) /\ t.rows = [c \in DOMAIN s.rows |-> x.table[c]]
            BY <1>6, <3>8, <3>9 DEF InStep
      <4>3. Passes(t, q.build, y, x, ~FALSE)
            BY <1>6, <3>8, <3>10, <4>1, <4>2, ReversePasses
      <4> QED BY <4>3
    <3>16. RoadFrom(undoSteps', r.build, y, TRUE)
      <4>1. RoadFrom(undoSteps, q.build, x, TRUE)
            BY <3>9 DEF InStep
      <4>2. RoadFrom(<<t>> \o undoSteps, q.build, y, TRUE)
            BY <1>1, <3>10, <3>15, <4>1, MorePasses
      <4> QED BY <2>1, <3>6, <4>2
    <3>17. InStep(y, r.build, undoSteps', redoSteps')
           BY <2>1, <3>6, <3>10, <3>14, <3>16 DEF InStep
    <3>18. Tracked'
           BY <3>5, <3>14, <3>17, OneTracked
    <3> QED BY <2>2, <2>3, <3>18
  <2> QED BY <2>4, <2>5
<1> QED BY <1>7, <1>8

-----------------------------------------------------------------------------
(* The cards in the queues.                                                 *)

Agreeing == preset \in Presets /\ Tracked /\ Told(undoSteps) /\ Told(redoSteps)

\* Queues that are thrown away agree with anything.
LEMMA ThrownAwayTracked ==
    ASSUME IInv, Agreeing,
           RefuseAnswer \/ UndoOnNewDay \/ RedoOnNewDay
           \/ \E c \in Cards, hidden \in {"suspended", "no"} : SetHidden(c, hidden)
    PROVE  Tracked' /\ Told(undoSteps') /\ Told(redoSteps')
<1>1. CASE RefuseAnswer \/ UndoOnNewDay \/ RedoOnNewDay
  <2>1. queues' = <<>> /\ undoSteps' = <<>> /\ redoSteps' = <<>>
        BY <1>1 DEF RefuseAnswer, Failed, UndoOnNewDay, RedoOnNewDay, Panic
  <2> QED BY <2>1, NoneTracked, NoneTold
<1>2. CASE \E c \in Cards, hidden \in {"suspended", "no"} : SetHidden(c, hidden)
  <2>1. PICK c \in Cards, hidden \in {"suspended", "no"} : SetHidden(c, hidden)
        BY <1>2
  <2>2. PICK changed : Done("Suspend", changed, <<>>)
        BY <2>1 DEF SetHidden
  <2>3. PICK s : /\ s = [op |-> "Suspend", rows |-> [x \in DOMAIN changed |-> rows[x]], update |-> <<>>]
        OBVIOUS
  <2>4. undoSteps' = <<s>> \o undoSteps /\ redoSteps' = <<>> /\ queues' = <<>>
        BY <2>1, <2>2, <2>3 DEF Done, SetHidden
  <2>5. s.op # "AnswerCard"
        BY <2>3
  <2>6. undoSteps \in Seq(StepsUntil(builds, now)) /\ Told(undoSteps)
        BY DEF IInv, Types, Agreeing
  <2>7. Told(undoSteps')
        BY <2>4, <2>5, <2>6, MoreTold
  <2> QED BY <2>4, <2>7, NoneTracked, NoneTold
<1> QED BY <1>1, <1>2

\* Without a step, nothing changes.
LEMMA StaysAgreeing ==
    ASSUME Agreeing, UNCHANGED <<rows, preset, queues, undoSteps, redoSteps>>
    PROVE  Agreeing'
BY DEF Agreeing, Tracked

\* Deck options stay as they are.
LEMMA OptionsStay ==
    ASSUME Next
    PROVE  preset' = preset
BY DEF Next, FetchOnNewDay, FetchAndBuild, FetchNext, Answer, RefuseAnswer, SetHidden, Undo,
       UndoOnNewDay, Redo, RedoOnNewDay, Tick

\* Every step keeps the queues in agreement with the cards.
LEMMA NextAgreeing ==
    ASSUME Refetches, OptionsAgree, Study, Study', Agreeing, [Next]_vars
    PROVE  Agreeing'
<1>1. IInv /\ IInv'
      BY DEF Study
<1>2. preset \in Presets /\ Tracked /\ Told(undoSteps) /\ Told(redoSteps)
      BY DEF Agreeing
<1>3. CASE Next
  <2>1. preset' \in Presets
        BY <1>2, <1>3, OptionsStay
  <2>2. Tracked' /\ Told(undoSteps') /\ Told(redoSteps')
    <3>1. CASE FetchOnNewDay
          BY <1>1, <1>2, <3>1, FetchOnNewDayTracked
    <3>2. CASE FetchAndBuild
      <4>1. undoSteps' = undoSteps /\ redoSteps' = redoSteps
            BY <3>2 DEF FetchAndBuild
      <4> QED BY <1>1, <1>2, <3>2, <4>1, FetchAndBuildTracked
    <3>3. CASE FetchNext
      <4>1. undoSteps' = undoSteps /\ redoSteps' = redoSteps
            BY <3>3 DEF FetchNext
      <4> QED BY <1>1, <1>2, <3>3, <4>1, FetchNextTracked
    <3>4. CASE outcome # "panic" /\ Answer
          BY <1>1, <1>2, <3>4, AnswerTracked
    <3>5. CASE \/ RefuseAnswer \/ UndoOnNewDay \/ RedoOnNewDay
               \/ \E c \in Cards, hidden \in {"suspended", "no"} : SetHidden(c, hidden)
          BY <1>1, <3>5, ThrownAwayTracked
    <3>6. CASE Undo
          BY <1>1, <1>2, <3>6, UndoTracked
    <3>7. CASE Redo
          BY <1>1, <1>2, <3>7, RedoTracked
    <3>8. CASE Tick
      <4>1. UNCHANGED <<rows, preset, queues, undoSteps, redoSteps>>
            BY <3>8 DEF Tick
      <4> QED BY <4>1, StaysAgreeing DEF Agreeing
    <3> QED BY <1>3, <3>1, <3>2, <3>3, <3>4, <3>5, <3>6, <3>7, <3>8 DEF Next
  <2> QED BY <2>1, <2>2 DEF Agreeing
<1>4. CASE UNCHANGED vars
  <2>1. UNCHANGED <<rows, preset, queues, undoSteps, redoSteps>>
        BY <1>4 DEF vars
  <2> QED BY <2>1, StaysAgreeing
<1> QED BY <1>3, <1>4

\* At the start there are no queues.
LEMMA InitAgreeing == Init => Agreeing
BY DEF Init, Agreeing, Tracked, Told

\* What is in two sequences, one after the other, is in one of them.
LEMMA ConcatElements ==
    ASSUME NEW S, NEW f \in Seq(S), NEW g \in Seq(S), NEW j \in DOMAIN (f \o g), NEW e, e = (f \o g)[j]
    PROVE  e \in ToSet(f) \cup ToSet(g)
<1> DEFINE n == Len(f)
           all == f \o g
<1>1. n \in Nat /\ DOMAIN f = 1..n /\ Len(g) \in Nat /\ DOMAIN g = 1..Len(g)
      OBVIOUS
<1>2. /\ all \in Seq(S) /\ Len(all) = n + Len(g)
      /\ \A i \in 1..(n + Len(g)) : all[i] = IF i <= n THEN f[i] ELSE g[i - n]
      BY ConcatProperties
<1>3. j \in DOMAIN all /\ e = all[j]
      OBVIOUS
<1> HIDE DEF all, n
<1>4. j \in 1..(n + Len(g))
      BY <1>2, <1>3
<1>5. CASE j <= n
  <2>1. j \in DOMAIN f /\ e = f[j]
        BY <1>1, <1>2, <1>3, <1>4, <1>5
  <2> QED BY <2>1 DEF ToSet
<1>6. CASE j > n
  <2>1. j - n \in DOMAIN g /\ e = g[j - n]
        BY <1>1, <1>2, <1>3, <1>4, <1>6
  <2> QED BY <2>1 DEF ToSet
<1> QED BY <1>1, <1>4, <1>5, <1>6

\* Queues that agree with the cards have the mtimes of the cards.
LEMMA AgreeingUnmodified ==
    ASSUME IInv, Agreeing
    PROVE  QueuedCardsUnmodified
<1> SUFFICES ASSUME NEW i \in DOMAIN queues,
                    NEW j \in DOMAIN (queues[i].main \o queues[i].learning)
             PROVE  rows[(queues[i].main \o queues[i].learning)[j].id].mtime
                        = (queues[i].main \o queues[i].learning)[j].mtime
    BY DEF QueuedCardsUnmodified
<1>1. PICK q : queues = <<q>> /\ Current(q, undoSteps)
      BY DEF IInv, Studying
<1>2. queues[i] = q /\ q.main \in Seq(MainQueueEntry) /\ q.learning \in Seq(LearningQueueEntry)
      BY <1>1 DEF Current, Queues
<1>3. Sound(Here(q, rows, preset))
      BY <1>1 DEF Agreeing, Tracked, InStep
<1>4. /\ \A e \in ToSet(q.main) : rows[e.id].mtime = e.mtime
      /\ \A e \in ToSet(q.learning) : rows[e.id].mtime = e.mtime
      BY <1>3 DEF Sound, Here, ContentOf
<1>5. PICK e : e = (q.main \o q.learning)[j] /\ j \in DOMAIN (q.main \o q.learning)
      BY <1>2
<1>6. q.main \in Seq(Entries) /\ q.learning \in Seq(Entries)
      BY <1>2, SeqMonotonic DEF Entries
<1>7. e \in ToSet(q.main) \cup ToSet(q.learning)
      BY <1>5, <1>6, ConcatElements
<1> QED BY <1>2, <1>4, <1>5, <1>7

\* A card in the queues was not modified, so that fetching it does not fail: if
\* the reviewer answers the card that was fetched last, and an answer buries
\* only siblings that were not gathered.
THEOREM QueuedCardsAreUnmodified ==
    ASSUME Refetches, OptionsAgree
    PROVE  Spec => []QueuedCardsUnmodified
<1>1. Init => Study /\ Agreeing
      BY InitStudy, InitAgreeing
<1>2. Study /\ Agreeing /\ [Next]_vars => (Study /\ Agreeing)'
      BY NextStudy, NextAgreeing
<1>3. Study /\ Agreeing => QueuedCardsUnmodified
      BY AgreeingUnmodified DEF Study
<1> QED BY <1>1, <1>2, <1>3, PTL DEF Spec

=============================================================================
