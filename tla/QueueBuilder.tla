---------------------------- MODULE QueueBuilder ----------------------------
(***************************************************************************)
(* Building the day's study queues (rslib/src/scheduler/queue/builder,     *)
(* decks/limits.rs, decks/stats.rs and speedrun/mastery.rs) over days of   *)
(* study: which of the due cards are gathered, as the limits of nested     *)
(* decks, the burying of siblings, the guided order of topics and the tier *)
(* that is studied allow, and how answering counts against the limits.     *)
(*                                                                         *)
(* A queue is the set of cards it still holds.  In which order they come,  *)
(* and how queues follow the clock, undo and other operations, is in       *)
(* StudyQueue.  A deck's parent exists; filtered decks, which have no      *)
(* limits, are left out.                                                   *)
(***************************************************************************)
EXTENDS Integers, FiniteSets, SequencesExt

CONSTANTS
    Cards, DeckOf, NoteOf,
    Position,       \* the due of a new card
    Decks, Parent, NoDeck,
    Topics, UnitOf, NoTopic,
    Prereqs,        \* the topics each topic builds on
    UnitPrereqs,    \* the units each unit builds on
    Settings,       \* the settings to begin with, see SettingsType
    Returns,        \* the kinds each card may come back as after it was answered
    Absent          \* no queues

Kinds == {"learning", "dayLearning", "review", "new"}
Notes == {NoteOf[c] : c \in Cards}
Tiers == {"WithinUnit", "CrossUnit"}

\* limit: what each deck allows on a day; ignoreReviews and allParents:
\* NewCardsIgnoreReviewLimit and ApplyAllParentLimits; bury: the kinds each
\* deck's options bury; byPosition: NewCardGatherPriority::LowestPosition;
\* guided, unlocked, tested: the guided order, the topics exempt from it, and
\* those passed in a practice test; scheduler and scope: the mastery scheduler,
\* and the tier to study in each deck.
SettingsType ==
    [limit : [Decks -> [new : Nat, review : Nat]],
     ignoreReviews : BOOLEAN, allParents : BOOLEAN,
     bury : [Decks -> SUBSET Kinds], byPosition : BOOLEAN,
     topic : [Notes -> Topics \cup {NoTopic}],
     guided : BOOLEAN, unlocked : SUBSET Topics, tested : SUBSET Topics,
     scheduler : BOOLEAN, scope : [Decks -> Tiers \cup {"none"}]]

ASSUME BuilderAssumption ==
    /\ DeckOf \in [Cards -> Decks]
    /\ Parent \in [Decks -> Decks \cup {NoDeck}]
    /\ NoDeck \notin Decks /\ NoTopic \notin Topics
    /\ Prereqs \in [Topics -> SUBSET Topics]
    /\ Returns \in [Cards -> SUBSET (Kinds \ {"new"})]
    /\ \A s \in Settings : s \in SettingsType

VARIABLES
    settings,
    current,        \* the current deck
    kind,           \* the queue of each card, or "later" when it is not due
    buried,         \* cards buried by answering a sibling
    studied,        \* what each deck counts as studied today
    cleared,        \* topics that clear their memory gate
    queue           \* the study queues, or Absent

vars == <<settings, current, kind, buried, studied, cleared, queue>>

-----------------------------------------------------------------------------
(* Limits.                                                                  *)

Smaller(a, b) == IF a < b THEN a ELSE b
AtLeast0(n) == IF n < 0 THEN 0 ELSE n

\* A deck and its parents, as parent_decks and the names of decks give them.
Path[d \in Decks] == IF Parent[d] = NoDeck THEN <<d>> ELSE <<d>> \o Path[Parent[d]]

Under(d) == {e \in Decks : d \in ToSet(Path[e])}

\* The decks of the limit tree for a deck, and its root (LimitTreeMap::build).
Tree(d) == Under(d) \cup (IF settings.allParents THEN ToSet(Path[d]) ELSE {})
Root(d) == IF settings.allParents THEN Last(Path[d]) ELSE d

CapTo(limits, other) ==
    [new |-> Smaller(limits.new, other.new), review |-> Smaller(limits.review, other.review)]

\* RemainingLimits::new: what is left of a deck's own limits today.
Remaining(d) ==
    LET limit == settings.limit[d]
        new == limit.new - studied[d].new
        review == limit.review - studied[d].review
                    - (IF settings.ignoreReviews THEN 0 ELSE studied[d].new)
    IN  [review |-> AtLeast0(review),
         new |-> AtLeast0(IF settings.ignoreReviews THEN new ELSE Smaller(new, review))]

\* insert_child_node: no deck starts with more than its parent has.
LimitTree(root) ==
    LET Capped[d \in Tree(root)] ==
            IF d = Root(root) THEN Remaining(d) ELSE CapTo(Remaining(d), Capped[Parent[d]])
    IN  Capped

LimitOf(k) == IF k = "new" THEN "new" ELSE "review"

Decremented(limits, which) ==
    IF which = "new" THEN [limits EXCEPT !.new = AtLeast0(@ - 1)]
    ELSE LET review == AtLeast0(limits.review - 1)
         IN  [review |-> review,
              new |-> IF settings.ignoreReviews THEN limits.new ELSE Smaller(limits.new, review)]

\* Mutant: the decks below are not told that a limit has run out.
DecrementAlone(tree, d, which) == [tree EXCEPT ![d] = Decremented(@, which)]

\* A limit that runs out runs out for the decks below as well
\* (cap_node_and_descendants).
DecrementNode(tree, d, which) ==
    LET after == Decremented(tree[d], which)
        ranOut == \/ tree[d].new > 0 /\ after.new = 0
                  \/ tree[d].review > 0 /\ after.review = 0
    IN  [e \in DOMAIN tree |->
            IF e = d THEN after
            ELSE IF ranOut /\ e \in Under(d) THEN CapTo(tree[e], after) ELSE tree[e]]

\* decrement_deck_and_parent_limits
Spend(tree, d, which) ==
    FoldLeft(LAMBDA limits, e : DecrementNode(limits, e, which), tree,
             SelectSeq(Path[d], LAMBDA e : e \in DOMAIN tree))

-----------------------------------------------------------------------------
(* The list of decks, which counts by itself what a deck would show today.  *)

CountOf(d, k) == Cardinality({c \in Cards : DeckOf[c] = d /\ kind[c] = k /\ c \notin buried})

\* Mutant: new cards take no room from reviews.
CappedApart(counts, limits) ==
    LET dayLearning == Smaller(counts.dayLearning, limits.review)
    IN  [dayLearning |-> dayLearning,
         review |-> Smaller(counts.review, limits.review - dayLearning),
         new |-> Smaller(counts.new, limits.new)]

\* NodeCountsV3::capped.
Capped(counts, limits) ==
    LET dayLearning == Smaller(counts.dayLearning, limits.review)
        review == Smaller(counts.review, limits.review - dayLearning)
        rest == limits.review - dayLearning - review
        new == Smaller(counts.new, limits.new)
    IN  [dayLearning |-> dayLearning, review |-> review,
         new |-> IF settings.ignoreReviews THEN new ELSE Smaller(new, rest)]

\* What a deck counts together with the decks below it
\* (sum_counts_and_apply_limits_v3).
Listed ==
    LET Limits[d \in Decks] ==
            IF settings.allParents /\ Parent[d] # NoDeck
            THEN CapTo(Remaining(d), Limits[Parent[d]]) ELSE Remaining(d)
        Counts[d \in Decks] ==
            LET below == {e \in Decks : Parent[e] = d}
                All(k) == CountOf(d, k) + MapThenSumSet(LAMBDA e : Counts[e][k], below)
            IN  Capped([dayLearning |-> All("dayLearning"), review |-> All("review"),
                        new |-> All("new")], Limits[d])
    IN  Counts

-----------------------------------------------------------------------------
(* Gathering.                                                               *)

\* Mutant: a card that is left out for a sibling counts against the limits.
VisitAndSpend(gathered, c) ==
    LET note == NoteOf[c]
        which == LimitOf(kind[c])
        ranOut == gathered.tree[DeckOf[c]][which] = 0 \/ gathered.tree[Root(current)][which] = 0
        seen == [gathered EXCEPT !.seen[note] = @ \cup settings.bury[DeckOf[c]]]
        added == [seen EXCEPT !.got = IF kind[c] \in gathered.seen[note] THEN @ ELSE @ \cup {c}]
    IN  IF kind[c] = "learning" THEN added
        ELSE IF ranOut THEN gathered
        ELSE [added EXCEPT !.tree = Spend(@, DeckOf[c], which)]

\* What the callbacks of gathering.rs do with a card.  One that a sibling seen
\* earlier buries is left out without using up a limit; one whose limit has run
\* out is not even seen (limit_reached, add_due_card, add_new_card,
\* get_and_update_bury_mode_for_note).
Visit(gathered, c) ==
    LET note == NoteOf[c]
        which == LimitOf(kind[c])
        ranOut == gathered.tree[DeckOf[c]][which] = 0 \/ gathered.tree[Root(current)][which] = 0
        isBuried == kind[c] \in gathered.seen[note]
        seen == [gathered EXCEPT !.seen[note] = @ \cup settings.bury[DeckOf[c]]]
        added == [seen EXCEPT !.got = @ \cup {c}]
    IN  IF kind[c] = "learning" THEN added
        ELSE IF ranOut THEN gathered
        ELSE IF isBuried THEN seen
        ELSE [added EXCEPT !.tree = Spend(@, DeckOf[c], which)]

\* The cards the queries on active decks return.
Due == {c \in Cards : DeckOf[c] \in Under(current) /\ kind[c] \in Kinds /\ c \notin buried}
DueOf(k) == {c \in Due : kind[c] = k}

\* The orders in which cards may be met.  New cards in learning first, then by
\* kind; any order within a kind stands for the orders of the deck options.
\* Going through new cards deck by deck is one of them: the limits of a deck
\* that has run out refuse the rest of its cards one by one.
Orders ==
    {SetToSeq(DueOf("learning")) \o day \o review \o new :
        day \in SetToSeqs(DueOf("dayLearning")),
        review \in SetToSeqs(DueOf("review")),
        new \in {order \in SetToSeqs(DueOf("new")) :
                    settings.byPosition =>
                        IsSorted(order, LAMBDA c, e : Position[c] <= Position[e])}}

\* gather_cards
Gatherings ==
    {FoldLeft(Visit, [tree |-> LimitTree(current), seen |-> [n \in Notes |-> {}], got |-> {}],
              order).got : order \in Orders}

-----------------------------------------------------------------------------
(* Topics.                                                                  *)

TopicOf(c) == settings.topic[NoteOf[c]]

\* Topics that some note has; all statistics are of these.
Present == {TopicOf(c) : c \in Cards} \ {NoTopic}

\* Topics with reviews (SubtopicStats::reviews): a card that is not new has been
\* reviewed.
Started == {TopicOf(c) : c \in {e \in Cards : kind[e] # "new"}} \ {NoTopic}

\* Mutant: a topic that was merely started opens nothing.
MasteryOnly(t) == t \in Present => t \in cleared \cup settings.tested

\* prereq_satisfied
Satisfied(t) == t \in Present => t \in Started \cup cleared \cup settings.tested

\* compute_locks
UnmetPrereqs(t) ==
    {p \in Prereqs[t] : ~Satisfied(p)}
        \cup {p \in Present : UnitOf[p] \in UnitPrereqs[UnitOf[t]] /\ ~Satisfied(p)}

IsLocked(t) ==
    t \in Present /\ settings.guided /\ t \notin settings.unlocked /\ UnmetPrereqs(t) # {}

\* compute_pools; two cleared topics are MIN_CLEARED_TO_INTERLEAVE.
Pool(t) ==
    LET unit == {p \in Present : UnitOf[p] = UnitOf[t]}
    IN  IF t \notin cleared THEN "Blocked"
        ELSE IF unit \subseteq cleared THEN "CrossUnit"
        ELSE IF Cardinality(unit \cap cleared) >= 2 THEN "WithinUnit"
        ELSE "Blocked"

\* scope_cards_to_tier and speedrun_scope_queues_to_tier
IsOutOfTier(c) ==
    /\ settings.scheduler /\ settings.scope[current] # "none"
    /\ kind[c] \in {"new", "review"}
    /\ TopicOf(c) # NoTopic /\ Pool(TopicOf(c)) # settings.scope[current]

\* speedrun_gate_new_cards
IsGated(c) == kind[c] = "new" /\ TopicOf(c) # NoTopic /\ IsLocked(TopicOf(c))

-----------------------------------------------------------------------------
(* Days of study.                                                           *)

NothingStudied == [d \in Decks |-> [new |-> 0, review |-> 0]]

Init ==
    /\ settings \in Settings
    /\ current \in Decks
    /\ kind = [c \in Cards |-> "new"]
    /\ buried = {} /\ cleared = {}
    /\ studied = NothingStudied
    /\ queue = Absent

\* build_queues: what the gates and the scope withhold has been gathered, and
\* has used up limits.
Fetch ==
    /\ queue = Absent
    /\ \E got \in Gatherings :
          LET kept == {c \in got : ~IsOutOfTier(c) /\ ~IsGated(c)}
          IN  queue' = [cards |-> kept, withheld |-> got \ kept]
    /\ UNCHANGED <<settings, current, kind, buried, studied, cleared>>

Siblings(c) == {s \in Cards \ {c} : NoteOf[s] = NoteOf[c]}

GatherOrd(k) ==
    CASE k = "learning" -> 0 [] k = "dayLearning" -> 1 [] k = "review" -> 2 [] k = "new" -> 3

\* bury_siblings: kinds that are gathered before the card's are left alone.
\* Siblings that are not due are buried as well, for a day on which they would
\* not come.
BuriedBy(c) ==
    {s \in Siblings(c) :
        /\ kind[s] \in settings.bury[DeckOf[c]]
        /\ GatherOrd(kind[c]) <= GatherOrd(kind[s])}

\* update_deck_stats_from_answer, for the deck and its parents.
Counted(c) ==
    [d \in Decks |->
        IF d \notin ToSet(Path[DeckOf[c]]) THEN studied[d]
        ELSE CASE kind[c] = "new" -> [studied[d] EXCEPT !.new = @ + 1]
               [] kind[c] \in {"review", "dayLearning"} -> [studied[d] EXCEPT !.review = @ + 1]
               [] OTHER -> studied[d]]

\* answer_card: the card is due another day, or again today.
Answer(c) ==
    /\ queue # Absent /\ c \in queue.cards \ buried
    /\ studied' = Counted(c)
    /\ buried' = buried \cup BuriedBy(c)
    /\ \/ /\ kind' = [kind EXCEPT ![c] = "later"]
          /\ queue' = [queue EXCEPT !.cards = @ \ {c}]
       \/ /\ "learning" \in Returns[c]
          /\ kind' = [kind EXCEPT ![c] = "learning"]
          /\ UNCHANGED queue
    /\ UNCHANGED <<settings, current, cleared>>

\* Another operation, or another deck, clears the queues (set_current_deck).
Interrupt ==
    /\ queue # Absent
    /\ queue' = Absent
    /\ current' \in Decks
    /\ UNCHANGED <<settings, kind, buried, studied, cleared>>

\* The day rolls over: counts start anew (reset_stats_if_day_changed), buried
\* cards come back, some of the cards studied earlier are due, and what is
\* remembered of each topic has changed.
NewDay ==
    /\ studied' = NothingStudied
    /\ buried' = {} /\ queue' = Absent
    /\ kind' \in {k \in [Cards -> Kinds \cup {"later"}] :
                    \A c \in Cards :
                        IF kind[c] = "later" THEN k[c] \in Returns[c] \cup {"later"}
                        ELSE k[c] = kind[c]}
    /\ cleared' \in IF settings.scheduler THEN SUBSET Started ELSE {{}}
    /\ UNCHANGED <<settings, current>>

Next == Fetch \/ (\E c \in Cards : Answer(c)) \/ Interrupt \/ NewDay

\* Days pass by themselves.
Spec == Init /\ [][Next]_vars /\ WF_vars(NewDay)

-----------------------------------------------------------------------------
(* Properties.                                                              *)

\* Whatever is built anew, cleared or switched during a day, no deck that is
\* being studied, nor any above it where parents' limits apply, counts more
\* cards than its limits: new cards, and reviews, which new cards count
\* towards unless they are to ignore them (decks/limits.rs).
DayLimitsKept ==
    [][\A d \in Tree(current) :
          LET limit == settings.limit[d]
              before == studied[d]
              after == studied'[d]
              all == after.review + (IF settings.ignoreReviews THEN 0 ELSE after.new)
          IN  /\ after.new > before.new =>
                    /\ after.new <= limit.new
                    /\ settings.ignoreReviews \/ all <= limit.review
              /\ after.review > before.review => all <= limit.review]_vars

\* The counts in the list of decks, computed from sums, are those of the queue
\* that opening the deck builds card by card, however the limits of nested
\* decks interact, as long as no sibling is buried (decks/tree.rs, which is not
\* meant to know of siblings or topics; decks/limits.rs).
ListTellsTheQueue ==
    [][queue = Absent /\ queue' # Absent /\ (\A d \in Decks : settings.bury[d] = {}) =>
         \A k \in {"dayLearning", "review", "new"} :
            Cardinality({c \in queue'.cards \cup queue'.withheld : kind[c] = k})
                = Listed[current][k]]_vars

\* What counts against a deck's limit on a day: cards studied, and cards taken.
Taken(d, kinds, cards) == Cardinality({c \in cards : kind[c] \in kinds /\ DeckOf[c] \in Under(d)})

IsFull(d, k, cards) ==
    LET limit == settings.limit[d]
        reviews == studied[d].review + Taken(d, {"review", "dayLearning"}, cards)
        new == studied[d].new + Taken(d, {"new"}, cards)
    IN  \/ ~settings.ignoreReviews /\ reviews + new >= limit.review
        \/ IF k = "new" THEN new >= limit.new
           ELSE settings.ignoreReviews /\ reviews >= limit.review

\* A due card is left out of the queue for a reason: some deck it counts
\* towards has used up its limit, a sibling that was gathered or withheld
\* buries it, its topic builds on one that was not begun, or its topic is not
\* in the tier to study (gathering.rs, burying.rs, mastery.rs).
LeftOutForAReason ==
    [][queue = Absent /\ queue' # Absent =>
         LET taken == queue'.cards \cup queue'.withheld
         IN  \A c \in Due \ queue'.cards :
                \/ \E d \in Tree(current) : DeckOf[c] \in Under(d) /\ IsFull(d, kind[c], taken)
                \/ /\ Siblings(c) \cap taken # {}
                   /\ \E s \in Siblings(c) \cap Due : kind[c] \in settings.bury[DeckOf[s]]
                \/ c \in queue'.withheld /\ (IsGated(c) \/ IsOutOfTier(c))]_vars

\* Settings under which the limits cannot be used up by cards that are then
\* withheld: new cards come in the order of the topics.
FollowsTopics ==
    /\ settings.byPosition /\ settings.ignoreReviews /\ ~settings.scheduler
    /\ \A d \in Decks : settings.limit[d].new > 0 /\ settings.bury[d] = {}
    /\ \A c, e \in Cards :
          TopicOf(c) # NoTopic /\ TopicOf(e) # NoTopic
            /\ (TopicOf(e) \in Prereqs[TopicOf(c)]
                 \/ UnitOf[TopicOf(e)] \in UnitPrereqs[UnitOf[TopicOf(c)]])
            => Position[e] < Position[c]

Finished == queue # Absent /\ queue.cards = {} /\ \A c \in Cards : DeckOf[c] \in Under(current)

\* The guided order "never leaves the learner with nothing new to do"
\* (mastery.rs:418): who finishes the day's cards again and again has seen them
\* all at some time, although no topic is ever mastered.
TopicsOpen == FollowsTopics /\ []<>Finished => <>(\A c \in Cards : kind[c] # "new")
=============================================================================
