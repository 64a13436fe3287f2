------------------------------ MODULE StudyQueue ------------------------------
(***************************************************************************)
(* The study queues of the current deck (rslib/src/scheduler/queue): built *)
(* once from the cards that are due, then kept in step with the cards by   *)
(* each answer, undo and redo, and thrown away by every other change.      *)
(*                                                                         *)
(* A reviewer fetches the card on top of the queues and answers it later;  *)
(* the card is shown in between, and other windows may act meanwhile.      *)
(* Time is in seconds, as are modification times and the due times of the  *)
(* cards in learning; DayLength seconds make a day.                        *)
(***************************************************************************)
EXTENDS Sequences, Integers, FiniteSets, SequencesExt

CONSTANTS
    Cards,
    NoteOf,         \* the note of each card; cards of one note are siblings
    PreviewCards,   \* cards in a filtered deck that does not reschedule
    Presets,        \* for each card, the queues whose siblings it buries
    StartRows,      \* what the cards may be at the start
    Delays,         \* the learning steps, in seconds
    LearnAhead,     \* learn_ahead_secs
    DayLength,
    MaxNow,         \* bound: the clock stops here
    MaxSteps,       \* bound: answers and other changes that can be undone
    MaxBuilds,      \* bound: how often the queues are built
    Refetches       \* TRUE if the reviewer fetches anew after every operation

CardQueues == {"New", "Learn", "DayLearn", "Review", "Home"}

\* `queue` is CardQueue with learning and previewed cards in one; `Home` stands
\* for a previewed card back in a deck that is not studied; `hidden` is why the
\* card is out of its queue; `tried` is reps > 0.
Row == [queue : CardQueues, due : Nat, mtime : Nat, tried : BOOLEAN,
        hidden : {"no", "buried", "suspended"}]

ASSUME StudyAssumption ==
    /\ IsFiniteSet(Cards)
    /\ PreviewCards \subseteq Cards
    /\ StartRows \subseteq Row
    /\ Presets \subseteq [Cards -> SUBSET {"New", "DayLearn", "Review"}]
    /\ Delays \subseteq Nat
    /\ LearnAhead \in Nat
    /\ DayLength \in Nat \ {0}
    /\ MaxNow \in Nat
    /\ Refetches \in BOOLEAN

VARIABLES
    rows,           \* the cards table
    preset,         \* the deck options in force, fixed
    queues,         \* <<>>, or <<the queues>>
    shown,          \* <<>>, or <<the card fetched last and its state>>
    undoSteps,      \* newest first
    redoSteps,      \* next one first
    builds,         \* stands for the build time
    now,
    outcome         \* of the latest operation: "ok", "error" or "panic"

vars == <<rows, preset, queues, shown, undoSteps, redoSteps, builds, now, outcome>>

Today == now \div DayLength
NextDayAt == (Today + 1) * DayLength

Init ==
    /\ rows \in [Cards -> StartRows]
    /\ preset \in Presets
    /\ queues = <<>>
    /\ shown = <<>>
    /\ undoSteps = <<>>
    /\ redoSteps = <<>>
    /\ builds = 0
    /\ now = 0
    /\ outcome = "ok"

-----------------------------------------------------------------------------
(* Building the queues.                                                     *)

GatherOrd(queue) ==
    CASE queue = "Learn" -> 0
      [] queue = "DayLearn" -> 1
      [] queue = "Review" -> 2
      [] queue = "New" -> 3

IsDue(row) ==
    /\ row.hidden = "no"
    /\ \/ row.queue = "New"
       \/ row.queue = "Learn" /\ row.due <= NextDayAt
       \/ row.queue \in {"DayLearn", "Review"} /\ row.due <= Today

Siblings(c) == {s \in Cards \ {c} : NoteOf[s] = NoteOf[c]}

\* The orders in which the builder may meet the due cards.
GatherOrders(table) ==
    {order \in SetToSeqs({c \in Cards : IsDue(table[c])}) :
        IsSorted(order, LAMBDA a, b : GatherOrd(table[a].queue) <= GatherOrd(table[b].queue))}

\* Mutant: a card is left out only for a sibling of its own queue.
GatheredByQueue(table, order) ==
    {order[i] : i \in {j \in DOMAIN order :
        \A k \in 1..(j - 1) :
            order[k] \in Siblings(order[j]) =>
                \/ table[order[j]].queue # table[order[k]].queue
                \/ table[order[j]].queue \notin preset[order[k]]}}

\* A card is left out when a sibling met before it buries cards of its queue;
\* cards in learning are never left out.
Gathered(table, order) ==
    {order[i] : i \in {j \in DOMAIN order :
        \/ table[order[j]].queue = "Learn"
        \/ \A k \in 1..(j - 1) :
            order[k] \in Siblings(order[j]) =>
                table[order[j]].queue \notin preset[order[k]]}}

MainKind(queue) == IF queue = "DayLearn" THEN "InterdayLearning" ELSE queue

MainEntry(c, row) == [id |-> c, mtime |-> row.mtime, kind |-> MainKind(row.queue)]

LearningEntry(c, row) ==
    [id |-> c, mtime |-> row.mtime, kind |-> "IntradayLearning",
     due |-> row.due, tried |-> row.tried]

\* cmp_by_reps_then_due: cards tried before come first, then earlier due times.
Before(a, b) ==
    \/ a.tried /\ ~b.tried
    \/ a.tried = b.tried /\ a.due < b.due

Count(seq, Test(_)) == Cardinality({i \in DOMAIN seq : Test(seq[i])})

MainEntries(table, gathered) ==
    {MainEntry(c, table[c]) : c \in {g \in gathered : table[g].queue # "Learn"}}

LearningEntries(table, gathered) ==
    {LearningEntry(c, table[c]) : c \in {g \in gathered : table[g].queue = "Learn"}}

LearningOrders(entries) ==
    {seq \in SetToSeqs(entries) : IsSorted(seq, LAMBDA a, b : ~Before(b, a))}

NewQueues(main, learning) ==
    [counts |->
        [New |-> Count(main, LAMBDA e : e.kind = "New"),
         Review |-> Count(main, LAMBDA e : e.kind = "Review"),
         Learning |-> Count(main, LAMBDA e : e.kind = "InterdayLearning")
                        + Count(learning, LAMBDA e : e.due <= now + LearnAhead)],
     main |-> main, learning |-> learning,
     cutoff |-> now, day |-> Today, build |-> builds + 1]

BuiltFrom(table, gathered) ==
    {NewQueues(main, learning) :
        main \in SetToSeqs(MainEntries(table, gathered)),
        learning \in LearningOrders(LearningEntries(table, gathered))}

\* Limits are left out, and new, review and interday learning cards mix in any
\* way: which way is up to the deck options.
Built(table) ==
    UNION {BuiltFrom(table, Gathered(table, order)) : order \in GatherOrders(table)}

-----------------------------------------------------------------------------
(* Operations on the queues q.                                              *)

AheadCutoff(q) == q.cutoff + LearnAhead

CountName(entry) ==
    IF entry.kind \in {"IntradayLearning", "InterdayLearning"} THEN "Learning" ELSE entry.kind

\* The cards in learning shown before the main queue, and behind it.
DueNow(q) == {i \in DOMAIN q.learning : q.learning[i].due <= q.cutoff}
DueAhead(q) ==
    {i \in DOMAIN q.learning :
        q.learning[i].due > q.cutoff /\ q.learning[i].due <= AheadCutoff(q)}

NothingToShow(q) == DueNow(q) = {} /\ q.main = <<>> /\ DueAhead(q) = {}

LeastOf(indices) == CHOOSE i \in indices : \A j \in indices : i <= j

\* The entry presented first.
First(q) ==
    IF DueNow(q) # {} THEN q.learning[LeastOf(DueNow(q))]
    ELSE IF q.main # <<>> THEN Head(q.main)
    ELSE q.learning[LeastOf(DueAhead(q))]

\* Mutant: the cutoff moves, and the cards it passes are not counted.
MoveCutoffOnly(q) == [q EXCEPT !.cutoff = now]

UpdateCutoffAndCount(q) ==
    [q EXCEPT !.cutoff = now,
              !.counts["Learning"] = @ + Count(q.learning,
                    LAMBDA e : e.due > AheadCutoff(q) /\ e.due <= now + LearnAhead)]

Snapshot(q) == [count |-> q.counts["Learning"], cutoff |-> q.cutoff]

\* Mutant: the count is restored, the cutoff is not.
RestoreCountOnly(q, snapshot) == [q EXCEPT !.counts["Learning"] = snapshot.count]

RestoreCutoff(q, snapshot) ==
    [q EXCEPT !.counts["Learning"] = snapshot.count, !.cutoff = snapshot.cutoff]

Decrement(n) == IF n = 0 THEN 0 ELSE n - 1

InLearning(q, c) == {i \in DOMAIN q.learning : q.learning[i].id = c}

AtTop(q, c) == InLearning(q, c) # {} \/ (q.main # <<>> /\ Head(q.main).id = c)

TopEntry(q, c) ==
    IF InLearning(q, c) # {}
    THEN q.learning[LeastOf(InLearning(q, c))]
    ELSE Head(q.main)

\* pop_entry, of a card that is AtTop.
PopEntry(q, c) ==
    LET entry == TopEntry(q, c)
        counted == [q EXCEPT !.counts[CountName(entry)] = Decrement(@)]
    IN  IF entry.kind = "IntradayLearning"
        THEN [counted EXCEPT !.learning = RemoveAt(@, LeastOf(InLearning(q, c)))]
        ELSE [counted EXCEPT !.main = Tail(@)]

\* Mutant: an undone entry goes to the back.
PushToBack(q, entry) ==
    LET counted == [q EXCEPT !.counts[CountName(entry)] = @ + 1]
    IN  IF entry.kind = "IntradayLearning"
        THEN [counted EXCEPT !.learning = Append(@, entry)]
        ELSE [counted EXCEPT !.main = Append(@, entry)]

PushUndoEntry(q, entry) ==
    LET counted == [q EXCEPT !.counts[CountName(entry)] = @ + 1]
    IN  IF entry.kind = "IntradayLearning"
        THEN [counted EXCEPT !.learning = <<entry>> \o @]
        ELSE [counted EXCEPT !.main = <<entry>> \o @]

\* Where binary_search_by may end: at any entry that is equal, or between a
\* smaller and a greater one.  Only if the sequence is sorted is that one place.
SearchResults(seq, entry) ==
    LET equal == {i \in DOMAIN seq : ~Before(seq[i], entry) /\ ~Before(entry, seq[i])}
        between == {i \in 1..(Len(seq) + 1) :
                        /\ i > 1 => Before(seq[i - 1], entry)
                        /\ i <= Len(seq) => Before(entry, seq[i])}
    IN  equal \cup between

\* Mutant: the entry is added at the end.
AppendLearning(q, entry) ==
    {[q EXCEPT !.counts["Learning"] = IF entry.due <= AheadCutoff(q) THEN @ + 1 ELSE @,
               !.learning = Append(@, entry)]}

InsertLearning(q, entry) ==
    {[q EXCEPT !.counts["Learning"] = IF entry.due <= AheadCutoff(q) THEN @ + 1 ELSE @,
               !.learning = InsertAt(@, i, entry)] : i \in SearchResults(q.learning, entry)}

\* Mutant: the requeued card stays in the queue when its answer is undone.
RemoveNothing(q, c) == q

RemoveLearning(q, c) ==
    IF InLearning(q, c) = {}
    THEN q
    ELSE LET position == LeastOf(InLearning(q, c))
         IN  [q EXCEPT !.learning = RemoveAt(@, position),
                       !.counts["Learning"] =
                            IF q.learning[position].due <= AheadCutoff(q)
                            THEN Decrement(@)
                            ELSE @]

\* Mutant: the card is not moved behind the next one.
NotCollapsed(q, entry) == entry

\* requeue_learning_entry: with nothing else to show, a card that would come up
\* again at once is made due just after the next one.
Collapsed(q, entry) ==
    IF /\ entry.due <= AheadCutoff(q)
       /\ q.main = <<>>
       /\ q.learning # <<>>
       /\ Head(q.learning).due >= entry.due
       /\ Head(q.learning).due + 1 < AheadCutoff(q)
    THEN [entry EXCEPT !.due = Head(q.learning).due + 1]
    ELSE entry

-----------------------------------------------------------------------------
(* Operations on the collection.  Each is one transaction.                  *)

Previewed(c, row) == c \in PreviewCards /\ row.queue # "Home"

\* What of a card answer_card compares with the state it was shown in: the days
\* elapsed count for a review, the seconds elapsed in learning do not.
SchedState(c, row) ==
    IF Previewed(c, row)
    THEN <<"Preview">>
    ELSE IF row.queue = "Review" THEN <<"Review", Today - row.due>> ELSE <<row.queue>>

InLearningFor(row, delay) ==
    IF now + delay < NextDayAt
    THEN [row EXCEPT !.queue = "Learn", !.due = now + delay]
    ELSE [row EXCEPT !.queue = "DayLearn",
                     !.due = Today + 1 + (now + delay - NextDayAt) \div DayLength]

\* The rows an answer may leave behind; a lapse may suspend the card as a leech.
Rated(c, row) ==
    LET written == [row EXCEPT !.mtime = now, !.hidden = "no"]
        studied == [written EXCEPT !.tried = TRUE]
    IN  IF Previewed(c, row)
        THEN {[written EXCEPT !.queue = "Learn", !.due = now + d] : d \in Delays}
                \cup {[row EXCEPT !.queue = "Home", !.mtime = now]}
        ELSE {InLearningFor(studied, d) : d \in Delays}
                \cup {[studied EXCEPT !.queue = "Review", !.due = Today + 1]}
                \cup {[InLearningFor(studied, d) EXCEPT !.hidden = "suspended"] :
                            d \in IF row.queue = "Review" THEN Delays ELSE {}}

\* bury_siblings: new cards always, other queues unless gathered earlier than
\* the queue the answered card comes from.
SiblingsToBury(c) ==
    LET mode == {queue \in preset[c] :
                    \/ queue = "New"
                    \/ rows[c].hidden = "no" /\ GatherOrd(rows[c].queue) <= GatherOrd(queue)}
    IN  {s \in Siblings(c) : rows[s].hidden = "no" /\ rows[s].queue \in mode}

\* update_queues_after_answering_card: the queues, and what undo will need.
AfterAnswer(q, c, row) ==
    LET popped == PopEntry(q, c)
        requeue == IF row.queue = "Learn" /\ row.hidden = "no" /\ row.due < NextDayAt
                   THEN <<Collapsed(popped, LearningEntry(c, row))>>
                   ELSE <<>>
        placed == IF requeue = <<>> THEN {popped} ELSE InsertLearning(popped, requeue[1])
    IN  {[queues |-> <<UpdateCutoffAndCount(p)>>,
          update |-> <<[entry |-> TopEntry(q, c), requeue |-> requeue,
                        build |-> q.build, snapshot |-> Snapshot(p)]>>] : p \in placed}

\* An operation fails: roll back, discard undo and the study queues.
Failed ==
    /\ outcome' = "error"
    /\ queues' = <<>>
    /\ undoSteps' = <<>>
    /\ redoSteps' = <<>>
    /\ UNCHANGED rows

\* The cards table after some of its rows changed.
Written(changed, table) ==
    [c \in Cards |-> IF c \in DOMAIN changed THEN changed[c] ELSE table[c]]

\* An operation succeeds: its changes can be undone, and not redone.
Done(op, changed, update) ==
    /\ outcome' = "ok"
    /\ rows' = Written(changed, rows)
    /\ undoSteps' = <<[op |-> op, rows |-> [c \in DOMAIN changed |-> rows[c]],
                       update |-> update]>> \o undoSteps
    /\ redoSteps' = <<>>

\* What answer_card refuses: a card that was modified, or is not on top.
Refused(answered) ==
    \/ SchedState(answered.card, rows[answered.card]) # answered.state
    \/ queues # <<>> /\ ~AtTop(queues[1], answered.card)

\* The queues need not exist: then only the card is answered.
QueuesAfterAnswer(c, row) ==
    IF queues = <<>>
    THEN {[queues |-> <<>>, update |-> <<>>]}
    ELSE AfterAnswer(queues[1], c, row)

RefuseAnswer ==
    /\ shown # <<>>
    /\ Refused(shown[1])
    /\ Failed
    /\ shown' = <<>>
    /\ UNCHANGED <<preset, builds, now>>

Answer ==
    /\ shown # <<>>
    /\ ~Refused(shown[1])
    /\ Len(undoSteps) < MaxSteps
    /\ LET answered == shown[1].card
           ChangedTo(row) ==
                [c \in {answered} \cup SiblingsToBury(answered) |->
                    IF c = answered THEN row
                    ELSE [rows[c] EXCEPT !.hidden = "buried", !.mtime = now]]
       IN  \E row \in Rated(answered, rows[answered]) :
           \E after \in QueuesAfterAnswer(answered, row) :
               /\ Done("AnswerCard", ChangedTo(row), after.update)
               /\ queues' = after.queues
    /\ shown' = <<>>
    /\ UNCHANGED <<preset, builds, now>>

Refetch == shown' = IF Refetches THEN <<>> ELSE shown

\* bury_or_suspend_cards, and unbury_or_unsuspend_cards.
SetHidden(c, hidden) ==
    /\ c \notin PreviewCards        \* bound: previewed cards stay as they are
    /\ rows[c].hidden # hidden
    /\ Len(undoSteps) < MaxSteps
    /\ Done("Suspend",
            [x \in {c} |-> [rows[c] EXCEPT !.hidden = hidden, !.mtime = now]], <<>>)
    /\ queues' = <<>>
    /\ Refetch
    /\ UNCHANGED <<preset, builds, now>>

StaleDay == queues # <<>> /\ queues[1].day # Today

Unburied(table) ==
    [c \in Cards |-> IF table[c].hidden = "buried" THEN [table[c] EXCEPT !.hidden = "no"]
                                                  ELSE table[c]]

\* undo_queue_change of an undo, and of a redo; only the latter can fail.
QueuesUndone(update) ==
    LET restored == RestoreCutoff(queues[1], update.snapshot)
        removed == IF update.requeue = <<>>
                   THEN restored
                   ELSE RemoveLearning(restored, update.requeue[1].id)
    IN  {<<PushUndoEntry(removed, update.entry)>>}

QueuesRedone(update) ==
    LET popped == PopEntry(queues[1], update.entry.id)
        placed == IF update.requeue = <<>>
                  THEN {popped}
                  ELSE InsertLearning(popped, update.requeue[1])
    IN  {<<RestoreCutoff(p, update.snapshot)>> : p \in placed}

SameBuild(update) == queues # <<>> /\ queues[1].build = update.build

Reverted(step) ==
    [op |-> step.op, rows |-> [c \in DOMAIN step.rows |-> rows[c]], update |-> step.update]

\* The rows and queues a step goes back, or forward, to; `replayed` is what
\* becomes of the queues if they are still those the step was made with.
Replay(step, replayed) ==
    /\ outcome' = "ok"
    /\ rows' = Written(step.rows, rows)
    /\ queues' \in IF step.op # "AnswerCard" THEN {<<>>}
                   ELSE IF step.update = <<>> THEN {queues}
                   ELSE IF SameBuild(step.update[1]) THEN replayed
                   ELSE {<<>>}

\* get_or_invalidate_queues finds yesterday's queues: it discards undo, and with
\* it the step in progress, which the transaction then expects to be there.
Panic(table) ==
    /\ outcome' = "panic"
    /\ rows' = table
    /\ queues' = <<>>
    /\ undoSteps' = <<>>
    /\ redoSteps' = <<>>

FindsStaleDay(step) == step.update # <<>> /\ StaleDay

Undo ==
    /\ undoSteps # <<>>
    /\ ~FindsStaleDay(Head(undoSteps))
    /\ Replay(Head(undoSteps), QueuesUndone(Head(undoSteps).update[1]))
    /\ undoSteps' = Tail(undoSteps)
    /\ redoSteps' = <<Reverted(Head(undoSteps))>> \o redoSteps
    /\ Refetch
    /\ UNCHANGED <<preset, builds, now>>

UndoOnNewDay ==
    /\ undoSteps # <<>>
    /\ FindsStaleDay(Head(undoSteps))
    /\ Panic(Written(Head(undoSteps).rows, Unburied(rows)))
    /\ UNCHANGED <<preset, shown, builds, now>>

\* pop_entry does not find the card on top.
RedoRefused(step) ==
    /\ step.update # <<>>
    /\ SameBuild(step.update[1])
    /\ ~AtTop(queues[1], step.update[1].entry.id)

Redo ==
    /\ redoSteps # <<>>
    /\ ~FindsStaleDay(Head(redoSteps))
    /\ IF RedoRefused(Head(redoSteps))
       THEN Failed
       ELSE /\ Replay(Head(redoSteps), QueuesRedone(Head(redoSteps).update[1]))
            /\ undoSteps' = <<Reverted(Head(redoSteps))>> \o undoSteps
            /\ redoSteps' = Tail(redoSteps)
    /\ Refetch
    /\ UNCHANGED <<preset, builds, now>>

RedoOnNewDay ==
    /\ redoSteps # <<>>
    /\ FindsStaleDay(Head(redoSteps))
    /\ Panic(Unburied(Written(Head(redoSteps).rows, rows)))
    /\ UNCHANGED <<preset, shown, builds, now>>

\* counts(): with nothing to show, learning cards that became due are let in.
Counted(q) ==
    IF \A name \in DOMAIN q.counts : q.counts[name] = 0 THEN UpdateCutoffAndCount(q) ELSE q

\* The card on top, unless "card modified without updating queue".
Fetch(q, table) ==
    LET top == First(q)
    IN  IF NothingToShow(q)
        THEN shown' = <<>> /\ outcome' = "ok"
        ELSE IF table[top.id].mtime # top.mtime
        THEN shown' = <<>> /\ outcome' = "error"
        ELSE /\ shown' = <<[card |-> top.id, state |-> SchedState(top.id, table[top.id])]>>
             /\ outcome' = "ok"

\* get_queued_cards, on a new day and otherwise.
FetchOnNewDay ==
    /\ StaleDay
    /\ builds < MaxBuilds
    /\ \E q \in Built(Unburied(rows)) : queues' = <<Counted(q)>> /\ Fetch(Counted(q), rows)
    /\ rows' = Unburied(rows)
    /\ builds' = builds + 1
    /\ undoSteps' = <<>>
    /\ redoSteps' = <<>>
    /\ UNCHANGED <<preset, now>>

FetchAndBuild ==
    /\ queues = <<>>
    /\ builds < MaxBuilds
    /\ \E q \in Built(rows) : queues' = <<Counted(q)>> /\ Fetch(Counted(q), rows)
    /\ builds' = builds + 1
    /\ UNCHANGED <<rows, preset, undoSteps, redoSteps, now>>

FetchNext ==
    /\ queues # <<>> /\ ~StaleDay
    /\ queues' = <<Counted(queues[1])>>
    /\ Fetch(Counted(queues[1]), rows)
    /\ UNCHANGED <<rows, preset, undoSteps, redoSteps, builds, now>>

Tick ==
    /\ now < MaxNow
    /\ now' = now + 1
    /\ UNCHANGED <<rows, preset, queues, shown, undoSteps, redoSteps, builds, outcome>>

Next ==
    /\ outcome # "panic"       \* the panic poisons the mutex of the back end
    /\ \/ FetchOnNewDay
       \/ FetchAndBuild
       \/ FetchNext
       \/ Answer
       \/ RefuseAnswer
       \/ \E c \in Cards, hidden \in {"suspended", "no"} : SetHidden(c, hidden)
       \/ Undo
       \/ UndoOnNewDay
       \/ Redo
       \/ RedoOnNewDay
       \/ Tick

Spec == Init /\ [][Next]_vars

-----------------------------------------------------------------------------
(* Properties.                                                              *)

LearningQueueEntry ==
    [id : Cards, mtime : Nat, kind : {"IntradayLearning"}, due : Nat, tried : BOOLEAN]

MainQueueEntry ==
    [id : Cards, mtime : Nat, kind : {"New", "Review", "InterdayLearning"}]

\* The types of the cards, of the queues and of what undo keeps of them.
TypeOK ==
    /\ rows \in [Cards -> Row]
    /\ queues # <<>> =>
        /\ queues[1].main \in Seq(MainQueueEntry)
        /\ queues[1].learning \in Seq(LearningQueueEntry)
        /\ queues[1].counts \in [{"New", "Review", "Learning"} -> Nat]
        /\ queues[1].cutoff <= now
    /\ \A i \in DOMAIN undoSteps : DOMAIN undoSteps[i].rows \subseteq Cards
    /\ outcome \in {"ok", "error", "panic"}

\* The counts shown to the user are those of the cards in the queues: nothing
\* recounts them, so every answer, undo, redo and move of the cutoff has to
\* keep them right, and none may take a count below zero.
CountsMatch ==
    \A i \in DOMAIN queues :
        LET q == queues[i]
        IN  /\ q.counts["New"] = Count(q.main, LAMBDA e : e.kind = "New")
            /\ q.counts["Review"] = Count(q.main, LAMBDA e : e.kind = "Review")
            /\ q.counts["Learning"] =
                    Count(q.main, LAMBDA e : e.kind = "InterdayLearning")
                        + Count(q.learning, LAMBDA e : e.due <= AheadCutoff(q))

\* No card is in the queues twice, whatever answers were undone and redone.
EachCardOnce ==
    \A i \in DOMAIN queues :
        LET entries == queues[i].main \o queues[i].learning
        IN  \A j, k \in DOMAIN entries : entries[j].id = entries[k].id => j = k

\* Queues, rows and undo steps have their types, and no card is queued twice.
QueuesWellFormed == TypeOK /\ EachCardOnce

\* Deck options with which an answer buries only siblings that were not gathered:
\* who buries a queue buries those gathered later too, and siblings agree on that.
OptionsAgree ==
    \A options \in Presets, c \in Cards : \A s \in Siblings(c), k \in options[c] :
        {j \in {"New", "DayLearn", "Review"} : GatherOrd(k) <= GatherOrd(j)} \subseteq options[s]

\* "bug: card modified without updating queue" (queue/mod.rs:111): a card in
\* the queues has the mtime its entry has, so fetching it does not fail.
QueuedCardsUnmodified ==
    \A i \in DOMAIN queues :
        LET entries == queues[i].main \o queues[i].learning
        IN  \A j \in DOMAIN entries : rows[entries[j].id].mtime = entries[j].mtime

\* Undoing an answer presents the answered card again, first of all cards,
\* although time has passed and learning cards became due in the meantime.
UndoShowsCardAgain ==
    [][\A i \in DOMAIN queues' :
        (Undo /\ undoSteps[1].update # <<>>) =>
            /\ ~NothingToShow(queues'[i])
            /\ First(queues'[i]).id = undoSteps[1].update[1].entry.id]_vars

\* What was answered and undone can be redone: the card is found on top.
RedoIsNotRefused == [][Redo => outcome' # "error"]_vars

\* "Avoid placing it in a position where it would be shown again immediately"
\* (queue/learning.rs:70): with the main queue empty and another learning card
\* due at least two seconds before the learn-ahead limit, an answered card does
\* not come first again.
NotShownAgain ==
    [][\A i \in DOMAIN queues \cap DOMAIN queues' :
        LET other == {e \in ToSet(queues[i].learning) : e.id # shown[1].card}
            requeued == First(queues'[i]).id = shown[1].card
        IN  /\ Answer /\ outcome' = "ok"
            /\ queues'[i].main = <<>>
            /\ \E e \in other : e.due + 1 < AheadCutoff(queues[i])
            => ~requeued]_vars

\* "Adds an intraday learning card to the correct position of the queue"
\* (queue/learning.rs:138): no card before an answered card that is requeued
\* sorts after it, and none behind it sorts before it.
RequeuedInOrder ==
    [][\A i \in DOMAIN queues \cap DOMAIN queues' :
        Answer /\ outcome' = "ok" =>
            LET seq == queues'[i].learning
            IN  \A j, k \in DOMAIN seq :
                    j < k /\ shown[1].card \in {seq[j].id, seq[k].id} =>
                        ~Before(seq[k], seq[j])]_vars

\* "Must only be called in a transaction, when an operation was passed to
\* transact()" (undo/mod.rs:274): an operation in progress keeps its step.
StepStaysOpen == outcome # "panic"
=============================================================================
