------------------------------ MODULE CardStates ------------------------------
(***************************************************************************)
(* The state of a card as its row keeps it, and every operation of the     *)
(* scheduler that changes it (rslib/src/scheduler: answering, filtered,    *)
(* bury_and_suspend, new, reviews; decks/remove and card/mod).  A card's   *)
(* `due` is a position, a day number or a time in seconds, and what it is  *)
(* has to be worked out from the type, the queue and its size.  A filtered *)
(* deck borrows cards: it keeps their deck and due in odid and odue, and   *)
(* overwrites both.                                                        *)
(*                                                                         *)
(* One action is one operation, a transaction.  The cards are those of one *)
(* note.  The answer to a card is for the state it has: answering checks   *)
(* that the state shown is still the card's, so an answer that comes late  *)
(* is either refused or the same as one given now.  Intervals, ease, steps *)
(* and memory states are left out: which type and due an answer leads to   *)
(* is any outcome the presets allow.  So is the counter of positions: a    *)
(* new position is any of Positions.  Undoing is in UndoManager.           *)
(***************************************************************************)
EXTENDS Integers, FiniteSets

CONSTANTS
    Cards, HomeDecks, FilteredDecks, DefaultDeck,
    NoDeck, NoCard,
    Positions, Days, Times,
    BuryModes,          \* the ways of burying and suspending in use
    ShiftPreviewed      \* whether a shift may meet a previewed new card, see SortCards

\* A due above this is a time in seconds: see QueueFromType.
LastDay == 1000000000
IsTime(due) == due > LastDay

\* The zeroes stand for "none" in odue and original_position.  The program can
\* produce them as positions and days too; they are left out, see README.
ASSUME CardAssumption ==
    /\ DefaultDeck \in HomeDecks
    /\ HomeDecks \cap FilteredDecks = {}
    /\ NoDeck \notin HomeDecks \cup FilteredDecks
    /\ \A due \in Positions \cup Days : due \in Int /\ due > 0 /\ ~IsTime(due)
    /\ \A time \in Times : time \in Int /\ time > 0 /\ IsTime(time)
    /\ IsFiniteSet(Cards)
    /\ BuryModes \subseteq {"Suspended", "SchedBuried", "UserBuried"}

Types == {"New", "Learn", "Review", "Relearn"}
PutAwayQueues == {"Suspended", "SchedBuried", "UserBuried"}
Queues == {"New", "Learn", "DayLearn", "Review", "PreviewRepeat"} \cup PutAwayQueues

VARIABLES
    card,       \* the row of each card, or NoCard
    kind,       \* what each filtered deck is for: "preview", "reschedule", or "absent"
    decks       \* the normal decks there are

vars == <<card, kind, decks>>

-----------------------------------------------------------------------------
(* Operations on a row.                                                     *)

CardRows == [did : HomeDecks \cup FilteredDecks, odid : HomeDecks \cup {NoDeck},
             ctype : Types, queue : Queues, due : Int, odue : Int, position : Int]

\* What CardSchedule says of a card.
Schedules == [deck : HomeDecks, ctype : Types, due : Int, position : Int,
              status : {"active", "buried", "suspended"}]

ASSUME NoCardAssumption == NoCard \notin CardRows \cup Schedules

Live == {c \in Cards : card[c] # NoCard}

IsFiltered(k) == k.odid # NoDeck

PutAway(k) == k.queue \in PutAwayQueues

QueueFromType(t, due) ==
    IF t \in {"New", "Review"} THEN t
    ELSE IF IsTime(due) THEN "Learn" ELSE "DayLearn"

RestoreQueueFromType(k) == [k EXCEPT !.queue = QueueFromType(k.ctype, k.due)]

\* restore_queue_after_bury_or_suspend
Restored(k) == IF PutAway(k) THEN RestoreQueueFromType(k) ELSE k

\* Cards are numbered from -100000 in the order they were found; nothing here
\* depends on the order, and all numbers are negative.
FilteredPosition == -100000

MoveIntoFilteredDeck(k, f, reschedule) ==
    IF k.odue # 0 THEN k
    ELSE [k EXCEPT !.odid = k.did, !.did = f, !.odue = k.due,
                   !.queue = IF reschedule THEN @ ELSE "Review",
                   !.due = IF @ > 0 THEN FilteredPosition ELSE @]

\* Mutant: without looking whether the card is in a filtered deck.
RemoveAlways(k) == [k EXCEPT !.did = k.odid, !.odid = NoDeck, !.odue = 0]

RemoveBeforeReschedule(k) ==
    IF IsFiltered(k) THEN [k EXCEPT !.did = k.odid, !.odid = NoDeck, !.odue = 0] ELSE k

\* Mutant: the queue stays what the filtered deck made it.
RemoveKeepingQueue(k) ==
    IF ~IsFiltered(k) THEN k
    ELSE [k EXCEPT !.did = k.odid, !.odid = NoDeck, !.odue = 0,
                   !.due = IF k.odue # 0 THEN k.odue ELSE @]

RemoveRestoringQueue(k) ==
    LET home == [k EXCEPT !.did = k.odid, !.odid = NoDeck, !.odue = 0,
                          !.due = IF k.odue # 0 THEN k.odue ELSE @]
    IN  IF ~IsFiltered(k) THEN k
        ELSE IF PutAway(k) THEN home
        ELSE RestoreQueueFromType(home)

OriginalOrCurrentDue(k) == IF IsFiltered(k) THEN k.odue ELSE k.due

LastPosition(k) == IF k.ctype = "New" THEN OriginalOrCurrentDue(k) ELSE k.position

\* The last position if it is known and wanted, or else the next one free.
NewPositions(k) == Positions \cup ({LastPosition(k)} \ {0})

ScheduleAsNew(k, position) ==
    [RemoveBeforeReschedule(k) EXCEPT
        !.due = position, !.ctype = "New", !.queue = "New", !.position = 0]

ScheduleAsReview(k, due) ==
    [RemoveBeforeReschedule(k) EXCEPT
        !.position = LastPosition(k), !.due = due, !.ctype = "Review", !.queue = "Review"]

SetNewPosition(k, position) ==
    IF k.ctype = "New" /\ IsFiltered(k) THEN [k EXCEPT !.odue = position]
    ELSE IF k.ctype = "New" \/ k.queue = "New" THEN [k EXCEPT !.due = position]
    ELSE k

-----------------------------------------------------------------------------
(* Answers.                                                                 *)

\* current_card_state: the due the state of a card is computed from.
StudyDue(k) == IF k.did \in FilteredDecks /\ k.odue # 0 THEN k.odue ELSE k.due

\* The types of the states the buttons may lead to, under any preset.
AfterLearning == {"Learn", "Review"}
AfterReview == {"Relearn", "Review"}
AfterRelearning == {"Relearn", "Review"}

NextTypes(t) ==
    IF t \in {"New", "Learn"} THEN AfterLearning
    ELSE IF t = "Review" THEN AfterReview ELSE AfterRelearning

\* apply_learning_state, apply_relearning_state, apply_review_state
Studied(k, t, due) ==
    [k EXCEPT !.ctype = t, !.queue = QueueFromType(t, due), !.due = due,
              !.position = IF k.ctype = "New" /\ StudyDue(k) >= 0 THEN StudyDue(k) ELSE @]

\* maybe_wrap: a review state leaves the filtered deck it was reached in.
Leaves(t) == t = "Review"

\* Mutant: a card that stays in the filtered deck keeps its old home due.
ScheduledHere(k, t, due) ==
    IF k.did \in FilteredDecks /\ Leaves(t)
    THEN RemoveBeforeReschedule(Studied(k, t, due))
    ELSE Studied(k, t, due)

Scheduled(k, t, due) ==
    IF k.did \notin FilteredDecks THEN Studied(k, t, due)
    ELSE IF Leaves(t) THEN RemoveBeforeReschedule(Studied(k, t, due))
    ELSE [Studied(k, t, due) EXCEPT !.odue = due]

\* Only a failed review makes a leech, and only under some presets.
Leech(k, leech) == IF leech THEN [k EXCEPT !.queue = "Suspended"] ELSE k

\* gather_ord: the later a queue is gathered, the higher.
GatherOrd(queue) == CASE queue \in {"Learn", "PreviewRepeat"} -> 0
                      [] queue = "DayLearn" -> 1
                      [] queue = "Review" -> 2
                      [] queue = "New" -> 3
                      [] queue \in PutAwayQueues -> 255

\* The queues of c's siblings a preset may have buried once c is answered: not
\* learning cards, and none that was gathered before c's queue.
SiblingQueues(c) ==
    {q \in {card[b].queue : b \in Live \ {c}} \cap {"New", "DayLearn", "Review"} :
        q = "New" \/ GatherOrd(card[c].queue) <= GatherOrd(q)}

\* Card c becomes k, and its siblings in `queues` are buried.
AnsweredAs(c, k, queues) ==
    card' = [b \in Cards |->
        IF b = c THEN k
        ELSE IF b \in Live /\ card[b].queue \in queues THEN [card[b] EXCEPT !.queue = "SchedBuried"]
        ELSE card[b]]

\* answer_card and grade_now, where the answer teaches.
AnswerCard(c, t, due, leech) ==
    /\ c \in Live
    /\ card[c].did \in FilteredDecks => kind[card[c].did] = "reschedule"
    /\ t \in NextTypes(card[c].ctype)
    /\ t = "Review" => due \in Days
    /\ leech => card[c].ctype = "Review"
    /\ \E queues \in SUBSET SiblingQueues(c) :
           AnsweredAs(c, Leech(Scheduled(card[c], t, due), leech), queues)
    /\ UNCHANGED <<kind, decks>>

\* answer_card and grade_now in a preview: again at some time, or finished.
PreviewAgain(c, time) ==
    /\ c \in Live
    /\ card[c].did \in FilteredDecks
    /\ kind[card[c].did] = "preview"
    /\ IsFiltered(card[c])
    /\ \E queues \in SUBSET SiblingQueues(c) :
           AnsweredAs(c, [card[c] EXCEPT !.queue = "PreviewRepeat", !.due = time], queues)
    /\ UNCHANGED <<kind, decks>>

PreviewFinished(c) ==
    /\ c \in Live
    /\ card[c].did \in FilteredDecks
    /\ kind[card[c].did] = "preview"
    /\ IsFiltered(card[c])
    /\ \E queues \in SUBSET SiblingQueues(c) :
           AnsweredAs(c, RemoveRestoringQueue(card[c]), queues)
    /\ UNCHANGED <<kind, decks>>

-----------------------------------------------------------------------------
(* Filtered decks.                                                          *)

\* Mutant: the cards that are there now.
InDeckNow(d) == {c \in Live : card[c].did = d}

\* return_all_cards_in_filtered_deck; all_cards_in_single_deck also finds the
\* cards whose home the deck is.
InDeck(d) == {c \in Live : card[c].did = d \/ card[c].odid = d}

AllReturned(f) ==
    [c \in Cards |-> IF c \in InDeck(f) THEN RemoveRestoringQueue(card[c]) ELSE card[c]]

\* -is:suspended -is:buried -deck:filtered
Eligible(rows) == {c \in Live : ~PutAway(rows[c]) /\ ~IsFiltered(rows[c])}

\* build_filtered_deck: whatever the searches and their limits find.
Built(f, reschedule, rows, S) ==
    [c \in Cards |-> IF c \in S THEN MoveIntoFilteredDeck(rows[c], f, reschedule) ELSE rows[c]]

\* When nothing is found, the update either allows that or is rolled back.
AddOrUpdateFilteredDeck(f, purpose) ==
    /\ \E S \in SUBSET Eligible(AllReturned(f)) :
           card' = Built(f, purpose = "reschedule", AllReturned(f), S)
    /\ kind' = [kind EXCEPT ![f] = purpose]
    /\ UNCHANGED decks

RebuildFilteredDeck(f) ==
    /\ kind[f] # "absent"
    /\ \E S \in SUBSET Eligible(AllReturned(f)) :
           card' = Built(f, kind[f] = "reschedule", AllReturned(f), S)
    /\ UNCHANGED <<kind, decks>>

EmptyFilteredDeck(f) ==
    /\ kind[f] # "absent"
    /\ card' = AllReturned(f)
    /\ UNCHANGED <<kind, decks>>

\* update_deck, which leaves the cards where they are.
UpdateDeck(f, purpose) ==
    /\ kind[f] \notin {"absent", purpose}
    /\ kind' = [kind EXCEPT ![f] = purpose]
    /\ UNCHANGED <<card, decks>>

\* remove_single_deck
RemoveFilteredDeck(f) ==
    /\ kind[f] # "absent"
    /\ card' = AllReturned(f)
    /\ kind' = [kind EXCEPT ![f] = "absent"]
    /\ UNCHANGED decks

\* The default deck only loses its cards.
RemoveNormalDeck(d) ==
    /\ d \in decks
    /\ card' = [c \in Cards |-> IF c \in InDeck(d) THEN NoCard ELSE card[c]]
    /\ decks' = decks \ ({d} \ {DefaultDeck})
    /\ UNCHANGED kind

-----------------------------------------------------------------------------
(* Everything else done to cards.                                           *)

\* add_generated_cards
AddCard(c, d, position) ==
    /\ card[c] = NoCard
    /\ d \in decks
    /\ card' = [card EXCEPT ![c] =
           [did |-> d, odid |-> NoDeck, ctype |-> "New", queue |-> "New",
            due |-> position, odue |-> 0, position |-> 0]]
    /\ UNCHANGED <<kind, decks>>

\* bury_or_suspend_cards: a suspended card is not buried.
BuryOrSuspend(c, queue) ==
    /\ c \in Live
    /\ card[c].queue \notin {queue, "Suspended"}
    /\ card' = [card EXCEPT ![c].queue = queue]
    /\ UNCHANGED <<kind, decks>>

\* unbury_or_unsuspend_cards, unbury_deck
UnburyOrUnsuspend(c) ==
    /\ c \in Live
    /\ PutAway(card[c])
    /\ card' = [card EXCEPT ![c] = Restored(@)]
    /\ UNCHANGED <<kind, decks>>

UnburyOnDayRollover ==
    /\ \E c \in Live : card[c].queue \in {"SchedBuried", "UserBuried"}
    /\ card' = [c \in Cards |->
           IF c \in Live /\ card[c].queue \in {"SchedBuried", "UserBuried"}
           THEN Restored(card[c]) ELSE card[c]]
    /\ UNCHANGED <<kind, decks>>

RescheduleAsNew(c) ==
    /\ c \in Live
    /\ \E position \in NewPositions(card[c]) :
           card' = [card EXCEPT ![c] = ScheduleAsNew(@, position)]
    /\ UNCHANGED <<kind, decks>>

SetDueDate(c, day) ==
    /\ c \in Live
    /\ card' = [card EXCEPT ![c] = ScheduleAsReview(@, day)]
    /\ UNCHANGED <<kind, decks>>

\* sort_cards: the cards of S take position `start`; before that, when `by` is
\* not 0, all_cards_at_or_above_position shifts the new cards from there on.  It
\* compares `due`, also where a filtered deck has overwritten it: a new card
\* previewed once has a time there, and the shift makes that its home position.
\* With a step of 1, `by` is 0 or the number of cards.
SortCards(S, start, by) ==
    LET Shifted == IF by = 0 THEN {}
                   ELSE {c \in Live : card[c].ctype = "New" /\ card[c].due >= start}
    IN  /\ \A c \in Shifted \ S : ~IsFiltered(card[c]) => card[c].due + by \in Positions  \* bound
        /\ ShiftPreviewed \/ \A c \in Shifted \ S : ~IsFiltered(card[c])
        /\ card' = [c \in Cards |->
               IF c \in S THEN SetNewPosition(card[c], start)
               ELSE IF c \in Shifted THEN SetNewPosition(card[c], card[c].due + by)
               ELSE card[c]]
        /\ UNCHANGED <<kind, decks>>

\* Collection::set_deck, which refuses filtered decks
SetDeck(c, d) ==
    /\ c \in Live
    /\ d \in decks
    /\ card[c].did # d
    /\ card' = [card EXCEPT ![c] = [RemoveRestoringQueue(@) EXCEPT !.did = d]]
    /\ UNCHANGED <<kind, decks>>

Init ==
    /\ card = [c \in Cards |-> NoCard]
    /\ kind = [f \in FilteredDecks |-> "absent"]
    /\ decks = HomeDecks

Next ==
    \/ \E c \in Cards :
        \/ \E t \in Types, due \in Days \cup Times, leech \in BOOLEAN : AnswerCard(c, t, due, leech)
        \/ \E time \in Times : PreviewAgain(c, time)
        \/ PreviewFinished(c)
        \/ \E d \in HomeDecks, position \in Positions : AddCard(c, d, position)
        \/ \E queue \in BuryModes : BuryOrSuspend(c, queue)
        \/ UnburyOrUnsuspend(c)
        \/ RescheduleAsNew(c)
        \/ \E day \in Days : SetDueDate(c, day)
        \/ \E d \in HomeDecks : SetDeck(c, d)
    \/ \E f \in FilteredDecks :
        \/ \E purpose \in {"preview", "reschedule"} :
            UpdateDeck(f, purpose) \/ AddOrUpdateFilteredDeck(f, purpose)
        \/ RebuildFilteredDeck(f)
        \/ EmptyFilteredDeck(f)
        \/ RemoveFilteredDeck(f)
    \/ \E d \in HomeDecks : RemoveNormalDeck(d)
    \/ UnburyOnDayRollover
    \/ \E S \in SUBSET Live \ {{}}, start \in Positions : \E by \in {0, Cardinality(S)} : SortCards(S, start, by)

Spec == Init /\ [][Next]_vars

-----------------------------------------------------------------------------
(* Properties.                                                              *)

\* The state variables have their types: rows of cards, purposes of filtered
\* decks, the normal decks that are left (card/mod.rs, decks/mod.rs).
TypeOK ==
    /\ card \in [Cards -> CardRows \cup {NoCard}]
    /\ kind \in [FilteredDecks -> {"absent", "preview", "reschedule"}]
    /\ decks \subseteq HomeDecks

\* A card remembers a home deck and a home due exactly while it is in a
\* filtered deck, that deck and the home exist, and no card is left behind in
\* either when it is removed (filtered/card.rs, decks/remove.rs).
HomeKept ==
    \A c \in Live :
        IF card[c].did \in FilteredDecks
        THEN kind[card[c].did] # "absent" /\ card[c].odid \in decks /\ card[c].odue # 0
        ELSE card[c].did \in decks /\ card[c].odid = NoDeck /\ card[c].odue = 0

\* A card in its own deck that nobody has put away is in the queue its type and
\* due call for, so the study queues find it and read its due for what it is: no
\* preview, burial or filtered deck it has been through shows
\* (filtered/card.rs, answering, bury_and_suspend.rs).
QueueMatchesType ==
    \A c \in Live :
        ~IsFiltered(card[c]) /\ ~PutAway(card[c]) =>
            card[c].queue = QueueFromType(card[c].ctype, card[c].due)

\* What a card's row says of its schedule.
HomeDeck(k) == IF IsFiltered(k) THEN k.odid ELSE k.did

Status(k) == IF k.queue = "Suspended" THEN "suspended" ELSE IF PutAway(k) THEN "buried" ELSE "active"

ScheduleOf(k) ==
    [deck |-> HomeDeck(k), ctype |-> k.ctype, due |-> OriginalOrCurrentDue(k),
     position |-> k.position, status |-> Status(k)]

schedule == [c \in Cards |-> IF card[c] = NoCard THEN NoCard ELSE ScheduleOf(card[c])]

Abstract == INSTANCE CardSchedule

\* Cards keep their schedules: only answers that teach, and the operations that
\* are meant to reschedule, change when a card is due at home, whatever filtered
\* decks, previews, burials and removals happen in between, and a suspended card
\* is woken only on purpose (filtered/card.rs, answering/mod.rs, new.rs).
KeepsSchedules == Abstract!Spec
=============================================================================
