----------------------------- MODULE CardSchedule -----------------------------
(***************************************************************************)
(* What the scheduler owes each card, wherever the card happens to be      *)
(* studied: a home deck, a type, the time or position it is due at, and    *)
(* whether the user or the scheduler has put it away.  Filtered decks are  *)
(* not part of this: borrowing a card, previewing it and giving it back    *)
(* leave its schedule as it was.                                           *)
(*                                                                         *)
(* A step is said card by card: s and t are what a card's schedule is      *)
(* before and after it.                                                    *)
(***************************************************************************)
EXTENDS Integers

CONSTANTS
    Cards, HomeDecks, NoCard,
    Positions, Days, Times      \* what `due` may say: place among the new cards, day, second

VARIABLE schedule

Init == schedule = [c \in Cards |-> NoCard]

LastPosition(s) == IF s.ctype = "New" THEN s.due ELSE s.position

Added(s, t) ==
    /\ s = NoCard
    /\ t \in [deck : HomeDecks, ctype : {"New"}, due : Positions, position : {0}, status : {"active"}]

Removed(s, t) == t = s \/ t = NoCard

Woken(s, t) == t = s \/ (s # NoCard /\ t = [s EXCEPT !.status = "active"])

Buried(s, t) == t = s \/ (s # NoCard /\ s.status = "active" /\ t = [s EXCEPT !.status = "buried"])

\* Burying never takes over from suspending, which lasts longer.
PutAway(s, t) ==
    /\ s.status # "suspended"
    /\ t \in {[s EXCEPT !.status = "buried"], [s EXCEPT !.status = "suspended"]}

Moved(s, t) == \E d \in HomeDecks : t = [s EXCEPT !.deck = d]

\* A new card takes another position.
Repositioned(s, t) ==
    \/ t = s
    \/ /\ s # NoCard
       /\ s.ctype = "New"
       /\ \E p \in Positions : t = [s EXCEPT !.due = p]

\* s becomes a card of type t.ctype, and if it was new remembers its position.
Taught(s, t) ==
    t = [s EXCEPT !.ctype = t.ctype, !.due = t.due, !.position = LastPosition(s), !.status = t.status]

\* A lesson is followed by the next one, at some day or time.  A leech, which a
\* review card becomes when it fails, is suspended.
Answered(s, t) ==
    /\ t.ctype \in {"Review", IF s.ctype \in {"New", "Learn"} THEN "Learn" ELSE "Relearn"}
    /\ t.due \in (IF t.ctype = "Review" THEN Days ELSE Days \cup Times)
    /\ t.status = "active" \/ (t.status = "suspended" /\ s.ctype = "Review")
    /\ Taught(s, t)

RescheduledToDay(s, t) ==
    /\ t.ctype = "Review" /\ t.due \in Days /\ t.status = "active"
    /\ Taught(s, t)

Forgotten(s, t) ==
    /\ t.due \in Positions \cup {LastPosition(s)} /\ t.due # 0
    /\ t = [s EXCEPT !.ctype = "New", !.due = t.due, !.position = 0, !.status = "active"]

\* One card is studied, and of the others some are buried.  A preview teaches
\* nothing, but wakes the card that is shown.
Study(c) ==
    /\ schedule[c] # NoCard
    /\ schedule'[c] # NoCard
    /\ Woken(schedule[c], schedule'[c]) \/ Answered(schedule[c], schedule'[c])
    /\ \A b \in Cards \ {c} : Buried(schedule[b], schedule'[b])

\* The user adds a card, reschedules it, moves it or puts it away.
Change(c) ==
    /\ \/ Added(schedule[c], schedule'[c])
       \/ /\ schedule[c] # NoCard
          /\ schedule'[c] # NoCard
          /\ \/ Forgotten(schedule[c], schedule'[c])
             \/ RescheduledToDay(schedule[c], schedule'[c])
             \/ Moved(schedule[c], schedule'[c])
             \/ PutAway(schedule[c], schedule'[c])
    /\ \A b \in Cards \ {c} : schedule'[b] = schedule[b]

Next ==
    /\ \/ \A c \in Cards : Woken(schedule[c], schedule'[c])
       \/ \A c \in Cards : Repositioned(schedule[c], schedule'[c])
       \/ \A c \in Cards : Removed(schedule[c], schedule'[c])
       \/ \E c \in Cards : Study(c) \/ Change(c)
    /\ schedule' = [c \in Cards |-> schedule'[c]]

Spec == Init /\ [][Next]_schedule
=============================================================================
