--------------------------- MODULE CardStatesProofs ---------------------------
(***************************************************************************)
(* Proofs about CardStates, for any cards, decks, positions, days and      *)
(* times.  Each operation works on one row at a time, so the lemmas are    *)
(* about rows: a row in order stays in order under every operation, and    *)
(* stays at home where it was at home.                                     *)
(***************************************************************************)
EXTENDS CardStates, FiniteSetTheorems, TLAPS

\* A row in order: it remembers a home exactly while it is in a filtered deck,
\* its due and position say something, and at home its queue is the right one.
InOrder(k) ==
    /\ k.did \in FilteredDecks <=> IsFiltered(k)
    /\ ~IsFiltered(k) => k.odue = 0
    /\ OriginalOrCurrentDue(k) > 0
    /\ k.position >= 0
    /\ ~IsFiltered(k) /\ ~PutAway(k) => k.queue = QueueFromType(k.ctype, k.due)

\* The decks of a row exist.
Placed(k) ==
    /\ HomeDeck(k) \in decks
    /\ IsFiltered(k) => kind[k.did] # "absent"

Rows == {k \in CardRows : InOrder(k)}
Fitting == {k \in Rows : Placed(k)}

\* Every card's row is in order and its decks exist.  HomeKept and
\* QueueMatchesType say so of parts of a row; that a due is never 0, at home or
\* as a home due, is what keeps them true when cards are borrowed.
IInv ==
    /\ card \in [Cards -> Fitting \cup {NoCard}]
    /\ kind \in [FilteredDecks -> {"absent", "preview", "reschedule"}]
    /\ decks \subseteq HomeDecks

-----------------------------------------------------------------------------
(* What the operations do to a row in order.                                *)

\* The queue of a type is a queue, and not one for cards put away.
LEMMA QueueOfType ==
    ASSUME NEW t \in Types, NEW due \in Int
    PROVE  QueueFromType(t, due) \in Queues \ PutAwayQueues
BY DEF QueueFromType, Types, Queues, PutAwayQueues

\* Days, positions and times are numbers above 0.
LEMMA Dues == \A due \in Positions \cup Days \cup Times : due \in Int /\ due > 0
BY CardAssumption

\* The zeroes in odue and original_position are numbers.
LEMMA Zero == 0 \in Int
OBVIOUS

\* Positions in a filtered deck are numbers.
LEMMA FilteredPositions == FilteredPosition \in Int
BY SMT DEF FilteredPosition

\* Normal decks, filtered decks and no deck are different.
LEMMA Decks ==
    HomeDecks \cap FilteredDecks = {} /\ NoDeck \notin HomeDecks \cup FilteredDecks
BY CardAssumption

\* Another queue that puts a card away changes nothing else.
LEMMA PuttingAway ==
    ASSUME NEW k \in Rows, NEW queue \in PutAwayQueues
    PROVE  LET l == [k EXCEPT !.queue = queue]
           IN  l \in Rows /\ l.did = k.did /\ l.odid = k.odid
BY DEF Rows, CardRows, InOrder, IsFiltered, PutAway, OriginalOrCurrentDue, PutAwayQueues, Queues

\* Unburying and unsuspending.
LEMMA Restoring ==
    ASSUME NEW k \in Rows
    PROVE  Restored(k) \in Rows /\ Restored(k).did = k.did /\ Restored(k).odid = k.odid
<1> DEFINE q == QueueFromType(k.ctype, k.due)
<1>1. q \in Queues \ PutAwayQueues
      BY QueueOfType DEF Rows, CardRows
<1>2. CASE PutAway(k)
      BY <1>1, <1>2 DEF Restored, RestoreQueueFromType, Rows, CardRows, InOrder, IsFiltered, PutAway,
                        OriginalOrCurrentDue
<1>3. CASE ~PutAway(k)
      BY <1>3 DEF Restored
<1> QED BY <1>2, <1>3

\* A card at home is borrowed: its home deck and due are kept.
LEMMA Borrowing ==
    ASSUME NEW k \in Rows, ~IsFiltered(k), NEW f \in FilteredDecks, NEW reschedule \in BOOLEAN
    PROVE  LET l == MoveIntoFilteredDeck(k, f, reschedule)
           IN  l \in Rows /\ l.did = f /\ l.odid = k.did /\ l.odue = k.due
BY Decks, FilteredPositions
   DEF Rows, CardRows, InOrder, IsFiltered, PutAway, OriginalOrCurrentDue, MoveIntoFilteredDeck, Queues

\* A card is given back: it is at home, due when it was, in the queue for it.
LEMMA GivingBack ==
    ASSUME NEW k \in Rows
    PROVE  /\ RemoveRestoringQueue(k) \in Rows
           /\ RemoveRestoringQueue(k).did = HomeDeck(k)
           /\ RemoveRestoringQueue(k).odid = NoDeck
<1>1. CASE IsFiltered(k)
  <2> DEFINE due == IF k.odue # 0 THEN k.odue ELSE k.due
             home == [k EXCEPT !.did = k.odid, !.odid = NoDeck, !.odue = 0, !.due = due]
  <2>1. k.odue \in Int /\ k.odue > 0 /\ k.odid \in HomeDecks /\ k \in CardRows
        BY <1>1, Decks DEF Rows, CardRows, InOrder, OriginalOrCurrentDue, IsFiltered
  <2>2. due = k.odue
        BY <2>1
  <2>3. RemoveRestoringQueue(k) = IF PutAway(k) THEN home ELSE RestoreQueueFromType(home)
        BY <1>1 DEF RemoveRestoringQueue
  <2> HIDE DEF due
  <2>4. home \in CardRows /\ home.did = k.odid /\ home.odid = NoDeck /\ home.odue = 0
        /\ home.due = k.odue /\ home.queue = k.queue /\ home.position = k.position
        BY <2>1, <2>2, Zero DEF CardRows
  <2> HIDE DEF home
  <2>5. QueueFromType(home.ctype, home.due) \in Queues \ PutAwayQueues
        BY <2>4, QueueOfType DEF CardRows
  <2>6. CASE PutAway(k)
        BY <1>1, <2>1, <2>3, <2>4, <2>6, Decks
        DEF Rows, InOrder, IsFiltered, PutAway, OriginalOrCurrentDue, HomeDeck
  <2>7. CASE ~PutAway(k)
        BY <1>1, <2>1, <2>3, <2>4, <2>5, <2>7, Decks
        DEF Rows, CardRows, InOrder, IsFiltered, PutAway, OriginalOrCurrentDue, HomeDeck,
            RestoreQueueFromType
  <2> QED BY <2>6, <2>7
<1>2. CASE ~IsFiltered(k)
      BY <1>2 DEF RemoveRestoringQueue, HomeDeck, IsFiltered, Rows, CardRows
<1> QED BY <1>1, <1>2

\* A card is taken out of a filtered deck with the queue and due it had there.
LEMMA TakingOut ==
    ASSUME NEW k \in Rows
    PROVE  LET l == RemoveBeforeReschedule(k)
           IN  l \in CardRows /\ l.did = HomeDeck(k) /\ l.odid = NoDeck /\ l.odue = 0
               /\ l.did \notin FilteredDecks /\ l.position = k.position
<1>1. CASE IsFiltered(k)
      BY <1>1, Zero, Decks DEF RemoveBeforeReschedule, HomeDeck, IsFiltered, Rows, CardRows, InOrder
<1>2. CASE ~IsFiltered(k)
      BY <1>2 DEF RemoveBeforeReschedule, HomeDeck, IsFiltered, Rows, CardRows, InOrder
<1> QED BY <1>1, <1>2

\* The position a card had is a number, and not negative.
LEMMA Positioned ==
    ASSUME NEW k \in Rows
    PROVE  /\ LastPosition(k) \in Int
           /\ LastPosition(k) >= 0
BY DEF LastPosition, OriginalOrCurrentDue, Rows, CardRows, InOrder

\* Resetting a card and giving it a due date both send it home.
LEMMA Resetting ==
    ASSUME NEW k \in Rows, NEW position \in Int, position > 0
    PROVE  LET l == ScheduleAsNew(k, position)
           IN  l \in Rows /\ l.did = HomeDeck(k) /\ l.odid = NoDeck
<1> DEFINE out == RemoveBeforeReschedule(k)
<1>1. out \in CardRows /\ out.did = HomeDeck(k) /\ out.odid = NoDeck /\ out.odue = 0
      /\ out.did \notin FilteredDecks
      BY TakingOut
<1> HIDE DEF out
<1>2. ScheduleAsNew(k, position)
        = [out EXCEPT !.due = position, !.ctype = "New", !.queue = "New", !.position = 0]
      BY DEF ScheduleAsNew, out
<1>3. QueueFromType("New", position) = "New"
      BY DEF QueueFromType
<1> DEFINE l == ScheduleAsNew(k, position)
<1>4. l \in CardRows /\ l.did = out.did /\ l.odid = NoDeck /\ l.odue = 0 /\ l.due = position
      BY <1>1, <1>2, Zero DEF CardRows, Types, Queues
<1>5. l.ctype = "New" /\ l.queue = "New" /\ l.position = 0
      BY <1>1, <1>2, Zero DEF CardRows
<1> HIDE DEF l
<1>6. InOrder(l)
      BY <1>1, <1>3, <1>4, <1>5 DEF InOrder, IsFiltered, OriginalOrCurrentDue
<1> QED BY <1>1, <1>4, <1>6 DEF Rows, l

LEMMA GivingDueDate ==
    ASSUME NEW k \in Rows, NEW day \in Int, day > 0
    PROVE  LET l == ScheduleAsReview(k, day)
           IN  l \in Rows /\ l.did = HomeDeck(k) /\ l.odid = NoDeck
<1> DEFINE out == RemoveBeforeReschedule(k)
           last == LastPosition(k)
<1>1. out \in CardRows /\ out.did = HomeDeck(k) /\ out.odid = NoDeck /\ out.odue = 0
      /\ out.did \notin FilteredDecks
      BY TakingOut
<1>2. last \in Int /\ last >= 0
      BY Positioned
<1> HIDE DEF out, last
<1>3. ScheduleAsReview(k, day)
        = [out EXCEPT !.position = last, !.due = day, !.ctype = "Review", !.queue = "Review"]
      BY DEF ScheduleAsReview, out, last
<1>4. QueueFromType("Review", day) = "Review"
      BY DEF QueueFromType
<1> QED BY <1>1, <1>2, <1>3, <1>4, Zero
        DEF Rows, CardRows, InOrder, IsFiltered, OriginalOrCurrentDue, Types, Queues

\* A new position is written to the home due of a borrowed card.
LEMMA Repositioning ==
    ASSUME NEW k \in Rows, NEW position \in Int, position > 0
    PROVE  LET l == SetNewPosition(k, position)
           IN  l \in Rows /\ l.did = k.did /\ l.odid = k.odid
<1>1. CASE k.ctype = "New" /\ IsFiltered(k)
      BY <1>1 DEF SetNewPosition, Rows, CardRows, InOrder, IsFiltered, PutAway, OriginalOrCurrentDue
<1>2. CASE k.ctype = "New" /\ ~IsFiltered(k)
  <2>1. QueueFromType("New", position) = QueueFromType("New", k.due)
        BY DEF QueueFromType
  <2> QED BY <1>2, <2>1
          DEF SetNewPosition, Rows, CardRows, InOrder, IsFiltered, PutAway, OriginalOrCurrentDue
<1>3. CASE k.ctype # "New" /\ k.queue = "New"
  <2>1. IsFiltered(k)
        BY <1>3 DEF Rows, InOrder, PutAway, PutAwayQueues, QueueFromType
  <2> QED BY <1>3, <2>1
          DEF SetNewPosition, Rows, CardRows, InOrder, IsFiltered, PutAway, OriginalOrCurrentDue
<1>4. CASE k.ctype # "New" /\ k.queue # "New"
      BY <1>4 DEF SetNewPosition
<1> QED BY <1>1, <1>2, <1>3, <1>4

\* An answer gives a card a type, and the queue and due for it.
LEMMA Studying ==
    ASSUME NEW k \in Rows, NEW t \in Types, NEW due \in Int, due > 0
    PROVE  LET l == Studied(k, t, due)
           IN  /\ l \in Rows
               /\ l.did = k.did /\ l.odid = k.odid /\ l.odue = k.odue
               /\ l.ctype = t /\ l.due = due /\ l.queue = QueueFromType(t, due)
<1> DEFINE queue == QueueFromType(t, due)
           position == IF k.ctype = "New" /\ StudyDue(k) >= 0 THEN StudyDue(k) ELSE k.position
           l == [k EXCEPT !.ctype = t, !.queue = queue, !.due = due, !.position = position]
<1>1. Studied(k, t, due) = l
      BY DEF Studied
<1>2. position \in Int /\ position >= 0
      BY DEF StudyDue, Rows, CardRows, InOrder
<1>3. queue \in Queues
      BY QueueOfType
<1> HIDE DEF position, queue
<1>4. l \in CardRows /\ l.did = k.did /\ l.odid = k.odid /\ l.odue = k.odue
      /\ l.ctype = t /\ l.due = due /\ l.queue = queue /\ l.position = position
      BY <1>2, <1>3 DEF Rows, CardRows
<1> HIDE DEF l
<1>5. InOrder(l)
      BY <1>2, <1>4 DEF InOrder, Rows, IsFiltered, OriginalOrCurrentDue, queue
<1> QED BY <1>1, <1>4, <1>5 DEF Rows, queue

\* A card stays where it is, or goes home.
StaysOrReturns(k, l) ==
    \/ l.did = k.did /\ l.odid = k.odid
    \/ l.did = HomeDeck(k) /\ l.odid = NoDeck

LEMMA Answering ==
    ASSUME NEW k \in Rows, NEW t \in Types, NEW due \in Int, due > 0
    PROVE  Scheduled(k, t, due) \in Rows /\ StaysOrReturns(k, Scheduled(k, t, due))
<1> DEFINE l == Studied(k, t, due)
           out == RemoveBeforeReschedule(l)
<1>1. l \in Rows /\ l.did = k.did /\ l.odid = k.odid /\ l.odue = k.odue
      /\ l.ctype = t /\ l.due = due /\ l.queue = QueueFromType(t, due)
      BY Studying
<1>2. out \in CardRows /\ out.did = HomeDeck(l) /\ out.odid = NoDeck /\ out.odue = 0
      /\ out.did \notin FilteredDecks /\ out.position = l.position
      BY <1>1, TakingOut
<1>3. HomeDeck(l) = HomeDeck(k)
      BY <1>1 DEF HomeDeck, IsFiltered
<1>4. out.ctype = t /\ out.due = due /\ out.queue = QueueFromType(t, due)
      BY <1>1, Zero DEF RemoveBeforeReschedule, Rows, CardRows
<1>5. Scheduled(k, t, due) = IF k.did \notin FilteredDecks THEN l
                             ELSE IF Leaves(t) THEN out ELSE [l EXCEPT !.odue = due]
      BY DEF Scheduled
<1> HIDE DEF l, out
<1>6. out \in Rows
      BY <1>1, <1>2, <1>4 DEF Rows, InOrder, IsFiltered, OriginalOrCurrentDue
<1>7. CASE k.did \in FilteredDecks /\ ~Leaves(t)
  <2>1. [l EXCEPT !.odue = due] \in CardRows
        BY <1>1 DEF Rows, CardRows
  <2> QED BY <1>1, <1>5, <1>7, <2>1
          DEF Rows, CardRows, InOrder, IsFiltered, OriginalOrCurrentDue, StaysOrReturns
<1>8. CASE k.did \in FilteredDecks /\ Leaves(t)
      BY <1>2, <1>3, <1>5, <1>6, <1>8 DEF StaysOrReturns
<1>9. CASE k.did \notin FilteredDecks
      BY <1>1, <1>5, <1>9 DEF StaysOrReturns
<1> QED BY <1>7, <1>8, <1>9

-----------------------------------------------------------------------------
(* What the operations do to the collection.                                *)

\* The decks of a card exist as long as it stays or goes home.
LEMMA StillFits ==
    ASSUME NEW k \in Fitting, NEW l \in Rows, StaysOrReturns(k, l)
    PROVE  l \in Fitting
BY Decks DEF Fitting, Placed, StaysOrReturns, HomeDeck, IsFiltered

\* The live cards are those with a row.
LEMMA LiveRows ==
    ASSUME IInv
    PROVE  \A c \in Cards : (c \in Live <=> card[c] # NoCard) /\ (c \in Live => card[c] \in Fitting)
BY DEF IInv, Live

\* When decks stay as they are, it is enough to look at the rows.
LEMMA OnlyRowsChange ==
    ASSUME IInv, UNCHANGED <<kind, decks>>, card' \in [Cards -> Fitting \cup {NoCard}]
    PROVE  IInv'
<1>1. Fitting' = Fitting
      BY DEF Fitting, Placed, Rows, InOrder, HomeDeck
<1> QED BY <1>1 DEF IInv

\* One card changes, stays or goes home.
LEMMA OneCardChanges ==
    ASSUME IInv, UNCHANGED <<kind, decks>>, NEW c \in Live, NEW l \in Rows,
           StaysOrReturns(card[c], l), card' = [card EXCEPT ![c] = l]
    PROVE  IInv'
<1>1. card[c] \in Fitting
      BY LiveRows DEF Live
<1>2. l \in Fitting
      BY <1>1, StillFits
<1>3. card' \in [Cards -> Fitting \cup {NoCard}]
      BY <1>2 DEF IInv
<1> QED BY <1>3, OnlyRowsChange

\* A card is answered, and siblings of it are buried.
LEMMA AnAnswer ==
    ASSUME IInv, UNCHANGED <<kind, decks>>, NEW c \in Live, NEW l \in Rows, NEW queues,
           StaysOrReturns(card[c], l), AnsweredAs(c, l, queues)
    PROVE  IInv'
<1>1. card[c] \in Fitting /\ card[c] \in Rows
      BY LiveRows DEF Live, Fitting
<1>2. l \in Fitting
      BY <1>1, StillFits
<1>3. ASSUME NEW b \in Live
      PROVE  [card[b] EXCEPT !.queue = "SchedBuried"] \in Fitting
  <2>1. card[b] \in Fitting /\ card[b] \in Rows
        BY LiveRows DEF Live, Fitting
  <2> DEFINE buried == [card[b] EXCEPT !.queue = "SchedBuried"]
  <2>2. buried \in Rows /\ buried.did = card[b].did /\ buried.odid = card[b].odid
        BY <2>1, PuttingAway DEF PutAwayQueues
  <2> HIDE DEF buried
  <2>3. StaysOrReturns(card[b], buried)
        BY <2>2 DEF StaysOrReturns
  <2>4. buried \in Fitting
        BY <2>1, <2>2, <2>3, StillFits
  <2> QED BY <2>4 DEF buried
<1>4. card' \in [Cards -> Fitting \cup {NoCard}]
      BY <1>2, <1>3 DEF IInv, AnsweredAs
<1> QED BY <1>4, OnlyRowsChange

\* All cards of a filtered deck are given back.
LEMMA AllGivenBack ==
    ASSUME IInv, NEW f \in FilteredDecks
    PROVE  /\ AllReturned(f) \in [Cards -> Fitting \cup {NoCard}]
           /\ \A c \in Cards :
                 /\ AllReturned(f)[c] = NoCard <=> c \notin Live
                 /\ c \in Live => AllReturned(f)[c] \in Fitting /\ AllReturned(f)[c].did # f
<1> SUFFICES ASSUME NEW c \in Cards
             PROVE  IF c \in Live THEN AllReturned(f)[c] \in Fitting /\ AllReturned(f)[c].did # f
                                  ELSE AllReturned(f)[c] = NoCard
  <2>1. NoCard \notin Fitting
        BY NoCardAssumption DEF Fitting, Rows
  <2>2. AllReturned(f) = [d \in Cards |-> AllReturned(f)[d]]
        BY DEF AllReturned
  <2> QED BY <2>1, <2>2
<1> DEFINE l == RemoveRestoringQueue(card[c])
<1>1. CASE c \in InDeck(f)
  <2>1. c \in Live /\ card[c] \in Fitting /\ card[c] \in Rows
        BY <1>1, LiveRows DEF InDeck, Fitting
  <2>2. l \in Rows /\ l.did = HomeDeck(card[c]) /\ l.odid = NoDeck
        BY <2>1, GivingBack
  <2> HIDE DEF l
  <2>3. l \in Fitting
        BY <2>1, <2>2, StillFits DEF StaysOrReturns
  <2>4. l.did \notin FilteredDecks
        BY <2>2 DEF Rows, InOrder, IsFiltered
  <2> QED BY <1>1, <2>1, <2>3, <2>4 DEF AllReturned, l
<1>2. CASE c \notin InDeck(f)
      BY <1>2, LiveRows DEF AllReturned, InDeck, Live
<1> QED BY <1>1, <1>2

\* A filtered deck is built from cards that are at home.
LEMMA Building ==
    ASSUME IInv, NEW f \in FilteredDecks, NEW purpose \in {"preview", "reschedule"},
           NEW S \in SUBSET Eligible(AllReturned(f)),
           card' = Built(f, purpose = "reschedule", AllReturned(f), S),
           kind' \in [FilteredDecks -> {"absent", "preview", "reschedule"}],
           \A g \in FilteredDecks : kind[g] # "absent" => kind'[g] # "absent",
           kind'[f] # "absent",
           UNCHANGED decks
    PROVE  IInv'
<1> DEFINE rows == AllReturned(f)
           reschedule == purpose = "reschedule"
<1>1. \A k \in Fitting : k \in Fitting'
      BY DEF Fitting, Placed, Rows, InOrder, HomeDeck
<1>2. rows \in [Cards -> Fitting \cup {NoCard}]
      BY AllGivenBack
<1>3. ASSUME NEW c \in S
      PROVE  c \in Cards /\ MoveIntoFilteredDeck(rows[c], f, reschedule) \in Fitting'
  <2> DEFINE k == rows[c]
             l == MoveIntoFilteredDeck(k, f, reschedule)
  <2>1. c \in Live /\ ~IsFiltered(k)
        BY DEF Eligible
  <2>2. c \in Cards /\ k \in Fitting /\ k \in Rows
        BY <2>1, AllGivenBack DEF Live, Fitting
  <2> HIDE DEF k
  <2>3. l \in Rows /\ l.did = f /\ l.odid = k.did
        BY <2>1, <2>2, Borrowing
  <2> HIDE DEF l
  <2>4. HomeDeck(l) \in decks' /\ kind'[l.did] # "absent"
        BY <2>1, <2>2, <2>3, Decks DEF Fitting, Placed, HomeDeck, IsFiltered, Rows, CardRows, InOrder
  <2>5. l \in Fitting'
        BY <2>3, <2>4 DEF Fitting, Placed, Rows, InOrder, HomeDeck
  <2> QED BY <2>2, <2>5 DEF k, l
<1> HIDE DEF rows, reschedule
<1>4. card' = [c \in Cards |-> IF c \in S THEN MoveIntoFilteredDeck(rows[c], f, reschedule) ELSE rows[c]]
      BY DEF Built, rows, reschedule
<1>5. card' \in [Cards -> Fitting' \cup {NoCard}]
      BY <1>1, <1>2, <1>3, <1>4
<1> QED BY <1>5 DEF IInv

-----------------------------------------------------------------------------
(* The invariant.                                                           *)

\* There are no cards at first.
LEMMA Starting == Init => IInv
BY DEF Init, IInv

\* Every operation keeps the rows in order and their decks.
LEMMA Inductive == IInv /\ [Next]_vars => IInv'
<1> SUFFICES ASSUME IInv, [Next]_vars
             PROVE  IInv'
    OBVIOUS
<1>1. ASSUME NEW c \in Cards, NEW t \in Types, NEW due \in Days \cup Times, NEW leech \in BOOLEAN,
             AnswerCard(c, t, due, leech)
      PROVE  IInv'
  <2> DEFINE l == Scheduled(card[c], t, due)
             m == Leech(l, leech)
  <2>1. c \in Live /\ card[c] \in Rows
        BY <1>1, LiveRows DEF AnswerCard, Fitting
  <2>2. l \in Rows /\ StaysOrReturns(card[c], l)
        BY <2>1, Dues, Answering
  <2> HIDE DEF l
  <2>3. [l EXCEPT !.queue = "Suspended"] \in Rows /\ [l EXCEPT !.queue = "Suspended"].did = l.did
        /\ [l EXCEPT !.queue = "Suspended"].odid = l.odid
        BY <2>2, PuttingAway DEF PutAwayQueues
  <2>4. m \in Rows /\ StaysOrReturns(card[c], m)
        BY <2>2, <2>3 DEF Leech, StaysOrReturns
  <2>5. PICK queues \in SUBSET SiblingQueues(c) : AnsweredAs(c, m, queues)
        BY <1>1 DEF AnswerCard, l
  <2> QED BY <1>1, <2>1, <2>4, <2>5, AnAnswer DEF AnswerCard
<1>2. ASSUME NEW c \in Cards, NEW time \in Times, PreviewAgain(c, time)
      PROVE  IInv'
  <2> DEFINE l == [card[c] EXCEPT !.queue = "PreviewRepeat", !.due = time]
  <2>1. c \in Live /\ card[c] \in Rows /\ IsFiltered(card[c])
        BY <1>2, LiveRows DEF PreviewAgain, Fitting
  <2>2. l \in Rows /\ StaysOrReturns(card[c], l)
        BY <2>1, Dues
        DEF Rows, CardRows, InOrder, IsFiltered, OriginalOrCurrentDue, Queues, StaysOrReturns
  <2> QED BY <1>2, <2>1, <2>2, AnAnswer DEF PreviewAgain
<1>3. ASSUME NEW c \in Cards, PreviewFinished(c)
      PROVE  IInv'
  <2>1. c \in Live /\ card[c] \in Rows
        BY <1>3, LiveRows DEF PreviewFinished, Fitting
  <2>2. RemoveRestoringQueue(card[c]) \in Rows /\ StaysOrReturns(card[c], RemoveRestoringQueue(card[c]))
        BY <2>1, GivingBack DEF StaysOrReturns
  <2> QED BY <1>3, <2>1, <2>2, AnAnswer DEF PreviewFinished
<1>4. ASSUME NEW c \in Cards, NEW d \in HomeDecks, NEW position \in Positions, AddCard(c, d, position)
      PROVE  IInv'
  <2> DEFINE k == [did |-> d, odid |-> NoDeck, ctype |-> "New", queue |-> "New",
                   due |-> position, odue |-> 0, position |-> 0]
  <2>1. k \in Fitting
        BY <1>4, Dues, Decks
        DEF AddCard, Fitting, Rows, CardRows, InOrder, Placed, HomeDeck, IsFiltered,
            OriginalOrCurrentDue, QueueFromType, Types, Queues
  <2> HIDE DEF k
  <2>2. card' = [card EXCEPT ![c] = k] /\ UNCHANGED <<kind, decks>>
        BY <1>4 DEF AddCard, k
  <2>3. card' \in [Cards -> Fitting \cup {NoCard}]
        BY <2>1, <2>2 DEF IInv
  <2> QED BY <2>2, <2>3, OnlyRowsChange
<1>5. ASSUME NEW c \in Cards, NEW queue \in BuryModes, BuryOrSuspend(c, queue)
      PROVE  IInv'
  <2> DEFINE l == [card[c] EXCEPT !.queue = queue]
  <2>1. c \in Live /\ card[c] \in Rows /\ queue \in PutAwayQueues
        BY <1>5, LiveRows, CardAssumption DEF BuryOrSuspend, Fitting, PutAwayQueues
  <2>2. l \in Rows /\ StaysOrReturns(card[c], l)
        BY <2>1, PuttingAway DEF StaysOrReturns
  <2>3. card' = [card EXCEPT ![c] = l]
        BY <1>5 DEF BuryOrSuspend
  <2> HIDE DEF l
  <2> QED BY <1>5, <2>1, <2>2, <2>3, OneCardChanges DEF BuryOrSuspend
<1>6. ASSUME NEW c \in Cards, UnburyOrUnsuspend(c)
      PROVE  IInv'
  <2>1. c \in Live /\ card[c] \in Rows
        BY <1>6, LiveRows DEF UnburyOrUnsuspend, Fitting
  <2>2. Restored(card[c]) \in Rows /\ StaysOrReturns(card[c], Restored(card[c]))
        BY <2>1, Restoring DEF StaysOrReturns
  <2> QED BY <1>6, <2>1, <2>2, OneCardChanges DEF UnburyOrUnsuspend
<1>7. ASSUME NEW c \in Cards, RescheduleAsNew(c)
      PROVE  IInv'
  <2>1. c \in Live /\ card[c] \in Rows
        BY <1>7, LiveRows DEF RescheduleAsNew, Fitting
  <2>2. PICK position \in NewPositions(card[c]) : card' = [card EXCEPT ![c] = ScheduleAsNew(@, position)]
        BY <1>7 DEF RescheduleAsNew
  <2>3. position \in Int /\ position > 0
        BY <2>1, Dues, Positioned DEF NewPositions
  <2>4. ScheduleAsNew(card[c], position) \in Rows /\ StaysOrReturns(card[c], ScheduleAsNew(card[c], position))
        BY <2>1, <2>3, Resetting DEF StaysOrReturns
  <2> QED BY <1>7, <2>1, <2>2, <2>4, OneCardChanges DEF RescheduleAsNew
<1>8. ASSUME NEW c \in Cards, NEW day \in Days, SetDueDate(c, day)
      PROVE  IInv'
  <2>1. c \in Live /\ card[c] \in Rows
        BY <1>8, LiveRows DEF SetDueDate, Fitting
  <2>2. ScheduleAsReview(card[c], day) \in Rows /\ StaysOrReturns(card[c], ScheduleAsReview(card[c], day))
        BY <2>1, Dues, GivingDueDate DEF StaysOrReturns
  <2> QED BY <1>8, <2>1, <2>2, OneCardChanges DEF SetDueDate
<1>9. ASSUME NEW c \in Cards, NEW d \in HomeDecks, SetDeck(c, d)
      PROVE  IInv'
  <2> DEFINE home == RemoveRestoringQueue(card[c])
             l == [home EXCEPT !.did = d]
  <2>1. c \in Live /\ card[c] \in Rows /\ d \in decks
        BY <1>9, LiveRows DEF SetDeck, Fitting
  <2>2. home \in Rows /\ home.odid = NoDeck
        BY <2>1, GivingBack
  <2>3. card' = [card EXCEPT ![c] = l] /\ UNCHANGED <<kind, decks>>
        BY <1>9 DEF SetDeck
  <2> HIDE DEF home
  <2>4. l \in Fitting
        BY <2>1, <2>2, Decks
        DEF Fitting, Placed, Rows, CardRows, InOrder, HomeDeck, IsFiltered, PutAway, OriginalOrCurrentDue
  <2> HIDE DEF l
  <2>5. card' \in [Cards -> Fitting \cup {NoCard}]
        BY <2>3, <2>4 DEF IInv
  <2> QED BY <2>3, <2>5, OnlyRowsChange
<1>10. ASSUME NEW f \in FilteredDecks, NEW purpose \in {"preview", "reschedule"}, UpdateDeck(f, purpose)
      PROVE  IInv'
  <2>1. \A k \in Fitting : k \in Fitting'
        BY <1>10 DEF UpdateDeck, Fitting, Placed, Rows, InOrder, HomeDeck, IInv
  <2> QED BY <1>10, <2>1 DEF UpdateDeck, IInv
<1>11. ASSUME NEW f \in FilteredDecks, NEW purpose \in {"preview", "reschedule"},
              AddOrUpdateFilteredDeck(f, purpose)
      PROVE  IInv'
  <2>1. PICK S \in SUBSET Eligible(AllReturned(f)) :
            card' = Built(f, purpose = "reschedule", AllReturned(f), S)
        BY <1>11 DEF AddOrUpdateFilteredDeck
  <2>2. /\ kind' \in [FilteredDecks -> {"absent", "preview", "reschedule"}]
        /\ \A g \in FilteredDecks : kind[g] # "absent" => kind'[g] # "absent"
        /\ kind'[f] # "absent"
        BY <1>11 DEF AddOrUpdateFilteredDeck, IInv
  <2> QED BY <1>11, <2>1, <2>2, Building DEF AddOrUpdateFilteredDeck
<1>12. ASSUME NEW f \in FilteredDecks, RebuildFilteredDeck(f)
      PROVE  IInv'
  <2>1. PICK S \in SUBSET Eligible(AllReturned(f)) :
            card' = Built(f, kind[f] = "reschedule", AllReturned(f), S)
        BY <1>12 DEF RebuildFilteredDeck
  <2>2. kind[f] \in {"preview", "reschedule"}
        BY <1>12 DEF RebuildFilteredDeck, IInv
  <2> QED BY <1>12, <2>1, <2>2, Building DEF RebuildFilteredDeck, IInv
<1>13. ASSUME NEW f \in FilteredDecks, EmptyFilteredDeck(f)
      PROVE  IInv'
  <2>1. card' \in [Cards -> Fitting \cup {NoCard}]
        BY <1>13, AllGivenBack DEF EmptyFilteredDeck
  <2> QED BY <1>13, <2>1, OnlyRowsChange DEF EmptyFilteredDeck
<1>14. ASSUME NEW f \in FilteredDecks, RemoveFilteredDeck(f)
      PROVE  IInv'
  <2>1. \A c \in Cards : card'[c] = NoCard \/ (card'[c] \in Fitting /\ card'[c].did # f)
        BY <1>14, AllGivenBack DEF RemoveFilteredDeck
  <2>2. \A k \in Fitting : k.did # f => k \in Fitting'
        BY <1>14 DEF RemoveFilteredDeck, Fitting, Placed, Rows, InOrder, HomeDeck, IInv
  <2>3. card' \in [Cards -> Fitting' \cup {NoCard}]
        BY <1>14, <2>1, <2>2 DEF RemoveFilteredDeck, AllReturned
  <2> QED BY <1>14, <2>3 DEF RemoveFilteredDeck, IInv
<1>15. ASSUME NEW d \in HomeDecks, RemoveNormalDeck(d)
      PROVE  IInv'
  <2>1. \A k \in Fitting : HomeDeck(k) # d => k \in Fitting'
        BY <1>15 DEF RemoveNormalDeck, Fitting, Placed, Rows, InOrder, HomeDeck
  <2>2. ASSUME NEW c \in Live, c \notin InDeck(d)
        PROVE  card[c] \in Fitting'
    <3>1. card[c] \in Fitting /\ HomeDeck(card[c]) # d
          BY <2>2, LiveRows DEF InDeck, HomeDeck, Live
    <3> QED BY <2>1, <3>1
  <2>3. card' \in [Cards -> Fitting' \cup {NoCard}]
        BY <1>15, <2>2 DEF RemoveNormalDeck, Live
  <2> QED BY <1>15, <2>3 DEF RemoveNormalDeck, IInv
<1>16. CASE UnburyOnDayRollover
  <2>1. ASSUME NEW c \in Live
        PROVE  Restored(card[c]) \in Fitting /\ card[c] \in Fitting
    <3>1. card[c] \in Fitting /\ card[c] \in Rows
          BY LiveRows DEF Live, Fitting
    <3>2. Restored(card[c]) \in Rows /\ StaysOrReturns(card[c], Restored(card[c]))
          BY <3>1, Restoring DEF StaysOrReturns
    <3> QED BY <3>1, <3>2, StillFits
  <2>2. card' \in [Cards -> Fitting \cup {NoCard}]
        BY <1>16, <2>1 DEF UnburyOnDayRollover, Live
  <2> QED BY <1>16, <2>2, OnlyRowsChange DEF UnburyOnDayRollover
<1>17. ASSUME NEW S \in SUBSET Live, NEW start \in Positions, NEW by \in {0, Cardinality(S)},
              SortCards(S, start, by)
      PROVE  IInv'
  <2>1. by \in Int /\ by >= 0 /\ start \in Int /\ start > 0
    <3>1. IsFiniteSet(S)
          BY FS_Subset, CardAssumption DEF Live
    <3> QED BY <3>1, FS_CardinalityType, Dues
  <2>2. ASSUME NEW c \in Live, NEW position \in Int, position > 0
        PROVE  SetNewPosition(card[c], position) \in Fitting
    <3>1. card[c] \in Fitting /\ card[c] \in Rows
          BY LiveRows DEF Live, Fitting
    <3>2. SetNewPosition(card[c], position) \in Rows
          /\ StaysOrReturns(card[c], SetNewPosition(card[c], position))
          BY <2>2, <3>1, Repositioning DEF StaysOrReturns
    <3> QED BY <3>1, <3>2, StillFits
  <2>3. ASSUME NEW c \in Live, card[c].due >= start
        PROVE  card[c].due + by \in Int /\ card[c].due + by > 0
    <3>1. card[c].due \in Int
          BY LiveRows DEF Live, Fitting, Rows, CardRows
    <3> QED BY <2>1, <2>3, <3>1
  <2>4. card' \in [Cards -> Fitting \cup {NoCard}]
        BY <1>17, <2>1, <2>2, <2>3 DEF SortCards, IInv
  <2> QED BY <1>17, <2>4, OnlyRowsChange DEF SortCards
<1>18. CASE UNCHANGED vars
      BY <1>18, OnlyRowsChange DEF vars, IInv
<1> QED BY <1>1, <1>2, <1>3, <1>4, <1>5, <1>6, <1>7, <1>8, <1>9, <1>10, <1>11, <1>12, <1>13, <1>14,
           <1>15, <1>16, <1>17, <1>18 DEF Next

THEOREM Invariant == Spec => []IInv
BY Starting, Inductive, PTL DEF Spec

-----------------------------------------------------------------------------
(* What the invariant says.                                                 *)

\* Rows of cards stay rows of cards, whatever is done to them: TypeOK.
THEOREM TypeCorrect == Spec => []TypeOK
<1>1. IInv => TypeOK
      BY DEF IInv, TypeOK, Fitting, Rows
<1> QED BY <1>1, Invariant, PTL

\* Cards in filtered decks, and only they, remember a home deck and a home due,
\* and every card's decks exist: HomeKept.
THEOREM HomesAreKept == Spec => []HomeKept
<1>1. IInv => HomeKept
  <2> SUFFICES ASSUME IInv, NEW c \in Live
               PROVE  IF card[c].did \in FilteredDecks
                      THEN kind[card[c].did] # "absent" /\ card[c].odid \in decks /\ card[c].odue # 0
                      ELSE card[c].did \in decks /\ card[c].odid = NoDeck /\ card[c].odue = 0
      BY DEF HomeKept
  <2>1. card[c] \in Rows /\ Placed(card[c])
        BY LiveRows DEF Live, Fitting
  <2> QED BY <2>1
          DEF Rows, CardRows, InOrder, Placed, HomeDeck, IsFiltered, OriginalOrCurrentDue
<1> QED BY <1>1, Invariant, PTL

\* A card at home that is not put away is in the queue for its type and due:
\* QueueMatchesType.
THEOREM QueuesMatch == Spec => []QueueMatchesType
<1>1. IInv => QueueMatchesType
      BY LiveRows DEF QueueMatchesType, Live, Fitting, Rows, InOrder
<1> QED BY <1>1, Invariant, PTL

-----------------------------------------------------------------------------
(* CardStates implements CardSchedule: whatever an operation does to a      *)
(* card's row, what the row says of the card's schedule changes as          *)
(* CardSchedule allows.  The lemmas say for each change of a row what it    *)
(* does to the schedule; most do nothing.                                   *)

-----------------------------------------------------------------------------
(* Rows and schedules.                                                      *)

\* A row that fits has a schedule.
LEMMA HasSchedule ==
    ASSUME NEW k \in Rows
    PROVE  ScheduleOf(k) \in Schedules /\ ScheduleOf(k) # NoCard
<1>1. Status(k) \in {"active", "buried", "suspended"}
      BY DEF Status
<1>2. HomeDeck(k) \in HomeDecks
      BY Decks DEF HomeDeck, IsFiltered, Rows, CardRows, InOrder
<1>3. OriginalOrCurrentDue(k) \in Int /\ k.position \in Int /\ k.ctype \in Types
      BY DEF OriginalOrCurrentDue, Rows, CardRows
<1>4. ScheduleOf(k) \in Schedules
      BY <1>1, <1>2, <1>3 DEF ScheduleOf, Schedules
<1> QED BY <1>4, NoCardAssumption

\* A schedule with the same deck differs in the other fields.
LEMMA SameDeck ==
    ASSUME NEW s \in Schedules, NEW t \in Schedules, t.deck = s.deck
    PROVE  t = [s EXCEPT !.ctype = t.ctype, !.due = t.due, !.position = t.position, !.status = t.status]
BY DEF Schedules

\* Putting a card away shows in its status only.
LEMMA SchedulePutAway ==
    ASSUME NEW k \in Rows, NEW queue \in PutAwayQueues
    PROVE  ScheduleOf([k EXCEPT !.queue = queue])
             = [ScheduleOf(k) EXCEPT !.status = IF queue = "Suspended" THEN "suspended" ELSE "buried"]
BY DEF Rows, CardRows, ScheduleOf, HomeDeck, Status, PutAway, IsFiltered, OriginalOrCurrentDue

\* Waking a card up: it is active, and nothing else changes.
LEMMA ScheduleRestored ==
    ASSUME NEW k \in Rows
    PROVE  ScheduleOf(Restored(k)) = [ScheduleOf(k) EXCEPT !.status = "active"]
<1> DEFINE queue == QueueFromType(k.ctype, k.due)
<1>1. queue \in Queues \ PutAwayQueues
      BY QueueOfType DEF Rows, CardRows
<1>2. CASE PutAway(k)
  <2>1. Restored(k) = [k EXCEPT !.queue = queue]
        BY <1>2 DEF Restored, RestoreQueueFromType
  <2> HIDE DEF queue
  <2> QED BY <1>1, <2>1
          DEF Rows, CardRows, ScheduleOf, HomeDeck, Status, PutAway, PutAwayQueues, IsFiltered,
              OriginalOrCurrentDue
<1>3. CASE ~PutAway(k)
      BY <1>3 DEF Restored, ScheduleOf, Status, PutAway, PutAwayQueues
<1> QED BY <1>2, <1>3

\* Being borrowed does not show.
LEMMA ScheduleBorrowed ==
    ASSUME NEW k \in Rows, ~IsFiltered(k), ~PutAway(k), NEW f \in FilteredDecks, NEW reschedule \in BOOLEAN
    PROVE  ScheduleOf(MoveIntoFilteredDeck(k, f, reschedule)) = ScheduleOf(k)
BY Decks, FilteredPositions
   DEF Rows, CardRows, InOrder, MoveIntoFilteredDeck, ScheduleOf, HomeDeck, Status, PutAway,
       PutAwayQueues, IsFiltered, OriginalOrCurrentDue

\* Nor does being given back.
LEMMA ScheduleGivenBack ==
    ASSUME NEW k \in Rows
    PROVE  ScheduleOf(RemoveRestoringQueue(k)) = ScheduleOf(k)
<1>1. CASE IsFiltered(k)
  <2> DEFINE l == RemoveRestoringQueue(k)
             due == IF k.odue # 0 THEN k.odue ELSE k.due
             home == [k EXCEPT !.did = k.odid, !.odid = NoDeck, !.odue = 0, !.due = due]
  <2>1. k.odue \in Int /\ k.odue > 0 /\ k \in CardRows
        BY <1>1 DEF Rows, CardRows, InOrder, OriginalOrCurrentDue
  <2>2. due = k.odue
        BY <2>1
  <2>3. l = IF PutAway(k) THEN home ELSE RestoreQueueFromType(home)
        BY <1>1 DEF RemoveRestoringQueue
  <2> HIDE DEF due
  <2>4. home \in CardRows /\ home.did = k.odid /\ home.odid = NoDeck /\ home.due = k.odue
        /\ home.ctype = k.ctype /\ home.queue = k.queue /\ home.position = k.position
        BY <1>1, <2>1, <2>2, Zero DEF CardRows, IsFiltered
  <2> HIDE DEF home
  <2>5. QueueFromType(home.ctype, home.due) \in Queues \ PutAwayQueues
        BY <2>4, QueueOfType DEF CardRows
  <2>6. l.did = k.odid /\ l.odid = NoDeck /\ l.due = k.odue /\ l.ctype = k.ctype /\ l.position = k.position
        BY <2>3, <2>4 DEF RestoreQueueFromType, CardRows
  <2>7. l.queue = IF PutAway(k) THEN k.queue ELSE QueueFromType(home.ctype, home.due)
        BY <2>3, <2>4 DEF RestoreQueueFromType, CardRows
  <2> HIDE DEF l
  <2>8. Status(l) = Status(k)
        BY <2>5, <2>7 DEF Status, PutAway, PutAwayQueues
  <2>9. ScheduleOf(l) = ScheduleOf(k)
        BY <1>1, <2>6, <2>8 DEF ScheduleOf, HomeDeck, IsFiltered, OriginalOrCurrentDue
  <2> QED BY <2>9 DEF l
<1>2. CASE ~IsFiltered(k)
      BY <1>2 DEF RemoveRestoringQueue
<1> QED BY <1>1, <1>2

\* Being previewed wakes the card up, in the filtered deck it stays in.
LEMMA SchedulePreviewed ==
    ASSUME NEW k \in Rows, IsFiltered(k), NEW time \in Int
    PROVE  ScheduleOf([k EXCEPT !.queue = "PreviewRepeat", !.due = time])
             = [ScheduleOf(k) EXCEPT !.status = "active"]
BY DEF Rows, CardRows, ScheduleOf, HomeDeck, Status, PutAway, PutAwayQueues, IsFiltered,
       OriginalOrCurrentDue

\* Resetting a card forgets its position and wakes it up.
LEMMA ScheduleForgotten ==
    ASSUME NEW k \in Rows, NEW position \in Int, position > 0
    PROVE  ScheduleOf(ScheduleAsNew(k, position))
             = [ScheduleOf(k) EXCEPT !.ctype = "New", !.due = position, !.position = 0, !.status = "active"]
<1> DEFINE out == RemoveBeforeReschedule(k)
           l == ScheduleAsNew(k, position)
<1>1. out \in CardRows /\ out.did = HomeDeck(k) /\ out.odid = NoDeck
      BY TakingOut
<1> HIDE DEF out
<1>2. l = [out EXCEPT !.due = position, !.ctype = "New", !.queue = "New", !.position = 0]
      BY DEF ScheduleAsNew, out
<1>3. l \in Rows
      BY Resetting
<1> HIDE DEF l
<1>4. l.did = HomeDeck(k) /\ l.odid = NoDeck /\ l.due = position /\ l.ctype = "New" /\ l.queue = "New"
      /\ l.position = 0
      BY <1>1, <1>2, Zero DEF CardRows
<1> DEFINE s == ScheduleOf(k)
           t == ScheduleOf(l)
<1>5. t.deck = s.deck /\ t.ctype = "New" /\ t.due = position /\ t.position = 0 /\ t.status = "active"
      BY <1>4 DEF ScheduleOf, HomeDeck, Status, PutAway, PutAwayQueues, IsFiltered, OriginalOrCurrentDue
<1>6. s \in Schedules /\ t \in Schedules
      BY <1>3, HasSchedule
<1> HIDE DEF s, t
<1>7. t = [s EXCEPT !.ctype = "New", !.due = position, !.position = 0, !.status = "active"]
      BY <1>5, <1>6, SameDeck
<1> QED BY <1>7 DEF l, s, t

\* A due date makes a review card, and remembers the position of a new one.
LEMMA ScheduleDueDate ==
    ASSUME NEW k \in Rows, NEW day \in Int, day > 0
    PROVE  ScheduleOf(ScheduleAsReview(k, day))
             = [ScheduleOf(k) EXCEPT !.ctype = "Review", !.due = day, !.position = LastPosition(k),
                                     !.status = "active"]
<1> DEFINE out == RemoveBeforeReschedule(k)
           last == LastPosition(k)
           l == ScheduleAsReview(k, day)
<1>1. out \in CardRows /\ out.did = HomeDeck(k) /\ out.odid = NoDeck
      BY TakingOut
<1>2. last \in Int
      BY Positioned
<1> HIDE DEF out, last
<1>3. l = [out EXCEPT !.position = last, !.due = day, !.ctype = "Review", !.queue = "Review"]
      BY DEF ScheduleAsReview, out, last
<1>4. l \in Rows
      BY GivingDueDate
<1> HIDE DEF l
<1>5. l.did = HomeDeck(k) /\ l.odid = NoDeck /\ l.due = day /\ l.ctype = "Review" /\ l.queue = "Review"
      /\ l.position = last
      BY <1>1, <1>2, <1>3 DEF CardRows
<1> DEFINE s == ScheduleOf(k)
           t == ScheduleOf(l)
<1>6. t.deck = s.deck /\ t.ctype = "Review" /\ t.due = day /\ t.position = last /\ t.status = "active"
      BY <1>5 DEF ScheduleOf, HomeDeck, Status, PutAway, PutAwayQueues, IsFiltered, OriginalOrCurrentDue
<1>7. s \in Schedules /\ t \in Schedules
      BY <1>4, HasSchedule
<1> HIDE DEF s, t
<1>8. t = [s EXCEPT !.ctype = "Review", !.due = day, !.position = last, !.status = "active"]
      BY <1>6, <1>7, SameDeck
<1> QED BY <1>8 DEF l, last, s, t

\* A new card gets the position, at home if it is borrowed; another card none.
LEMMA ScheduleRepositioned ==
    ASSUME NEW k \in Rows, NEW position \in Int
    PROVE  ScheduleOf(SetNewPosition(k, position))
             = IF k.ctype = "New" THEN [ScheduleOf(k) EXCEPT !.due = position] ELSE ScheduleOf(k)
<1>1. CASE k.ctype = "New"
      BY <1>1 DEF SetNewPosition, Rows, CardRows, ScheduleOf, HomeDeck, Status, PutAway, IsFiltered,
                  OriginalOrCurrentDue
<1>2. CASE k.ctype # "New" /\ k.queue = "New"
  <2>1. IsFiltered(k)
        BY <1>2 DEF Rows, InOrder, PutAway, PutAwayQueues, QueueFromType
  <2> QED BY <1>2, <2>1
          DEF SetNewPosition, Rows, CardRows, ScheduleOf, HomeDeck, Status, PutAway, IsFiltered,
              OriginalOrCurrentDue
<1>3. CASE k.ctype # "New" /\ k.queue # "New"
      BY <1>3 DEF SetNewPosition
<1> QED BY <1>1, <1>2, <1>3

\* A card given another deck is at home there, as it was.
LEMMA ScheduleMoved ==
    ASSUME NEW k \in Rows, NEW d \in HomeDecks
    PROVE  ScheduleOf([RemoveRestoringQueue(k) EXCEPT !.did = d]) = [ScheduleOf(k) EXCEPT !.deck = d]
<1> DEFINE home == RemoveRestoringQueue(k)
<1>1. home \in Rows /\ home.odid = NoDeck /\ ScheduleOf(home) = ScheduleOf(k)
      BY GivingBack, ScheduleGivenBack
<1> HIDE DEF home
<1>2. ScheduleOf([home EXCEPT !.did = d]) = [ScheduleOf(home) EXCEPT !.deck = d]
      BY <1>1 DEF Rows, CardRows, ScheduleOf, HomeDeck, Status, PutAway, IsFiltered, OriginalOrCurrentDue
<1> QED BY <1>1, <1>2 DEF home

\* An answer sets type and due, at home or in the filtered deck, and remembers
\* the position of a new card.
LEMMA ScheduleTaught ==
    ASSUME NEW k \in Rows, NEW t \in Types, NEW due \in Int, due > 0
    PROVE  ScheduleOf(Scheduled(k, t, due))
             = [ScheduleOf(k) EXCEPT !.ctype = t, !.due = due, !.position = LastPosition(k),
                                     !.status = "active"]
<1> DEFINE last == LastPosition(k)
           queue == QueueFromType(t, due)
           l == Studied(k, t, due)
           m == Scheduled(k, t, due)
<1>1. l \in Rows /\ l.did = k.did /\ l.odid = k.odid /\ l.odue = k.odue
      /\ l.ctype = t /\ l.due = due /\ l.queue = queue
      BY Studying
<1>2. l.position = last
  <2>1. StudyDue(k) = OriginalOrCurrentDue(k)
        BY DEF StudyDue, OriginalOrCurrentDue, Rows, InOrder
  <2>2. OriginalOrCurrentDue(k) \in Int /\ OriginalOrCurrentDue(k) >= 0
        BY DEF Rows, CardRows, InOrder, OriginalOrCurrentDue
  <2> DEFINE position == IF k.ctype = "New" /\ StudyDue(k) >= 0 THEN StudyDue(k) ELSE k.position
  <2>3. position = last
        BY <2>1, <2>2 DEF LastPosition
  <2>4. l = [k EXCEPT !.ctype = t, !.queue = queue, !.due = due, !.position = position]
        BY DEF Studied
  <2> HIDE DEF position, queue, last
  <2> QED BY <2>3, <2>4 DEF Rows, CardRows
<1>3. queue \in Queues \ PutAwayQueues
      BY QueueOfType
<1>4. last \in Int
      BY Positioned
<1>5. m = IF k.did \notin FilteredDecks THEN l
          ELSE IF Leaves(t) THEN RemoveBeforeReschedule(l) ELSE [l EXCEPT !.odue = due]
      BY DEF Scheduled
<1>6. m.ctype = t /\ m.queue = queue /\ m.position = last
      BY <1>1, <1>2, <1>5, Zero DEF RemoveBeforeReschedule, Rows, CardRows
<1>7. HomeDeck(m) = HomeDeck(k) /\ OriginalOrCurrentDue(m) = due
  <2>1. CASE k.did \in FilteredDecks /\ Leaves(t)
    <3>1. RemoveBeforeReschedule(l).did = HomeDeck(l) /\ RemoveBeforeReschedule(l).odid = NoDeck
          BY <1>1, TakingOut
    <3>2. RemoveBeforeReschedule(l).due = due
          BY <1>1, Zero DEF RemoveBeforeReschedule, Rows, CardRows
    <3> HIDE DEF l, m
    <3> QED BY <1>1, <1>5, <2>1, <3>1, <3>2 DEF HomeDeck, OriginalOrCurrentDue, IsFiltered
  <2>2. CASE k.did \in FilteredDecks /\ ~Leaves(t)
    <3> HIDE DEF l, m
    <3> QED BY <1>1, <1>5, <2>2
            DEF HomeDeck, OriginalOrCurrentDue, IsFiltered, Rows, CardRows, InOrder
  <2>3. CASE k.did \notin FilteredDecks
    <3> HIDE DEF l, m
    <3> QED BY <1>1, <1>5, <2>3 DEF HomeDeck, OriginalOrCurrentDue, IsFiltered, Rows, InOrder
  <2> QED BY <2>1, <2>2, <2>3
<1>8. m \in Rows
      BY Answering
<1> HIDE DEF m, queue, last
<1>9. Status(m) = "active"
      BY <1>3, <1>6 DEF Status, PutAway, PutAwayQueues
<1> DEFINE s == ScheduleOf(k)
           u == ScheduleOf(m)
<1>10. u.deck = s.deck /\ u.ctype = t /\ u.due = due /\ u.position = last /\ u.status = "active"
      BY <1>6, <1>7, <1>9 DEF ScheduleOf
<1>11. s \in Schedules /\ u \in Schedules
      BY <1>8, HasSchedule
<1> HIDE DEF s, u
<1>12. u = [s EXCEPT !.ctype = t, !.due = due, !.position = last, !.status = "active"]
      BY <1>10, <1>11, SameDeck
<1> QED BY <1>12 DEF m, last, s, u

-----------------------------------------------------------------------------
(* Steps.                                                                   *)

\* A card with a row has the schedule of its row, and the others have none.
LEMMA ScheduleOfCard ==
    ASSUME IInv, NEW c \in Cards
    PROVE  /\ c \in Live => card[c] \in Rows /\ schedule[c] = ScheduleOf(card[c]) /\ schedule[c] # NoCard
           /\ c \notin Live => schedule[c] = NoCard
BY LiveRows, HasSchedule DEF schedule, Fitting, Live

\* So it is after a step that gives a card a row.
LEMMA ScheduleOfCardAfter ==
    ASSUME NEW c \in Cards
    PROVE  /\ card'[c] \in Rows => schedule'[c] = ScheduleOf(card'[c]) /\ schedule'[c] # NoCard
           /\ card'[c] = NoCard => schedule'[c] = NoCard
           /\ card'[c] = card[c] => schedule'[c] = schedule[c]
BY HasSchedule, NoCardAssumption DEF schedule, Rows

\* A schedule is always a function on the cards.
LEMMA ScheduleIsFunction ==
    /\ schedule = [c \in Cards |-> schedule[c]]
    /\ schedule' = [c \in Cards |-> schedule'[c]]
BY DEF schedule

\* An answer or a preview.
LEMMA StudyStep ==
    ASSUME IInv, NEW c \in Live, NEW l \in Rows, NEW queues \in SUBSET SiblingQueues(c),
           AnsweredAs(c, l, queues),
           \/ Abstract!Woken(ScheduleOf(card[c]), ScheduleOf(l))
           \/ Abstract!Answered(ScheduleOf(card[c]), ScheduleOf(l))
    PROVE  Abstract!Next
<1>1. card'[c] = l /\ c \in Cards
      BY DEF AnsweredAs, Live
<1>2. schedule[c] = ScheduleOf(card[c]) /\ schedule[c] # NoCard
      /\ schedule'[c] = ScheduleOf(l) /\ schedule'[c] # NoCard
      BY <1>1, ScheduleOfCard, ScheduleOfCardAfter
<1>3. ASSUME NEW b \in Cards \ {c}
      PROVE  Abstract!Buried(schedule[b], schedule'[b])
  <2>1. CASE b \in Live /\ card[b].queue \in queues
    <3> DEFINE buried == [card[b] EXCEPT !.queue = "SchedBuried"]
    <3>1. card[b] \in Rows /\ schedule[b] = ScheduleOf(card[b]) /\ schedule[b] # NoCard
          BY <2>1, ScheduleOfCard
    <3>2. card'[b] = buried
          BY <2>1 DEF AnsweredAs
    <3>3. buried \in Rows /\ ScheduleOf(buried) = [ScheduleOf(card[b]) EXCEPT !.status = "buried"]
          BY <3>1, PuttingAway, SchedulePutAway DEF PutAwayQueues
    <3>4. schedule'[b] = [schedule[b] EXCEPT !.status = "buried"]
          BY <3>1, <3>2, <3>3, ScheduleOfCardAfter
    <3>5. schedule[b].status = "active"
          BY <2>1, <3>1 DEF SiblingQueues, ScheduleOf, Status, PutAway, PutAwayQueues
    <3> QED BY <3>1, <3>4, <3>5 DEF Abstract!Buried
  <2>2. CASE ~(b \in Live /\ card[b].queue \in queues)
    <3>1. card'[b] = card[b]
          BY <2>2 DEF AnsweredAs
    <3> QED BY <3>1, ScheduleOfCardAfter DEF Abstract!Buried
  <2> QED BY <2>1, <2>2
<1>4. Abstract!Study(c)
      BY <1>2, <1>3 DEF Abstract!Study
<1> QED BY <1>1, <1>4, ScheduleIsFunction DEF Abstract!Next

\* A change of one card.
LEMMA ChangeStep ==
    ASSUME IInv, NEW c \in Live, NEW l \in Rows, card' = [card EXCEPT ![c] = l],
           \/ Abstract!Forgotten(ScheduleOf(card[c]), ScheduleOf(l))
           \/ Abstract!RescheduledToDay(ScheduleOf(card[c]), ScheduleOf(l))
           \/ Abstract!Moved(ScheduleOf(card[c]), ScheduleOf(l))
           \/ Abstract!PutAway(ScheduleOf(card[c]), ScheduleOf(l))
    PROVE  Abstract!Next
<1>1. card'[c] = l /\ c \in Cards /\ \A b \in Cards \ {c} : card'[b] = card[b]
      BY DEF Live, IInv
<1>2. schedule[c] = ScheduleOf(card[c]) /\ schedule[c] # NoCard
      /\ schedule'[c] = ScheduleOf(l) /\ schedule'[c] # NoCard
      BY <1>1, ScheduleOfCard, ScheduleOfCardAfter
<1>3. \A b \in Cards \ {c} : schedule'[b] = schedule[b]
      BY <1>1, ScheduleOfCardAfter
<1>4. Abstract!Change(c)
      BY <1>2, <1>3 DEF Abstract!Change
<1> QED BY <1>1, <1>4, ScheduleIsFunction DEF Abstract!Next

\* Giving cards back, and borrowing some of them, leaves all schedules alone.
LEMMA QuietStep ==
    ASSUME IInv, NEW f \in FilteredDecks, NEW reschedule \in BOOLEAN,
           NEW S \in SUBSET Eligible(AllReturned(f)),
           card' = Built(f, reschedule, AllReturned(f), S)
    PROVE  UNCHANGED schedule
<1>1. ASSUME NEW c \in Cards
      PROVE  schedule'[c] = schedule[c]
  <2> DEFINE k == AllReturned(f)[c]
             l == MoveIntoFilteredDeck(k, f, reschedule)
  <2>1. CASE c \notin Live
    <3>1. k = NoCard /\ c \notin S
          BY <2>1, AllGivenBack DEF Eligible
    <3> QED BY <2>1, <3>1, ScheduleOfCard, ScheduleOfCardAfter DEF Built
  <2>2. CASE c \in Live
    <3>1. card[c] \in Rows /\ schedule[c] = ScheduleOf(card[c])
          BY <2>2, ScheduleOfCard
    <3>2. k \in Rows
          BY <2>2, AllGivenBack DEF Fitting
    <3>3. ScheduleOf(k) = ScheduleOf(card[c])
          BY <3>1, ScheduleGivenBack DEF AllReturned
    <3> HIDE DEF k
    <3>4. CASE c \in S
      <4>1. ~IsFiltered(k) /\ ~PutAway(k)
            BY <3>4 DEF Eligible, k
      <4>2. l \in Rows /\ ScheduleOf(l) = ScheduleOf(k)
            BY <3>2, <4>1, Borrowing, ScheduleBorrowed
      <4>3. card'[c] = l
            BY <3>4 DEF Built, k
      <4> HIDE DEF l
      <4> QED BY <3>1, <3>3, <4>2, <4>3, ScheduleOfCardAfter
    <3>5. CASE c \notin S
      <4>1. card'[c] = k
            BY <3>5 DEF Built, k
      <4> QED BY <3>1, <3>2, <3>3, <4>1, ScheduleOfCardAfter
    <3> QED BY <3>4, <3>5
  <2> QED BY <2>1, <2>2
<1> QED BY <1>1, ScheduleIsFunction

\* The abstract last position is that of the row.
LEMMA LastPositionOfSchedule ==
    ASSUME NEW k \in Rows
    PROVE  Abstract!LastPosition(ScheduleOf(k)) = LastPosition(k)
BY DEF Abstract!LastPosition, LastPosition, ScheduleOf

\* Every operation is a step of CardSchedule, if shifts meet no previewed card.
LEMMA EveryStep == ASSUME ShiftPreviewed = FALSE
                   PROVE  IInv /\ [Next]_vars => [Abstract!Next]_schedule
<1> SUFFICES ASSUME IInv, [Next]_vars
             PROVE  Abstract!Next \/ UNCHANGED schedule
    OBVIOUS
<1>1. ASSUME NEW c \in Cards, NEW t \in Types, NEW due \in Days \cup Times, NEW leech \in BOOLEAN,
             AnswerCard(c, t, due, leech)
      PROVE  Abstract!Next
  <2> DEFINE k == card[c]
             l == Scheduled(k, t, due)
             m == Leech(l, leech)
             s == ScheduleOf(k)
             u == ScheduleOf(m)
  <2>1. c \in Live /\ k \in Rows /\ t \in NextTypes(k.ctype) /\ (t = "Review" => due \in Days)
        /\ (leech => k.ctype = "Review")
        BY <1>1, LiveRows DEF AnswerCard, Fitting
  <2>2. PICK queues \in SUBSET SiblingQueues(c) : AnsweredAs(c, m, queues)
        BY <1>1 DEF AnswerCard
  <2> HIDE DEF k
  <2>3. due \in Int /\ due > 0
        BY Dues
  <2>4. l \in Rows
        BY <2>1, <2>3, Answering
  <2>5. ScheduleOf(l) = [s EXCEPT !.ctype = t, !.due = due, !.position = LastPosition(k), !.status = "active"]
        BY <2>1, <2>3, ScheduleTaught
  <2>6. s \in Schedules
        BY <2>1, HasSchedule
  <2>7. ScheduleOf(l).deck = s.deck /\ ScheduleOf(l).ctype = t /\ ScheduleOf(l).due = due
        /\ ScheduleOf(l).position = LastPosition(k) /\ ScheduleOf(l).status = "active"
    <3> DEFINE last == LastPosition(k)
               v == ScheduleOf(l)
    <3>1. v = [s EXCEPT !.ctype = t, !.due = due, !.position = last, !.status = "active"]
          BY <2>5
    <3> HIDE DEF s, v, last
    <3>2. v.deck = s.deck /\ v.ctype = t /\ v.due = due /\ v.position = last /\ v.status = "active"
          BY <2>6, <3>1 DEF Schedules
    <3> QED BY <3>2 DEF v, last
  <2>8. m \in Rows /\ u.deck = s.deck /\ u.ctype = t /\ u.due = due /\ u.position = LastPosition(k)
        /\ u.status = IF leech THEN "suspended" ELSE "active"
    <3>1. CASE leech
      <4> DEFINE away == [l EXCEPT !.queue = "Suspended"]
      <4>1. away \in Rows /\ ScheduleOf(away) = [ScheduleOf(l) EXCEPT !.status = "suspended"]
            BY <2>4, PuttingAway, SchedulePutAway DEF PutAwayQueues
      <4>2. m = away
            BY <3>1 DEF Leech
      <4>3. ScheduleOf(l) \in Schedules
            BY <2>4, HasSchedule
      <4> DEFINE v == ScheduleOf(l)
      <4>4. u = [v EXCEPT !.status = "suspended"]
            BY <4>1, <4>2
      <4> HIDE DEF v, u, m, away
      <4>5. u.deck = v.deck /\ u.ctype = v.ctype /\ u.due = v.due /\ u.position = v.position
            /\ u.status = "suspended"
            BY <4>3, <4>4 DEF Schedules, v
      <4> QED BY <2>7, <3>1, <4>1, <4>2, <4>5 DEF v
    <3>2. CASE ~leech
          BY <2>4, <2>7, <3>2 DEF Leech
    <3> QED BY <3>1, <3>2
  <2>9. u \in Schedules
        BY <2>8, HasSchedule
  <2>10. u = [s EXCEPT !.ctype = u.ctype, !.due = u.due, !.position = u.position, !.status = u.status]
    <3> HIDE DEF s, u
    <3> QED BY <2>6, <2>8, <2>9, SameDeck
  <2>11. Abstract!LastPosition(s) = LastPosition(k)
        BY <2>1, LastPositionOfSchedule
  <2>12. s.ctype = k.ctype
        BY DEF ScheduleOf
  <2> HIDE DEF s, u, m
  <2>13. Abstract!Taught(s, u)
        BY <2>8, <2>10, <2>11 DEF Abstract!Taught
  <2>14. t \in {"Review", IF s.ctype \in {"New", "Learn"} THEN "Learn" ELSE "Relearn"}
        BY <2>1, <2>12 DEF NextTypes, AfterLearning, AfterReview, AfterRelearning
  <2>15. Abstract!Answered(s, u)
        BY <2>1, <2>8, <2>12, <2>13, <2>14 DEF Abstract!Answered
  <2> QED BY <2>1, <2>2, <2>8, <2>15, StudyStep DEF s, u, k
<1>2. ASSUME NEW c \in Cards, NEW time \in Times, PreviewAgain(c, time)
      PROVE  Abstract!Next
  <2> DEFINE l == [card[c] EXCEPT !.queue = "PreviewRepeat", !.due = time]
  <2>1. c \in Live /\ card[c] \in Rows /\ IsFiltered(card[c])
        BY <1>2, LiveRows DEF PreviewAgain, Fitting
  <2>2. l \in Rows
        BY <2>1, Dues DEF Rows, CardRows, InOrder, IsFiltered, OriginalOrCurrentDue, Queues
  <2>3. PICK queues \in SUBSET SiblingQueues(c) : AnsweredAs(c, l, queues)
        BY <1>2 DEF PreviewAgain
  <2>4. ScheduleOf(l) = [ScheduleOf(card[c]) EXCEPT !.status = "active"] /\ ScheduleOf(card[c]) # NoCard
        BY <2>1, Dues, SchedulePreviewed, HasSchedule
  <2> HIDE DEF l
  <2>5. Abstract!Woken(ScheduleOf(card[c]), ScheduleOf(l))
        BY <2>4 DEF Abstract!Woken
  <2> QED BY <2>1, <2>2, <2>3, <2>5, StudyStep
<1>3. ASSUME NEW c \in Cards, PreviewFinished(c)
      PROVE  Abstract!Next
  <2> DEFINE l == RemoveRestoringQueue(card[c])
  <2>1. c \in Live /\ card[c] \in Rows
        BY <1>3, LiveRows DEF PreviewFinished, Fitting
  <2>2. l \in Rows /\ ScheduleOf(l) = ScheduleOf(card[c])
        BY <2>1, GivingBack, ScheduleGivenBack
  <2>3. PICK queues \in SUBSET SiblingQueues(c) : AnsweredAs(c, l, queues)
        BY <1>3 DEF PreviewFinished
  <2> HIDE DEF l
  <2>4. Abstract!Woken(ScheduleOf(card[c]), ScheduleOf(l))
        BY <2>2 DEF Abstract!Woken
  <2> QED BY <2>1, <2>2, <2>3, <2>4, StudyStep
<1>4. ASSUME NEW c \in Cards, NEW d \in HomeDecks, NEW position \in Positions, AddCard(c, d, position)
      PROVE  Abstract!Next
  <2> DEFINE k == [did |-> d, odid |-> NoDeck, ctype |-> "New", queue |-> "New",
                   due |-> position, odue |-> 0, position |-> 0]
  <2>1. k \in Rows
        BY Dues, Decks
        DEF Rows, CardRows, InOrder, IsFiltered, OriginalOrCurrentDue, QueueFromType, Types, Queues
  <2>2. ScheduleOf(k) = [deck |-> d, ctype |-> "New", due |-> position, position |-> 0, status |-> "active"]
        BY DEF ScheduleOf, HomeDeck, IsFiltered, OriginalOrCurrentDue, Status, PutAway, PutAwayQueues
  <2> HIDE DEF k
  <2>3. card[c] = NoCard /\ card'[c] = k /\ \A b \in Cards \ {c} : card'[b] = card[b]
        BY <1>4 DEF AddCard, IInv, k
  <2>4. schedule[c] = NoCard /\ schedule'[c] = ScheduleOf(k)
        BY <2>1, <2>3, ScheduleOfCard, ScheduleOfCardAfter DEF Live
  <2>5. \A b \in Cards \ {c} : schedule'[b] = schedule[b]
        BY <2>3, ScheduleOfCardAfter
  <2>6. Abstract!Added(schedule[c], schedule'[c])
        BY <2>2, <2>4 DEF Abstract!Added
  <2> QED BY <2>5, <2>6, ScheduleIsFunction DEF Abstract!Change, Abstract!Next
<1>5. ASSUME NEW c \in Cards, NEW queue \in BuryModes, BuryOrSuspend(c, queue)
      PROVE  Abstract!Next
  <2> DEFINE l == [card[c] EXCEPT !.queue = queue]
             s == ScheduleOf(card[c])
             u == ScheduleOf(l)
  <2>1. c \in Live /\ card[c] \in Rows /\ queue \in PutAwayQueues /\ card[c].queue # "Suspended"
        BY <1>5, LiveRows, CardAssumption DEF BuryOrSuspend, Fitting, PutAwayQueues
  <2>2. l \in Rows /\ u = [s EXCEPT !.status = IF queue = "Suspended" THEN "suspended" ELSE "buried"]
        BY <2>1, PuttingAway, SchedulePutAway
  <2>3. card' = [card EXCEPT ![c] = l]
        BY <1>5 DEF BuryOrSuspend
  <2>4. s.status # "suspended"
        BY <2>1 DEF ScheduleOf, Status
  <2> HIDE DEF l, s, u
  <2>5. Abstract!PutAway(s, u)
        BY <2>2, <2>4 DEF Abstract!PutAway
  <2> QED BY <2>1, <2>2, <2>3, <2>5, ChangeStep DEF s, u
<1>6. ASSUME NEW c \in Cards, UnburyOrUnsuspend(c)
      PROVE  Abstract!Next
  <2>1. c \in Live /\ card[c] \in Rows /\ schedule[c] = ScheduleOf(card[c]) /\ schedule[c] # NoCard
        BY <1>6, ScheduleOfCard DEF UnburyOrUnsuspend
  <2>2. card'[c] = Restored(card[c]) /\ \A b \in Cards \ {c} : card'[b] = card[b]
        BY <1>6 DEF UnburyOrUnsuspend, IInv
  <2>3. Restored(card[c]) \in Rows /\ ScheduleOf(Restored(card[c])) = [ScheduleOf(card[c]) EXCEPT !.status = "active"]
        BY <2>1, Restoring, ScheduleRestored
  <2>4. schedule'[c] = [schedule[c] EXCEPT !.status = "active"]
        BY <2>1, <2>2, <2>3, ScheduleOfCardAfter
  <2>5. \A b \in Cards : Abstract!Woken(schedule[b], schedule'[b])
        BY <2>1, <2>2, <2>4, ScheduleOfCardAfter DEF Abstract!Woken
  <2> QED BY <2>5, ScheduleIsFunction DEF Abstract!Next
<1>7. ASSUME NEW c \in Cards, RescheduleAsNew(c)
      PROVE  Abstract!Next
  <2> DEFINE k == card[c]
  <2>1. c \in Live /\ k \in Rows
        BY <1>7, LiveRows DEF RescheduleAsNew, Fitting
  <2>2. PICK position \in NewPositions(k) : card' = [card EXCEPT ![c] = ScheduleAsNew(@, position)]
        BY <1>7 DEF RescheduleAsNew
  <2>3. position \in Int /\ position > 0 /\ position \in Positions \cup {LastPosition(k)}
        BY <2>1, Dues, Positioned DEF NewPositions
  <2> DEFINE l == ScheduleAsNew(k, position)
             s == ScheduleOf(k)
             u == ScheduleOf(l)
  <2>4. l \in Rows /\ card' = [card EXCEPT ![c] = l]
        BY <2>1, <2>2, <2>3, Resetting
  <2>5. u = [s EXCEPT !.ctype = "New", !.due = position, !.position = 0, !.status = "active"]
        BY <2>1, <2>3, ScheduleForgotten
  <2>6. s \in Schedules /\ Abstract!LastPosition(s) = LastPosition(k)
        BY <2>1, HasSchedule, LastPositionOfSchedule
  <2> HIDE DEF l, s, u
  <2>7. u.due = position
        BY <2>5, <2>6 DEF Schedules
  <2>8. Abstract!Forgotten(s, u)
        BY <2>3, <2>5, <2>6, <2>7 DEF Abstract!Forgotten
  <2> QED BY <2>1, <2>4, <2>8, ChangeStep DEF s, u
<1>8. ASSUME NEW c \in Cards, NEW day \in Days, SetDueDate(c, day)
      PROVE  Abstract!Next
  <2> DEFINE k == card[c]
             l == ScheduleAsReview(k, day)
             last == LastPosition(k)
             s == ScheduleOf(k)
             u == ScheduleOf(l)
  <2>1. c \in Live /\ k \in Rows /\ day \in Int /\ day > 0
        BY <1>8, LiveRows, Dues DEF SetDueDate, Fitting
  <2>2. l \in Rows /\ card' = [card EXCEPT ![c] = l]
        BY <1>8, <2>1, GivingDueDate DEF SetDueDate
  <2>3. u = [s EXCEPT !.ctype = "Review", !.due = day, !.position = last, !.status = "active"]
        BY <2>1, ScheduleDueDate
  <2>4. s \in Schedules /\ Abstract!LastPosition(s) = last
        BY <2>1, HasSchedule, LastPositionOfSchedule
  <2> HIDE DEF l, s, u, last
  <2>5. u.ctype = "Review" /\ u.due = day /\ u.status = "active"
        BY <2>3, <2>4 DEF Schedules
  <2>6. Abstract!RescheduledToDay(s, u)
        BY <2>3, <2>4, <2>5 DEF Abstract!RescheduledToDay, Abstract!Taught
  <2> QED BY <2>1, <2>2, <2>6, ChangeStep DEF s, u
<1>9. ASSUME NEW c \in Cards, NEW d \in HomeDecks, SetDeck(c, d)
      PROVE  Abstract!Next
  <2> DEFINE home == RemoveRestoringQueue(card[c])
             l == [home EXCEPT !.did = d]
  <2>1. c \in Live /\ card[c] \in Rows
        BY <1>9, LiveRows DEF SetDeck, Fitting
  <2>2. home \in Rows /\ home.odid = NoDeck
        BY <2>1, GivingBack
  <2>3. card' = [card EXCEPT ![c] = l]
        BY <1>9 DEF SetDeck
  <2>4. ScheduleOf(l) = [ScheduleOf(card[c]) EXCEPT !.deck = d]
        BY <2>1, ScheduleMoved
  <2> HIDE DEF home
  <2>5. l \in Rows
        BY <2>2, Decks DEF Rows, CardRows, InOrder, IsFiltered, PutAway, OriginalOrCurrentDue
  <2> HIDE DEF l
  <2>6. Abstract!Moved(ScheduleOf(card[c]), ScheduleOf(l))
        BY <2>4 DEF Abstract!Moved
  <2> QED BY <2>1, <2>3, <2>5, <2>6, ChangeStep
<1>10. ASSUME NEW f \in FilteredDecks, NEW purpose \in {"preview", "reschedule"}, UpdateDeck(f, purpose)
      PROVE  UNCHANGED schedule
      BY <1>10 DEF UpdateDeck, schedule
<1>11. ASSUME NEW f \in FilteredDecks, NEW purpose \in {"preview", "reschedule"},
              AddOrUpdateFilteredDeck(f, purpose)
      PROVE  UNCHANGED schedule
      BY <1>11, QuietStep DEF AddOrUpdateFilteredDeck
<1>12. ASSUME NEW f \in FilteredDecks, RebuildFilteredDeck(f)
      PROVE  UNCHANGED schedule
      BY <1>12, QuietStep DEF RebuildFilteredDeck
<1>13. ASSUME NEW f \in FilteredDecks, EmptyFilteredDeck(f) \/ RemoveFilteredDeck(f)
      PROVE  UNCHANGED schedule
  <2>1. card' = Built(f, TRUE, AllReturned(f), {})
        BY <1>13 DEF EmptyFilteredDeck, RemoveFilteredDeck, Built, AllReturned
  <2>2. {} \in SUBSET Eligible(AllReturned(f)) /\ TRUE \in BOOLEAN
        OBVIOUS
  <2> QED BY <2>1, <2>2, QuietStep
<1>14. ASSUME NEW d \in HomeDecks, RemoveNormalDeck(d)
      PROVE  Abstract!Next
  <2>1. ASSUME NEW c \in Cards
        PROVE  Abstract!Removed(schedule[c], schedule'[c])
    <3>1. card'[c] \in {card[c], NoCard}
          BY <1>14 DEF RemoveNormalDeck
    <3> QED BY <3>1, ScheduleOfCardAfter DEF Abstract!Removed
  <2> QED BY <2>1, ScheduleIsFunction DEF Abstract!Next
<1>15. CASE UnburyOnDayRollover
  <2>1. ASSUME NEW c \in Cards
        PROVE  Abstract!Woken(schedule[c], schedule'[c])
    <3>1. CASE c \in Live /\ card'[c] = Restored(card[c])
      <4>1. card[c] \in Rows /\ schedule[c] = ScheduleOf(card[c]) /\ schedule[c] # NoCard
            BY <3>1, ScheduleOfCard
      <4>2. Restored(card[c]) \in Rows /\ ScheduleOf(Restored(card[c])) = [ScheduleOf(card[c]) EXCEPT !.status = "active"]
            BY <4>1, Restoring, ScheduleRestored
      <4>3. schedule'[c] = [schedule[c] EXCEPT !.status = "active"]
            BY <3>1, <4>1, <4>2, ScheduleOfCardAfter
      <4> QED BY <4>1, <4>3 DEF Abstract!Woken
    <3>2. CASE card'[c] = card[c]
          BY <3>2, ScheduleOfCardAfter DEF Abstract!Woken
    <3> QED BY <1>15, <3>1, <3>2 DEF UnburyOnDayRollover
  <2> QED BY <2>1, ScheduleIsFunction DEF Abstract!Next
<1>16. ASSUME NEW S \in SUBSET Live, NEW start \in Positions, NEW by \in {0, Cardinality(S)},
              SortCards(S, start, by)
      PROVE  Abstract!Next
  <2>1. ASSUME NEW c \in Live, NEW position \in Positions, card'[c] = SetNewPosition(card[c], position)
        PROVE  Abstract!Repositioned(schedule[c], schedule'[c])
    <3>1. card[c] \in Rows /\ schedule[c] = ScheduleOf(card[c]) /\ schedule[c] # NoCard /\ c \in Cards
          BY ScheduleOfCard DEF Live
    <3>2. position \in Int /\ position > 0
          BY Dues
    <3>3. schedule'[c] = ScheduleOf(SetNewPosition(card[c], position))
          BY <2>1, <3>1, <3>2, Repositioning, ScheduleOfCardAfter
    <3>4. schedule'[c] = IF card[c].ctype = "New" THEN [schedule[c] EXCEPT !.due = position] ELSE schedule[c]
          BY <3>1, <3>2, <3>3, ScheduleRepositioned
    <3>5. schedule[c].ctype = card[c].ctype
          BY <3>1 DEF ScheduleOf
    <3> QED BY <3>1, <3>4, <3>5 DEF Abstract!Repositioned
  <2>2. ASSUME NEW c \in Cards
        PROVE  Abstract!Repositioned(schedule[c], schedule'[c])
    <3>1. CASE card'[c] = card[c]
          BY <3>1, ScheduleOfCardAfter DEF Abstract!Repositioned
    <3>2. CASE c \in S
          BY <1>16, <2>1, <3>2 DEF SortCards
    <3>3. CASE c \in Live \ S /\ card'[c] = SetNewPosition(card[c], card[c].due + by)
               /\ card[c].due + by \in Positions
          BY <2>1, <3>3
    <3>4. card'[c] = card[c] \/ c \in S
          \/ (c \in Live \ S /\ card'[c] = SetNewPosition(card[c], card[c].due + by)
              /\ card[c].due + by \in Positions)
          BY <1>16, ShiftPreviewed = FALSE DEF SortCards
    <3> QED BY <3>1, <3>2, <3>3, <3>4
  <2> QED BY <2>2, ScheduleIsFunction DEF Abstract!Next
<1>17. CASE UNCHANGED vars
      BY <1>17 DEF vars, schedule
<1> QED BY <1>1, <1>2, <1>3, <1>4, <1>5, <1>6, <1>7, <1>8, <1>9, <1>10, <1>11, <1>12, <1>13, <1>14,
           <1>15, <1>16, <1>17 DEF Next

\* CardStates implements CardSchedule, for any cards, decks and dues, as long as
\* a shift of positions meets no card whose due is not its position:
\* KeepsSchedules.
THEOREM SchedulesAreKept == ASSUME ShiftPreviewed = FALSE
                            PROVE  Spec => KeepsSchedules
<1>1. Init => Abstract!Init
      BY DEF Init, Abstract!Init, schedule
<1>2. IInv /\ [Next]_vars => [Abstract!Next]_schedule
      BY EveryStep
<1> QED BY <1>1, <1>2, Invariant, PTL DEF Spec, KeepsSchedules, Abstract!Spec

=============================================================================
