# Verification of the collection back end

TLA+ models, TLC runs and TLAPS proofs for the Rust back end of this flashcard
program (`rslib`), with the parts of the Python library and the desktop
application that drive it. This file is the inventory of the system, the guide
to the modules, to what the runs check and the proofs establish, and the plan
for what is not there yet.

## 1. Inventory

Everything the program knows is in one SQLite *collection*. The back end
(`rslib/src/backend`) keeps it, with some state in memory, behind one mutex, so
that an operation of the back end is one step for everybody else. What makes the
system hard is that much of what is in memory is derived from the tables and
kept in step with them by hand; that a card's row means different things in
different decks; that several devices change copies of the same tables; and that
a few things do run at the same time: callers, the media sync, and backups.

| Component | State | Operations | Hard part | Correct when |
|---|---|---|---|---|
| Undo queues and transactions (`undo/`, `collection/transact.rs`, `*/undo.rs`) | undo and redo queues of change records, step counter, mode, step in progress | `transact`, `transact_no_undo`, `undo`, `redo`, `add_custom_step`, `merge_undoable_ops` | records must replay on whatever the tables have become; coalescing, merging and the cap rewrite the queue | undo and redo move a cursor in a line of contents; step numbers name one step; the queues fit the cap |
| Timestamps (`collection/timestamps.rs`) | `mod`, `ls`, `scm` | bumped by each operation, moved back by undo, set by sync | undo moves time backwards | what waits for upload is visible in `mod` |
| Raw SQL (`backend/dbproxy.rs`) | `modified_by_dbproxy`, an open transaction | begin, commit, rollback, statements | changes rows that undo steps mention | undo is discarded, or still applies |
| Study queues (`scheduler/queue`) | main and learning queue, counts, learning cutoff, day, build time | build, fetch, answer, undo, redo, clear | a cache of the cards, with counts adjusted step by step and a clock running | counts, entries and order agree with the cards |
| Queue builder (`scheduler/queue/builder`, `decks/limits.rs`, `decks/tree.rs`, `decks/stats.rs`) | counts of a day's studies per deck | gather, skip siblings, limit, lock topics, scope to a tier; the counts in the list of decks | limits of nested decks count down into each other; two computations of the same counts | limits hold over a whole day; nothing is left out without a reason; the list tells what the queue will hold |
| Speedrun additions (`speedrun/mastery.rs`, gates in the builder) | config entries | guided order, pools, scope | withholding comes after limits are spent | no topic stays locked for ever |
| Answering (`scheduler/answering`, `scheduler/states`) | card rows, revlog | `answer_card` | state shown and state answered may differ; two due numbers in filtered decks | an answer applies to the card as it was shown, and to its schedule at home |
| Burying and suspending (`scheduler/bury_and_suspend.rs`) | the queue of a card | bury, suspend, unbury at the new day | the queue says nothing of where the card was | a card comes back to where its type and due put it |
| Filtered decks, new cards, due dates (`scheduler/filtered`, `scheduler/new.rs`, `scheduler/reviews.rs`, `decks/remove.rs`) | home deck, original due | build, empty, update, remove, reset, reposition | a card in two decks; one number that is a position, a day or a time | a card can always go home, with its schedule |
| Scheduler timing (`scheduler/timing.rs`) | none kept | day number from clock and zones | rollover hour, zone changes | days only go forward with the clock |
| Collection sync (`sync/collection`, `sync/http_server`) | usn of rows and graves, server sessions | meta, start, graves, changes, chunks, sanity check, finish, abort, upload, download | two or more clients, lost answers, crashes | no change is lost, and clients end alike |
| Media sync (`sync/media`, `media/files.rs`) | folder, media databases, usn | scan, changes, download, upload, sanity check | runs in the background; batches stop between any two steps | a client with nothing to do has what the server has; nothing goes that nobody removed |
| Back end, progress, backups (`backend/`, `progress.rs`, `collection/backup.rs`) | mutexes, abort handles and flag, cached sync status, background tasks | open, close, sync, abort, export, back up | threads | locks come back, an abort hits what was there, errors reach a caller, every call returns |
| Decks, notes, tags, options, import, search, templates | rows | edits | mostly data transformation | |
| Python library, desktop application, web front end | the card shown, the operation running | calls into the back end | other windows act while a card is shown | |

They interact through calls under the mutex: every operation passes through
`transact`, which opens an undo step, saves change records as rows change, bumps
`mod`, commits, and clears the study queues unless the operation was an answer.
An answer updates the queues and saves a record of that update, which undo and
redo replay with those of the rows. The desktop hears of each operation's changes
and fetches the next card anew. Sync and raw SQL write rows without records, and
discard the undo and study queues instead. Sync holds the mutex from its
comparison to its end; media sync and backups take what they need of the
collection and then go on without it.

`PROJECT.json` lists all components with their status, and the hazards with the
lines where they bite.

## 2. Modules

| Module | Models | Composed with |
|---|---|---|
| `UndoHistory` | what undo promises (abstract) | |
| `UndoManager` | undo, transactions, raw SQL, mtimes | implements `UndoHistory` |
| `StudyQueue` | study queues, answering and its undo, over a clock | |
| `QueueBuilder` | what a queue is built of, over days of study | |
| `CardSchedule` | what the scheduler owes a card (abstract) | |
| `CardStates` | a card's row under every operation of the scheduler | implements `CardSchedule` |
| `LastWriterWins` | what synchronisation promises (abstract) | |
| `CollectionSync` | the protocol of collection sync, with faults | implements `LastWriterWins` |
| `MediaSync` | media sync, with faults | |
| `Backend` | the threads around the collection | |

The `MC...` modules give their constants values; the `...Proofs` modules hold the
theorems. Operators preceded by a comment `Mutant:` are plausible bugs; they are
used only to confirm that a property notices them. Small modules for several
parts, rather than one, because each part has its own notion of a step: to the
study queues a sync is one step that throws them away, to the sync it is a
dozen requests.

### UndoHistory: what undo promises

A line of contents with a cursor: `past`, `present`, `future`. An operation adds
the present to the past and drops the future; some operations are absorbed in
the step before them; merging makes the newest steps one; a failure or an outside
change forgets both directions. No change records, transactions or counters.

### UndoManager: how the code does it

Rows with a value, a pending flag and a collapsed flag, graves, the mtimes, the
two queues of change records, the counter, the proxy's transaction. Notes differ
from decks in what the code does with their changes: edits of a note coalesce,
and a deck has a flag that is changed with `Op::SkipUndo`.

`Transact` is `transact_inner`: mode, operation, queues and the table work done
by the closure, with the bump of `mod`, the coalescing of note edits, the push to
the right queue, and the error path. `UpdateNote`, `FindAndReplace`, `AddObject`
and the others say what their closures do; `Undo` and `Redo` replay the records
in reverse through the same `Transact`. `FailedOp`, `NoUndoOp`, `Sync`,
`FailedSync` and the `Proxy...` actions are what happens around it. `Features`
chooses which sources of trouble a run includes: `SkipUndo` operations, merges,
raw SQL, and the rollback of operations within a proxy transaction.

The history variable `unlogged` holds the objects that were written without an undo
step, by `SkipUndo` or by raw SQL, for as long as there is a step or an open proxy
transaction that could take the mtime back to before that. These are the objects
that the code may hide from a sync (see the findings), and the only ones
`PendingIsVisible` excepts.

### StudyQueue: the study queues

The cards table, the queues (absent, or one record), the card shown, the undo and
redo steps with what they keep of the queues, and a clock in seconds. A day is
`DayLength` seconds. One action per operation: `FetchOnNewDay`, `FetchAndBuild`
and `FetchNext` are `get_queued_cards` with stale, absent and valid queues;
`Answer` and `RefuseAnswer` are `answer_card`; `SetHidden` stands for every other
operation that changes cards and clears the queues; `Undo` and `Redo`; `Tick`.
The actions `UndoOnNewDay` and `RedoOnNewDay` are the case in which the code
panics.

What is abstracted: the limits and sort orders of the builder (any mix of the
kinds is allowed, which includes every setting), intervals and steps (an answer
chooses any of a few delays, and any review is due tomorrow). A previewed card
(filtered deck without rescheduling) goes home to a deck that is not studied, and
is not suspended. `binary_search_by` may end at any place the Rust documentation
allows it to. `Refetches` says whether the reviewer fetches anew after each
operation, as the desktop does (`reviewer.py`, `op_executed`), or not, as another
client of the back end may.

### QueueBuilder: which cards the queue is built of

Days of study over a tree of decks. `Remaining`, `LimitTree`, `DecrementNode` and
`Spend` are the tree of limits in `decks/limits.rs`: capped by the parent when it
is built, counted down for a deck and its parents with every card gathered, and
cut for the decks below when one runs out. `Visit` is what the callbacks of
`gathering.rs` do with a card: refuse it, see it without taking it because a
sibling buries it, or take it and spend. `Gatherings` folds it over every order of
the cards that some deck option gives. `Listed` is the other computation of the
same counts, for the list of decks. `IsGated` and `IsOutOfTier` are the guided
order and the tiers of `mastery.rs`: locks by prerequisites of topics and units,
pools by the topics that are cleared. `Fetch` builds, `Answer` counts the study
for the deck and its parents and buries siblings, `Interrupt` clears the queues or
goes to another deck, `NewDay` starts the counts anew and brings cards back.

A queue is the set of cards it still holds and of those that were withheld after
they were gathered. The memory gate is a floating point number; here it is a set
of cleared topics that changes from day to day in any way. The parent of every
deck exists; filtered decks, which have no limits, are left out. Cards within a
kind come in any order (or by position when the deck gathers by position); the
interspersing of kinds is left open, and is any interleaving in StudyQueue.

### CardSchedule and CardStates: what becomes of a card

`CardSchedule` says, card by card, how a schedule (home deck, type, due, position,
active or buried or suspended) may change. Filtered decks do not exist in it.
`CardStates` has the rows as they are stored: deck, home deck, type, queue, due,
home due and position, with the decks and the purpose of each filtered deck. One
action is one operation: `AnswerCard` in and out of filtered decks,
`PreviewAgain` and `PreviewFinished`, `AddOrUpdateFilteredDeck`,
`RebuildFilteredDeck`, `EmptyFilteredDeck`, `UpdateDeck` (the deck changes its
purpose under its cards), removing either kind of deck, `BuryOrSuspend`,
`UnburyOrUnsuspend` and the unburying at the day's rollover, `RescheduleAsNew`,
`SetDueDate`, `SortCards` and `SetDeck`. `ScheduleOf` is the refinement mapping:
the home due if the card is away, else its due.

The zeroes that mean "none" in the home due and in the position are kept apart
from positions and days, which start at 1. The program does not: a new card at
position 0 that is borrowed loses its due (cf. `pylib/tests/test_schedv3.py:754`).
`ShiftPreviewed` says whether positions are shifted while a new card is being
previewed; if so, `at_or_above_position.sql` compares a filtered deck's due with
home positions, and `KeepsSchedules` fails, so the runs and the theorem have it
FALSE. Answers are atomic here (StudyQueue has the time between showing and
answering); custom scheduling scripts and clients that write cards directly are
not modelled. All cards of a filtered deck have the same position there.

### LastWriterWins and CollectionSync: collection sync

`LastWriterWins` has devices and a server with a version of each object and a
set of reviews. A sync joins two copies: the newer version stays, a deletion
beats every version, reviews are united. A copy replaces another only in a
one-way sync that the device was told about.

`CollectionSync` is the protocol: one action is one request, with the server's
handler and what the client does before and after it. Client and server each work
on a copy, the open transaction, until the last request commits. `Meta` compares,
`StartSync`, `SendGraves`, `SendChanges`, `FetchChunk`, `SendChunk`,
`SanityCheck` and `Finish` follow; `Refused`, `Abort` and `SanityCheckFails` are
the error paths; `FullUpload`, `FullDownload` and `UploadFails` the one-way syncs.
`Faults` chooses what may go wrong: requests, answers and aborts that are lost,
with restarts of both sides (`SyncFails`, `AbortLost`, `FinishLost`,
`ServerRestarts`); a sync of another device between a comparison and its start
(`"overtaken"`); a server that stops between the commit of `finish` and the
setting of the mtime (`CrashInFinish`); and schema changes that force a one-way
sync.

Left out: undoing edits (UndoManager has its part), `ls`, names made unique,
tags, requests above the size limit, chunks of graves, the old protocol, ids that
are used again, and other versions of objects than the two sides' clocks agree
on: clocks agree, and no two edits share a millisecond. `MsPerSec` makes edits
share a second; it is 1 in the runs, because two edits within one second leave the
devices different (the comparison is of seconds, `chunks.rs:184`).

### MediaSync: media files

Each client has a folder, whether it changed since the last scan, and a database
with the checksum of each file and whether it waits for upload; the server has
files, numbered records and a count. One action is one request or one
transaction of a client. `AddFile` and `RemoveFiles` are the program's, `Put` and
`Take` other programs'. `Begin` scans and begins; `Fetch`, `Download` and `Record`
bring a batch; `Upload` and `RecordSent` send one; `Finalize` compares counts and
forgets everything if they differ. `Fails` stops a sync between any two steps,
`UploadCrashes` stops the server between files and records.

The history variable `disturbed` records that something has happened which the
next sync cannot see: a sync stopped after a file was replaced and before that
was recorded, files changed while they were synced, an upload that crashed, files
that `remove_files` left behind because one of the same batch was gone already
(`leftBehind`), or a count that came out although other changes were among it
(`Miscounts`). What a
client knows is claimed only while nothing of the kind has happened. `removed`
records which names some user has removed.

### Backend: the threads

Callers on threads of their own, the media sync thread and the backup threads;
the mutex of the collection with its poisoning, the abort handles of the two
syncs, `want_abort` of the progress state, the cached sync status, and the backup
task with its mutex, which is held across joins. Other mutexes are never held
across a wait, so what is done under them is part of a step. A call is a record
of its kind and its stage; each stage is an action: `LockForSync`, `Compare`,
`Exchange` and so on for a sync, `Look`, `Wait` and `TakeCollection` for those
that stop the media sync first, `LockForBackup`, `LockTask`, `JoinPrevious` and
`JoinOwn` for backups. A caller that meets a poisoned mutex panics in `Panic`.
Ghost state: which callers were there when an abort was asked for (`asked`), and
how many syncs had been recorded when a status was (`seen`, `recorded`).

`OpenMedia` has the three ways in which the media thread may begin: it gets what it
needs; the media folder or database cannot be opened, so that it returns at once
and leaves its abort handle behind (`sync.rs:250`); or there is no collection, and
it panics. `unopened` is the last media sync to which the second happened, and
`HandleIsLeft` says that no later one has replaced its handle.

Whether a backup is due, what a sync exchanges and how long anything takes are
left open. So is the thinning of old backups.

## 3. Runs

| Run | Question | Bounds |
|---|---|---|
| `undo_history` | Does undo implement `UndoHistory`; are numbers unique, queues within the cap? | two notes, two values, cap 3, clock 4, coalescing 2 |
| `undo_outside` | Does it still, with raw SQL, proxy transactions, syncs and collapsed decks? Can every step be replayed; are pending changes visible? | one note, one deck, cap 2, clock 3 |
| `queue_undo` | Do counts, entries and cards agree through answers, burying, undo, redo and new days, and does undo show the card again? | two siblings and a previewed card, clock 2, days of 2, two steps, two builds |
| `queue_learning` | Are learning cards requeued where they belong, and not shown again at once; is a redo ever refused? | three cards in any queue, clock 2, learn-ahead 4, one step, two builds, no refetching |
| `queue_rollover_violation` | finding, see below | clock 3, days of 2 |
| `queue_builder` | Do limits hold over a day, is every card left out for a reason, does the list of decks agree, do all topics open? | four cards, four decks in three levels, four topics in two units, five settings |
| `card_states` | Does every operation keep a card's schedule, its home, and the right queue? | two siblings, two decks and a filtered deck, two positions, a day and a time |
| `sync_merge` | Does the protocol implement `LastWriterWins` with lost requests and answers, restarts and one-way syncs; do devices end alike? | two devices, two cards and a deck, two edits, four syncs, one fault |
| `sync_ends` | Do syncs end, and are no reviews lost, when another device comes between or the server stops in its last handler? | two devices, one card, two edits, three syncs, one fault |
| `sync_stale_meta_violation` | finding, see below | as above, with a deck, no fault |
| `media_sync` | What does a client hold that has nothing to do; what does its number promise; what may a sync remove? | two clients, two names, two contents, batches of one, three edits, one fault |
| `backend_calls` | Are locks given back, do aborts hit what was there, are statuses current and errors reported, and does every call return? | two callers, two calls, one media sync, two backups, clock 1 |

### Why the bounds are enough

A cap of 2 or 3 is reached within the clock's bound, so that truncation, merging
of several steps and the coalescing boundary (both sides of it) occur. Two notes
are needed for steps with several records, a deck for records that do not
coalesce. In the queues, two siblings make burying happen and a third card lets
another be on top; delays 1 and 3 fall on both sides of the learn-ahead limit and
of the end of the day; two steps are what it takes for undo to cross an answer of
another card.

In the builder, the tree has a deck with a parent and a child, and a sibling of
it; the limits are chosen so that parents, children and the sum of both run out;
two cards are siblings in different decks. The settings (`MCQueueBuilder`) are: a
plain one; burying, all parents' limits and new cards that ignore review limits;
the guided order; a scope to a tier that differs by deck; and the guided order with
exemptions within a tier. Four topics are what it takes for a unit in which
two are cleared and one is not, and a unit that builds on it.

Cards: one filtered deck is enough, as a card is in one at a time; what can be
told of two is that one changes its purpose. A sync needs two devices and one
object for every conflict; the second card and the deck travel by other requests,
and chunks of one make every sync take several. One fault at a time: a second one
finds the state a first has left by an aborted sync, which the bound on syncs
allows to be synced again. `disturbed` in MediaSync does not weaken this: each of
its causes is reached within the bound, and so are the states without them. In
Backend two callers, a media sync and two backups are what it takes for each
mutex to be wanted by two; the safety properties are proved for any number of all
of them (section 4).

Every property is broken by a mutant within these bounds. The bounds are on
counters that the code does not bound: clocks (`MaxNow`), steps and builds, edits,
syncs, faults, calls, media syncs and backups. Deadlock is not checked where these
run out (StudyQueue, CollectionSync, Backend); it is in the others, where
operations never end. Symmetric constants (the two siblings, the two devices, the
two cards) are used only in runs whose properties are of states and steps.

### Fairness

* `CollectionSync`: weak fairness of `Proceeds(c)`, what a client does next once a
  sync has begun: nothing waits for the user, and HTTP requests time out. Nothing
  obliges a user to sync, or an abort to arrive. `SyncEnds` follows.
* `Backend`: weak fairness of each caller's own steps and of the background
  threads: threads are scheduled, requests time out. Calls, aborts, clocks and
  opening the collection are not assumed. `CallsReturn` follows: nobody waits for
  ever for a lock or for a backup, unless a panic has poisoned the collection. Nor
  for the media sync, unless it could not open its files and left its handle behind.
* `QueueBuilder`: days pass by themselves. That the learner keeps finishing the
  day's cards is a premise of `TopicsOpen`, not an assumption about the program.

The other modules run only when called, and claim no liveness.

### Properties

| Module | Properties |
|---|---|
| UndoManager | `IsHistory` (implements UndoHistory), `NumbersDescend`, `QueuesWithinLimit`, `StepsAreReplayable`, `PendingIsVisible` |
| StudyQueue | `CountsMatch`, `QueuesWellFormed`, `QueuedCardsUnmodified`, `UndoShowsCardAgain`, `RedoIsNotRefused`, `NotShownAgain`, `RequeuedInOrder` |
| QueueBuilder | `DayLimitsKept`, `LeftOutForAReason`, `ListTellsTheQueue`, `TopicsOpen` (liveness) |
| CardStates | `KeepsSchedules` (implements CardSchedule), `HomeKept`, `QueueMatchesType`, `TypeOK` |
| CollectionSync | `IsLastWriterWins` (implements LastWriterWins), `SyncedAlike`, `NoChangesIsTrue`, `SentIsKept`, `WillBeSent`, `SanityHolds`, `ReviewsKept`, `SyncEnds` (liveness), `TypeOK` |
| MediaSync | `NothingToDoIsTrue`, `PassedIsKnown`, `KeptUnlessRemoved`, `TypeOK` |
| Backend | `LocksAreHeld`, `FoundSyncIsOver`, `CancelsAreFresh`, `CachedStatusIsCurrent`, `FailuresAreReported`, `CallsReturn` (liveness) |

Each is stated in a comment where it is defined. Some are weaker than one would
wish, for a reason in the code:

* `TopicsOpen` has the premise `FollowsTopics`: new cards are gathered in the
  order of the topics, limits are at least one, nothing is buried and reviews do
  not use up new cards' limits. Without it locked cards can use up a day's limit
  (see below).
* `ListTellsTheQueue` is about decks whose options bury nothing: the list counts
  without looking at siblings, on purpose.
* `FoundSyncIsOver` is about a media sync that was found; one that is being
  started is missed, see below. `CallsReturn` excepts a poisoned collection for
  the same reason, and a caller that waits for a media sync whose handle was left
  behind. The run has one media sync, so that no later one clears that handle; with
  two (758,507 states, five minutes) `CallsReturn` holds as well.
* `PendingIsVisible` excepts the objects in `unlogged`, which the code does hide.
* `NothingToDoIsTrue` and `PassedIsKnown` exclude what `disturbed` records.
* `NoChangesIsTrue` is checked without `"crash in finish"`, which breaks it until
  the next sync: the server's mtime says nothing of what was committed.

### Findings

* Undoing (or redoing) an answer as the first call of a new day panics:
  `clear_queues_if_day_changed` discards the undo step in progress, and
  `op_changes` expects it. The panic poisons the mutex, so the back end is dead.
  (`queue_rollover_violation`)
* A device numbers what it sends with the server's number from its comparison.
  When another device syncs between the comparison and the start, that one will
  never fetch these rows, and the devices stay different, against
  `docs/sync-conflict-rule.md:32`. (`sync_stale_meta_violation`)

More disagreements came up while modelling and have no run of their own.

Undo and the study queues:

* Collapsing a deck bumps `mod` without an undo step (`transact.rs:21`); undoing
  an older step moves `mod` back (`undo/mod.rs:286`) and hides the collapsed deck
  from the next sync. A rollback of the proxy's transaction leaves undo steps of
  what it rolled back (`dbproxy.rs:149`). Raw SQL leaves the mtime to the next
  commit (`dbproxy.rs:141`): an edit between the two saves the mtime of the last
  sync in its step, and undoing it later hides what the raw SQL wrote.
  `PendingIsVisible` says that nothing but such decks and rows can be hidden.
  Redoing two slow edits of a note joins them in one step (`notes/undo.rs:78`).
* With previewed cards, some studied before and some never, the order by
  repetitions defeats the due time that `requeue_learning_entry` sets, so a card can
  come straight back (`queue/learning.rs:70`), and `push_intraday_learning` can leave
  the learning queue unsorted (`queue/learning.rs:138`). `NotShownAgain` and
  `RequeuedInOrder` are checked without such cards.
* Answering while the queues are cleared, which `queue/mod.rs:237` allows "for unit
  tests", makes a later undo leave a stale entry: `QueuedCardsUnmodified` and
  `CountsMatch` are checked with a client that fetches anew.
* Which siblings an answer buries is decided by the queue the card is in now
  (`bury_and_suspend.rs:138`), not the one it was gathered from. With options that
  bury reviews and not new cards, a new card that is answered again from learning
  buries a sibling that is still queued, and fetching fails with "bug: card modified
  without updating queue" (`queue/mod.rs:111`). So it does when siblings are in decks
  with different options: a card that buries new siblings is gathered behind one that
  does not, and buries it when it is answered. `OptionsAgree` says that neither is so,
  and the options of `queue_undo` satisfy it.

The queue builder:

* The guided order and the scope to a tier are applied after the limits are spent,
  so that cards which are withheld use up the day's limit, although the guided order
  "never leaves the learner with nothing new to do" (`mastery.rs:418`).
* The scope to a tier filters new and review cards only (`builder/mod.rs:290`), so
  that cards of a blocked topic that are in learning are served all the same,
  against `docs/rust-change.md`.
* `build` sorts new cards after the speedrun order was applied to them, so that the
  order survives only without sorting, against `docs/vision.md:111`.
* A deck with a missing parent is hung under the deck before it rather than skipped
  (`limits.rs:305`), and its studies are not counted above the gap. The model has no
  missing parents.

Sync:

* Two edits within one second leave the two devices with different versions.
* After a crash between the commit and `set_modified_time` the server's mtime is old,
  and a device may be told that there is nothing to sync.
* Each sync that has nothing to exchange bumps `mod` all the same, so that two
  devices that sync in turn never see "no changes".
* `remove_files` returns at the first file that is missing and skips the rest
  (`media/files.rs:348`), although its caller records all of them as removed. With
  batches of two and four edits TLC finds that a client then holds a file that the
  server does not list; `leftBehind` excludes this as one of the causes of
  `disturbed`. `media_sync` has batches of one and never meets it; the theorems are
  about batches of any size.

Threads:

* `abort_media_sync_and_wait` ("Won't return until aborted", `backend/sync.rs:272`)
  looks for the handle that the media thread registers when it gets to run. A thread
  that was only just spawned is missed; it then finds the collection closed, panics
  while it holds the mutex, and leaves its handle: every later call panics, and those
  that wait for the media sync wait for ever. A thread that cannot open the media
  folder or database (`media/mod.rs:44`, `backend/sync.rs:250`) leaves its handle
  too: closing, exporting and one-way syncs then spin until a later media sync has
  cleared it. The desktop waits until it
  is told that media syncing is over before it closes (`qt/aqt/main.py:701`).
* An abort is for whoever reports progress next. Of two syncs at a time, the first to
  end clears the abort handle of the other. A cached status survives the opening of
  another collection. A backup that failed is not tried again until the next change,
  and `create_backup` answers with the error of the one before without making a new
  one (which `pylib/anki/collection.py:339` documents).

## 4. Proofs

| Theorem | Says | Module |
|---|---|---|
| `UndoIsHistory` | `Spec => IsHistory`: UndoManager implements UndoHistory | `UndoManagerProofs` |
| `QueuesCanBeReplayed`, `PendingShowsInMtime`, `StepNumbersDescend`, `QueuesFitTheLimit` | the four invariants of UndoManager | `UndoManagerProofs` |
| `HistoryWithinLimit` | the abstract history is typed and within its limit | `UndoHistoryProofs` |
| `NoCardTwice`, `CountsAreRight`, `QueuedCardsAreUnmodified` | the three invariants of StudyQueue: what is in the study queues, what is said of them, and that it agrees with the cards | `StudyQueueProofs` |
| `UndoneComesFirst`, `RedoAlwaysFound` | `UndoShowsCardAgain` and `RedoIsNotRefused`: what undo and redo do to them | `StudyQueueProofs` |
| `SchedulesAreKept` | `Spec => KeepsSchedules`: CardStates implements CardSchedule | `CardStatesProofs` |
| `TypeCorrect`, `HomesAreKept`, `QueuesMatch` | `Spec => []TypeOK`, `[]HomeKept`, `[]QueueMatchesType` | `CardStatesProofs` |
| `JoinCommutes`, `TypeCorrect`, `NothingIsLost` | which device syncs first does not matter; copies stay copies; no version gives way to an older one | `LastWriterWinsProofs` |
| `SyncKeepsItsPromise` | `Spec => IsLastWriterWins`: CollectionSync implements LastWriterWins | `CollectionSyncProofs` |
| `SentStaysOnServer`, `NextSyncAsksForTheRest`, `SanityChecksPass`, `SyncsEndAlike`, `NothingToSyncIsTrue`, `ReviewsAreKept`, `EveryCopyIsACollection` | the seven invariants of CollectionSync | `CollectionSyncProofs` |
| `MediaStateIsTyped`, `SyncKeepsFiles`, `PassedFilesAreKnown`, `NoMediaToSync` | `TypeOK`, `KeptUnlessRemoved`, `PassedIsKnown` and `NothingToDoIsTrue` of MediaSync | `MediaSyncProofs` |
| `LocksAndHandles`, `RequestsAreFresh`, `StatusIsCurrent`, `FailuresReachACaller`, `FoundSyncEnds` | the five invariants of Backend | `BackendProofs` |

They hold for every value of the constants that satisfies the named assumptions of
the modules (`UndoAssumption`, `CardAssumption`, `BackendAssumption` and so on),
which TLC evaluates in the runs.

**UndoManager.** Two inductive invariants. `IInv` is about the queues alone: the
counter is a number, the undo queue is `Numbered` (a sequence whose step numbers
descend from the counter), and both queues together fit the cap. `NumbersDescend`
alone is not inductive: it does not say that the front of the queue stays below the
counter when the front is taken away. `QueuesWithinLimit` alone is not, as a redo
pushes to the undo queue what it takes from the redo queue and relies on the sum.
`TransactFacts` says once what `Transact` does to the queues in each mode, whatever
its closure did, and each action follows from it.

`QInv` is about the change records. A `View` is what undo restores of the tables:
graves, the mtime and whole rows, but of the objects in `unlogged` only the values,
since a write without a step changes their flags behind the back of the steps.
`Trace` lists the views that undoing the changes of a step passes, instead of
replaying them; `Lined(steps, x, l, p)` says that the steps of a queue are traces
end to end from the view x, that every view between them is `Proper` (nothing is
both there and in a grave, and what is pending is visible when `ls` is l), and that
they show the contents p. `QInv` says that both queues are lined from the view of
the tables as they are. It is kept because undoing a change saves one that `Answers`
it, so that replaying a trace saves its mirror image, which leads forward again
(`ReplayFollows`, `MirrorReverts`). The places where the code could have gone wrong
are lemmas of their own: a coalesced edit changes nothing but the row its
predecessor has saved already (`CoalescedReverts`); an undo is never coalesced, as
what it saves begins with the mtime, and a redo may be; a redo never truncates,
which needs `IInv`; merged changes lead back as far as their steps did
(`MergedReverts`). A write that leaves no step takes its object's flags out of every
view of the lines (`LinedForget`) and bumps the mtime under the steps there are; the
lines remain lines, because each step that changes anything sets the mtime when it
is undone (`LinedStamp`). Each action then has a lemma that it `Moves`: the queues are lined
again, and what they show takes a `Turn`, which is a step of UndoHistory.

The three theorems follow. They assume that `"OpsRolledBack"` is not among the
`Features`, which makes them false (section 3, findings), and nothing else.
`PendingShowsInMtime` covers `SkipUndo` operations and raw SQL: of all that waits for
upload only the objects in `unlogged` can be hidden, the ones that were themselves
written without a step, and these no longer than there is a step or a transaction
from before.

**StudyQueue.** Three inductive invariants, each on top of the one before. `QueuesWellFormed`
is not inductive: an undo pushes back an entry that left the queues long ago, and
nothing in it says that its card is not there again. `IInv` says so of every step in
the history: a card that was answered in these queues is in them at most where the
answer put it back (`Gone`), and if two steps answered the same card, the older one
put it back and the newer one took it from there (`Ordered`). The lemmas below it say
what each operation does to the cards of both queues, and that new queues have each
card once.

`Study` adds where the steps lead. The content of the queues is the main queue in its
order and the set of the learning entries; `Answered(u, b, a)` says that an answer
found the content b and left a, and each of the two determines the other. `Chained`
says that the steps to undo lead from the content of the queues back through one
content after the other, those to redo lead on, and steps of other builds lead
nowhere (`Lined`). So the next step to redo finds its card on top, which is
`RedoAlwaysFound`, whether the reviewer fetches anew or not, and although a learning
card may have been moved within its queue. For the counts, each step also has to be
`Honest`: its entry was the first to be presented, and its snapshot is right for what
it left. `UpdateCutoffAndCount` counts the cards between two cutoffs, so it never has
to recount; an undo goes back to the snapshot's cutoff before it pushes the entry,
which would otherwise be counted, or not, against a later cutoff. `CountsAreRight`
and `UndoneComesFirst` assume `Refetches`, that is, a reviewer who answers the card
that was fetched last, as the desktop does: `pop_entry` takes a learning card from
anywhere in its queue, and one that is not due yet was never counted.

For `QueuedCardsAreUnmodified`, the steps lead through points, each a content with the
cards table there was (`Tracked`, in `Agreeing`), and all points are `Sound`: entries have the mtimes
of their cards, and no card in the queues has options that bury one in the main queue.
An answer writes its card and the siblings it buries. The card's entry is gone, or is
put back with the mtime just written; the siblings are not in the queues, since the
point was sound, nor will they be, as what is buried stays out of what is queued. An
undo therefore restores rows and entries that belong together, however far it goes
back. `QueuedCardsUnmodified` alone says nothing of the points undo goes back to, nor
of what an answer would bury. New queues are sound because queues are gathered one
after the other, and a queue that is buried takes those behind it along: the theorem
assumes `OptionsAgree`, which TLC evaluates with the runs, besides `Refetches`. An
answer without queues, which undo could not put back, does not occur then (`Told`).

In all of this the number of cards, steps, builds, days and seconds is not bounded,
and cards and, but for the last theorem, options are any.

**CardStates.** The inductive invariant says that every row is `InOrder` and its
decks exist. That a row's due, at home or as the home due, is above zero is what
makes `HomeKept` survive borrowing, and that a row at home is in the queue of its
type is what makes `QueueMatchesType` survive a return. The lemmas are about rows:
what each change of a row does to a row in order. Each action then has one step.

**CardSchedule.** The refinement rests on that invariant: for each change of a row,
a lemma says what it does to `ScheduleOf` the row, mostly nothing; each action of
CardStates is then a step of CardSchedule or leaves all schedules alone. It is
proved under `ShiftPreviewed = FALSE`, without which it is not true (section 2).

**LastWriterWins.** Joining is commutative, and its result covers both copies, so
nothing goes back but in a one-way sync. `SyncKeepsItsPromise` carries this over to
the protocol.

**CollectionSync.** The inductive invariant has layers, each proved for all actions
with those below it as premises, so that each theorem assumes no more than it needs:

* `Shape`: collections and working copies are well formed; the ids that both sides
  listed exist. It needs that no sync overtakes another one's comparison
  (`"overtaken" \notin Faults`), because a server that has moved on sends rows that
  the client deleted.
* `ReviewsInv`: what a client has sent of its reviews. It holds whatever happens,
  so that `ReviewsAreKept` has no assumption at all.
* `Numbers`: no row is numbered above the collection it is in, the server's working
  copy is one ahead, and a client's pending rows have the number -1.
* `GravesInv` and `RowsInv`: for each object, what the client has and what the
  server has during each phase: which of the two is newer, what is still to be sent
  or fetched, and that all of it is listed. `SentIsKept` and `WillBeSent`
  are the parts of these about a client that is not syncing; they are not inductive,
  as they say nothing about the copies at work.
* `ModsTell`: equal mtimes mean equal content. It needs that the server does not
  stop in its last handler (`"crash in finish" \notin Faults`).
* `Paced`: the clock is bounded by the edits and syncs so far, which is what
  bounds the clock of LastWriterWins too.

For the refinement, each step is one of LastWriterWins or is not seen by it:
`UploadSeen`, `DownloadSeen`, `EditSeen`, and `EndSeen`, by which the two working
copies at the end of a sync are the `Join` of the copies that were there at its
start. `MsPerSec = 1` is assumed where versions of two devices are compared: the
code compares seconds, and two edits within one leave the devices different. That
`"overtaken"` breaks the promise is what `sync_stale_meta_violation` shows.

**MediaSync.** Three layers. `Shape`: types, and the server's count is the number
of files it lists. `Removals`: a file that is taken away was removed by some user,
whatever faults there are; it follows what is being downloaded and recorded between
the steps of a sync. `Calm`: as long as nothing is disturbed, a client knows of
every name the server lists under a number it has passed, what is being fetched
(`Downloads`) and sent (`Sends`) accounts for the rest, and a client's database
agrees with its folder except for what a scan will find. `PassedIsKnown` alone is
not inductive: between fetching a batch and recording it, the number has not moved
and the files have.

**Backend.** The inductive invariant `IInv` is a conjunction of parts with a lemma
each: the types, `Places` (which stages belong to which kind of call), `Locks` and
`Handles`, `Cancels`, `Statuses`, `Owners` and `Backups`, `Media` and `Found`. The
properties are not inductive: that an awaited backup's failure is not lost
(`Backups`) needs that only one caller holds the task (`Owners`); that a found media
sync is over (`Found`) needs that a handle without a thread is one that a panic, or a
sync that could not open its files, left behind (`Media`), so that a caller never stops waiting for a thread that is there; that the
cached status is current needs that every check under way is either as new as the
last record or older than its time (`Statuses`).

Only model-checked, because out of the prover's reach: liveness (`SyncEnds`,
`CallsReturn`, `TopicsOpen`), and what is computed by folds over sequences of cards
and decks (QueueBuilder). `NotShownAgain` and `RequeuedInOrder` are true only without
previewed cards that were studied before (section 3, findings); they are checked
without such cards, and not proved.

## 5. Not modelled, and the plan

Next, in this order:

1. Proofs: `RequeuedInOrder` for queues without previewed cards, from the order of a
   new learning queue and what each operation keeps of it; `DayLimitsKept` from the
   fact that `Visit` takes a card only while the limits of its decks are not used up.
2. The tree of deck names: parents that are created, children renamed with their
   parent, and missing parents, which the limits meet.
3. Cards generated from notes, and the database check's repairs.
4. The computation of the day from clock, zone and rollover hour (`timing.rs`).

Left out for good: floating point (FSRS, the simulator, fuzz and load balancing,
the scores, weakness and readiness of the Speedrun additions, the ratio by which
kinds of cards are interspersed); text (templates, search and its SQL, tags, the
import and export formats, language models); user interface and build tools; and SQL
itself. These are most of the code by lines, and have little state that more than one
actor touches. The reasons stand with each component in `PROJECT.json`.
