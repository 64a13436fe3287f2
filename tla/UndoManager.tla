----------------------------- MODULE UndoManager -----------------------------
(***************************************************************************)
(* The undo queues of a collection (rslib/src/undo), the transaction that  *)
(* every backend operation runs in (rslib/src/collection/transact.rs), the *)
(* modification time that decides whether a sync has anything to do, and   *)
(* the raw SQL access of pylib (rslib/src/backend/dbproxy.rs).             *)
(*                                                                         *)
(* The backend holds the collection behind one mutex, so an operation is   *)
(* one step: current_step and mode of the code live only inside it, and    *)
(* are parameters here.  Notes and decks stand for all undoable objects:   *)
(* notes are the ones whose edits coalesce, decks the ones whose collapsed *)
(* flag is written with Op::SkipUndo.  A row is saved and restored whole.  *)
(* A row or grave is pending while its usn is -1: the next sync uploads it.*)
(***************************************************************************)
EXTENDS Sequences, Integers, SequencesExt

CONSTANTS
    Notes, Decks,   \* object ids
    Values,         \* what an undoable edit can store in an object
    Absent,         \* stands for "no row"
    UndoLimit,      \* UNDO_LIMIT, 30 in the code
    CoalesceSecs,   \* edits closer than this coalesce, 60 in the code
    MaxNow,         \* bound: the clock stops here
    Features        \* which of "SkipUndo", "Merge", "Proxy", "OpsRolledBack" may happen

Objects == Notes \cup Decks

ASSUME UndoAssumption ==
    /\ UndoLimit \in Nat \ {0}
    /\ CoalesceSecs \in Nat \ {0}
    /\ MaxNow \in Nat

Row == [val : Values, collapsed : BOOLEAN, pending : BOOLEAN]

ASSUME ObjectAssumption ==
    /\ IsFiniteSet(Notes)
    /\ Notes \cap Decks = {}
    /\ Absent \notin Values \cup Row

SyncedRow == [val : Values, collapsed : {FALSE}, pending : {FALSE}]

VARIABLES
    rows,           \* the notes and decks tables
    graves,         \* objects with a pending grave
    mod,            \* col.mod, the modification time
    ls,             \* col.ls, the modification time at the last sync
    undoSteps,      \* newest first
    redoSteps,      \* next one last
    counter,        \* number of the latest step begun
    modifiedByProxy,
    trx,            \* the tables at the proxy's "begin", or <<>>
    now,            \* the clock
    unlogged        \* history: the objects written without an undo step, as
                    \* long as a step or a rollback can take mod back

tables == <<rows, graves, mod, ls>>
queues == <<undoSteps, redoSteps, counter>>
proxy == <<modifiedByProxy, trx>>
vars == <<tables, queues, proxy, now, unlogged>>

\* Time passes between two operations; each sees a clock of its own, so that
\* modification times, kept in milliseconds, identify the writes they stamp.
Elapse ==
    \E d \in {1, CoalesceSecs} :
        /\ now + d <= MaxNow
        /\ now' = now + d

Init ==
    /\ rows \in [Objects -> SyncedRow \cup {Absent}]
    /\ graves = {}
    /\ mod = 0
    /\ ls = 0
    /\ undoSteps = <<>>
    /\ redoSteps = <<>>
    /\ counter = 0
    /\ modifiedByProxy = FALSE
    /\ trx = <<>>
    /\ now = 0
    /\ unlogged = {}

-----------------------------------------------------------------------------
(* Undoable changes.  `work` is an operation in progress: the tables it     *)
(* has written so far and the changes it saved, or ok = FALSE once it has   *)
(* returned an error.                                                       *)

Work == [rows |-> rows, graves |-> graves, mod |-> mod, changes |-> <<>>, ok |-> TRUE]

SaveUndo(work, change) == [work EXCEPT !.changes = Append(@, change)]

Updated(o, row) == [type |-> "Updated", obj |-> o, row |-> row]
Added(o, row) == [type |-> "Added", obj |-> o, row |-> row]
Removed(o, row) == [type |-> "Removed", obj |-> o, row |-> row]
GraveAdded(o) == [type |-> "GraveAdded", obj |-> o]
GraveRemoved(o) == [type |-> "GraveRemoved", obj |-> o]
Modified(time) == [type |-> "Modified", time |-> time]

UpdateUndoable(work, o, row) ==
    SaveUndo([work EXCEPT !.rows[o] = row], Updated(o, work.rows[o]))

AddUndoable(work, o, row) ==
    SaveUndo([work EXCEPT !.rows[o] = row], Added(o, row))

\* The row saved is the one the caller holds, not the one in the table.
RemoveWithoutGrave(work, o, row) ==
    SaveUndo([work EXCEPT !.rows[o] = Absent], Removed(o, row))

AddGrave(work, o) ==
    SaveUndo([work EXCEPT !.graves = @ \cup {o}], GraveAdded(o))

\* Mutant: lifting a grave is not saved, so a redo does not dig it again.
RemoveGraveUnsaved(work, o) == [work EXCEPT !.graves = @ \ {o}]

RemoveGrave(work, o) ==
    SaveUndo([work EXCEPT !.graves = @ \ {o}], GraveRemoved(o))

SetModified(work, time) ==
    SaveUndo([work EXCEPT !.mod = time], Modified(work.mod))

\* Notes are removed before their grave is added, decks after.
RemoveWithGrave(work, o) ==
    IF o \in Notes
    THEN AddGrave(RemoveWithoutGrave(work, o, work.rows[o]), o)
    ELSE RemoveWithoutGrave(AddGrave(work, o), o, work.rows[o])

\* UndoableChange::undo: apply the inverse, which saves a change in its turn.
UndoChange(change, work) ==
    CASE ~work.ok -> work
      [] work.ok /\ change.type = "Added" ->
            RemoveWithoutGrave(work, change.obj, change.row)
      [] work.ok /\ change.type = "Updated" ->
            IF work.rows[change.obj] = Absent
            THEN [work EXCEPT !.ok = FALSE]     \* "note disappeared"
            ELSE UpdateUndoable(work, change.obj, change.row)
      [] work.ok /\ change.type = "Removed" -> AddUndoable(work, change.obj, change.row)
      [] work.ok /\ change.type = "GraveAdded" -> RemoveGrave(work, change.obj)
      [] work.ok /\ change.type = "GraveRemoved" -> AddGrave(work, change.obj)
      [] work.ok /\ change.type = "Modified" -> SetModified(work, change.time)

\* The loop of undo_inner, over the changes from the last to the first.  (The
\* singleton makes TLC evaluate each intermediate result once.)
Replay(changes, work) ==
    LET after[i \in 1..(Len(changes) + 1)] ==
            IF i > Len(changes)
            THEN work
            ELSE CHOOSE w \in {UndoChange(changes[i], v) : v \in {after[i + 1]}} : TRUE
    IN  after[1]

-----------------------------------------------------------------------------
(* The transaction around every operation.                                  *)

Step(kind, changes, number) ==
    [kind |-> kind, timestamp |-> now', changes |-> changes, counter |-> number]

HasChanges(kind, changes) == changes # <<>> \/ kind = "Custom"

IsNoteEdit(changes) ==
    /\ Len(changes) = 2
    /\ changes[1].type = "Updated"
    /\ changes[1].obj \in Notes
    /\ changes[2].type = "Modified"

\* maybe_coalesce_note_undo_entry
Coalesces(steps, kind, changes) ==
    /\ kind = "UpdateNote"
    /\ steps # <<>>
    /\ Head(steps).kind = "UpdateNote"
    /\ IsNoteEdit(Head(steps).changes)
    /\ IsNoteEdit(changes)
    /\ Head(steps).changes[1].obj = changes[1].obj
    /\ now' - Head(steps).timestamp < CoalesceSecs

Truncate(steps, n) == SubSeq(steps, 1, IF Len(steps) < n THEN Len(steps) ELSE n)

\* Mutant: room for the new step is not made.
PushUndoFirst(steps, step) == <<step>> \o Truncate(steps, UndoLimit)

PushUndo(steps, step) == <<step>> \o Truncate(steps, UndoLimit - 1)

\* begin_step of an operation that is not an undo or redo drops the redo steps.
RedoAtStart(mode, redo) == IF mode = "NormalOp" THEN <<>> ELSE redo

\* An undo or redo restores the mtime its step saved; any other operation with
\* changes bumps it.
BumpMtime(mode, kind, work) ==
    IF mode = "NormalOp" /\ HasChanges(kind, work.changes)
    THEN SetModified(work, now')
    ELSE work

\* transact_inner's error path: roll back, and discard both queues.
Discard ==
    /\ undoSteps' = <<>>
    /\ redoSteps' = <<>>
    /\ UNCHANGED tables

\* transact_inner: `steps` and `redo` are the queues when the operation begins,
\* `work` what its closure did.
Transact(mode, kind, steps, redo, work) ==
    /\ Elapse
    /\ counter' = counter + 1
    /\ UNCHANGED <<ls, proxy>>
    /\ LET done == BumpMtime(mode, kind, work)
           saved == IF Coalesces(steps, kind, done.changes) THEN <<>> ELSE done.changes
           step == Step(kind, saved, counter + 1)
           kept == HasChanges(kind, saved) /\ kind # "SkipUndo"
       IN  IF ~work.ok
           THEN Discard
           ELSE /\ rows' = done.rows
                /\ graves' = done.graves
                /\ mod' = done.mod
                /\ undoSteps' = IF kept /\ mode # "Undoing" THEN PushUndo(steps, step) ELSE steps
                /\ redoSteps' = IF kept /\ mode = "Undoing"
                                THEN Append(RedoAtStart(mode, redo), step)
                                ELSE RedoAtStart(mode, redo)

Normal(kind, work) ==
    /\ Transact("NormalOp", kind, undoSteps, redoSteps, work)
    /\ UNCHANGED unlogged

\* A write of `objs` that bumps the mtime but leaves no step.
Unlogged(objs) ==
    unlogged' = IF undoSteps' = <<>> /\ redoSteps' = <<>> /\ trx' = <<>>
                THEN {}
                ELSE unlogged \cup objs

Present(o) == rows[o] # Absent

Edited(work, o, v) ==
    UpdateUndoable(work, o, [work.rows[o] EXCEPT !.val = v, !.pending = TRUE])

-----------------------------------------------------------------------------
(* Operations.                                                              *)

\* An edit that does not differ from the database writes nothing.
UpdateNote(n, v) ==
    /\ Present(n)
    /\ Normal("UpdateNote", IF rows[n].val = v THEN Work ELSE Edited(Work, n, v))

UpdateDeck(d, v) ==
    /\ Present(d)
    /\ rows[d].val # v
    /\ Normal("UpdateDeck", Edited(Work, d, v))

\* One step with changes to several notes, in some order.
FindAndReplace(v) ==
    LET found == {n \in Notes : Present(n) /\ rows[n].val # v}
        order == SetToSeq(found)
    IN  /\ found # {}
        /\ Normal("FindAndReplace",
                  [Work EXCEPT !.rows = [o \in Objects |->
                                            IF o \in found
                                            THEN [rows[o] EXCEPT !.val = v, !.pending = TRUE]
                                            ELSE rows[o]],
                               !.changes = [i \in 1..Len(order) |->
                                               Updated(order[i], rows[order[i]])]])

\* Ids are creation times: the id of a deleted object is not used again.
AddObject(o, v) ==
    /\ ~Present(o)
    /\ o \notin graves
    /\ Normal("Add", AddUndoable(Work, o, [val |-> v, collapsed |-> FALSE, pending |-> TRUE]))

RemoveObject(o) ==
    /\ Present(o)
    /\ Normal("Remove", RemoveWithGrave(Work, o))

\* set_deck_collapsed
SetCollapsed(d, b) ==
    /\ "SkipUndo" \in Features
    /\ Present(d)
    /\ IF rows[d].collapsed = b
       THEN Normal("SkipUndo", Work)
       ELSE /\ Transact("NormalOp", "SkipUndo", undoSteps, redoSteps,
                  UpdateUndoable(Work, d, [rows[d] EXCEPT !.collapsed = b, !.pending = TRUE]))
            /\ Unlogged({d})

\* An operation whose closure fails, whatever it had written before.
FailedOp == Normal("Failed", [Work EXCEPT !.ok = FALSE])

\* Mutant: the steps from before are kept.
NoUndoOpKeepsSteps(o, v) ==
    /\ Present(o)
    /\ Elapse
    /\ rows' = [rows EXCEPT ![o].val = v, ![o].pending = TRUE]
    /\ mod' = now'
    /\ UNCHANGED <<graves, ls, queues, proxy>>
    /\ Unlogged({})

\* transact_no_undo: begin_step(None) empties the queues, and the mtime is
\* bumped whether or not anything changed.
NoUndoOp(o, v) ==
    /\ Present(o)
    /\ Elapse
    /\ rows' = [rows EXCEPT ![o].val = v, ![o].pending = TRUE]
    /\ mod' = now'
    /\ undoSteps' = <<>>
    /\ redoSteps' = <<>>
    /\ UNCHANGED <<graves, ls, counter, proxy>>
    /\ Unlogged({})

Undo ==
    /\ undoSteps # <<>>
    /\ LET step == Head(undoSteps)
       IN  Transact("Undoing", step.kind, Tail(undoSteps), redoSteps, Replay(step.changes, Work))
    /\ UNCHANGED unlogged

Redo ==
    /\ redoSteps # <<>>
    /\ LET step == Last(redoSteps)
       IN  Transact("Redoing", step.kind, undoSteps, Front(redoSteps), Replay(step.changes, Work))
    /\ UNCHANGED unlogged

\* add_custom_step: a step of its own, outside any transaction.
AddCustomStep ==
    /\ "Merge" \in Features
    /\ Elapse
    /\ counter' = counter + 1
    /\ undoSteps' = PushUndo(undoSteps, Step("Custom", <<>>, counter + 1))
    /\ redoSteps' = <<>>
    /\ UNCHANGED <<tables, proxy, unlogged>>

\* Mutant: the newer steps are appended newest first.
MergeNewestFirst(startingFrom) ==
    /\ "Merge" \in Features
    /\ \E i \in 1..Len(undoSteps) :
        /\ undoSteps[i].counter = startingFrom
        /\ LET newer == FlattenSeq([j \in 1..(i - 1) |-> undoSteps[j].changes])
           IN  undoSteps' = <<[undoSteps[i] EXCEPT !.changes = @ \o newer]>>
                                \o SubSeq(undoSteps, i + 1, Len(undoSteps))
    /\ counter' = startingFrom
    /\ UNCHANGED <<tables, redoSteps, proxy, now, unlogged>>

\* Mutant: the counter goes back one step too far.
MergeCounterBack(startingFrom) ==
    /\ "Merge" \in Features
    /\ \E i \in 1..Len(undoSteps) :
        /\ undoSteps[i].counter = startingFrom
        /\ undoSteps' = SubSeq(undoSteps, i, Len(undoSteps))
    /\ counter' = startingFrom - 1
    /\ UNCHANGED <<tables, redoSteps, proxy, now, unlogged>>

\* merge_undoable_ops: the first step with the wanted number takes over the
\* changes of all newer ones, oldest first, and the counter goes back to it.
MergeUndoableOps(startingFrom) ==
    /\ "Merge" \in Features
    /\ \E i \in 1..Len(undoSteps) :
        /\ undoSteps[i].counter = startingFrom
        /\ \A j \in 1..(i - 1) : undoSteps[j].counter # startingFrom
        /\ LET merged == [kind |-> undoSteps[i].kind,
                          timestamp |-> undoSteps[i].timestamp,
                          changes |-> FlattenSeq([j \in 1..i |-> undoSteps[i + 1 - j].changes]),
                          counter |-> startingFrom]
           IN  undoSteps' = <<merged>> \o SubSeq(undoSteps, i + 1, Len(undoSteps))
    /\ counter' = startingFrom
    /\ UNCHANGED <<tables, redoSteps, proxy, now, unlogged>>

-----------------------------------------------------------------------------
(* Raw SQL, and sync.                                                       *)

NewTrx == <<[rows |-> rows, graves |-> graves, mod |-> mod, ls |-> ls]>>

ProxyBegin ==
    /\ "Proxy" \in Features
    /\ trx = <<>>
    /\ trx' = NewTrx
    /\ UNCHANGED <<tables, queues, modifiedByProxy, now, unlogged>>

\* Mutant: raw SQL keeps the undo queue.
ProxyWriteKeepsUndo(o, row) ==
    /\ "Proxy" \in Features
    /\ o \in graves => row = Absent
    /\ rows' = [rows EXCEPT ![o] = row]
    /\ modifiedByProxy' = TRUE
    /\ unlogged' = unlogged \cup {o}
    /\ UNCHANGED <<graves, mod, ls, queues, trx, now>>

\* Any statement but a select.  (Ids are not used again here either.)
ProxyWrite(o, row) ==
    /\ "Proxy" \in Features
    /\ o \in graves => row = Absent
    /\ rows' = [rows EXCEPT ![o] = row]
    /\ modifiedByProxy' = TRUE
    /\ undoSteps' = <<>>
    /\ redoSteps' = <<>>
    /\ unlogged' = unlogged \cup {o}
    /\ UNCHANGED <<graves, mod, ls, counter, trx, now>>

ProxyCommit ==
    /\ trx # <<>>
    /\ modifiedByProxy' = FALSE
    /\ trx' = <<>>
    /\ UNCHANGED <<rows, graves, ls, queues>>
    /\ IF modifiedByProxy
       THEN Elapse /\ mod' = now' /\ Unlogged({})
       ELSE UNCHANGED <<mod, now, unlogged>>

\* Only the caches are cleared: modified_by_dbproxy and the queues stay.  With
\* "OpsRolledBack" the transaction may hold back-end operations, whose steps
\* then outlive what they did; without, it holds raw SQL alone.
ProxyRollback ==
    /\ "OpsRolledBack" \in Features \/ trx = NewTrx \/ (undoSteps = <<>> /\ redoSteps = <<>>)
    /\ trx # <<>>
    /\ rows' = trx[1].rows
    /\ graves' = trx[1].graves
    /\ mod' = trx[1].mod
    /\ ls' = trx[1].ls
    /\ trx' = <<>>
    /\ UNCHANGED <<queues, modifiedByProxy, now, unlogged>>

\* What the server sent replaces a local row; nothing is left to upload.
Fetched(o, row) ==
    LET fetched == [rows EXCEPT ![o] = row]
    IN  [p \in Objects |-> IF fetched[p] = Absent
                           THEN Absent
                           ELSE [fetched[p] EXCEPT !.pending = FALSE]]

\* A normal sync: discard both queues, upload what is pending, and store what
\* another client uploaded before; one mtime ends up on both sides.  It runs
\* when the mtimes of the sides differ, because this side's moved or, with
\* `remote`, because the server's did.
Sync(remote) ==
    /\ trx = <<>>
    /\ remote \/ mod # ls
    /\ Elapse
    /\ \E o \in Objects, row \in SyncedRow \cup {Absent} :
        rows' = Fetched(o, IF remote THEN row ELSE rows[o])
    /\ graves' = {}
    /\ mod' = now'
    /\ ls' = now'
    /\ undoSteps' = <<>>
    /\ redoSteps' = <<>>
    /\ UNCHANGED <<counter, proxy>>
    /\ Unlogged({})

\* A sync that fails rolls its transaction back, but the undo queue is gone.
FailedSync ==
    /\ trx = <<>>
    /\ Discard
    /\ UNCHANGED <<counter, proxy, now, unlogged>>

EditOps ==
    \/ \E n \in Notes, v \in Values : UpdateNote(n, v)
    \/ \E d \in Decks, v \in Values : UpdateDeck(d, v)
    \/ \E v \in Values : FindAndReplace(v)
    \/ \E o \in Objects, v \in Values : AddObject(o, v)
    \/ \E o \in Objects : RemoveObject(o)
    \/ \E d \in Decks, b \in BOOLEAN : SetCollapsed(d, b)
    \/ \E o \in Objects, v \in Values : NoUndoOp(o, v)
    \/ FailedOp

QueueOps ==
    \/ Undo
    \/ Redo
    \/ AddCustomStep
    \/ \E i \in 1..Len(undoSteps) : MergeUndoableOps(undoSteps[i].counter)

OutsideOps ==
    \/ ProxyBegin
    \/ \E o \in Objects, row \in [val : Values, collapsed : {FALSE}, pending : {TRUE}] \cup {Absent} :
        ProxyWrite(o, row)
    \/ ProxyCommit
    \/ ProxyRollback
    \/ \E remote \in BOOLEAN : Sync(remote)
    \/ FailedSync

Next == EditOps \/ QueueOps \/ OutsideOps

Spec == Init /\ [][Next]_vars

-----------------------------------------------------------------------------
(* Properties.                                                              *)

Change ==
    [type : {"Updated", "Added", "Removed"}, obj : Objects, row : Row]
        \cup [type : {"GraveAdded", "GraveRemoved"}, obj : Objects]
        \cup [type : {"Modified"}, time : Nat]

Kinds == {"UpdateNote", "UpdateDeck", "FindAndReplace", "Add", "Remove", "Custom", "SkipUndo",
          "Failed"}

UndoableOp ==
    [kind : Kinds, timestamp : Nat, changes : Seq(Change), counter : Nat]

\* The types of the tables, the queues and the proxy state.
TypeOK ==
    /\ rows \in [Objects -> Row \cup {Absent}]
    /\ graves \subseteq Objects
    /\ mod \in Nat /\ ls \in Nat /\ now \in Nat /\ counter \in Nat
    /\ undoSteps \in Seq(UndoableOp)
    /\ redoSteps \in Seq(UndoableOp)
    /\ modifiedByProxy \in BOOLEAN
    /\ unlogged \subseteq Objects
    /\ trx \in Seq([rows : [Objects -> Row \cup {Absent}], graves : SUBSET Objects,
                    mod : Nat, ls : Nat])

\* merge_undoable_ops looks a step up by its number, which end users of the
\* API keep while other steps come and go: although a merge turns the counter
\* back, the numbers of the steps in the queue fall from front to back and none
\* is above the counter, so no number is in the queue twice.
NumbersDescend ==
    /\ undoSteps # <<>> => undoSteps[1].counter <= counter
    /\ \A i \in 1..(Len(undoSteps) - 1) : undoSteps[i].counter > undoSteps[i + 1].counter

\* Only the undo queue is capped in end_step; the two together fit the cap all
\* the same, so redoing never makes truncate() drop the oldest step.
QueuesWithinLimit == Len(undoSteps) + Len(redoSteps) <= UndoLimit

\* The tables after replaying the first i of `steps`.
ReplaySteps(steps, work) ==
    LET after[i \in 0..Len(steps)] ==
            IF i = 0 THEN work ELSE Replay(steps[i].changes, after[i - 1])
    IN  after

\* The tables after undoing, or redoing, the i nearest steps.
Undone == ReplaySteps(undoSteps, Work)
Redone == ReplaySteps(Reverse(redoSteps), Work)

\* No row a retained step updates ever "disappears": the whole undo queue, and
\* the whole redo queue, can be replayed from the tables as they are.
QueuesReplay == Undone[Len(undoSteps)].ok /\ Redone[Len(redoSteps)].ok

\* Tables, queues and proxy state have their types, and the queues replay.
StepsAreReplayable == TypeOK /\ QueuesReplay

\* The undoable contents of the tables; the collapsed flag is not undoable.
Content(work) ==
    [vals |-> [o \in Objects |-> IF work.rows[o] = Absent THEN Absent ELSE work.rows[o].val],
     graves |-> work.graves]

\* The change records replay to exactly the contents the user had: the queues
\* behave as a line of contents with a cursor, whatever mix of edits, merges,
\* coalesced edits, failures and syncs built them.
History == INSTANCE UndoHistory WITH
    Contents <- [vals : [Objects -> Values \cup {Absent}], graves : SUBSET Objects],
    Limit <- UndoLimit,
    past <- [i \in 1..Len(undoSteps) |-> Content(Undone[i])],
    present <- Content(Work),
    future <- [i \in 1..Len(redoSteps) |-> Content(Redone[i])]

IsHistory == History!Spec

\* "any changes mean an mtime bump" (collection/transact.rs:21), and a sync asks
\* nothing else: while a row or grave waits to be uploaded, the mtime differs from
\* that of the last sync, although undo and redo restore old mtimes, merges join
\* them and coalescing drops them.  What can be hidden is what was written
\* without a step while an older step or a rollback could take the mtime back,
\* no other object and no grave.
PendingIsVisible ==
    mod = ls => /\ graves = {}
                /\ \A o \in Objects \ unlogged : rows[o] # Absent => ~rows[o].pending
=============================================================================
