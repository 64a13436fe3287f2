------------------------------ MODULE Backend ------------------------------
(* The threads of the back end (backend/mod.rs, backend/sync.rs,            *)
(* backend/collection.rs, backend/import_export.rs, progress.rs and         *)
(* collection/backup.rs): callers on threads of their own, one thread that  *)
(* syncs media, and threads that write backups.  They share the collection  *)
(* and its mutex, the two abort handles, the flag want_abort of the         *)
(* progress state, the cached sync status, and the backup task with its     *)
(* mutex, which is held while a backup is awaited.  The other mutexes       *)
(* (state, progress_state, sync_abort, media_sync_task) are never held      *)
(* across a wait, so that what is done under them is part of a step.        *)
(*                                                                          *)
(* A panic while the mutex of the collection is held poisons it: every      *)
(* later lock().unwrap() panics too.                                        *)
EXTENDS Integers, FiniteSets, Sequences

CONSTANTS
    Callers,        \* threads that call the back end
    Nobody,         \* not a caller
    Kinds,          \* the calls they make, of those in AllKinds
    MaxCalls,       \* bound on calls that take time
    MaxMedia,       \* bound on media syncs started
    MaxBackups,     \* bound on backups written
    MaxNow,         \* bound on the clock
    FreshFor        \* seconds a sync status is cached for

AllKinds == {"work", "import", "sync", "login", "close", "export", "full",
             "status", "backup", "await"}

ASSUME BackendAssumption ==
    /\ Nobody \notin Callers
    /\ Kinds \subseteq AllKinds
    /\ MaxCalls \in Nat /\ MaxMedia \in Nat /\ MaxBackups \in Nat /\ MaxNow \in Nat
    /\ FreshFor \in Nat

VARIABLES
    open, trx,      \* the collection is open; it is in a sync's transaction
    locked,         \* who holds the mutex of the collection
    poisoned,       \* that mutex is poisoned
    call,           \* what each caller is doing
    handle,         \* sync_abort: whose sync it aborts
    aborted,        \* callers whose sync has been aborted
    wantAbort,      \* progress_state.want_abort
    asked,          \* callers with a request to abort since they began
    media,          \* the media sync thread
    mediaAbort,     \* media_sync_abort
    started,        \* media syncs started
    unopened,       \* the last of them that could not open its files, or 0
    now, status,    \* the clock in seconds, and remote_sync_status
    recorded,       \* syncs whose outcome has been put there
    task,           \* backup_task: a backup, or 0
    backupLocked,   \* who holds its mutex
    backups,        \* what became of each backup begun
    reported,       \* failed backups whose error a caller has got
    calls

collection == <<open, trx, locked, poisoned>>
aborting == <<handle, aborted, wantAbort, asked>>
mediaSync == <<media, mediaAbort, started, unopened>>
remote == <<status, recorded>>
backup == <<task, backupLocked, backups, reported>>
vars == <<collection, call, aborting, mediaSync, now, remote, backup, calls>>

\* Where a caller is.  found: the media sync it waits for; time and seen: when
\* a status check began, and what had been recorded then.
Doing(kind, at) ==
    [kind |-> kind, at |-> at, found |-> 0, time |-> 0, seen |-> 0]
Idle == Doing("none", "idle")

MediaThread == "media_sync"

Stages == {"idle", "lock", "working", "look", "wait", "meta", "exchanging",
           "synced", "recording", "network", "check", "task", "previous", "own"}

Running == {n \in DOMAIN backups : backups[n] = "running"}

Holding == {"working", "meta", "exchanging"}

\* Every variable has its type, the mutex of the collection is held by whoever
\* is in the middle of something that needs it and by nobody else, and the
\* abort handle belongs to a call that can be aborted.
TypeOK ==
    /\ \A c \in Callers :
          \/ (locked = c) = (call[c].at \in Holding)
          \/ call[c].kind = "backup" /\ call[c].at \in {"task", "previous"}
    /\ handle # Nobody => call[handle].kind \in {"sync", "login", "full"}
    /\ trx => call[locked].at = "exchanging"
    /\ {open, trx, poisoned, wantAbort} \subseteq BOOLEAN
    /\ {locked, handle, backupLocked} \subseteq Callers \cup {Nobody}
    /\ aborted \subseteq Callers
    /\ asked \subseteq Callers \cup {MediaThread}
    /\ \A c \in Callers :
          /\ call[c].kind \in AllKinds \cup {"none"}
          /\ call[c].at \in Stages
          /\ call[c].time \in 0..now
    /\ media \in {"none", "spawned", "waiting", "running", "ended"}
    /\ mediaAbort \in {"none", "set", "aborted"}
    /\ task \in {0} \cup DOMAIN backups
    /\ reported \subseteq DOMAIN backups
    /\ unopened \in 0..started
    /\ calls \in 0..MaxCalls /\ now \in 0..MaxNow

Init ==
    /\ open = TRUE /\ trx = FALSE /\ locked = Nobody /\ poisoned = FALSE
    /\ call = [c \in Callers |-> Idle]
    /\ handle = Nobody /\ aborted = {} /\ wantAbort = FALSE /\ asked = {}
    /\ media = "none" /\ mediaAbort = "none" /\ started = 0 /\ unopened = 0
    /\ now = 0 /\ status = [time |-> -FreshFor, seen |-> 0] /\ recorded = 0
    /\ task = 0 /\ backupLocked = Nobody /\ backups = <<>> /\ reported = {}
    /\ calls = 0

-----------------------------------------------------------------------------
(* What the calls have in common.                                           *)

Begin(c, kind, at) ==
    /\ call[c] = Idle /\ calls < MaxCalls /\ kind \in Kinds
    /\ call' = [call EXCEPT ![c] = Doing(kind, at)]
    /\ calls' = calls + 1

At(c, kinds, at) == call[c].kind \in kinds /\ call[c].at = at
GoTo(c, at) == call' = [call EXCEPT ![c].at = at]
Return(c) == call' = [call EXCEPT ![c] = Idle]

CanLock == locked = Nobody /\ ~poisoned

\* Mutant: a new handler leaves the flag as it is.
HandlerKeepsFlag(t) == asked' = asked \ {t} /\ UNCHANGED wantAbort

\* A new progress handler resets want_abort; whoever reports progress next
\* takes it.
NewHandler(t) ==
    /\ wantAbort' = FALSE
    /\ asked' = asked \ {t}
TakesAbort == wantAbort /\ wantAbort' = FALSE
Ask == wantAbort' = TRUE /\ asked' = Callers \cup {MediaThread}

\* The guard of sync_abort_handle: it clears whatever handle is there.
DropGuard(c) == handle' = Nobody /\ aborted' = aborted \ {c}

\* sync_media_in_background: nothing if a media sync is under way.
StartMedia ==
    IF media \in {"none", "ended"}
    THEN /\ started < MaxMedia
         /\ media' = "spawned" /\ started' = started + 1
         /\ UNCHANGED <<mediaAbort, unopened>>
    ELSE UNCHANGED mediaSync
MayStartMedia == StartMedia \/ UNCHANGED mediaSync

-----------------------------------------------------------------------------
(* Operations that report progress and hold the collection all the while,   *)
(* and the import of a collection, which needs it closed.                   *)

StartWork(c) ==
    /\ Begin(c, "work", "lock") \/ Begin(c, "import", "lock")
    /\ UNCHANGED <<collection, aborting, mediaSync, now, remote, backup>>

LockForWork(c) ==
    /\ At(c, {"work", "import"}, "lock") /\ CanLock
    /\ IF open = (call[c].kind = "work")
       THEN /\ locked' = c /\ NewHandler(c) /\ GoTo(c, "working")
            /\ UNCHANGED <<handle, aborted>>
       ELSE Return(c) /\ UNCHANGED <<locked, aborting>>
    /\ UNCHANGED <<open, trx, poisoned, mediaSync, now, remote, backup, calls>>

\* The work is done, or its next report finds it should stop.
EndWork(c) ==
    /\ At(c, {"work", "import", "export"}, "working")
    /\ TakesAbort \/ UNCHANGED wantAbort
    /\ locked' = Nobody
    /\ Return(c)
    /\ UNCHANGED <<open, trx, poisoned, handle, aborted, asked, mediaSync, now,
                   remote, backup, calls>>

-----------------------------------------------------------------------------
(* sync_collection and sync_login.                                          *)

StartSync(c) ==
    /\ Begin(c, "sync", "lock") \/ Begin(c, "login", "network")
    /\ handle' = c
    /\ UNCHANGED <<collection, aborted, wantAbort, asked, mediaSync, now, remote,
                   backup>>

EndLogin(c) ==
    /\ At(c, {"login"}, "network")
    /\ DropGuard(c) /\ Return(c)
    /\ UNCHANGED <<collection, wantAbort, asked, mediaSync, now, remote, backup,
                   calls>>

LockForSync(c) ==
    /\ At(c, {"sync"}, "lock") /\ CanLock
    /\ IF open
       THEN /\ locked' = c /\ GoTo(c, "meta")
            /\ IF c \in aborted THEN UNCHANGED <<wantAbort, asked>>
                                ELSE NewHandler(c)
            /\ UNCHANGED <<handle, aborted>>
       ELSE Return(c) /\ DropGuard(c) /\ UNCHANGED <<locked, wantAbort, asked>>
    /\ UNCHANGED <<open, trx, poisoned, mediaSync, now, remote, backup, calls>>

\* The comparison of the collections: a sync of objects begins, there is none
\* to do, or the answer is an error.
Compare(c) ==
    /\ At(c, {"sync"}, "meta") /\ c \notin aborted
    /\ \/ GoTo(c, "exchanging") /\ trx' = TRUE
          /\ UNCHANGED <<locked, handle, aborted>>
       \/ GoTo(c, "synced") /\ locked' = Nobody
          /\ UNCHANGED <<trx, handle, aborted>>
       \/ Return(c) /\ DropGuard(c) /\ locked' = Nobody /\ UNCHANGED trx
    /\ UNCHANGED <<open, poisoned, wantAbort, asked, mediaSync, now, remote,
                   backup, calls>>

Exchange(c) ==
    /\ At(c, {"sync"}, "exchanging") /\ c \notin aborted
    /\ trx' = FALSE /\ locked' = Nobody
    /\ GoTo(c, "synced")
    /\ UNCHANGED <<open, poisoned, aborting, mediaSync, now, remote, backup,
                   calls>>

\* Mutant: an interrupted sync returns before rolling back.
BreakWithoutRollback(c) ==
    /\ At(c, {"sync"}, "exchanging") \/ (At(c, {"sync"}, "meta") /\ c \in aborted)
    /\ (TakesAbort /\ call[c].at = "exchanging") \/ UNCHANGED wantAbort
    /\ trx' = (trx /\ c \in aborted) /\ locked' = Nobody
    /\ DropGuard(c) /\ Return(c)
    /\ UNCHANGED <<open, poisoned, asked, mediaSync, now, remote, backup, calls>>

\* An error, a request to abort found when reporting progress, or abort_sync:
\* the transaction is rolled back in each case.
BreakSync(c) ==
    /\ At(c, {"sync"}, "exchanging") \/ (At(c, {"sync"}, "meta") /\ c \in aborted)
    /\ (TakesAbort /\ call[c].at = "exchanging") \/ UNCHANGED wantAbort
    /\ trx' = FALSE /\ locked' = Nobody
    /\ DropGuard(c) /\ Return(c)
    /\ UNCHANGED <<open, poisoned, asked, mediaSync, now, remote, backup, calls>>

MediaAfterSync(c) ==
    /\ At(c, {"sync"}, "synced")
    /\ MayStartMedia
    /\ GoTo(c, "recording")
    /\ UNCHANGED <<collection, aborting, now, remote, backup, calls>>

RecordSync(c) ==
    /\ At(c, {"sync"}, "recording")
    /\ recorded' = recorded + 1
    /\ status' = [time |-> now, seen |-> recorded']
    /\ DropGuard(c) /\ Return(c)
    /\ UNCHANGED <<collection, wantAbort, asked, mediaSync, now, backup, calls>>

AbortSync ==
    /\ handle # Nobody
    /\ aborted' = aborted \cup {handle} /\ handle' = Nobody
    /\ UNCHANGED <<collection, call, wantAbort, asked, mediaSync, now, remote,
                   backup, calls>>

SetWantsAbort ==
    /\ Ask
    /\ UNCHANGED <<collection, call, handle, aborted, mediaSync, now, remote,
                   backup, calls>>
-----------------------------------------------------------------------------
(* close_collection, export_collection_package and full_upload_or_download  *)
(* abort the media sync, wait until its handle is gone, and take the        *)
(* collection.  The last two keep the mutex while they work.                *)

StartClosing(c) ==
    /\ \E kind \in {"close", "export", "full"} : Begin(c, kind, "look")
    /\ UNCHANGED <<collection, aborting, mediaSync, now, remote, backup>>

\* abort_media_sync_and_wait looks for a media sync to abort ...
Look(c) ==
    /\ call[c].at = "look"
    /\ IF mediaAbort = "none"
       THEN GoTo(c, "wait") /\ UNCHANGED <<mediaAbort, wantAbort, asked>>
       ELSE /\ call' = [call EXCEPT ![c].at = "wait", ![c].found = started]
            /\ mediaAbort' = "aborted" /\ Ask
    /\ UNCHANGED <<collection, handle, aborted, media, started, unopened, now,
                   remote, backup, calls>>

\* Mutant: the media sync is told to stop and not waited for.
AskOnce(c) ==
    /\ call[c].at = "wait"
    /\ GoTo(c, "lock")
    /\ UNCHANGED <<collection, aborting, mediaSync, now, remote, backup, calls>>

\* ... and waits, asking again every 100 ms.
Wait(c) ==
    /\ call[c].at = "wait"
    /\ IF mediaAbort = "none"
       THEN GoTo(c, "lock") /\ UNCHANGED <<wantAbort, asked>>
       ELSE Ask /\ UNCHANGED call
    /\ UNCHANGED <<collection, handle, aborted, mediaSync, now, remote, backup,
                   calls>>

TakeCollection(c) ==
    /\ At(c, {"close", "export", "full"}, "lock") /\ CanLock
    /\ open' = FALSE
    /\ IF open /\ call[c].kind # "close"
       THEN locked' = c /\ GoTo(c, "working") /\ NewHandler(c)
       ELSE Return(c) /\ UNCHANGED <<locked, wantAbort, asked>>
    /\ handle' = IF open /\ call[c].kind = "full" THEN c ELSE handle
    /\ UNCHANGED <<trx, poisoned, aborted, mediaSync, now, remote, backup, calls>>

\* The upload or download is over, or fails or is aborted; the collection is
\* opened again, unless that fails.
EndFullSync(c) ==
    /\ At(c, {"full"}, "working")
    /\ open' \in BOOLEAN
    /\ \/ /\ open' /\ c \notin aborted
          /\ recorded' = recorded + 1
          /\ status' = [time |-> now, seen |-> recorded']
          /\ MayStartMedia
          /\ UNCHANGED wantAbort
       \/ /\ TakesAbort \/ UNCHANGED wantAbort
          /\ UNCHANGED <<remote, mediaSync>>
    /\ locked' = Nobody
    /\ DropGuard(c) /\ Return(c)
    /\ UNCHANGED <<trx, poisoned, asked, now, backup, calls>>

OpenCollection ==
    /\ CanLock
    /\ open' = TRUE
    /\ UNCHANGED <<trx, locked, poisoned, call, aborting, mediaSync, now, remote,
                   backup, calls>>

-----------------------------------------------------------------------------
(* The media sync thread.                                                   *)

SyncMedia ==
    /\ StartMedia
    /\ UNCHANGED <<collection, call, aborting, now, remote, backup, calls>>

RegisterMedia ==
    /\ media = "spawned"
    /\ media' = "waiting" /\ mediaAbort' = "set"
    /\ UNCHANGED <<collection, call, aborting, started, unopened, now, remote,
                   backup, calls>>

\* It takes what it needs of the collection, and panics without one.  When the
\* media folder or database cannot be opened the thread returns with that error,
\* before a handler is made, and nobody takes its abort handle away.
OpenMedia ==
    /\ media = "waiting" /\ locked = Nobody
    /\ \/ /\ open /\ ~poisoned
          /\ media' = "running" /\ NewHandler(MediaThread)
          /\ UNCHANGED <<poisoned, unopened>>
       \/ /\ open /\ ~poisoned
          /\ media' = "ended" /\ unopened' = started
          /\ UNCHANGED <<poisoned, wantAbort, asked>>
       \/ /\ ~open \/ poisoned
          /\ media' = "ended" /\ poisoned' = TRUE
          /\ UNCHANGED <<unopened, wantAbort, asked>>
    /\ UNCHANGED <<open, trx, locked, call, handle, aborted, mediaAbort, started,
                   now, remote, backup, calls>>

\* Mutant: an aborted media sync leaves its handle behind.
EndMediaEarly ==
    /\ media = "running"
    /\ TakesAbort \/ UNCHANGED wantAbort
    /\ media' = "ended"
    /\ mediaAbort' = IF mediaAbort = "aborted" THEN mediaAbort ELSE "none"
    /\ UNCHANGED <<collection, call, handle, aborted, asked, started, unopened,
                   now, remote, backup, calls>>

\* The sync is complete, fails, is aborted, or reports progress and finds it
\* should stop.
EndMedia ==
    /\ media = "running"
    /\ TakesAbort \/ UNCHANGED wantAbort
    /\ media' = "ended" /\ mediaAbort' = "none"
    /\ UNCHANGED <<collection, call, handle, aborted, asked, started, unopened,
                   now, remote, backup, calls>>

MediaSyncStatus ==
    /\ media = "ended" /\ media' = "none"
    /\ UNCHANGED <<collection, call, aborting, mediaAbort, started, unopened,
                   now, remote, backup, calls>>

AbortMediaSync ==
    /\ mediaAbort = "set" /\ mediaAbort' = "aborted"
    /\ UNCHANGED <<collection, call, aborting, media, started, unopened, now,
                   remote, backup, calls>>

-----------------------------------------------------------------------------
(* sync_status: what the server has is asked without holding the collection,*)
(* and cached.                                                              *)

StartStatus(c) ==
    /\ Begin(c, "status", "lock")
    /\ UNCHANGED <<collection, aborting, mediaSync, now, remote, backup>>

\* Local changes, or an answer that is fresh, make a request unnecessary.
StatusOffline(c) ==
    /\ At(c, {"status"}, "lock") /\ CanLock
    /\ \/ Return(c)
       \/ /\ open /\ now - status.time >= FreshFor
          /\ call' = [call EXCEPT ![c].at = "check", ![c].time = now,
                                  ![c].seen = recorded]
    /\ UNCHANGED <<collection, aborting, mediaSync, now, remote, backup, calls>>

StatusLocal(c) ==
    /\ call[c].at = "check" /\ CanLock
    /\ IF open THEN GoTo(c, "network") ELSE Return(c)
    /\ UNCHANGED <<collection, aborting, mediaSync, now, remote, backup, calls>>

\* Mutant: a check begun in the second of the last answer counts as newer.
StaleIfOlder(c) == status.time > call[c].time

IsStale(c) == status.time >= call[c].time

StatusAnswer(c) ==
    /\ At(c, {"status"}, "network")
    /\ status' \in {status, IF IsStale(c) THEN status
                            ELSE [time |-> call[c].time, seen |-> call[c].seen]}
    /\ Return(c)
    /\ UNCHANGED <<collection, aborting, mediaSync, now, recorded, backup, calls>>

Tick ==
    /\ now < MaxNow /\ now' = now + 1
    /\ UNCHANGED <<collection, call, aborting, mediaSync, remote, backup, calls>>

-----------------------------------------------------------------------------
(* Backups.                                                                 *)

StartBackup(c) ==
    /\ Begin(c, "backup", "lock")
    /\ UNCHANGED <<collection, aborting, mediaSync, now, remote, backup>>

LockForBackup(c) ==
    /\ At(c, {"backup"}, "lock") /\ CanLock
    /\ IF open THEN locked' = c /\ GoTo(c, "task")
               ELSE Return(c) /\ UNCHANGED locked
    /\ UNCHANGED <<open, trx, poisoned, aborting, mediaSync, now, remote, backup,
                   calls>>

AwaitBackup(c) ==
    /\ Begin(c, "await", "task")
    /\ UNCHANGED <<collection, aborting, mediaSync, now, remote, backup>>

LockTask(c) ==
    /\ call[c].at = "task" /\ backupLocked = Nobody
    /\ backupLocked' = c /\ GoTo(c, "previous")
    /\ UNCHANGED <<collection, aborting, mediaSync, now, remote, task, backups,
                   reported, calls>>

Unlock(c) == locked' = IF locked = c THEN Nobody ELSE locked

\* Mutant: the result of the thread that was joined is dropped.
ResultDropped(n) == {}

Failed(n) == {n} \cap {m \in DOMAIN backups : backups[m] = "failed"}

\* The previous backup has ended: its error, if there is one, is the answer.
\* Otherwise create_backup begins a backup, unless a recent one or an unchanged
\* collection make it unnecessary, and leaves it to the task or awaits it.
JoinPrevious(c) ==
    /\ call[c].at = "previous"
    /\ task \notin Running
    /\ reported' = reported \cup Failed(task)
    /\ Unlock(c)
    /\ \/ /\ task' = 0 /\ backupLocked' = Nobody
          /\ Return(c) /\ UNCHANGED backups
       \/ /\ Failed(task) = {} /\ call[c].kind = "backup"
          /\ Len(backups) < MaxBackups
          /\ backups' = Append(backups, "running")
          /\ \/ /\ task' = Len(backups') /\ backupLocked' = Nobody
                /\ Return(c)
             \/ /\ task' = 0 /\ UNCHANGED backupLocked
                /\ GoTo(c, "own")
    /\ UNCHANGED <<open, trx, poisoned, aborting, mediaSync, now, remote, calls>>

\* With wait_for_completion the new backup is not left to the task, but joined
\* while its mutex is held.
JoinOwn(c) ==
    /\ call[c].at = "own"
    /\ Len(backups) \notin Running
    /\ reported' = reported \cup Failed(Len(backups))
    /\ backupLocked' = Nobody
    /\ Return(c)
    /\ UNCHANGED <<collection, aborting, mediaSync, now, remote, task, backups,
                   calls>>

EndBackup ==
    /\ \E n \in Running, result \in {"written", "failed"} :
          backups' = [backups EXCEPT ![n] = result]
    /\ UNCHANGED <<collection, call, aborting, mediaSync, now, remote, task,
                   backupLocked, reported, calls>>

-----------------------------------------------------------------------------
\* Locking a poisoned mutex panics; a sync's guard is dropped on the way.
Panic(c) ==
    /\ call[c].at \in {"lock", "check"} /\ poisoned
    /\ IF call[c].kind = "sync" THEN DropGuard(c) ELSE UNCHANGED <<handle, aborted>>
    /\ Return(c)
    /\ UNCHANGED <<collection, wantAbort, asked, mediaSync, now, remote, backup,
                   calls>>

\* What the program does by itself, once a call has been made.
Proceed(c) ==
    \/ LockForWork(c) \/ EndWork(c)
    \/ EndLogin(c) \/ LockForSync(c) \/ Compare(c) \/ Exchange(c) \/ BreakSync(c)
    \/ MediaAfterSync(c) \/ RecordSync(c)
    \/ Look(c) \/ Wait(c) \/ TakeCollection(c) \/ EndFullSync(c)
    \/ StatusOffline(c) \/ StatusLocal(c) \/ StatusAnswer(c)
    \/ LockForBackup(c) \/ LockTask(c) \/ JoinPrevious(c) \/ JoinOwn(c)
    \/ Panic(c)
Background == RegisterMedia \/ OpenMedia \/ EndMedia \/ EndBackup

\* What is asked of it from outside.
Request ==
    \/ \E c \in Callers :
          \/ StartWork(c) \/ StartSync(c) \/ StartClosing(c) \/ StartStatus(c)
          \/ StartBackup(c) \/ AwaitBackup(c)
    \/ AbortSync \/ SetWantsAbort \/ OpenCollection
    \/ SyncMedia \/ MediaSyncStatus \/ AbortMediaSync

Next ==
    \/ \E c \in Callers : Proceed(c)
    \/ Background
    \/ Request
    \/ Tick

Fairness == (\A c \in Callers : WF_vars(Proceed(c))) /\ WF_vars(Background)

Spec == Init /\ [][Next]_vars /\ Fairness

-----------------------------------------------------------------------------
\* Whenever the collection's mutex is free no transaction is open, however a
\* sync ended: done, failed, told to stop in a report of progress, or aborted.
NoTransactionIsLeft == locked = Nobody => ~trx

\* Locks and handles are with the calls that need them and no others, and no
\* transaction outlives its lock.
LocksAreHeld == NoTransactionIsLeft /\ TypeOK

\* A media sync that abort_media_sync_and_wait has found is over when the
\* caller goes on to take the collection.
FoundSyncIsOver ==
    \A c \in Callers :
        /\ call[c].kind \in {"close", "export", "full"}
        /\ call[c].at \in {"lock", "working"} /\ call[c].found = started
        /\ started > 0
        => media \notin {"waiting", "running"}

\* A request to stop that was made before an operation began does not stop it.
CancelsAreFresh ==
    wantAbort =>
      /\ media = "running" => MediaThread \in asked
      /\ \A c \in Callers :
            call[c].at \in {"working", "exchanging"} => c \in asked

\* The cached status is never older than the last sync whose outcome was put
\* there: a check that was under way meanwhile is dropped.
CachedStatusIsCurrent == status.seen = recorded

\* A failed backup is reported to a caller, or will be.
FailuresAreReported ==
    \A n \in DOMAIN backups :
        backups[n] = "failed" =>
          n \in reported \/ n = task \/ \E c \in Callers : call[c].at = "own"

\* The abort handle that is there belongs to a thread that has returned because
\* it could not open its files, and no later one has replaced it.
HandleIsLeft == mediaAbort # "none" /\ unopened = started

\* Every call comes to its end, unless a panic has poisoned the collection, or
\* it closes the collection and waits for a media sync that is no longer there.
CallsReturn ==
    \A c \in Callers :
        call[c] # Idle
          ~> call[c] = Idle \/ poisoned \/ (call[c].at = "wait" /\ HandleIsLeft)
=============================================================================
