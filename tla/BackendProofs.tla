---------------------------- MODULE BackendProofs ----------------------------
(***************************************************************************)
(* Proofs about Backend, for any callers, calls, bounds on the clock, on   *)
(* media syncs and on backups.  The invariants the runs check follow from  *)
(* one inductive invariant, whose parts say where every caller can be.     *)
(***************************************************************************)
EXTENDS Backend, TLAPS

\* A caller's record.
Call == [kind : AllKinds \cup {"none"}, at : Stages,
         found : Nat, time : Nat, seen : Nat]

Closing == {"close", "export", "full"}

\* The types.
CallsTyped == call \in [Callers -> Call]

Typed ==
    /\ {open, trx, poisoned, wantAbort} \subseteq BOOLEAN
    /\ {locked, handle, backupLocked} \subseteq Callers \cup {Nobody}
    /\ aborted \subseteq Callers /\ asked \subseteq Callers \cup {MediaThread}
    /\ media \in {"none", "spawned", "waiting", "running", "ended"}
    /\ mediaAbort \in {"none", "set", "aborted"}
    /\ started \in Nat /\ unopened \in Nat /\ recorded \in Nat
    /\ calls \in 0..MaxCalls /\ now \in 0..MaxNow
    /\ status \in [time : Int, seen : Nat]

BackupsTyped ==
    /\ backups \in Seq({"running", "written", "failed"})
    /\ task \in 0..Len(backups) /\ reported \subseteq 1..Len(backups)

\* Some stages belong to one kind of call, and what a caller remembers is not
\* from the future.
Places ==
    \A c \in Callers :
        /\ call[c].time <= now /\ call[c].found <= started
        /\ call[c].at \in {"look", "wait"} => call[c].kind \in Closing
        /\ call[c].at = "look" => call[c].found = 0
        /\ call[c].at = "check" => call[c].kind = "status"
        /\ call[c].kind = "login" => call[c].at = "network"
        /\ call[c].at \in {"task", "previous", "own"} =>
              call[c].kind \in {"backup", "await"}

\* The mutex of the collection is held by whoever is in the middle of something
\* that needs it, and a transaction is open only in the middle of an exchange.
Locks ==
    /\ \A c \in Callers :
          \/ (locked = c) = (call[c].at \in Holding)
          \/ call[c].kind = "backup" /\ call[c].at \in {"task", "previous"}
    /\ trx => locked # Nobody
    /\ \A c \in Callers : trx /\ locked = c => call[c].at = "exchanging"

\* A full sync can be aborted only while it works.
Handles ==
    \A c \in Callers :
        handle = c => \/ call[c].kind \in {"sync", "login"}
                      \/ call[c].kind = "full" /\ call[c].at = "working"

\* A request to abort is one to everybody who was there, until it is taken.
Cancels == wantAbort => asked = Callers \cup {MediaThread}

\* A check that began before the last sync was recorded is not newer than it.
Statuses ==
    /\ status.seen = recorded /\ status.time <= now
    /\ \A c \in Callers :
          call[c].kind = "status" /\ call[c].at \in {"check", "network"} =>
             call[c].seen = recorded \/ call[c].time <= status.time

\* Only one caller has the task.
Owners == \A c \in Callers : call[c].at \in {"previous", "own"} => backupLocked = c

OwnAwaited == \E c \in Callers : call[c].at = "own"

\* A backup that is being written, or has failed without a caller knowing, is
\* the one left to the task or the one being awaited.
Backups ==
    \A n \in 1..Len(backups) :
          backups[n] = "running" \/ (backups[n] = "failed" /\ n \notin reported) =>
             n = task \/ (n = Len(backups) /\ OwnAwaited)

\* The thread has a handle while it waits or runs.  A handle without a thread
\* is left by a panic, after which nothing runs and the handle stays, or by a
\* media sync that could not open its files, until the next one replaces it.
Media ==
    /\ unopened <= started
    /\ media \in {"waiting", "running"} => mediaAbort # "none"
    /\ poisoned => media # "running" /\ mediaAbort # "none"
    /\ mediaAbort # "none" =>
          \/ poisoned \/ media \in {"waiting", "running"} \/ unopened = started
          \/ media = "spawned" /\ unopened = started - 1

\* A caller that found the media sync last started waits while it is there, and
\* one that found a handle without a thread waits at least as long.
Found ==
    \A c \in Callers :
        call[c].kind \in Closing /\ call[c].found = started /\ started > 0 =>
            /\ call[c].at = "wait" => poisoned \/ media # "spawned" \/ mediaAbort # "none"
            /\ call[c].at \in {"lock", "working"} => media \in {"none", "ended"}

\* All of it is inductive.  Most parts are not by themselves: they rest on the
\* types and on Places, Backups on Owners too, and Found on Media.
IInv ==
    /\ CallsTyped /\ Typed /\ BackupsTyped /\ Places /\ Locks /\ Handles /\ Cancels
    /\ Statuses /\ Owners /\ Backups /\ Media /\ Found

-----------------------------------------------------------------------------

\* What a caller that has joined the previous backup does, apart from backups.
LEMMA JoinPreviousMoves ==
    ASSUME NEW c \in Callers, JoinPrevious(c)
    PROVE  /\ call[c].at = "previous" /\ Unlock(c)
           /\ Return(c) \/ GoTo(c, "own")
           /\ UNCHANGED <<open, trx, poisoned, aborting, mediaSync, now, remote,
                          calls>>
BY DEF JoinPrevious

\* What a caller does is of the right type.
LEMMA CallsTypedKept == IInv /\ [Next]_vars => CallsTyped'
<1> SUFFICES ASSUME CallsTyped, Typed, [Next]_vars PROVE CallsTyped'
  BY DEF IInv
<1> USE BackendAssumption DEF CallsTyped, Typed, Call, AllKinds, Stages, Closing
<1>1. ASSUME NEW c \in Callers, LockForWork(c) PROVE CallsTyped'
  BY <1>1 DEF LockForWork, At, CanLock, NewHandler, GoTo, Return, Idle, Doing,
     mediaSync, remote
<1>2. ASSUME NEW c \in Callers, EndWork(c) PROVE CallsTyped'
  BY <1>2 DEF EndWork, At, TakesAbort, Return, Idle, Doing, mediaSync, remote
<1>3. ASSUME NEW c \in Callers, EndLogin(c) PROVE CallsTyped'
  BY <1>3 DEF EndLogin, At, DropGuard, Return, Idle, Doing, mediaSync, remote
<1>4. ASSUME NEW c \in Callers, LockForSync(c) PROVE CallsTyped'
  BY <1>4 DEF LockForSync, At, CanLock, NewHandler, DropGuard, GoTo, Return,
     Idle, Doing, mediaSync, remote
<1>5. ASSUME NEW c \in Callers, Compare(c) PROVE CallsTyped'
  BY <1>5 DEF Compare, At, DropGuard, GoTo, Return, Idle, Doing, mediaSync,
     remote
<1>6. ASSUME NEW c \in Callers, Exchange(c) PROVE CallsTyped'
  BY <1>6 DEF Exchange, At, GoTo, mediaSync, remote
<1>7. ASSUME NEW c \in Callers, BreakSync(c) PROVE CallsTyped'
  BY <1>7 DEF BreakSync, At, TakesAbort, DropGuard, Return, Idle, Doing,
     mediaSync, remote
<1>8. ASSUME NEW c \in Callers, MediaAfterSync(c) PROVE CallsTyped'
  BY <1>8 DEF MediaAfterSync, At, MayStartMedia, StartMedia, GoTo, mediaSync,
     remote
<1>9. ASSUME NEW c \in Callers, RecordSync(c) PROVE CallsTyped'
  BY <1>9 DEF RecordSync, At, DropGuard, Return, Idle, Doing, mediaSync, remote
<1>10. ASSUME NEW c \in Callers, Look(c) PROVE CallsTyped'
  BY <1>10 DEF Look, Ask, GoTo, mediaSync, remote
<1>11. ASSUME NEW c \in Callers, Wait(c) PROVE CallsTyped'
  BY <1>11 DEF Wait, Ask, GoTo, mediaSync, remote
<1>12. ASSUME NEW c \in Callers, TakeCollection(c) PROVE CallsTyped'
  BY <1>12 DEF TakeCollection, At, CanLock, NewHandler, GoTo, Return, Idle,
     Doing, mediaSync, remote
<1>13. ASSUME NEW c \in Callers, EndFullSync(c) PROVE CallsTyped'
  BY <1>13 DEF EndFullSync, At, MayStartMedia, StartMedia, TakesAbort,
     DropGuard, Return, Idle, Doing, mediaSync, remote
<1>14. ASSUME NEW c \in Callers, StatusOffline(c) PROVE CallsTyped'
  BY <1>14 DEF StatusOffline, At, CanLock, Return, Idle, Doing, mediaSync,
     remote
<1>15. ASSUME NEW c \in Callers, StatusLocal(c) PROVE CallsTyped'
  BY <1>15 DEF StatusLocal, CanLock, GoTo, Return, Idle, Doing, mediaSync,
     remote
<1>16. ASSUME NEW c \in Callers, StatusAnswer(c) PROVE CallsTyped'
  BY <1>16 DEF StatusAnswer, At, IsStale, Return, Idle, Doing, mediaSync, remote
<1>17. ASSUME NEW c \in Callers, LockForBackup(c) PROVE CallsTyped'
  BY <1>17 DEF LockForBackup, At, CanLock, GoTo, Return, Idle, Doing, mediaSync,
     remote
<1>18. ASSUME NEW c \in Callers, LockTask(c) PROVE CallsTyped'
  BY <1>18 DEF LockTask, GoTo, mediaSync, remote
<1>19. ASSUME NEW c \in Callers, JoinPrevious(c) PROVE CallsTyped'
  BY <1>19, JoinPreviousMoves DEF Unlock, GoTo, Return, Idle, Doing, mediaSync,
     remote
<1>20. ASSUME NEW c \in Callers, JoinOwn(c) PROVE CallsTyped'
  BY <1>20 DEF JoinOwn, Return, Idle, Doing, mediaSync, remote
<1>21. ASSUME NEW c \in Callers, Panic(c) PROVE CallsTyped'
  BY <1>21 DEF Panic, DropGuard, Return, Idle, Doing, mediaSync, remote
<1>22. ASSUME NEW c \in Callers, StartWork(c) PROVE CallsTyped'
  BY <1>22 DEF StartWork, Begin, Idle, Doing, mediaSync, remote
<1>23. ASSUME NEW c \in Callers, StartSync(c) PROVE CallsTyped'
  BY <1>23 DEF StartSync, Begin, Idle, Doing, mediaSync, remote
<1>24. ASSUME NEW c \in Callers, StartClosing(c) PROVE CallsTyped'
  BY <1>24 DEF StartClosing, Begin, Idle, Doing, mediaSync, remote
<1>25. ASSUME NEW c \in Callers, StartStatus(c) PROVE CallsTyped'
  BY <1>25 DEF StartStatus, Begin, Idle, Doing, mediaSync, remote
<1>26. ASSUME NEW c \in Callers, StartBackup(c) PROVE CallsTyped'
  BY <1>26 DEF StartBackup, Begin, Idle, Doing, mediaSync, remote
<1>27. ASSUME NEW c \in Callers, AwaitBackup(c) PROVE CallsTyped'
  BY <1>27 DEF AwaitBackup, Begin, Idle, Doing, mediaSync, remote
\* The other steps leave alone what this is about.
<1>28. CASE OpenMedia \/ EndMedia \/ EndBackup \/ AbortSync \/ SetWantsAbort \/
            OpenCollection \/ SyncMedia \/ MediaSyncStatus \/ AbortMediaSync \/
            UNCHANGED vars
  BY <1>28 DEF OpenMedia, EndMedia, EndBackup, AbortSync, SetWantsAbort,
     OpenCollection, SyncMedia, MediaSyncStatus, AbortMediaSync, vars,
     mediaSync, remote
<1>29. CASE RegisterMedia
  BY <1>29 DEF RegisterMedia, mediaSync, remote
<1>30. CASE Tick
  BY <1>30 DEF Tick, mediaSync, remote
<1> QED
  BY <1>1, <1>2, <1>3, <1>4, <1>5, <1>6, <1>7, <1>8, <1>9, <1>10, <1>11, <1>12,
     <1>13, <1>14, <1>15, <1>16, <1>17, <1>18, <1>19, <1>20, <1>21, <1>22,
     <1>23, <1>24, <1>25, <1>26, <1>27, <1>28, <1>29, <1>30 DEF Next, Proceed,
     Background, Request

\* The other variables keep their types.
LEMMA TypedKept == IInv /\ [Next]_vars => Typed'
<1> SUFFICES ASSUME CallsTyped, Typed, [Next]_vars PROVE Typed'
  BY DEF IInv
<1> USE BackendAssumption DEF CallsTyped, Typed
<1>1. ASSUME NEW c \in Callers, LockForWork(c) PROVE Typed'
  BY <1>1 DEF LockForWork, At, CanLock, NewHandler, GoTo, Return, Idle, Doing,
     collection, aborting, mediaSync, remote, backup
<1>2. ASSUME NEW c \in Callers, EndWork(c) PROVE Typed'
  BY <1>2 DEF EndWork, At, TakesAbort, Return, Idle, Doing, collection,
     aborting, mediaSync, remote, backup
<1>3. ASSUME NEW c \in Callers, EndLogin(c) PROVE Typed'
  BY <1>3 DEF EndLogin, At, DropGuard, Return, Idle, Doing, collection,
     aborting, mediaSync, remote, backup
<1>4. ASSUME NEW c \in Callers, LockForSync(c) PROVE Typed'
  BY <1>4 DEF LockForSync, At, CanLock, NewHandler, DropGuard, GoTo, Return,
     Idle, Doing, collection, aborting, mediaSync, remote, backup
<1>5. ASSUME NEW c \in Callers, Compare(c) PROVE Typed'
  BY <1>5 DEF Compare, At, DropGuard, GoTo, Return, Idle, Doing, collection,
     aborting, mediaSync, remote, backup
<1>6. ASSUME NEW c \in Callers, Exchange(c) PROVE Typed'
  BY <1>6 DEF Exchange, At, GoTo, collection, aborting, mediaSync, remote,
     backup
<1>7. ASSUME NEW c \in Callers, BreakSync(c) PROVE Typed'
  BY <1>7 DEF BreakSync, At, TakesAbort, DropGuard, Return, Idle, Doing,
     collection, aborting, mediaSync, remote, backup
<1>8. ASSUME NEW c \in Callers, MediaAfterSync(c) PROVE Typed'
  BY <1>8 DEF MediaAfterSync, At, MayStartMedia, StartMedia, GoTo, collection,
     aborting, mediaSync, remote, backup
<1>9. ASSUME NEW c \in Callers, RecordSync(c) PROVE Typed'
  BY <1>9 DEF RecordSync, At, DropGuard, Return, Idle, Doing, collection,
     aborting, mediaSync, remote, backup
<1>10. ASSUME NEW c \in Callers, Look(c) PROVE Typed'
  BY <1>10 DEF Look, Ask, GoTo, collection, aborting, mediaSync, remote, backup
<1>11. ASSUME NEW c \in Callers, Wait(c) PROVE Typed'
  BY <1>11 DEF Wait, Ask, GoTo, collection, aborting, mediaSync, remote, backup
<1>12. ASSUME NEW c \in Callers, TakeCollection(c) PROVE Typed'
  BY <1>12 DEF TakeCollection, At, CanLock, NewHandler, GoTo, Return, Idle,
     Doing, collection, aborting, mediaSync, remote, backup
<1>13. ASSUME NEW c \in Callers, EndFullSync(c) PROVE Typed'
  <2>1. /\ open' \in BOOLEAN /\ locked' = Nobody /\ handle' = Nobody
        /\ aborted' \subseteq aborted
        /\ wantAbort' \in BOOLEAN
        /\ UNCHANGED <<trx, poisoned, asked, now, backup, calls>>
    BY <1>13 DEF EndFullSync, DropGuard, TakesAbort
  <2>2. MayStartMedia \/ UNCHANGED mediaSync
    BY <1>13 DEF EndFullSync
  <2>3. /\ media' \in {"none", "spawned", "waiting", "running", "ended"}
        /\ mediaAbort' = mediaAbort /\ started' \in Nat /\ unopened' \in Nat
    BY <2>2 DEF MayStartMedia, StartMedia, mediaSync
  <2>4. recorded' \in Nat /\ status' \in [time : Int, seen : Nat]
    BY <1>13 DEF EndFullSync, remote
  <2> QED
    BY <2>1, <2>3, <2>4 DEF backup
<1>14. ASSUME NEW c \in Callers, StatusOffline(c) PROVE Typed'
  BY <1>14 DEF StatusOffline, At, CanLock, Return, Idle, Doing, collection,
     aborting, mediaSync, remote, backup
<1>15. ASSUME NEW c \in Callers, StatusLocal(c) PROVE Typed'
  BY <1>15 DEF StatusLocal, CanLock, GoTo, Return, Idle, Doing, collection,
     aborting, mediaSync, remote, backup
<1>16. ASSUME NEW c \in Callers, StatusAnswer(c) PROVE Typed'
  <2>1. CASE UNCHANGED status
    BY <1>16, <2>1 DEF StatusAnswer, collection, aborting, mediaSync, backup
  <2>2. CASE status' = [time |-> call[c].time, seen |-> call[c].seen]
    BY <1>16, <2>2 DEF StatusAnswer, Call, collection, aborting, mediaSync,
       backup
  <2> QED
    BY <1>16, <2>1, <2>2 DEF StatusAnswer
<1>17. ASSUME NEW c \in Callers, LockForBackup(c) PROVE Typed'
  BY <1>17 DEF LockForBackup, At, CanLock, GoTo, Return, Idle, Doing,
     collection, aborting, mediaSync, remote, backup
<1>18. ASSUME NEW c \in Callers, LockTask(c) PROVE Typed'
  BY <1>18 DEF LockTask, GoTo, collection, aborting, mediaSync, remote, backup
<1>19. ASSUME NEW c \in Callers, JoinPrevious(c) PROVE Typed'
  <2>1. /\ backupLocked' \in {Nobody, backupLocked}
        /\ locked' \in {Nobody, locked}
        /\ UNCHANGED <<open, trx, poisoned, aborting, mediaSync, now, remote,
                       calls>>
    BY <1>19 DEF JoinPrevious, Unlock
  <2> QED
    BY <2>1 DEF aborting, mediaSync, remote
<1>20. ASSUME NEW c \in Callers, JoinOwn(c) PROVE Typed'
  BY <1>20 DEF JoinOwn, Return, Idle, Doing, collection, aborting, mediaSync,
     remote, backup
<1>21. ASSUME NEW c \in Callers, Panic(c) PROVE Typed'
  BY <1>21 DEF Panic, DropGuard, Return, Idle, Doing, collection, aborting,
     mediaSync, remote, backup
<1>22. ASSUME NEW c \in Callers, StartWork(c) PROVE Typed'
  BY <1>22 DEF StartWork, Begin, Idle, Doing, collection, aborting, mediaSync,
     remote, backup
<1>23. ASSUME NEW c \in Callers, StartSync(c) PROVE Typed'
  BY <1>23 DEF StartSync, Begin, Idle, Doing, collection, aborting, mediaSync,
     remote, backup
<1>24. ASSUME NEW c \in Callers, StartClosing(c) PROVE Typed'
  BY <1>24 DEF StartClosing, Begin, Idle, Doing, collection, aborting,
     mediaSync, remote, backup
<1>25. ASSUME NEW c \in Callers, StartStatus(c) PROVE Typed'
  BY <1>25 DEF StartStatus, Begin, Idle, Doing, collection, aborting, mediaSync,
     remote, backup
<1>26. ASSUME NEW c \in Callers, StartBackup(c) PROVE Typed'
  BY <1>26 DEF StartBackup, Begin, Idle, Doing, collection, aborting, mediaSync,
     remote, backup
<1>27. ASSUME NEW c \in Callers, AwaitBackup(c) PROVE Typed'
  BY <1>27 DEF AwaitBackup, Begin, Idle, Doing, collection, aborting, mediaSync,
     remote, backup
\* The other steps leave alone what this is about.
<1>28. CASE EndBackup \/ UNCHANGED vars
  BY <1>28 DEF EndBackup, vars, collection, aborting, mediaSync, remote, backup
<1>29. CASE RegisterMedia
  BY <1>29 DEF RegisterMedia, collection, aborting, mediaSync, remote, backup
<1>30. CASE OpenMedia
  <2>1. /\ media' \in {"running", "ended"} /\ poisoned' \in BOOLEAN /\ wantAbort' \in BOOLEAN
        /\ asked' \subseteq asked /\ unopened' \in {unopened, started}
        /\ UNCHANGED <<open, trx, locked, call, handle, aborted, mediaAbort, started,
                       now, remote, backup, calls>>
    BY <1>30 DEF OpenMedia, NewHandler
  <2> QED BY <2>1 DEF remote, backup
<1>31. CASE EndMedia
  BY <1>31 DEF EndMedia, TakesAbort, collection, aborting, mediaSync, remote,
     backup
<1>32. CASE AbortSync
  BY <1>32 DEF AbortSync, collection, aborting, mediaSync, remote, backup
<1>33. CASE SetWantsAbort
  BY <1>33 DEF SetWantsAbort, Ask, collection, aborting, mediaSync, remote,
     backup
<1>34. CASE OpenCollection
  BY <1>34 DEF OpenCollection, CanLock, collection, aborting, mediaSync, remote,
     backup
<1>35. CASE SyncMedia
  BY <1>35 DEF SyncMedia, StartMedia, collection, aborting, mediaSync, remote,
     backup
<1>36. CASE MediaSyncStatus
  BY <1>36 DEF MediaSyncStatus, collection, aborting, mediaSync, remote, backup
<1>37. CASE AbortMediaSync
  BY <1>37 DEF AbortMediaSync, collection, aborting, mediaSync, remote, backup
<1>38. CASE Tick
  BY <1>38 DEF Tick, collection, aborting, mediaSync, remote, backup
<1> QED
  BY <1>1, <1>2, <1>3, <1>4, <1>5, <1>6, <1>7, <1>8, <1>9, <1>10, <1>11, <1>12,
     <1>13, <1>14, <1>15, <1>16, <1>17, <1>18, <1>19, <1>20, <1>21, <1>22,
     <1>23, <1>24, <1>25, <1>26, <1>27, <1>28, <1>29, <1>30, <1>31, <1>32,
     <1>33, <1>34, <1>35, <1>36, <1>37, <1>38 DEF Next, Proceed, Background,
     Request

\* The task and the errors reported are of backups that were begun.
LEMMA BackupsTypedKept == IInv /\ [Next]_vars => BackupsTyped'
<1> SUFFICES ASSUME BackupsTyped, [Next]_vars PROVE BackupsTyped'
  BY DEF IInv
<1> USE BackendAssumption DEF BackupsTyped
<1>1. ASSUME NEW c \in Callers, LockForWork(c) PROVE BackupsTyped'
  BY <1>1 DEF LockForWork, At, CanLock, NewHandler, backup
<1>2. ASSUME NEW c \in Callers, EndWork(c) PROVE BackupsTyped'
  BY <1>2 DEF EndWork, At, TakesAbort, backup
<1>3. ASSUME NEW c \in Callers, EndLogin(c) PROVE BackupsTyped'
  BY <1>3 DEF EndLogin, At, DropGuard, backup
<1>4. ASSUME NEW c \in Callers, LockForSync(c) PROVE BackupsTyped'
  BY <1>4 DEF LockForSync, At, CanLock, NewHandler, DropGuard, backup
<1>5. ASSUME NEW c \in Callers, Compare(c) PROVE BackupsTyped'
  BY <1>5 DEF Compare, At, DropGuard, backup
<1>6. ASSUME NEW c \in Callers, Exchange(c) PROVE BackupsTyped'
  BY <1>6 DEF Exchange, At, backup
<1>7. ASSUME NEW c \in Callers, BreakSync(c) PROVE BackupsTyped'
  BY <1>7 DEF BreakSync, At, TakesAbort, DropGuard, backup
<1>8. ASSUME NEW c \in Callers, MediaAfterSync(c) PROVE BackupsTyped'
  BY <1>8 DEF MediaAfterSync, At, MayStartMedia, StartMedia, backup
<1>9. ASSUME NEW c \in Callers, RecordSync(c) PROVE BackupsTyped'
  BY <1>9 DEF RecordSync, At, DropGuard, backup
<1>10. ASSUME NEW c \in Callers, Look(c) PROVE BackupsTyped'
  BY <1>10 DEF Look, Ask, backup
<1>11. ASSUME NEW c \in Callers, Wait(c) PROVE BackupsTyped'
  BY <1>11 DEF Wait, Ask, backup
<1>12. ASSUME NEW c \in Callers, TakeCollection(c) PROVE BackupsTyped'
  BY <1>12 DEF TakeCollection, At, CanLock, NewHandler, backup
<1>13. ASSUME NEW c \in Callers, EndFullSync(c) PROVE BackupsTyped'
  BY <1>13 DEF EndFullSync, At, MayStartMedia, StartMedia, TakesAbort,
     DropGuard, backup
<1>14. ASSUME NEW c \in Callers, StatusOffline(c) PROVE BackupsTyped'
  BY <1>14 DEF StatusOffline, At, CanLock, backup
<1>15. ASSUME NEW c \in Callers, StatusLocal(c) PROVE BackupsTyped'
  BY <1>15 DEF StatusLocal, CanLock, backup
<1>16. ASSUME NEW c \in Callers, StatusAnswer(c) PROVE BackupsTyped'
  BY <1>16 DEF StatusAnswer, At, IsStale, backup
<1>17. ASSUME NEW c \in Callers, LockForBackup(c) PROVE BackupsTyped'
  BY <1>17 DEF LockForBackup, At, CanLock, backup
<1>18. ASSUME NEW c \in Callers, LockTask(c) PROVE BackupsTyped'
  BY <1>18 DEF LockTask, backup
<1>19. ASSUME NEW c \in Callers, JoinPrevious(c) PROVE BackupsTyped'
  <2>1. /\ reported' = reported \cup Failed(task)
        /\ Failed(task) \subseteq 1..Len(backups)
    BY <1>19 DEF JoinPrevious, Failed
  <2>2. reported' \subseteq 1..Len(backups)
    BY <2>1
  <2>3. CASE backups' = backups /\ task' = 0
    BY <2>2, <2>3
  <2>4. CASE backups' = Append(backups, "running") /\ task' \in {0, Len(backups')}
    <3>1. /\ backups' \in Seq({"running", "written", "failed"})
          /\ Len(backups') = Len(backups) + 1 /\ Len(backups) \in Nat
      BY <2>4
    <3>2. reported' \subseteq 1..Len(backups')
      BY <2>2, <3>1
    <3>3. task' \in 0..Len(backups')
      BY <2>4, <3>1
    <3> QED
      BY <3>1, <3>2, <3>3
  <2> QED
    BY <1>19, <2>3, <2>4 DEF JoinPrevious
<1>20. ASSUME NEW c \in Callers, JoinOwn(c) PROVE BackupsTyped'
  <2>1. /\ reported' = reported \cup Failed(Len(backups))
        /\ Failed(Len(backups)) \subseteq 1..Len(backups)
    BY <1>20 DEF JoinOwn, Failed
  <2> QED
    BY <1>20, <2>1 DEF JoinOwn
<1>21. ASSUME NEW c \in Callers, Panic(c) PROVE BackupsTyped'
  BY <1>21 DEF Panic, DropGuard, backup
<1>22. ASSUME NEW c \in Callers, StartWork(c) PROVE BackupsTyped'
  BY <1>22 DEF StartWork, Begin, Idle, Doing, backup
<1>23. ASSUME NEW c \in Callers, StartSync(c) PROVE BackupsTyped'
  BY <1>23 DEF StartSync, Begin, Idle, Doing, backup
<1>24. ASSUME NEW c \in Callers, StartClosing(c) PROVE BackupsTyped'
  BY <1>24 DEF StartClosing, Begin, Idle, Doing, backup
<1>25. ASSUME NEW c \in Callers, StartStatus(c) PROVE BackupsTyped'
  BY <1>25 DEF StartStatus, Begin, Idle, Doing, backup
<1>26. ASSUME NEW c \in Callers, StartBackup(c) PROVE BackupsTyped'
  BY <1>26 DEF StartBackup, Begin, Idle, Doing, backup
<1>27. ASSUME NEW c \in Callers, AwaitBackup(c) PROVE BackupsTyped'
  BY <1>27 DEF AwaitBackup, Begin, Idle, Doing, backup
\* The other steps leave alone what this is about.
<1>28. CASE RegisterMedia \/ OpenMedia \/ EndMedia \/ AbortSync \/ SetWantsAbort \/
            OpenCollection \/ SyncMedia \/ MediaSyncStatus \/ AbortMediaSync \/
            Tick \/ UNCHANGED vars
  BY <1>28 DEF RegisterMedia, OpenMedia, EndMedia, AbortSync, SetWantsAbort,
     OpenCollection, SyncMedia, MediaSyncStatus, AbortMediaSync, Tick, vars,
     backup
<1>29. CASE EndBackup
  BY <1>29 DEF EndBackup, Running, backup
<1> QED
  BY <1>1, <1>2, <1>3, <1>4, <1>5, <1>6, <1>7, <1>8, <1>9, <1>10, <1>11, <1>12,
     <1>13, <1>14, <1>15, <1>16, <1>17, <1>18, <1>19, <1>20, <1>21, <1>22,
     <1>23, <1>24, <1>25, <1>26, <1>27, <1>28, <1>29 DEF Next, Proceed,
     Background, Request

\* Stages stay with the calls they belong to.
LEMMA PlacesKept == IInv /\ [Next]_vars => Places'
<1> SUFFICES ASSUME CallsTyped, Typed, Places, [Next]_vars PROVE Places'
  BY DEF IInv
<1> USE BackendAssumption DEF CallsTyped, Typed, Places, Call, Closing
<1>1. ASSUME NEW c \in Callers, LockForWork(c) PROVE Places'
  BY <1>1 DEF LockForWork, At, CanLock, NewHandler, GoTo, Return, Idle, Doing,
     mediaSync
<1>2. ASSUME NEW c \in Callers, EndWork(c) PROVE Places'
  BY <1>2 DEF EndWork, At, TakesAbort, Return, Idle, Doing, mediaSync
<1>3. ASSUME NEW c \in Callers, EndLogin(c) PROVE Places'
  BY <1>3 DEF EndLogin, At, DropGuard, Return, Idle, Doing, mediaSync
<1>4. ASSUME NEW c \in Callers, LockForSync(c) PROVE Places'
  BY <1>4 DEF LockForSync, At, CanLock, NewHandler, DropGuard, GoTo, Return,
     Idle, Doing, mediaSync
<1>5. ASSUME NEW c \in Callers, Compare(c) PROVE Places'
  BY <1>5 DEF Compare, At, DropGuard, GoTo, Return, Idle, Doing, mediaSync
<1>6. ASSUME NEW c \in Callers, Exchange(c) PROVE Places'
  BY <1>6 DEF Exchange, At, GoTo, mediaSync
<1>7. ASSUME NEW c \in Callers, BreakSync(c) PROVE Places'
  BY <1>7 DEF BreakSync, At, TakesAbort, DropGuard, Return, Idle, Doing,
     mediaSync
<1>8. ASSUME NEW c \in Callers, MediaAfterSync(c) PROVE Places'
  BY <1>8 DEF MediaAfterSync, At, MayStartMedia, StartMedia, GoTo, mediaSync
<1>9. ASSUME NEW c \in Callers, RecordSync(c) PROVE Places'
  BY <1>9 DEF RecordSync, At, DropGuard, Return, Idle, Doing, mediaSync
<1>10. ASSUME NEW c \in Callers, Look(c) PROVE Places'
  BY <1>10 DEF Look, Ask, GoTo, mediaSync
<1>11. ASSUME NEW c \in Callers, Wait(c) PROVE Places'
  BY <1>11 DEF Wait, Ask, GoTo, mediaSync
<1>12. ASSUME NEW c \in Callers, TakeCollection(c) PROVE Places'
  BY <1>12 DEF TakeCollection, At, CanLock, NewHandler, GoTo, Return, Idle,
     Doing, mediaSync
<1>13. ASSUME NEW c \in Callers, EndFullSync(c) PROVE Places'
  BY <1>13 DEF EndFullSync, At, MayStartMedia, StartMedia, TakesAbort,
     DropGuard, Return, Idle, Doing, mediaSync
<1>14. ASSUME NEW c \in Callers, StatusOffline(c) PROVE Places'
  BY <1>14 DEF StatusOffline, At, CanLock, Return, Idle, Doing, mediaSync
<1>15. ASSUME NEW c \in Callers, StatusLocal(c) PROVE Places'
  BY <1>15 DEF StatusLocal, CanLock, GoTo, Return, Idle, Doing, mediaSync
<1>16. ASSUME NEW c \in Callers, StatusAnswer(c) PROVE Places'
  BY <1>16 DEF StatusAnswer, At, IsStale, Return, Idle, Doing, mediaSync
<1>17. ASSUME NEW c \in Callers, LockForBackup(c) PROVE Places'
  BY <1>17 DEF LockForBackup, At, CanLock, GoTo, Return, Idle, Doing, mediaSync
<1>18. ASSUME NEW c \in Callers, LockTask(c) PROVE Places'
  BY <1>18 DEF LockTask, GoTo, mediaSync
<1>19. ASSUME NEW c \in Callers, JoinPrevious(c) PROVE Places'
  BY <1>19, JoinPreviousMoves DEF Unlock, GoTo, Return, Idle, Doing, mediaSync
<1>20. ASSUME NEW c \in Callers, JoinOwn(c) PROVE Places'
  BY <1>20 DEF JoinOwn, Return, Idle, Doing, mediaSync
<1>21. ASSUME NEW c \in Callers, Panic(c) PROVE Places'
  BY <1>21 DEF Panic, DropGuard, Return, Idle, Doing, mediaSync
<1>22. ASSUME NEW c \in Callers, StartWork(c) PROVE Places'
  BY <1>22 DEF StartWork, Begin, Idle, Doing, mediaSync
<1>23. ASSUME NEW c \in Callers, StartSync(c) PROVE Places'
  BY <1>23 DEF StartSync, Begin, Idle, Doing, mediaSync
<1>24. ASSUME NEW c \in Callers, StartClosing(c) PROVE Places'
  BY <1>24 DEF StartClosing, Begin, Idle, Doing, mediaSync
<1>25. ASSUME NEW c \in Callers, StartStatus(c) PROVE Places'
  BY <1>25 DEF StartStatus, Begin, Idle, Doing, mediaSync
<1>26. ASSUME NEW c \in Callers, StartBackup(c) PROVE Places'
  BY <1>26 DEF StartBackup, Begin, Idle, Doing, mediaSync
<1>27. ASSUME NEW c \in Callers, AwaitBackup(c) PROVE Places'
  BY <1>27 DEF AwaitBackup, Begin, Idle, Doing, mediaSync
\* The other steps leave alone what this is about.
<1>28. CASE RegisterMedia \/ OpenMedia \/ EndMedia \/ EndBackup \/ AbortSync \/
            SetWantsAbort \/ OpenCollection \/ MediaSyncStatus \/ AbortMediaSync \/
            UNCHANGED vars
  BY <1>28 DEF RegisterMedia, OpenMedia, EndMedia, EndBackup, AbortSync,
     SetWantsAbort, OpenCollection, MediaSyncStatus, AbortMediaSync, vars,
     mediaSync
<1>29. CASE SyncMedia
  BY <1>29 DEF SyncMedia, StartMedia, mediaSync
<1>30. CASE Tick
  BY <1>30 DEF Tick, mediaSync
<1> QED
  BY <1>1, <1>2, <1>3, <1>4, <1>5, <1>6, <1>7, <1>8, <1>9, <1>10, <1>11, <1>12,
     <1>13, <1>14, <1>15, <1>16, <1>17, <1>18, <1>19, <1>20, <1>21, <1>22,
     <1>23, <1>24, <1>25, <1>26, <1>27, <1>28, <1>29, <1>30 DEF Next, Proceed,
     Background, Request

\* The mutex of the collection stays with those that need it.
LEMMA LocksKept == IInv /\ [Next]_vars => Locks'
<1> SUFFICES ASSUME CallsTyped, Places, Locks, [Next]_vars PROVE Locks'
  BY DEF IInv
<1> USE BackendAssumption DEF CallsTyped, Places, Locks, Call, Holding
<1>1. ASSUME NEW c \in Callers, LockForWork(c) PROVE Locks'
  BY <1>1 DEF LockForWork, At, CanLock, NewHandler, GoTo, Return, Idle, Doing,
     collection
<1>2. ASSUME NEW c \in Callers, EndWork(c) PROVE Locks'
  BY <1>2 DEF EndWork, At, TakesAbort, Return, Idle, Doing, collection
<1>3. ASSUME NEW c \in Callers, EndLogin(c) PROVE Locks'
  BY <1>3 DEF EndLogin, At, DropGuard, Return, Idle, Doing, collection
<1>4. ASSUME NEW c \in Callers, LockForSync(c) PROVE Locks'
  BY <1>4 DEF LockForSync, At, CanLock, NewHandler, DropGuard, GoTo, Return,
     Idle, Doing, collection
<1>5. ASSUME NEW c \in Callers, Compare(c) PROVE Locks'
  BY <1>5 DEF Compare, At, DropGuard, GoTo, Return, Idle, Doing, collection
<1>6. ASSUME NEW c \in Callers, Exchange(c) PROVE Locks'
  BY <1>6 DEF Exchange, At, GoTo, collection
<1>7. ASSUME NEW c \in Callers, BreakSync(c) PROVE Locks'
  BY <1>7 DEF BreakSync, At, TakesAbort, DropGuard, Return, Idle, Doing,
     collection
<1>8. ASSUME NEW c \in Callers, MediaAfterSync(c) PROVE Locks'
  BY <1>8 DEF MediaAfterSync, At, MayStartMedia, StartMedia, GoTo, collection
<1>9. ASSUME NEW c \in Callers, RecordSync(c) PROVE Locks'
  BY <1>9 DEF RecordSync, At, DropGuard, Return, Idle, Doing, collection
<1>10. ASSUME NEW c \in Callers, Look(c) PROVE Locks'
  BY <1>10 DEF Look, Ask, GoTo, collection
<1>11. ASSUME NEW c \in Callers, Wait(c) PROVE Locks'
  BY <1>11 DEF Wait, Ask, GoTo, collection
<1>12. ASSUME NEW c \in Callers, TakeCollection(c) PROVE Locks'
  BY <1>12 DEF TakeCollection, At, CanLock, NewHandler, GoTo, Return, Idle,
     Doing, collection
<1>13. ASSUME NEW c \in Callers, EndFullSync(c) PROVE Locks'
  BY <1>13 DEF EndFullSync, At, MayStartMedia, StartMedia, TakesAbort,
     DropGuard, Return, Idle, Doing, collection
<1>14. ASSUME NEW c \in Callers, StatusOffline(c) PROVE Locks'
  BY <1>14 DEF StatusOffline, At, CanLock, Return, Idle, Doing, collection
<1>15. ASSUME NEW c \in Callers, StatusLocal(c) PROVE Locks'
  BY <1>15 DEF StatusLocal, CanLock, GoTo, Return, Idle, Doing, collection
<1>16. ASSUME NEW c \in Callers, StatusAnswer(c) PROVE Locks'
  BY <1>16 DEF StatusAnswer, At, IsStale, Return, Idle, Doing, collection
<1>17. ASSUME NEW c \in Callers, LockForBackup(c) PROVE Locks'
  BY <1>17 DEF LockForBackup, At, CanLock, GoTo, Return, Idle, Doing, collection
<1>18. ASSUME NEW c \in Callers, LockTask(c) PROVE Locks'
  BY <1>18 DEF LockTask, GoTo, collection
<1>19. ASSUME NEW c \in Callers, JoinPrevious(c) PROVE Locks'
  BY <1>19, JoinPreviousMoves DEF Unlock, GoTo, Return, Idle, Doing, collection
<1>20. ASSUME NEW c \in Callers, JoinOwn(c) PROVE Locks'
  BY <1>20 DEF JoinOwn, Return, Idle, Doing, collection
<1>21. ASSUME NEW c \in Callers, Panic(c) PROVE Locks'
  BY <1>21 DEF Panic, DropGuard, Return, Idle, Doing, collection
<1>22. ASSUME NEW c \in Callers, StartWork(c) PROVE Locks'
  BY <1>22 DEF StartWork, Begin, Idle, Doing, collection
<1>23. ASSUME NEW c \in Callers, StartSync(c) PROVE Locks'
  BY <1>23 DEF StartSync, Begin, Idle, Doing, collection
<1>24. ASSUME NEW c \in Callers, StartClosing(c) PROVE Locks'
  BY <1>24 DEF StartClosing, Begin, Idle, Doing, collection
<1>25. ASSUME NEW c \in Callers, StartStatus(c) PROVE Locks'
  BY <1>25 DEF StartStatus, Begin, Idle, Doing, collection
<1>26. ASSUME NEW c \in Callers, StartBackup(c) PROVE Locks'
  BY <1>26 DEF StartBackup, Begin, Idle, Doing, collection
<1>27. ASSUME NEW c \in Callers, AwaitBackup(c) PROVE Locks'
  BY <1>27 DEF AwaitBackup, Begin, Idle, Doing, collection
\* The other steps leave alone what this is about.
<1>28. CASE RegisterMedia \/ OpenMedia \/ EndMedia \/ EndBackup \/ AbortSync \/
            SetWantsAbort \/ OpenCollection \/ SyncMedia \/ MediaSyncStatus \/
            AbortMediaSync \/ Tick \/ UNCHANGED vars
  BY <1>28 DEF RegisterMedia, OpenMedia, EndMedia, EndBackup, AbortSync,
     SetWantsAbort, OpenCollection, SyncMedia, MediaSyncStatus, AbortMediaSync,
     Tick, vars, collection
<1> QED
  BY <1>1, <1>2, <1>3, <1>4, <1>5, <1>6, <1>7, <1>8, <1>9, <1>10, <1>11, <1>12,
     <1>13, <1>14, <1>15, <1>16, <1>17, <1>18, <1>19, <1>20, <1>21, <1>22,
     <1>23, <1>24, <1>25, <1>26, <1>27, <1>28 DEF Next, Proceed, Background,
     Request

\* The abort handle belongs to a call that can be aborted.
LEMMA HandlesKept == IInv /\ [Next]_vars => Handles'
<1> SUFFICES ASSUME CallsTyped, Places, Handles, [Next]_vars PROVE Handles'
  BY DEF IInv
<1> USE BackendAssumption DEF CallsTyped, Places, Handles, Call
<1>1. ASSUME NEW c \in Callers, LockForWork(c) PROVE Handles'
  BY <1>1 DEF LockForWork, At, CanLock, NewHandler, GoTo, Return, Idle, Doing,
     aborting
<1>2. ASSUME NEW c \in Callers, EndWork(c) PROVE Handles'
  BY <1>2 DEF EndWork, At, TakesAbort, Return, Idle, Doing, aborting
<1>3. ASSUME NEW c \in Callers, EndLogin(c) PROVE Handles'
  BY <1>3 DEF EndLogin, At, DropGuard, Return, Idle, Doing, aborting
<1>4. ASSUME NEW c \in Callers, LockForSync(c) PROVE Handles'
  BY <1>4 DEF LockForSync, At, CanLock, NewHandler, DropGuard, GoTo, Return,
     Idle, Doing, aborting
<1>5. ASSUME NEW c \in Callers, Compare(c) PROVE Handles'
  BY <1>5 DEF Compare, At, DropGuard, GoTo, Return, Idle, Doing, aborting
<1>6. ASSUME NEW c \in Callers, Exchange(c) PROVE Handles'
  BY <1>6 DEF Exchange, At, GoTo, aborting
<1>7. ASSUME NEW c \in Callers, BreakSync(c) PROVE Handles'
  BY <1>7 DEF BreakSync, At, TakesAbort, DropGuard, Return, Idle, Doing,
     aborting
<1>8. ASSUME NEW c \in Callers, MediaAfterSync(c) PROVE Handles'
  BY <1>8 DEF MediaAfterSync, At, MayStartMedia, StartMedia, GoTo, aborting
<1>9. ASSUME NEW c \in Callers, RecordSync(c) PROVE Handles'
  BY <1>9 DEF RecordSync, At, DropGuard, Return, Idle, Doing, aborting
<1>10. ASSUME NEW c \in Callers, Look(c) PROVE Handles'
  BY <1>10 DEF Look, Ask, GoTo, aborting
<1>11. ASSUME NEW c \in Callers, Wait(c) PROVE Handles'
  BY <1>11 DEF Wait, Ask, GoTo, aborting
<1>12. ASSUME NEW c \in Callers, TakeCollection(c) PROVE Handles'
  BY <1>12 DEF TakeCollection, At, CanLock, NewHandler, GoTo, Return, Idle,
     Doing, aborting
<1>13. ASSUME NEW c \in Callers, EndFullSync(c) PROVE Handles'
  BY <1>13 DEF EndFullSync, At, MayStartMedia, StartMedia, TakesAbort,
     DropGuard, Return, Idle, Doing, aborting
<1>14. ASSUME NEW c \in Callers, StatusOffline(c) PROVE Handles'
  BY <1>14 DEF StatusOffline, At, CanLock, Return, Idle, Doing, aborting
<1>15. ASSUME NEW c \in Callers, StatusLocal(c) PROVE Handles'
  <2>1. /\ call[c].kind = "status"
        /\ GoTo(c, "network") \/ Return(c)
        /\ UNCHANGED handle
    BY <1>15 DEF StatusLocal, aborting
  <2> QED
    BY <2>1 DEF GoTo, Return
<1>16. ASSUME NEW c \in Callers, StatusAnswer(c) PROVE Handles'
  BY <1>16 DEF StatusAnswer, At, IsStale, Return, Idle, Doing, aborting
<1>17. ASSUME NEW c \in Callers, LockForBackup(c) PROVE Handles'
  BY <1>17 DEF LockForBackup, At, CanLock, GoTo, Return, Idle, Doing, aborting
<1>18. ASSUME NEW c \in Callers, LockTask(c) PROVE Handles'
  BY <1>18 DEF LockTask, GoTo, aborting
<1>19. ASSUME NEW c \in Callers, JoinPrevious(c) PROVE Handles'
  BY <1>19, JoinPreviousMoves DEF Unlock, GoTo, Return, Idle, Doing, aborting
<1>20. ASSUME NEW c \in Callers, JoinOwn(c) PROVE Handles'
  <2>1. call[c].kind \in {"backup", "await"} /\ Return(c) /\ UNCHANGED handle
    BY <1>20 DEF JoinOwn, aborting
  <2> QED
    BY <2>1 DEF Return
<1>21. ASSUME NEW c \in Callers, Panic(c) PROVE Handles'
  <2>1. CASE call[c].kind = "sync"
    BY <1>21, <2>1 DEF Panic, DropGuard
  <2>2. CASE call[c].kind # "sync"
    <3>1. call[c].kind \notin {"sync", "login"} /\ call[c].at # "working"
      BY <1>21, <2>2 DEF Panic
    <3>2. Return(c) /\ UNCHANGED handle
      BY <1>21, <2>2 DEF Panic
    <3> QED
      BY <3>1, <3>2 DEF Return
  <2> QED
    BY <2>1, <2>2
<1>22. ASSUME NEW c \in Callers, StartWork(c) PROVE Handles'
  BY <1>22 DEF StartWork, Begin, Idle, Doing, aborting
<1>23. ASSUME NEW c \in Callers, StartSync(c) PROVE Handles'
  BY <1>23 DEF StartSync, Begin, Idle, Doing, aborting
<1>24. ASSUME NEW c \in Callers, StartClosing(c) PROVE Handles'
  BY <1>24 DEF StartClosing, Begin, Idle, Doing, aborting
<1>25. ASSUME NEW c \in Callers, StartStatus(c) PROVE Handles'
  BY <1>25 DEF StartStatus, Begin, Idle, Doing, aborting
<1>26. ASSUME NEW c \in Callers, StartBackup(c) PROVE Handles'
  BY <1>26 DEF StartBackup, Begin, Idle, Doing, aborting
<1>27. ASSUME NEW c \in Callers, AwaitBackup(c) PROVE Handles'
  BY <1>27 DEF AwaitBackup, Begin, Idle, Doing, aborting
\* The other steps leave alone what this is about.
<1>28. CASE RegisterMedia \/ OpenMedia \/ EndMedia \/ EndBackup \/ SetWantsAbort \/
            OpenCollection \/ SyncMedia \/ MediaSyncStatus \/ AbortMediaSync \/
            Tick \/ UNCHANGED vars
  BY <1>28 DEF RegisterMedia, OpenMedia, EndMedia, EndBackup, SetWantsAbort,
     OpenCollection, SyncMedia, MediaSyncStatus, AbortMediaSync, Tick, vars,
     aborting
<1>29. CASE AbortSync
  BY <1>29 DEF AbortSync, aborting
<1> QED
  BY <1>1, <1>2, <1>3, <1>4, <1>5, <1>6, <1>7, <1>8, <1>9, <1>10, <1>11, <1>12,
     <1>13, <1>14, <1>15, <1>16, <1>17, <1>18, <1>19, <1>20, <1>21, <1>22,
     <1>23, <1>24, <1>25, <1>26, <1>27, <1>28, <1>29 DEF Next, Proceed,
     Background, Request

\* A request to abort is forgotten by the operation that begins, and reaches
\* all others.
LEMMA CancelsKept == IInv /\ [Next]_vars => Cancels'
<1> SUFFICES ASSUME Cancels, [Next]_vars PROVE Cancels'
  BY DEF IInv
<1> USE BackendAssumption DEF Cancels
<1>1. ASSUME NEW c \in Callers, LockForWork(c) PROVE Cancels'
  BY <1>1 DEF LockForWork, At, CanLock, NewHandler, aborting
<1>2. ASSUME NEW c \in Callers, EndWork(c) PROVE Cancels'
  BY <1>2 DEF EndWork, At, TakesAbort, aborting
<1>3. ASSUME NEW c \in Callers, EndLogin(c) PROVE Cancels'
  BY <1>3 DEF EndLogin, At, DropGuard, aborting
<1>4. ASSUME NEW c \in Callers, LockForSync(c) PROVE Cancels'
  BY <1>4 DEF LockForSync, At, CanLock, NewHandler, DropGuard, aborting
<1>5. ASSUME NEW c \in Callers, Compare(c) PROVE Cancels'
  BY <1>5 DEF Compare, At, DropGuard, aborting
<1>6. ASSUME NEW c \in Callers, Exchange(c) PROVE Cancels'
  BY <1>6 DEF Exchange, At, aborting
<1>7. ASSUME NEW c \in Callers, BreakSync(c) PROVE Cancels'
  BY <1>7 DEF BreakSync, At, TakesAbort, DropGuard, aborting
<1>8. ASSUME NEW c \in Callers, MediaAfterSync(c) PROVE Cancels'
  BY <1>8 DEF MediaAfterSync, At, MayStartMedia, StartMedia, aborting
<1>9. ASSUME NEW c \in Callers, RecordSync(c) PROVE Cancels'
  BY <1>9 DEF RecordSync, At, DropGuard, aborting
<1>10. ASSUME NEW c \in Callers, Look(c) PROVE Cancels'
  BY <1>10 DEF Look, Ask, aborting
<1>11. ASSUME NEW c \in Callers, Wait(c) PROVE Cancels'
  BY <1>11 DEF Wait, Ask, aborting
<1>12. ASSUME NEW c \in Callers, TakeCollection(c) PROVE Cancels'
  BY <1>12 DEF TakeCollection, At, CanLock, NewHandler, aborting
<1>13. ASSUME NEW c \in Callers, EndFullSync(c) PROVE Cancels'
  BY <1>13 DEF EndFullSync, At, MayStartMedia, StartMedia, TakesAbort,
     DropGuard, aborting
<1>14. ASSUME NEW c \in Callers, StatusOffline(c) PROVE Cancels'
  BY <1>14 DEF StatusOffline, At, CanLock, aborting
<1>15. ASSUME NEW c \in Callers, StatusLocal(c) PROVE Cancels'
  BY <1>15 DEF StatusLocal, CanLock, aborting
<1>16. ASSUME NEW c \in Callers, StatusAnswer(c) PROVE Cancels'
  BY <1>16 DEF StatusAnswer, At, IsStale, aborting
<1>17. ASSUME NEW c \in Callers, LockForBackup(c) PROVE Cancels'
  BY <1>17 DEF LockForBackup, At, CanLock, aborting
<1>18. ASSUME NEW c \in Callers, LockTask(c) PROVE Cancels'
  BY <1>18 DEF LockTask, aborting
<1>19. ASSUME NEW c \in Callers, JoinPrevious(c) PROVE Cancels'
  BY <1>19 DEF JoinPrevious, Unlock, aborting
<1>20. ASSUME NEW c \in Callers, JoinOwn(c) PROVE Cancels'
  BY <1>20 DEF JoinOwn, aborting
<1>21. ASSUME NEW c \in Callers, Panic(c) PROVE Cancels'
  BY <1>21 DEF Panic, DropGuard, aborting
<1>22. ASSUME NEW c \in Callers, StartWork(c) PROVE Cancels'
  BY <1>22 DEF StartWork, Begin, Idle, Doing, aborting
<1>23. ASSUME NEW c \in Callers, StartSync(c) PROVE Cancels'
  BY <1>23 DEF StartSync, Begin, Idle, Doing, aborting
<1>24. ASSUME NEW c \in Callers, StartClosing(c) PROVE Cancels'
  BY <1>24 DEF StartClosing, Begin, Idle, Doing, aborting
<1>25. ASSUME NEW c \in Callers, StartStatus(c) PROVE Cancels'
  BY <1>25 DEF StartStatus, Begin, Idle, Doing, aborting
<1>26. ASSUME NEW c \in Callers, StartBackup(c) PROVE Cancels'
  BY <1>26 DEF StartBackup, Begin, Idle, Doing, aborting
<1>27. ASSUME NEW c \in Callers, AwaitBackup(c) PROVE Cancels'
  BY <1>27 DEF AwaitBackup, Begin, Idle, Doing, aborting
\* The other steps leave alone what this is about.
<1>28. CASE RegisterMedia \/ EndBackup \/ AbortSync \/ OpenCollection \/
            SyncMedia \/ MediaSyncStatus \/ AbortMediaSync \/ Tick \/
            UNCHANGED vars
  BY <1>28 DEF RegisterMedia, EndBackup, AbortSync, OpenCollection, SyncMedia,
     MediaSyncStatus, AbortMediaSync, Tick, vars, aborting
<1>29. CASE OpenMedia
  BY <1>29 DEF OpenMedia, NewHandler, aborting
<1>30. CASE EndMedia
  BY <1>30 DEF EndMedia, TakesAbort, aborting
<1>31. CASE SetWantsAbort
  BY <1>31 DEF SetWantsAbort, Ask, aborting
<1> QED
  BY <1>1, <1>2, <1>3, <1>4, <1>5, <1>6, <1>7, <1>8, <1>9, <1>10, <1>11, <1>12,
     <1>13, <1>14, <1>15, <1>16, <1>17, <1>18, <1>19, <1>20, <1>21, <1>22,
     <1>23, <1>24, <1>25, <1>26, <1>27, <1>28, <1>29, <1>30, <1>31 DEF Next,
     Proceed, Background, Request

\* A check that began before a sync was recorded is dropped.
LEMMA StatusesKept == IInv /\ [Next]_vars => Statuses'
<1> SUFFICES ASSUME CallsTyped, Typed, Places, Statuses, [Next]_vars
      PROVE Statuses'
  BY DEF IInv
<1> USE BackendAssumption DEF CallsTyped, Typed, Places, Statuses, Call
<1>1. ASSUME NEW c \in Callers, LockForWork(c) PROVE Statuses'
  BY <1>1 DEF LockForWork, At, CanLock, NewHandler, GoTo, Return, Idle, Doing,
     remote
<1>2. ASSUME NEW c \in Callers, EndWork(c) PROVE Statuses'
  BY <1>2 DEF EndWork, At, TakesAbort, Return, Idle, Doing, remote
<1>3. ASSUME NEW c \in Callers, EndLogin(c) PROVE Statuses'
  BY <1>3 DEF EndLogin, At, DropGuard, Return, Idle, Doing, remote
<1>4. ASSUME NEW c \in Callers, LockForSync(c) PROVE Statuses'
  BY <1>4 DEF LockForSync, At, CanLock, NewHandler, DropGuard, GoTo, Return,
     Idle, Doing, remote
<1>5. ASSUME NEW c \in Callers, Compare(c) PROVE Statuses'
  BY <1>5 DEF Compare, At, DropGuard, GoTo, Return, Idle, Doing, remote
<1>6. ASSUME NEW c \in Callers, Exchange(c) PROVE Statuses'
  BY <1>6 DEF Exchange, At, GoTo, remote
<1>7. ASSUME NEW c \in Callers, BreakSync(c) PROVE Statuses'
  BY <1>7 DEF BreakSync, At, TakesAbort, DropGuard, Return, Idle, Doing, remote
<1>8. ASSUME NEW c \in Callers, MediaAfterSync(c) PROVE Statuses'
  BY <1>8 DEF MediaAfterSync, At, MayStartMedia, StartMedia, GoTo, remote
<1>9. ASSUME NEW c \in Callers, RecordSync(c) PROVE Statuses'
  BY <1>9 DEF RecordSync, At, DropGuard, Return, Idle, Doing, remote
<1>10. ASSUME NEW c \in Callers, Look(c) PROVE Statuses'
  BY <1>10 DEF Look, Ask, GoTo, remote
<1>11. ASSUME NEW c \in Callers, Wait(c) PROVE Statuses'
  BY <1>11 DEF Wait, Ask, GoTo, remote
<1>12. ASSUME NEW c \in Callers, TakeCollection(c) PROVE Statuses'
  BY <1>12 DEF TakeCollection, At, CanLock, NewHandler, GoTo, Return, Idle,
     Doing, remote
<1>13. ASSUME NEW c \in Callers, EndFullSync(c) PROVE Statuses'
  BY <1>13 DEF EndFullSync, At, MayStartMedia, StartMedia, TakesAbort,
     DropGuard, Return, Idle, Doing, remote
<1>14. ASSUME NEW c \in Callers, StatusOffline(c) PROVE Statuses'
  BY <1>14 DEF StatusOffline, At, CanLock, Return, Idle, Doing, remote
<1>15. ASSUME NEW c \in Callers, StatusLocal(c) PROVE Statuses'
  BY <1>15 DEF StatusLocal, CanLock, GoTo, Return, Idle, Doing, remote
<1>16. ASSUME NEW c \in Callers, StatusAnswer(c) PROVE Statuses'
  BY <1>16 DEF StatusAnswer, At, IsStale, Return, Idle, Doing, remote
<1>17. ASSUME NEW c \in Callers, LockForBackup(c) PROVE Statuses'
  BY <1>17 DEF LockForBackup, At, CanLock, GoTo, Return, Idle, Doing, remote
<1>18. ASSUME NEW c \in Callers, LockTask(c) PROVE Statuses'
  BY <1>18 DEF LockTask, GoTo, remote
<1>19. ASSUME NEW c \in Callers, JoinPrevious(c) PROVE Statuses'
  BY <1>19, JoinPreviousMoves DEF Unlock, GoTo, Return, Idle, Doing, remote
<1>20. ASSUME NEW c \in Callers, JoinOwn(c) PROVE Statuses'
  BY <1>20 DEF JoinOwn, Return, Idle, Doing, remote
<1>21. ASSUME NEW c \in Callers, Panic(c) PROVE Statuses'
  BY <1>21 DEF Panic, DropGuard, Return, Idle, Doing, remote
<1>22. ASSUME NEW c \in Callers, StartWork(c) PROVE Statuses'
  BY <1>22 DEF StartWork, Begin, Idle, Doing, remote
<1>23. ASSUME NEW c \in Callers, StartSync(c) PROVE Statuses'
  BY <1>23 DEF StartSync, Begin, Idle, Doing, remote
<1>24. ASSUME NEW c \in Callers, StartClosing(c) PROVE Statuses'
  BY <1>24 DEF StartClosing, Begin, Idle, Doing, remote
<1>25. ASSUME NEW c \in Callers, StartStatus(c) PROVE Statuses'
  BY <1>25 DEF StartStatus, Begin, Idle, Doing, remote
<1>26. ASSUME NEW c \in Callers, StartBackup(c) PROVE Statuses'
  BY <1>26 DEF StartBackup, Begin, Idle, Doing, remote
<1>27. ASSUME NEW c \in Callers, AwaitBackup(c) PROVE Statuses'
  BY <1>27 DEF AwaitBackup, Begin, Idle, Doing, remote
\* The other steps leave alone what this is about.
<1>28. CASE RegisterMedia \/ OpenMedia \/ EndMedia \/ EndBackup \/ AbortSync \/
            SetWantsAbort \/ OpenCollection \/ SyncMedia \/ MediaSyncStatus \/
            AbortMediaSync \/ UNCHANGED vars
  BY <1>28 DEF RegisterMedia, OpenMedia, EndMedia, EndBackup, AbortSync,
     SetWantsAbort, OpenCollection, SyncMedia, MediaSyncStatus, AbortMediaSync,
     vars, remote
<1>29. CASE Tick
  BY <1>29 DEF Tick, remote
<1> QED
  BY <1>1, <1>2, <1>3, <1>4, <1>5, <1>6, <1>7, <1>8, <1>9, <1>10, <1>11, <1>12,
     <1>13, <1>14, <1>15, <1>16, <1>17, <1>18, <1>19, <1>20, <1>21, <1>22,
     <1>23, <1>24, <1>25, <1>26, <1>27, <1>28, <1>29 DEF Next, Proceed,
     Background, Request

\* The mutex of the backup task is held while a backup is awaited.
LEMMA OwnersKept == IInv /\ [Next]_vars => Owners'
<1> SUFFICES ASSUME CallsTyped, Places, Owners, [Next]_vars PROVE Owners'
  BY DEF IInv
<1> USE BackendAssumption DEF CallsTyped, Places, Owners, Call
<1>1. ASSUME NEW c \in Callers, LockForWork(c) PROVE Owners'
  BY <1>1 DEF LockForWork, At, CanLock, NewHandler, GoTo, Return, Idle, Doing,
     backup
<1>2. ASSUME NEW c \in Callers, EndWork(c) PROVE Owners'
  BY <1>2 DEF EndWork, At, TakesAbort, Return, Idle, Doing, backup
<1>3. ASSUME NEW c \in Callers, EndLogin(c) PROVE Owners'
  BY <1>3 DEF EndLogin, At, DropGuard, Return, Idle, Doing, backup
<1>4. ASSUME NEW c \in Callers, LockForSync(c) PROVE Owners'
  BY <1>4 DEF LockForSync, At, CanLock, NewHandler, DropGuard, GoTo, Return,
     Idle, Doing, backup
<1>5. ASSUME NEW c \in Callers, Compare(c) PROVE Owners'
  BY <1>5 DEF Compare, At, DropGuard, GoTo, Return, Idle, Doing, backup
<1>6. ASSUME NEW c \in Callers, Exchange(c) PROVE Owners'
  BY <1>6 DEF Exchange, At, GoTo, backup
<1>7. ASSUME NEW c \in Callers, BreakSync(c) PROVE Owners'
  BY <1>7 DEF BreakSync, At, TakesAbort, DropGuard, Return, Idle, Doing, backup
<1>8. ASSUME NEW c \in Callers, MediaAfterSync(c) PROVE Owners'
  BY <1>8 DEF MediaAfterSync, At, MayStartMedia, StartMedia, GoTo, backup
<1>9. ASSUME NEW c \in Callers, RecordSync(c) PROVE Owners'
  BY <1>9 DEF RecordSync, At, DropGuard, Return, Idle, Doing, backup
<1>10. ASSUME NEW c \in Callers, Look(c) PROVE Owners'
  BY <1>10 DEF Look, Ask, GoTo, backup
<1>11. ASSUME NEW c \in Callers, Wait(c) PROVE Owners'
  BY <1>11 DEF Wait, Ask, GoTo, backup
<1>12. ASSUME NEW c \in Callers, TakeCollection(c) PROVE Owners'
  BY <1>12 DEF TakeCollection, At, CanLock, NewHandler, GoTo, Return, Idle,
     Doing, backup
<1>13. ASSUME NEW c \in Callers, EndFullSync(c) PROVE Owners'
  BY <1>13 DEF EndFullSync, At, MayStartMedia, StartMedia, TakesAbort,
     DropGuard, Return, Idle, Doing, backup
<1>14. ASSUME NEW c \in Callers, StatusOffline(c) PROVE Owners'
  BY <1>14 DEF StatusOffline, At, CanLock, Return, Idle, Doing, backup
<1>15. ASSUME NEW c \in Callers, StatusLocal(c) PROVE Owners'
  BY <1>15 DEF StatusLocal, CanLock, GoTo, Return, Idle, Doing, backup
<1>16. ASSUME NEW c \in Callers, StatusAnswer(c) PROVE Owners'
  BY <1>16 DEF StatusAnswer, At, IsStale, Return, Idle, Doing, backup
<1>17. ASSUME NEW c \in Callers, LockForBackup(c) PROVE Owners'
  BY <1>17 DEF LockForBackup, At, CanLock, GoTo, Return, Idle, Doing, backup
<1>18. ASSUME NEW c \in Callers, LockTask(c) PROVE Owners'
  BY <1>18 DEF LockTask, GoTo, backup
<1>19. ASSUME NEW c \in Callers, JoinPrevious(c) PROVE Owners'
  <2>1. /\ call[c].at = "previous"
        /\ \/ Return(c) /\ backupLocked' = Nobody
           \/ GoTo(c, "own") /\ UNCHANGED backupLocked
    BY <1>19 DEF JoinPrevious
  <2> QED
    BY <2>1 DEF GoTo, Return, Idle, Doing
<1>20. ASSUME NEW c \in Callers, JoinOwn(c) PROVE Owners'
  BY <1>20 DEF JoinOwn, Return, Idle, Doing, backup
<1>21. ASSUME NEW c \in Callers, Panic(c) PROVE Owners'
  BY <1>21 DEF Panic, DropGuard, Return, Idle, Doing, backup
<1>22. ASSUME NEW c \in Callers, StartWork(c) PROVE Owners'
  BY <1>22 DEF StartWork, Begin, Idle, Doing, backup
<1>23. ASSUME NEW c \in Callers, StartSync(c) PROVE Owners'
  BY <1>23 DEF StartSync, Begin, Idle, Doing, backup
<1>24. ASSUME NEW c \in Callers, StartClosing(c) PROVE Owners'
  BY <1>24 DEF StartClosing, Begin, Idle, Doing, backup
<1>25. ASSUME NEW c \in Callers, StartStatus(c) PROVE Owners'
  BY <1>25 DEF StartStatus, Begin, Idle, Doing, backup
<1>26. ASSUME NEW c \in Callers, StartBackup(c) PROVE Owners'
  BY <1>26 DEF StartBackup, Begin, Idle, Doing, backup
<1>27. ASSUME NEW c \in Callers, AwaitBackup(c) PROVE Owners'
  BY <1>27 DEF AwaitBackup, Begin, Idle, Doing, backup
\* The other steps leave alone what this is about.
<1>28. CASE RegisterMedia \/ OpenMedia \/ EndMedia \/ EndBackup \/ AbortSync \/
            SetWantsAbort \/ OpenCollection \/ SyncMedia \/ MediaSyncStatus \/
            AbortMediaSync \/ Tick \/ UNCHANGED vars
  BY <1>28 DEF RegisterMedia, OpenMedia, EndMedia, EndBackup, AbortSync,
     SetWantsAbort, OpenCollection, SyncMedia, MediaSyncStatus, AbortMediaSync,
     Tick, vars, backup
<1> QED
  BY <1>1, <1>2, <1>3, <1>4, <1>5, <1>6, <1>7, <1>8, <1>9, <1>10, <1>11, <1>12,
     <1>13, <1>14, <1>15, <1>16, <1>17, <1>18, <1>19, <1>20, <1>21, <1>22,
     <1>23, <1>24, <1>25, <1>26, <1>27, <1>28 DEF Next, Proceed, Background,
     Request

\* No backup is lost sight of before its result is known.
LEMMA BackupsKept == IInv /\ [Next]_vars => Backups'
<1> SUFFICES ASSUME CallsTyped, BackupsTyped, Places, Owners, Backups, [Next]_vars
      PROVE Backups'
  BY DEF IInv
<1> USE BackendAssumption DEF CallsTyped, BackupsTyped, Places, Owners, Backups, Call
<1>1. ASSUME NEW c \in Callers, LockForWork(c) PROVE Backups'
  <2>1. OwnAwaited => OwnAwaited'
    BY <1>1 DEF LockForWork, At, GoTo, Return, Idle, Doing, OwnAwaited
  <2>2. UNCHANGED backup
    BY <1>1 DEF LockForWork
  <2> QED
    BY <2>1, <2>2 DEF backup
<1>2. ASSUME NEW c \in Callers, EndWork(c) PROVE Backups'
  <2>1. OwnAwaited => OwnAwaited'
    BY <1>2 DEF EndWork, At, Return, Idle, Doing, OwnAwaited
  <2>2. UNCHANGED backup
    BY <1>2 DEF EndWork
  <2> QED
    BY <2>1, <2>2 DEF backup
<1>3. ASSUME NEW c \in Callers, EndLogin(c) PROVE Backups'
  <2>1. OwnAwaited => OwnAwaited'
    BY <1>3 DEF EndLogin, At, Return, Idle, Doing, OwnAwaited
  <2>2. UNCHANGED backup
    BY <1>3 DEF EndLogin
  <2> QED
    BY <2>1, <2>2 DEF backup
<1>4. ASSUME NEW c \in Callers, LockForSync(c) PROVE Backups'
  <2>1. OwnAwaited => OwnAwaited'
    BY <1>4 DEF LockForSync, At, GoTo, Return, Idle, Doing, OwnAwaited
  <2>2. UNCHANGED backup
    BY <1>4 DEF LockForSync
  <2> QED
    BY <2>1, <2>2 DEF backup
<1>5. ASSUME NEW c \in Callers, Compare(c) PROVE Backups'
  <2>1. OwnAwaited => OwnAwaited'
    BY <1>5 DEF Compare, At, GoTo, Return, Idle, Doing, OwnAwaited
  <2>2. UNCHANGED backup
    BY <1>5 DEF Compare
  <2> QED
    BY <2>1, <2>2 DEF backup
<1>6. ASSUME NEW c \in Callers, Exchange(c) PROVE Backups'
  <2>1. OwnAwaited => OwnAwaited'
    BY <1>6 DEF Exchange, At, GoTo, OwnAwaited
  <2>2. UNCHANGED backup
    BY <1>6 DEF Exchange
  <2> QED
    BY <2>1, <2>2 DEF backup
<1>7. ASSUME NEW c \in Callers, BreakSync(c) PROVE Backups'
  <2>1. OwnAwaited => OwnAwaited'
    BY <1>7 DEF BreakSync, At, Return, Idle, Doing, OwnAwaited
  <2>2. UNCHANGED backup
    BY <1>7 DEF BreakSync
  <2> QED
    BY <2>1, <2>2 DEF backup
<1>8. ASSUME NEW c \in Callers, MediaAfterSync(c) PROVE Backups'
  <2>1. OwnAwaited => OwnAwaited'
    BY <1>8 DEF MediaAfterSync, At, GoTo, OwnAwaited
  <2>2. UNCHANGED backup
    BY <1>8 DEF MediaAfterSync
  <2> QED
    BY <2>1, <2>2 DEF backup
<1>9. ASSUME NEW c \in Callers, RecordSync(c) PROVE Backups'
  <2>1. OwnAwaited => OwnAwaited'
    BY <1>9 DEF RecordSync, At, Return, Idle, Doing, OwnAwaited
  <2>2. UNCHANGED backup
    BY <1>9 DEF RecordSync
  <2> QED
    BY <2>1, <2>2 DEF backup
<1>10. ASSUME NEW c \in Callers, Look(c) PROVE Backups'
  <2>1. OwnAwaited => OwnAwaited'
    BY <1>10 DEF Look, GoTo, OwnAwaited
  <2>2. UNCHANGED backup
    BY <1>10 DEF Look
  <2> QED
    BY <2>1, <2>2 DEF backup
<1>11. ASSUME NEW c \in Callers, Wait(c) PROVE Backups'
  <2>1. OwnAwaited => OwnAwaited'
    BY <1>11 DEF Wait, GoTo, OwnAwaited
  <2>2. UNCHANGED backup
    BY <1>11 DEF Wait
  <2> QED
    BY <2>1, <2>2 DEF backup
<1>12. ASSUME NEW c \in Callers, TakeCollection(c) PROVE Backups'
  <2>1. OwnAwaited => OwnAwaited'
    BY <1>12 DEF TakeCollection, At, GoTo, Return, Idle, Doing, OwnAwaited
  <2>2. UNCHANGED backup
    BY <1>12 DEF TakeCollection
  <2> QED
    BY <2>1, <2>2 DEF backup
<1>13. ASSUME NEW c \in Callers, EndFullSync(c) PROVE Backups'
  <2>1. OwnAwaited => OwnAwaited'
    BY <1>13 DEF EndFullSync, At, Return, Idle, Doing, OwnAwaited
  <2>2. UNCHANGED backup
    BY <1>13 DEF EndFullSync
  <2> QED
    BY <2>1, <2>2 DEF backup
<1>14. ASSUME NEW c \in Callers, StatusOffline(c) PROVE Backups'
  <2>1. OwnAwaited => OwnAwaited'
    BY <1>14 DEF StatusOffline, At, Return, Idle, Doing, OwnAwaited
  <2>2. UNCHANGED backup
    BY <1>14 DEF StatusOffline
  <2> QED
    BY <2>1, <2>2 DEF backup
<1>15. ASSUME NEW c \in Callers, StatusLocal(c) PROVE Backups'
  <2>1. OwnAwaited => OwnAwaited'
    BY <1>15 DEF StatusLocal, GoTo, Return, Idle, Doing, OwnAwaited
  <2>2. UNCHANGED backup
    BY <1>15 DEF StatusLocal
  <2> QED
    BY <2>1, <2>2 DEF backup
<1>16. ASSUME NEW c \in Callers, StatusAnswer(c) PROVE Backups'
  <2>1. OwnAwaited => OwnAwaited'
    BY <1>16 DEF StatusAnswer, At, Return, Idle, Doing, OwnAwaited
  <2>2. UNCHANGED backup
    BY <1>16 DEF StatusAnswer
  <2> QED
    BY <2>1, <2>2 DEF backup
<1>17. ASSUME NEW c \in Callers, LockForBackup(c) PROVE Backups'
  <2>1. OwnAwaited => OwnAwaited'
    BY <1>17 DEF LockForBackup, At, GoTo, Return, Idle, Doing, OwnAwaited
  <2>2. UNCHANGED backup
    BY <1>17 DEF LockForBackup
  <2> QED
    BY <2>1, <2>2 DEF backup
<1>18. ASSUME NEW c \in Callers, LockTask(c) PROVE Backups'
  <2>1. /\ call[c].at = "task" /\ GoTo(c, "previous")
        /\ UNCHANGED <<task, backups, reported>>
    BY <1>18 DEF LockTask
  <2>2. OwnAwaited => OwnAwaited'
    BY <2>1 DEF GoTo, OwnAwaited, Call
  <2> QED
    BY <2>1, <2>2
<1>19. ASSUME NEW c \in Callers, JoinPrevious(c) PROVE Backups'
  <2>1. /\ call[c].at = "previous" /\ task \notin Running
        /\ reported' = reported \cup Failed(task)
    BY <1>19 DEF JoinPrevious
  <2>2. ~OwnAwaited
    BY <2>1 DEF OwnAwaited
  <2>3. \A n \in 1..Len(backups) :
          ~(backups[n] = "running" \/ (backups[n] = "failed" /\ n \notin reported'))
    BY <2>1, <2>2 DEF Failed, Running
  <2>4. CASE backups' = backups
    BY <2>3, <2>4
  <2>5. CASE /\ backups' = Append(backups, "running")
             /\ \/ task' = Len(backups')
                \/ GoTo(c, "own")
    <3>1. /\ Len(backups') = Len(backups) + 1
          /\ \A n \in 1..Len(backups) : backups'[n] = backups[n]
      BY <2>5
    <3>2. task' = Len(backups') \/ OwnAwaited'
      BY <2>5 DEF GoTo, OwnAwaited, Call
    <3> QED
      BY <2>3, <3>1, <3>2
  <2> QED
    BY <1>19, <2>4, <2>5 DEF JoinPrevious
<1>20. ASSUME NEW c \in Callers, JoinOwn(c) PROVE Backups'
  <2>1. /\ call[c].at = "own" /\ Len(backups) \notin Running
        /\ reported' = reported \cup Failed(Len(backups))
        /\ UNCHANGED <<task, backups>>
    BY <1>20 DEF JoinOwn
  <2>2. \A n \in 1..Len(backups) :
          backups[n] = "running" \/ (backups[n] = "failed" /\ n \notin reported')
            => n = task
    BY <2>1 DEF Failed, Running
  <2> QED
    BY <2>1, <2>2
<1>21. ASSUME NEW c \in Callers, Panic(c) PROVE Backups'
  <2>1. OwnAwaited => OwnAwaited'
    BY <1>21 DEF Panic, Return, Idle, Doing, OwnAwaited
  <2>2. UNCHANGED backup
    BY <1>21 DEF Panic
  <2> QED
    BY <2>1, <2>2 DEF backup
<1>22. ASSUME NEW c \in Callers, StartWork(c) PROVE Backups'
  <2>1. PICK kind, at : Begin(c, kind, at) /\ at # "own"
    BY <1>22 DEF StartWork
  <2>2. OwnAwaited => OwnAwaited'
    BY <2>1 DEF Begin, Idle, Doing, OwnAwaited
  <2>3. UNCHANGED backup
    BY <1>22 DEF StartWork
  <2> QED
    BY <2>2, <2>3 DEF backup
<1>23. ASSUME NEW c \in Callers, StartSync(c) PROVE Backups'
  <2>1. PICK kind, at : Begin(c, kind, at) /\ at # "own"
    BY <1>23 DEF StartSync
  <2>2. OwnAwaited => OwnAwaited'
    BY <2>1 DEF Begin, Idle, Doing, OwnAwaited
  <2>3. UNCHANGED backup
    BY <1>23 DEF StartSync
  <2> QED
    BY <2>2, <2>3 DEF backup
<1>24. ASSUME NEW c \in Callers, StartClosing(c) PROVE Backups'
  <2>1. OwnAwaited => OwnAwaited'
    BY <1>24 DEF StartClosing, Begin, Idle, Doing, OwnAwaited
  <2>2. UNCHANGED backup
    BY <1>24 DEF StartClosing
  <2> QED
    BY <2>1, <2>2 DEF backup
<1>25. ASSUME NEW c \in Callers, StartStatus(c) PROVE Backups'
  <2>1. OwnAwaited => OwnAwaited'
    BY <1>25 DEF StartStatus, Begin, Idle, Doing, OwnAwaited
  <2>2. UNCHANGED backup
    BY <1>25 DEF StartStatus
  <2> QED
    BY <2>1, <2>2 DEF backup
<1>26. ASSUME NEW c \in Callers, StartBackup(c) PROVE Backups'
  <2>1. OwnAwaited => OwnAwaited'
    BY <1>26 DEF StartBackup, Begin, Idle, Doing, OwnAwaited
  <2>2. UNCHANGED backup
    BY <1>26 DEF StartBackup
  <2> QED
    BY <2>1, <2>2 DEF backup
<1>27. ASSUME NEW c \in Callers, AwaitBackup(c) PROVE Backups'
  <2>1. OwnAwaited => OwnAwaited'
    BY <1>27 DEF AwaitBackup, Begin, Idle, Doing, OwnAwaited
  <2>2. UNCHANGED backup
    BY <1>27 DEF AwaitBackup
  <2> QED
    BY <2>1, <2>2 DEF backup
\* The other steps leave alone what this is about.
<1>28. CASE RegisterMedia \/ OpenMedia \/ EndMedia \/ AbortSync \/ SetWantsAbort \/
            OpenCollection \/ SyncMedia \/ MediaSyncStatus \/ AbortMediaSync \/
            Tick \/ UNCHANGED vars
  BY <1>28 DEF RegisterMedia, OpenMedia, EndMedia, AbortSync, SetWantsAbort,
     OpenCollection, SyncMedia, MediaSyncStatus, AbortMediaSync, Tick, vars,
     backup, OwnAwaited
<1>29. CASE EndBackup
  <2>1. PICK n \in Running, result \in {"written", "failed"} :
          backups' = [backups EXCEPT ![n] = result]
    BY <1>29 DEF EndBackup
  <2>2. backups[n] = "running" /\ n \in 1..Len(backups)
    BY <2>1 DEF Running
  <2>3. /\ Len(backups') = Len(backups)
        /\ \A m \in 1..Len(backups) : m # n => backups'[m] = backups[m]
    BY <2>1, <2>2
  <2>4. UNCHANGED <<call, task, reported>>
    BY <1>29 DEF EndBackup, backup
  <2>5. OwnAwaited' = OwnAwaited
    BY <2>4 DEF OwnAwaited
  <2> QED
    BY <2>2, <2>3, <2>4, <2>5
<1> QED
  BY <1>1, <1>2, <1>3, <1>4, <1>5, <1>6, <1>7, <1>8, <1>9, <1>10, <1>11, <1>12,
     <1>13, <1>14, <1>15, <1>16, <1>17, <1>18, <1>19, <1>20, <1>21, <1>22,
     <1>23, <1>24, <1>25, <1>26, <1>27, <1>28, <1>29 DEF Next, Proceed,
     Background, Request

\* The handle of the media sync is there as long as its thread.
LEMMA MediaKept == IInv /\ [Next]_vars => Media'
<1> SUFFICES ASSUME Typed, Media, [Next]_vars PROVE Media'
  BY DEF IInv
<1> USE BackendAssumption DEF Typed, Media
<1>1. ASSUME NEW c \in Callers, LockForWork(c) PROVE Media'
  BY <1>1 DEF LockForWork, At, CanLock, NewHandler, collection, mediaSync
<1>2. ASSUME NEW c \in Callers, EndWork(c) PROVE Media'
  BY <1>2 DEF EndWork, At, TakesAbort, collection, mediaSync
<1>3. ASSUME NEW c \in Callers, EndLogin(c) PROVE Media'
  BY <1>3 DEF EndLogin, At, DropGuard, collection, mediaSync
<1>4. ASSUME NEW c \in Callers, LockForSync(c) PROVE Media'
  BY <1>4 DEF LockForSync, At, CanLock, NewHandler, DropGuard, collection,
     mediaSync
<1>5. ASSUME NEW c \in Callers, Compare(c) PROVE Media'
  BY <1>5 DEF Compare, At, DropGuard, collection, mediaSync
<1>6. ASSUME NEW c \in Callers, Exchange(c) PROVE Media'
  BY <1>6 DEF Exchange, At, collection, mediaSync
<1>7. ASSUME NEW c \in Callers, BreakSync(c) PROVE Media'
  BY <1>7 DEF BreakSync, At, TakesAbort, DropGuard, collection, mediaSync
<1>8. ASSUME NEW c \in Callers, MediaAfterSync(c) PROVE Media'
  BY <1>8 DEF MediaAfterSync, At, MayStartMedia, StartMedia, collection,
     mediaSync
<1>9. ASSUME NEW c \in Callers, RecordSync(c) PROVE Media'
  BY <1>9 DEF RecordSync, At, DropGuard, collection, mediaSync
<1>10. ASSUME NEW c \in Callers, Look(c) PROVE Media'
  BY <1>10 DEF Look, Ask, collection, mediaSync
<1>11. ASSUME NEW c \in Callers, Wait(c) PROVE Media'
  BY <1>11 DEF Wait, Ask, collection, mediaSync
<1>12. ASSUME NEW c \in Callers, TakeCollection(c) PROVE Media'
  BY <1>12 DEF TakeCollection, At, CanLock, NewHandler, collection, mediaSync
<1>13. ASSUME NEW c \in Callers, EndFullSync(c) PROVE Media'
  BY <1>13 DEF EndFullSync, At, MayStartMedia, StartMedia, TakesAbort,
     DropGuard, collection, mediaSync
<1>14. ASSUME NEW c \in Callers, StatusOffline(c) PROVE Media'
  BY <1>14 DEF StatusOffline, At, CanLock, collection, mediaSync
<1>15. ASSUME NEW c \in Callers, StatusLocal(c) PROVE Media'
  BY <1>15 DEF StatusLocal, CanLock, collection, mediaSync
<1>16. ASSUME NEW c \in Callers, StatusAnswer(c) PROVE Media'
  BY <1>16 DEF StatusAnswer, At, IsStale, collection, mediaSync
<1>17. ASSUME NEW c \in Callers, LockForBackup(c) PROVE Media'
  BY <1>17 DEF LockForBackup, At, CanLock, collection, mediaSync
<1>18. ASSUME NEW c \in Callers, LockTask(c) PROVE Media'
  BY <1>18 DEF LockTask, collection, mediaSync
<1>19. ASSUME NEW c \in Callers, JoinPrevious(c) PROVE Media'
  BY <1>19 DEF JoinPrevious, Unlock, collection, mediaSync
<1>20. ASSUME NEW c \in Callers, JoinOwn(c) PROVE Media'
  BY <1>20 DEF JoinOwn, collection, mediaSync
<1>21. ASSUME NEW c \in Callers, Panic(c) PROVE Media'
  BY <1>21 DEF Panic, DropGuard, collection, mediaSync
<1>22. ASSUME NEW c \in Callers, StartWork(c) PROVE Media'
  BY <1>22 DEF StartWork, Begin, Idle, Doing, collection, mediaSync
<1>23. ASSUME NEW c \in Callers, StartSync(c) PROVE Media'
  BY <1>23 DEF StartSync, Begin, Idle, Doing, collection, mediaSync
<1>24. ASSUME NEW c \in Callers, StartClosing(c) PROVE Media'
  BY <1>24 DEF StartClosing, Begin, Idle, Doing, collection, mediaSync
<1>25. ASSUME NEW c \in Callers, StartStatus(c) PROVE Media'
  BY <1>25 DEF StartStatus, Begin, Idle, Doing, collection, mediaSync
<1>26. ASSUME NEW c \in Callers, StartBackup(c) PROVE Media'
  BY <1>26 DEF StartBackup, Begin, Idle, Doing, collection, mediaSync
<1>27. ASSUME NEW c \in Callers, AwaitBackup(c) PROVE Media'
  BY <1>27 DEF AwaitBackup, Begin, Idle, Doing, collection, mediaSync
\* The other steps leave alone what this is about.
<1>28. CASE EndBackup \/ AbortSync \/ SetWantsAbort \/ OpenCollection \/ Tick \/
            UNCHANGED vars
  BY <1>28 DEF EndBackup, AbortSync, SetWantsAbort, OpenCollection, Tick, vars,
     collection, mediaSync
<1>29. CASE RegisterMedia
  BY <1>29 DEF RegisterMedia, collection, mediaSync
<1>30. CASE OpenMedia
  BY <1>30 DEF OpenMedia, NewHandler, collection, mediaSync
<1>31. CASE EndMedia
  BY <1>31 DEF EndMedia, TakesAbort, collection, mediaSync
<1>32. CASE SyncMedia
  BY <1>32 DEF SyncMedia, StartMedia, collection, mediaSync
<1>33. CASE MediaSyncStatus
  BY <1>33 DEF MediaSyncStatus, collection, mediaSync
<1>34. CASE AbortMediaSync
  BY <1>34 DEF AbortMediaSync, collection, mediaSync
<1> QED
  BY <1>1, <1>2, <1>3, <1>4, <1>5, <1>6, <1>7, <1>8, <1>9, <1>10, <1>11, <1>12,
     <1>13, <1>14, <1>15, <1>16, <1>17, <1>18, <1>19, <1>20, <1>21, <1>22,
     <1>23, <1>24, <1>25, <1>26, <1>27, <1>28, <1>29, <1>30, <1>31, <1>32,
     <1>33, <1>34 DEF Next, Proceed, Background, Request

\* The media sync that was found does not outlive the wait for it.
LEMMA FoundKept == IInv /\ [Next]_vars => Found'
<1> SUFFICES ASSUME CallsTyped, Typed, Places, Media, Found, [Next]_vars
      PROVE Found'
  BY DEF IInv
<1> USE BackendAssumption DEF CallsTyped, Typed, Places, Media, Found, Call, Closing
<1>1. ASSUME NEW c \in Callers, LockForWork(c) PROVE Found'
  BY <1>1 DEF LockForWork, At, CanLock, NewHandler, GoTo, Return, Idle, Doing,
     collection, mediaSync
<1>2. ASSUME NEW c \in Callers, EndWork(c) PROVE Found'
  BY <1>2 DEF EndWork, At, TakesAbort, Return, Idle, Doing, collection,
     mediaSync
<1>3. ASSUME NEW c \in Callers, EndLogin(c) PROVE Found'
  BY <1>3 DEF EndLogin, At, DropGuard, Return, Idle, Doing, collection,
     mediaSync
<1>4. ASSUME NEW c \in Callers, LockForSync(c) PROVE Found'
  BY <1>4 DEF LockForSync, At, CanLock, NewHandler, DropGuard, GoTo, Return,
     Idle, Doing, collection, mediaSync
<1>5. ASSUME NEW c \in Callers, Compare(c) PROVE Found'
  BY <1>5 DEF Compare, At, DropGuard, GoTo, Return, Idle, Doing, collection,
     mediaSync
<1>6. ASSUME NEW c \in Callers, Exchange(c) PROVE Found'
  BY <1>6 DEF Exchange, At, GoTo, collection, mediaSync
<1>7. ASSUME NEW c \in Callers, BreakSync(c) PROVE Found'
  BY <1>7 DEF BreakSync, At, TakesAbort, DropGuard, Return, Idle, Doing,
     collection, mediaSync
<1>8. ASSUME NEW c \in Callers, MediaAfterSync(c) PROVE Found'
  BY <1>8 DEF MediaAfterSync, At, MayStartMedia, StartMedia, GoTo, collection,
     mediaSync
<1>9. ASSUME NEW c \in Callers, RecordSync(c) PROVE Found'
  BY <1>9 DEF RecordSync, At, DropGuard, Return, Idle, Doing, collection,
     mediaSync
<1>10. ASSUME NEW c \in Callers, Look(c) PROVE Found'
  BY <1>10 DEF Look, Ask, GoTo, collection, mediaSync
<1>11. ASSUME NEW c \in Callers, Wait(c) PROVE Found'
  BY <1>11 DEF Wait, Ask, GoTo, collection, mediaSync
<1>12. ASSUME NEW c \in Callers, TakeCollection(c) PROVE Found'
  BY <1>12 DEF TakeCollection, At, CanLock, NewHandler, GoTo, Return, Idle,
     Doing, collection, mediaSync
<1>13. ASSUME NEW c \in Callers, EndFullSync(c) PROVE Found'
  BY <1>13 DEF EndFullSync, At, MayStartMedia, StartMedia, TakesAbort,
     DropGuard, Return, Idle, Doing, collection, mediaSync
<1>14. ASSUME NEW c \in Callers, StatusOffline(c) PROVE Found'
  BY <1>14 DEF StatusOffline, At, CanLock, Return, Idle, Doing, collection,
     mediaSync
<1>15. ASSUME NEW c \in Callers, StatusLocal(c) PROVE Found'
  BY <1>15 DEF StatusLocal, CanLock, GoTo, Return, Idle, Doing, collection,
     mediaSync
<1>16. ASSUME NEW c \in Callers, StatusAnswer(c) PROVE Found'
  BY <1>16 DEF StatusAnswer, At, IsStale, Return, Idle, Doing, collection,
     mediaSync
<1>17. ASSUME NEW c \in Callers, LockForBackup(c) PROVE Found'
  BY <1>17 DEF LockForBackup, At, CanLock, GoTo, Return, Idle, Doing,
     collection, mediaSync
<1>18. ASSUME NEW c \in Callers, LockTask(c) PROVE Found'
  BY <1>18 DEF LockTask, GoTo, collection, mediaSync
<1>19. ASSUME NEW c \in Callers, JoinPrevious(c) PROVE Found'
  BY <1>19, JoinPreviousMoves DEF Unlock, GoTo, Return, Idle, Doing, collection,
     mediaSync
<1>20. ASSUME NEW c \in Callers, JoinOwn(c) PROVE Found'
  BY <1>20 DEF JoinOwn, Return, Idle, Doing, collection, mediaSync
<1>21. ASSUME NEW c \in Callers, Panic(c) PROVE Found'
  BY <1>21 DEF Panic, DropGuard, Return, Idle, Doing, collection, mediaSync
<1>22. ASSUME NEW c \in Callers, StartWork(c) PROVE Found'
  BY <1>22 DEF StartWork, Begin, Idle, Doing, collection, mediaSync
<1>23. ASSUME NEW c \in Callers, StartSync(c) PROVE Found'
  BY <1>23 DEF StartSync, Begin, Idle, Doing, collection, mediaSync
<1>24. ASSUME NEW c \in Callers, StartClosing(c) PROVE Found'
  BY <1>24 DEF StartClosing, Begin, Idle, Doing, collection, mediaSync
<1>25. ASSUME NEW c \in Callers, StartStatus(c) PROVE Found'
  BY <1>25 DEF StartStatus, Begin, Idle, Doing, collection, mediaSync
<1>26. ASSUME NEW c \in Callers, StartBackup(c) PROVE Found'
  BY <1>26 DEF StartBackup, Begin, Idle, Doing, collection, mediaSync
<1>27. ASSUME NEW c \in Callers, AwaitBackup(c) PROVE Found'
  BY <1>27 DEF AwaitBackup, Begin, Idle, Doing, collection, mediaSync
\* The other steps leave alone what this is about.
<1>28. CASE EndBackup \/ AbortSync \/ SetWantsAbort \/ OpenCollection \/ Tick \/
            UNCHANGED vars
  BY <1>28 DEF EndBackup, AbortSync, SetWantsAbort, OpenCollection, Tick, vars,
     collection, mediaSync
<1>29. CASE RegisterMedia
  BY <1>29 DEF RegisterMedia, collection, mediaSync
<1>30. CASE OpenMedia
  BY <1>30 DEF OpenMedia, NewHandler, collection, mediaSync
<1>31. CASE EndMedia
  BY <1>31 DEF EndMedia, TakesAbort, collection, mediaSync
<1>32. CASE SyncMedia
  BY <1>32 DEF SyncMedia, StartMedia, collection, mediaSync
<1>33. CASE MediaSyncStatus
  BY <1>33 DEF MediaSyncStatus, collection, mediaSync
<1>34. CASE AbortMediaSync
  BY <1>34 DEF AbortMediaSync, collection, mediaSync
<1> QED
  BY <1>1, <1>2, <1>3, <1>4, <1>5, <1>6, <1>7, <1>8, <1>9, <1>10, <1>11, <1>12,
     <1>13, <1>14, <1>15, <1>16, <1>17, <1>18, <1>19, <1>20, <1>21, <1>22,
     <1>23, <1>24, <1>25, <1>26, <1>27, <1>28, <1>29, <1>30, <1>31, <1>32,
     <1>33, <1>34 DEF Next, Proceed, Background, Request

-----------------------------------------------------------------------------
LEMMA InitIsInductive == Init => IInv
<1> SUFFICES ASSUME Init PROVE IInv
  OBVIOUS
<1> USE BackendAssumption DEF Init, Idle, Doing
<1>1. CallsTyped /\ Places
  BY DEF CallsTyped, Call, Stages, Places, Closing
<1>2. Typed
  <2>1. status \in [time : Int, seen : Nat]
    OBVIOUS
  <2>2. {open, trx, poisoned, wantAbort} \subseteq BOOLEAN
    OBVIOUS
  <2> QED
    BY <2>1, <2>2 DEF Typed
<1>6. BackupsTyped
  BY DEF BackupsTyped
<1>3. Locks /\ Handles /\ Cancels
  BY DEF Locks, Handles, Cancels, Holding
<1>4. Statuses /\ Owners /\ Backups
  BY DEF Statuses, Owners, Backups
<1>5. Media /\ Found
  BY DEF Media, Found
<1> QED
  BY <1>1, <1>2, <1>3, <1>4, <1>5, <1>6 DEF IInv

\* The parts together are inductive.
THEOREM Inductive == Spec => []IInv
<1>1. Init => IInv
  BY InitIsInductive
<1>2. IInv /\ [Next]_vars => IInv'
  BY CallsTypedKept, TypedKept, BackupsTypedKept, PlacesKept, LocksKept,
     HandlesKept,
     CancelsKept, StatusesKept, OwnersKept, BackupsKept, MediaKept, FoundKept
     DEF IInv
<1> QED
  BY <1>1, <1>2, PTL DEF Spec

\* Whoever needs the mutex of the collection has it, nobody else does, handles
\* belong to calls that can be aborted, and with the mutex free no transaction
\* is open (with_col, sync_abort_handle, sync_collection_inner).
THEOREM LocksAndHandles == Spec => []LocksAreHeld
<1>1. IInv => LocksAreHeld
  <2> SUFFICES ASSUME IInv PROVE LocksAreHeld
    OBVIOUS
  <2> USE DEF IInv
  <2>1. NoTransactionIsLeft
    BY DEF NoTransactionIsLeft, Locks
  <2>2. TypeOK
    <3>1. \A c \in Callers :
             \/ (locked = c) = (call[c].at \in Holding)
             \/ call[c].kind = "backup" /\ call[c].at \in {"task", "previous"}
      BY DEF Locks
    <3>2. handle # Nobody => call[handle].kind \in {"sync", "login", "full"}
      BY DEF Handles, Typed
    <3>3. trx => call[locked].at = "exchanging"
      BY DEF Locks, Typed
    <3>4. \A c \in Callers :
             /\ call[c].kind \in AllKinds \cup {"none"}
             /\ call[c].at \in Stages
             /\ call[c].time \in 0..now
      BY DEF CallsTyped, Call, Places, Typed
    <3>5. task \in {0} \cup DOMAIN backups /\ reported \subseteq DOMAIN backups
      BY DEF BackupsTyped
    <3> QED
      BY <3>1, <3>2, <3>3, <3>4, <3>5 DEF TypeOK, Typed, Media
  <2> QED
    BY <2>1, <2>2 DEF LocksAreHeld
<1> QED
  BY <1>1, Inductive, PTL

\* A request to stop from before an operation began does not stop it: every
\* handler starts with want_abort reset (new_progress_handler).
THEOREM RequestsAreFresh == Spec => []CancelsAreFresh
<1>1. IInv => CancelsAreFresh
  BY DEF IInv, Cancels, CancelsAreFresh
<1> QED
  BY <1>1, Inductive, PTL

\* The cache is as new as the last sync recorded in it, whichever checks were
\* under way (sync_status_inner, and the resets after a sync).
THEOREM StatusIsCurrent == Spec => []CachedStatusIsCurrent
<1>1. IInv => CachedStatusIsCurrent
  BY DEF IInv, Statuses, CachedStatusIsCurrent
<1> QED
  BY <1>1, Inductive, PTL

\* The failure of a backup thread is not forgotten: it waits in the task for
\* whoever joins it, or with the caller who awaits it.
THEOREM FailuresReachACaller == Spec => []FailuresAreReported
<1>1. IInv => FailuresAreReported
  <2> SUFFICES ASSUME IInv, NEW n \in DOMAIN backups, backups[n] = "failed"
               PROVE  \/ n \in reported \/ n = task
                      \/ \E c \in Callers : call[c].at = "own"
    BY DEF FailuresAreReported
  <2>1. n \in 1..Len(backups)
    BY DEF IInv, BackupsTyped
  <2> QED
    BY <2>1 DEF IInv, Backups, OwnAwaited
<1> QED
  BY <1>1, Inductive, PTL

\* Past abort_media_sync_and_wait, the media sync that it found does not touch
\* the collection any more.
THEOREM FoundSyncEnds == Spec => []FoundSyncIsOver
<1>1. IInv => FoundSyncIsOver
  BY DEF IInv, Found, FoundSyncIsOver, Closing
<1> QED
  BY <1>1, Inductive, PTL
=============================================================================
