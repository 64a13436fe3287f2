------------------------------ MODULE MediaSync ------------------------------
(***************************************************************************)
(* Media sync (rslib/src/sync/media and sync/http_server/media_manager).   *)
(* Each client has a folder of media files and a database that mirrors it: *)
(* the checksum of every file, and whether it waits for upload.  The       *)
(* server has files and a database of its own, which numbers every change. *)
(*                                                                         *)
(* One action is one request or one database transaction of a client.      *)
(* Media sync runs in the background: users, other programs and other      *)
(* clients may do anything between two of its steps.                       *)
(*                                                                         *)
(* A file is its name and its contents; a checksum is the contents.  Times *)
(* of modification are only ever compared with the time recorded, so what  *)
(* is kept of them is whether the folder changed since (`fresh`).  Files   *)
(* that are written over in place, which leaves the folder's time as it is,*)
(* are left out; so are names that need normalising and files that are     *)
(* empty, too large or unreadable.                                         *)
(***************************************************************************)
EXTENDS Integers, FiniteSets

CONSTANTS
    Clients, Names, Data,
    ChunkLimit,     \* the limit in changes.sql
    ZipFiles,       \* MAX_MEDIA_FILES_IN_ZIP
    Faults,         \* what may happen, see below
    MaxEdits,       \* bound: changes by users
    MaxFaults       \* bound: faults

\* "lost": a sync may stop between any two steps.  "crash": the server may stop
\* while it writes uploaded files.  "busy": users change files of a client that
\* is syncing.
FaultKinds == {"lost", "crash", "busy"}

ASSUME MediaAssumption ==
    /\ IsFiniteSet(Names) /\ "gone" \notin Data
    /\ ChunkLimit \in Nat \ {0} /\ ZipFiles \in Nat \ {0}
    /\ Faults \subseteq FaultKinds

VARIABLES
    client,         \* folder and media database of each client
    syncing,        \* the media sync of each client
    server,         \* folder and media database of the server
    removed,        \* history: names that some user has removed
    disturbed,      \* history: whether something is left that the next sync cannot see
    edits, faults

vars == <<client, syncing, server, removed, disturbed, edits, faults>>

-----------------------------------------------------------------------------
(* The databases.                                                           *)

Gone == "gone"      \* no checksum: the file was deleted
Nothing == [n \in {} |-> 0]

Only(f, keys) == [k \in keys |-> f[k]]
Without(f, keys) == Only(f, DOMAIN f \ keys)
Just(n, v) == [k \in {n} |-> v]

\* One function laid over another: its values, and the other's at the names it lacks.
Over(f, g) == [k \in DOMAIN f \cup DOMAIN g |-> IF k \in DOMAIN f THEN f[k] ELSE g[k]]

Present(db) == {n \in DOMAIN db : db[n].sha1 # Gone}

\* get_pending_uploads
Dirty(db) == {n \in DOMAIN db : db[n].dirty}

\* The server's own state of a name, whether it was never there or deleted.
RowSha(n) == IF n \in DOMAIN server.rows THEN server.rows[n].sha1 ELSE Gone

LocalSha(db, n) == IF n \in DOMAIN db THEN db[n].sha1 ELSE Gone

\* media_folder_changes, add_updated_entries and remove_deleted_files
Scanned(files, db) ==
    LET Unchanged(n) == n \in Present(db) /\ db[n].sha1 = files[n]
    IN  [n \in DOMAIN files \cup DOMAIN db |->
           IF n \in DOMAIN files
           THEN [sha1 |-> files[n], dirty |-> Unchanged(n) => db[n].dirty]
           ELSE IF n \in Present(db) THEN [sha1 |-> Gone, dirty |-> TRUE]
           ELSE db[n]]

\* record_clean
Cleaned(db, keys) == [n \in DOMAIN db |-> IF n \in keys THEN [db[n] EXCEPT !.dirty = FALSE] ELSE db[n]]

\* determine_required_changes; every other name is left as it is, to be
\* uploaded later if it waits for that.
ToDownload(db, batch) == {n \in DOMAIN batch : batch[n] # Gone /\ LocalSha(db, n) # batch[n]}

\* Mutant: a local addition does not survive a deletion on the server.
DeleteAnyway(db, batch) == {n \in DOMAIN batch : batch[n] = Gone /\ n \in DOMAIN db}

ToDelete(db, batch) ==
    {n \in DOMAIN batch : /\ batch[n] = Gone
                          /\ n \in DOMAIN db
                          /\ ~(n \in Present(db) /\ db[n].dirty)}

ToRemovePending(db, batch) ==
    {n \in DOMAIN batch : /\ batch[n] # Gone
                          /\ LocalSha(db, n) = batch[n]
                          /\ db[n].dirty}

\* remove_files takes the names in the order of the server's numbers, and
\* returns at the first file that is not there.
Removable(files, names) ==
    {n \in names : \A m \in names : server.rows[m].usn <= server.rows[n].usn => m \in DOMAIN files}

\* Mutant: the changes come in any order.
AnyChunk(after) ==
    LET newer == {n \in DOMAIN server.rows : server.rows[n].usn > after}
    IN  CHOOSE ns \in SUBSET newer :
            Cardinality(ns) = (IF Cardinality(newer) < ChunkLimit THEN Cardinality(newer) ELSE ChunkLimit)

\* media_changes_chunk: the oldest changes after a number (by the index on usn)
ChangesChunk(after) ==
    LET newer == {n \in DOMAIN server.rows : server.rows[n].usn > after}
        Earlier(n) == {m \in newer : server.rows[m].usn < server.rows[n].usn}
    IN  {n \in newer : Cardinality(Earlier(n)) < ChunkLimit}

-----------------------------------------------------------------------------
Idle == [phase |-> "idle"]

Init ==
    /\ client = [c \in Clients |-> [files |-> Nothing, fresh |-> FALSE, db |-> Nothing, usn |-> 0]]
    /\ syncing = [c \in Clients |-> Idle]
    /\ server = [files |-> Nothing, rows |-> Nothing, usn |-> 0, count |-> 0]
    /\ removed = {}
    /\ disturbed = FALSE
    /\ edits = 0 /\ faults = 0

\* A fault uses up the bound, whatever its kind.
Fault(kind) == kind \in Faults /\ faults < MaxFaults /\ faults' = faults + 1

-----------------------------------------------------------------------------
(* Users.                                                                   *)

Changes(c, to) ==
    /\ edits < MaxEdits
    /\ edits' = edits + 1
    /\ IF syncing[c] = Idle THEN UNCHANGED faults ELSE Fault("busy")
    /\ client' = [client EXCEPT ![c] = to]
    /\ disturbed' = (disturbed \/ syncing[c] # Idle)
    /\ UNCHANGED <<syncing, server>>

\* MediaManager::add_file; other contents would get another name.
AddFile(c, n, d) ==
    LET mine == client[c]
    IN  /\ n \in DOMAIN mine.files => mine.files[n] = d /\ LocalSha(mine.db, n) # d
        /\ Changes(c, [mine EXCEPT
                         !.files = Over(Just(n, d), @),
                         !.db = IF LocalSha(@, n) = d THEN @
                                ELSE Over(Just(n, [sha1 |-> d, dirty |-> TRUE]), @)])
        /\ UNCHANGED removed

\* MediaManager::remove_files, on files that are there
RemoveFiles(c, names) ==
    LET mine == client[c]
    IN  /\ names # {} /\ names \subseteq DOMAIN mine.files
        /\ Changes(c, [mine EXCEPT !.files = Without(@, names),
                                   !.db = [n \in DOMAIN @ |->
                                             IF n \in names THEN [sha1 |-> Gone, dirty |-> TRUE]
                                             ELSE @[n]]])
        /\ removed' = removed \cup names

\* Another program puts a file into the folder, or a new one in its place.
Put(c, n, d) ==
    LET mine == client[c]
    IN  /\ n \in DOMAIN mine.files => mine.files[n] # d
        /\ Changes(c, [mine EXCEPT !.files = Over(Just(n, d), @), !.fresh = FALSE])
        /\ UNCHANGED removed

Take(c, n) ==
    LET mine == client[c]
    IN  /\ n \in DOMAIN mine.files
        /\ Changes(c, [mine EXCEPT !.files = Without(@, {n}), !.fresh = FALSE])
        /\ removed' = removed \cup {n}

-----------------------------------------------------------------------------
(* A sync, in the order of its steps.                                       *)

Goes(c, phase) == syncing' = [syncing EXCEPT ![c] = phase]

\* A file was written over and its checksum is not yet recorded.  A sync that
\* stops here leaves a file that the next sync takes for the old one.
Torn(c) == syncing[c].phase = "download" /\ DOMAIN syncing[c].got \cap Present(client[c].db) # {}

Stops(c) ==
    /\ syncing[c] # Idle
    /\ Goes(c, Idle)
    /\ disturbed' = (disturbed \/ Torn(c))

\* register_changes, and begin.  When the collection was synced first, it has
\* got the server's number, and other clients have uploaded since: nothing is
\* fetched then although there is something new.
Begin(c) ==
    LET mine == client[c]
        known == IF mine.fresh THEN mine.db ELSE Scanned(mine.files, mine.db)
    IN  /\ syncing[c] = Idle
        /\ client' = [client EXCEPT ![c].db = known, ![c].fresh = TRUE]
        /\ \/ /\ mine.usn # server.usn
              /\ Goes(c, [phase |-> "fetch"])
           \/ Goes(c, IF Dirty(known) = {} THEN Idle ELSE [phase |-> "send"])
        /\ UNCHANGED <<server, removed, disturbed, edits, faults>>

\* fetch_changes: a batch of records, of which deletions take effect at once.
\* When remove_files stops at a file that is not there, the files after it stay
\* in the folder, and the database knows nothing of them.
Fetch(c) ==
    LET mine == client[c]
        batch == [n \in ChangesChunk(mine.usn) |-> server.rows[n].sha1]
        delete == ToDelete(mine.db, batch)
        usns == {server.rows[n].usn : n \in DOMAIN batch}
        last == CHOOSE u \in usns : \A v \in usns : v <= u
        leftBehind == (delete \cap DOMAIN mine.files) \ Removable(mine.files, delete)
    IN  /\ syncing[c].phase = "fetch"
        /\ batch # Nothing
        /\ client' = [client EXCEPT
                        ![c].files = Without(@, Removable(@, delete)),
                        ![c].db = [n \in DOMAIN @ |->
                                     IF n \in delete THEN [sha1 |-> Gone, dirty |-> TRUE]
                                     ELSE @[n]]]
        /\ Goes(c, [phase |-> "download", todo |-> ToDownload(mine.db, batch), got |-> Nothing,
                    delete |-> delete, clean |-> ToRemovePending(mine.db, batch), last |-> last])
        /\ disturbed' = (disturbed \/ leftBehind # {})
        /\ UNCHANGED <<server, removed, edits, faults>>

FetchedAll(c) ==
    /\ syncing[c].phase = "fetch"
    /\ ChangesChunk(client[c].usn) = {}
    /\ Goes(c, [phase |-> "send"])
    /\ UNCHANGED <<client, server, removed, disturbed, edits, faults>>

\* zip_files_for_download and extract_into_media_folder, file by file: the
\* server may end a zip after any of them.
Download(c, n) ==
    /\ syncing[c].phase = "download" /\ n \in syncing[c].todo
    /\ RowSha(n) # Gone /\ n \in DOMAIN server.files
    /\ client' = [client EXCEPT ![c].files = Over(Just(n, server.files[n]), @),
                                ![c].fresh = @ /\ n \in DOMAIN client[c].files]
    /\ syncing' = [syncing EXCEPT ![c].todo = @ \ {n},
                                  ![c].got = Over(Just(n, server.files[n]), @)]
    /\ UNCHANGED <<server, removed, disturbed, edits, faults>>

\* get_entries_for_download: the file was deleted since.
DownloadRefused(c, n) ==
    /\ syncing[c].phase = "download" /\ n \in syncing[c].todo
    /\ RowSha(n) = Gone
    /\ Stops(c)
    /\ UNCHANGED <<client, server, removed, edits, faults>>

\* Mutant: the total is left as it is.
ForgottenUncounted(s, n) == [s EXCEPT !.rows = Without(@, {n})]

\* forget_missing_file leaves no record of a deletion, and no number.
Forgotten(s, n) == [s EXCEPT !.rows = Without(@, {n}), !.count = @ - 1]

DownloadFindsNothing(c, n) ==
    /\ syncing[c].phase = "download" /\ n \in syncing[c].todo
    /\ RowSha(n) # Gone /\ n \notin DOMAIN server.files
    /\ server' = Forgotten(server, n)
    /\ Stops(c)
    /\ UNCHANGED <<client, removed, edits, faults>>

\* The database follows: record_clean, record_removals and record_additions.
Record(c) ==
    LET s == syncing[c]
        Added == [n \in DOMAIN s.got |-> [sha1 |-> s.got[n], dirty |-> FALSE]]
    IN  /\ s.phase = "download" /\ s.todo = {}
        /\ client' = [client EXCEPT
                        ![c].db = Over(Added, Without(Cleaned(@, s.clean), s.delete)),
                        ![c].usn = s.last,
                        ![c].fresh = TRUE]
        /\ Goes(c, [phase |-> "fetch"])
        /\ UNCHANGED <<server, removed, disturbed, edits, faults>>

-----------------------------------------------------------------------------
(* Uploads.                                                                 *)

\* gather_zip_data_for_upload: a file that is not there is sent as a deletion.
Zips(c) ==
    LET mine == client[c]
        names == {ns \in SUBSET Dirty(mine.db) :
                    Cardinality(ns) = (IF Cardinality(Dirty(mine.db)) < ZipFiles
                                       THEN Cardinality(Dirty(mine.db)) ELSE ZipFiles)}
    IN  {[n \in ns |-> IF n \in Present(mine.db) \cap DOMAIN mine.files THEN mine.files[n] ELSE Gone]
           : ns \in names}

\* register_uploaded_change leaves alone what is identical or already deleted.
Effective(zip) == {n \in DOMAIN zip : zip[n] # RowSha(n)}

FilesAfter(files, zip, names) ==
    Over(Only(zip, {n \in names : zip[n] # Gone}), Without(files, {n \in names : zip[n] = Gone}))

\* next_usn, for one name after the other
Numbers(names, from) ==
    CHOOSE f \in [names -> from + 1 .. from + Cardinality(names)] :
        \A m, n \in names : f[m] = f[n] => m = n

\* process_uploaded_changes
ServerAfter(zip) ==
    LET names == Effective(zip)
        usn == Numbers(names, server.usn)
    IN  [files |-> FilesAfter(server.files, zip, names),
         rows |-> Over([n \in names |-> [sha1 |-> zip[n], usn |-> usn[n]]], server.rows),
         usn |-> server.usn + Cardinality(names),
         count |-> server.count + Cardinality({n \in names : RowSha(n) = Gone})
                                - Cardinality({n \in names : zip[n] = Gone})]

\* Mutant: the reply's number is taken as it is.
TakeReply(usn, sent, reply) == reply

\* The client counts on its own changes being the only ones.
UsnAfter(usn, sent, reply) == IF usn + sent = reply THEN reply ELSE usn

\* The sum comes out although other changes are among it, because the server
\* has counted fewer than were sent: register_uploaded_change leaves the number
\* alone when it has nothing to do.
Miscounts(c, zip) ==
    LET mine == client[c].usn
        unseen == {n \in DOMAIN server.rows : server.rows[n].usn > mine}
    IN  unseen # {} /\ mine + Cardinality(DOMAIN zip) = server'.usn

Upload(c) ==
    /\ syncing[c].phase = "send"
    /\ \E zip \in Zips(c) :
         /\ zip # Nothing
         /\ server' = ServerAfter(zip)
         /\ Goes(c, [phase |-> "sent", names |-> DOMAIN zip, reply |-> server'.usn])
         /\ disturbed' = (disturbed \/ Miscounts(c, zip))
    /\ UNCHANGED <<client, removed, edits, faults>>

RecordSent(c) ==
    LET s == syncing[c]
    IN  /\ s.phase = "sent"
        /\ client' = [client EXCEPT ![c].db = Cleaned(@, s.names),
                                    ![c].usn = UsnAfter(@, Cardinality(s.names), s.reply)]
        /\ Goes(c, [phase |-> "send"])
        /\ UNCHANGED <<server, removed, disturbed, edits, faults>>

\* finalize_sync compares counts; if they differ, all is registered anew.
Finalize(c) ==
    /\ syncing[c].phase = "send"
    /\ Dirty(client[c].db) = {}
    /\ Goes(c, Idle)
    /\ client' = IF Cardinality(Present(client[c].db)) = server.count THEN client
                 ELSE [client EXCEPT ![c].db = Nothing, ![c].usn = 0, ![c].fresh = FALSE]
    /\ UNCHANGED <<server, removed, disturbed, edits, faults>>

-----------------------------------------------------------------------------
(* Failures.                                                                *)

\* A request or answer is lost, the user interrupts, or the program stops.
Fails(c) ==
    /\ Fault("lost")
    /\ Stops(c)
    /\ UNCHANGED <<client, server, removed, edits>>

\* The server writes some files, and its transaction does not commit.
UploadCrashes(c) ==
    /\ Fault("crash")
    /\ syncing[c].phase = "send"
    /\ \E zip \in Zips(c) : \E names \in SUBSET Effective(zip) :
         /\ names # {}
         /\ server' = [server EXCEPT !.files = FilesAfter(@, zip, names)]
    /\ Goes(c, Idle)
    /\ disturbed' = TRUE
    /\ UNCHANGED <<client, removed, edits>>

-----------------------------------------------------------------------------
Users(c) == \/ \E n \in Names, d \in Data : AddFile(c, n, d) \/ Put(c, n, d)
            \/ \E n \in Names : Take(c, n)
            \/ \E names \in SUBSET Names : RemoveFiles(c, names)

Proceeds(c) == \/ Fetch(c) \/ FetchedAll(c)
               \/ \E n \in Names : Download(c, n) \/ DownloadRefused(c, n) \/ DownloadFindsNothing(c, n)
               \/ Record(c) \/ Upload(c) \/ RecordSent(c) \/ Finalize(c)

Next == \E c \in Clients : Users(c) \/ Begin(c) \/ Proceeds(c) \/ Fails(c) \/ UploadCrashes(c)

Spec == Init /\ [][Next]_vars

-----------------------------------------------------------------------------
(* Properties.                                                              *)

Files == UNION {[ns -> Data] : ns \in SUBSET Names}
Phases == {"idle", "fetch", "download", "send", "sent"}

TypeOK ==
    /\ \A c \in Clients :
         /\ client[c].files \in Files
         /\ DOMAIN client[c].db \subseteq Names
         /\ \A n \in DOMAIN client[c].db :
               client[c].db[n] \in [sha1 : Data \cup {Gone}, dirty : BOOLEAN]
         /\ client[c].fresh \in BOOLEAN
         /\ client[c].usn \in 0..server.usn
         /\ syncing[c].phase \in Phases
    /\ server.files \in Files
    /\ \A n \in DOMAIN server.rows :
         server.rows[n] \in [sha1 : Data \cup {Gone}, usn : 1..server.usn]
    /\ server.count = Cardinality({n \in DOMAIN server.rows : server.rows[n].sha1 # Gone})

ServerHolds == [n \in {m \in DOMAIN server.rows : server.rows[m].sha1 # Gone} |-> server.rows[n].sha1]

\* A client whose next sync would find nothing to do (sync_inner, syncer.rs)
\* holds the files that the server lists.
NothingToDoIsTrue ==
    ~disturbed =>
        \A c \in Clients :
            LET mine == client[c]
                NothingToDo == mine.fresh /\ Dirty(mine.db) = {} /\ mine.usn = server.usn
            IN  syncing[c] = Idle /\ NothingToDo => mine.files = ServerHolds

\* What the server lists under a number that a client has passed, the client
\* has too, unless its own version waits for upload (last_sync_usn).
PassedIsKnown ==
    \A c \in Clients : \A n \in DOMAIN server.rows :
        ~disturbed /\ server.rows[n].usn <= client[c].usn =>
            \/ LocalSha(client[c].db, n) = server.rows[n].sha1
            \/ n \in Dirty(client[c].db)

\* A sync removes no file that no user has removed anywhere, and none that waits
\* for upload, whatever is interrupted and whoever interferes.
KeptUnlessRemoved ==
    [][edits' = edits =>
         \A c \in Clients : \A n \in DOMAIN client[c].files :
             LET Waits == n \in Dirty(client[c].db) \cap Present(client[c].db)
             IN  n \notin removed \/ Waits => n \in DOMAIN client'[c].files]_vars
=============================================================================
