--------------------------- MODULE CollectionSync ---------------------------
(***************************************************************************)
(* Collection sync (rslib/src/sync/collection and sync/http_server): each  *)
(* client keeps a collection and exchanges what changed since its last     *)
(* sync with a server that several clients share.  The protocol takes one  *)
(* request after another; a client and the server each work on a copy (an  *)
(* open transaction) that only the last request commits.                   *)
(*                                                                         *)
(* One action is a request: the server's handler, and what the client does *)
(* before and after it.  A client does nothing else while it syncs.        *)
(*                                                                         *)
(* Cards stand for cards and notes, which travel in chunks; Decks stand    *)
(* for decks, deck options and note types, which travel in one request.    *)
(* All clocks agree, and no two edits share a millisecond.                 *)
(***************************************************************************)
EXTENDS Integers, FiniteSets

CONSTANTS
    Clients, Cards, Decks,
    Start,          \* the objects everybody has at the start
    Nobody,         \* no session at the server
    ChunkSize,      \* CHUNK_SIZE
    MsPerSec,       \* 1: no two edits fall into the same second
    Faults,         \* what may go wrong, see below
    MaxEdits,       \* bound: edits by users
    MaxSyncs,       \* bound: syncs begun
    MaxFaults       \* bound: faults

Objects == Cards \cup Decks

\* "overtaken": a sync of another client may end between a client's first two
\* requests.  "crash in finish": the server may stop between two statements of
\* its last handler.  "lost": requests, answers and aborts may be lost, and
\* both sides may be restarted.  "schema": users may force a one-way sync.
FaultKinds == {"overtaken", "crash in finish", "lost", "schema"}

ASSUME SyncAssumption ==
    /\ Start \subseteq Objects
    /\ Cards \cap Decks = {} /\ IsFiniteSet(Cards)
    /\ Nobody \notin Clients
    /\ ChunkSize \in Nat \ {0} /\ MsPerSec \in Nat \ {0}
    /\ Faults \subseteq FaultKinds
    /\ MaxEdits \in Nat /\ MaxSyncs \in Nat /\ MaxFaults \in Nat

VARIABLES
    now,            \* milliseconds; every stamp is a moment of its own
    device,         \* each client's collection, as committed
    syncing,        \* each client's sync: Idle, or where it is
    offered,        \* one-way syncs the last comparison offered a client
    aborts,         \* clients whose request to abort is under way
    server,         \* the server's collection, as committed
    session,        \* the server's sync_state, and its open transaction
    edits, syncs, faults

vars == <<now, device, syncing, offered, aborts, server, session, edits, syncs, faults>>

-----------------------------------------------------------------------------
(* Collections.  A row is [mtime, edit, usn]; `edit` tells contents apart.  *)

Pending == -1
Nothing == [k \in {} |-> 0]

\* Mutant: what the other side changed in its last sync is not asked for.
IsPendingSoon(usn, since) == IF since = Pending THEN usn = Pending ELSE usn > since

\* is_pending_sync, and pending_object_clause
IsPending(usn, since) == IF since = Pending THEN usn = Pending ELSE usn >= since

Since(table, since) == {k \in DOMAIN table : IsPending(table[k].usn, since)}

Only(table, keys) == [k \in keys |-> table[k]]
Without(table, keys) == Only(table, DOMAIN table \ keys)
Just(key, row) == [k \in {key} |-> row]

\* One table laid over another: its rows, and the other's at the keys it lacks.
Over(table, other) ==
    [k \in DOMAIN table \cup DOMAIN other |-> IF k \in DOMAIN table THEN table[k] ELSE other[k]]

\* maybe_update_object_usns
WithUsn(table, keys, usn) == Over([k \in keys |-> [table[k] EXCEPT !.usn = usn]], table)

NewRow(t) == [mtime |-> t \div MsPerSec, edit |-> t, usn |-> Pending]

IsEmpty(col) == DOMAIN col.rows \cap Cards = {}

StartCollection ==
    [rows   |-> [o \in Start |-> [mtime |-> 0, edit |-> 1, usn |-> 0]],
     graves |-> Nothing,
     revlog |-> Nothing,
     conf |-> 1, mod |-> 1, scm |-> 1, usn |-> 1]

\* Mutant: a deletion that was received is not passed on.
ApplyGravesOnce(col, keys, usn) == [col EXCEPT !.rows = Without(@, keys)]

\* Mutant: the row stays beside its grave.
BuryRow(col, keys, usn) == [col EXCEPT !.graves = Over(@, [k \in keys |-> [usn |-> usn]])]

\* apply_graves
ApplyGraves(col, keys, usn) ==
    [col EXCEPT !.rows = Without(@, keys),
                !.graves = Over(@, [k \in keys |-> [usn |-> usn]])]

\* Mutant: the incoming deck is always taken.
TakeDecks(col, incoming) == [col EXCEPT !.rows = Over(incoming, @)]

\* merge_decks, merge_notetypes, merge_deck_config: the newer one stays, and
\* of two as new the incoming one
MergeDecks(col, incoming) ==
    LET taken == {k \in DOMAIN incoming :
                    k \in DOMAIN col.rows => col.rows[k].mtime <= incoming[k].mtime}
    IN  [col EXCEPT !.rows = Over(Only(incoming, taken), @)]

\* Mutant: modification times are not compared.
TakeChunkAsIs(col, chunk, since) ==
    [col EXCEPT !.rows = Over(chunk.cards, @), !.revlog = Over(@, chunk.revlog)]

\* Mutant: what was changed on both sides stays.
KeepChanged(col, chunk, since) ==
    LET taken == {k \in DOMAIN chunk.cards :
                    k \in DOMAIN col.rows => ~IsPending(col.rows[k].usn, since)}
    IN  [col EXCEPT !.rows = Over(Only(chunk.cards, taken), @),
                    !.revlog = Over(@, chunk.revlog)]

\* apply_chunk: what was not changed here gives way, and so does what is older
ApplyChunk(col, chunk, since) ==
    LET taken == {k \in DOMAIN chunk.cards :
                    k \in DOMAIN col.rows =>
                      \/ ~IsPending(col.rows[k].usn, since)
                      \/ col.rows[k].mtime < chunk.cards[k].mtime}
    IN  [col EXCEPT !.rows = Over(Only(chunk.cards, taken), @),
                    !.revlog = Over(@, chunk.revlog)]

\* get_chunkable_ids
ChunkableIds(col, since) ==
    [cards |-> Since(Only(col.rows, Cards \cap DOMAIN col.rows), since),
     revlog |-> Since(col.revlog, since)]

\* get_chunk takes an entry and a card per round until the limit is reached;
\* a chunk below the limit is the last one.
Some(keys, n) == CHOOSE ks \in SUBSET keys :
                    Cardinality(ks) = (IF Cardinality(keys) < n THEN Cardinality(keys) ELSE n)

TakeChunk(ids) ==
    LET Taken(n) == [cards |-> Some(ids.cards, n), revlog |-> Some(ids.revlog, n)]
        Size(part) == Cardinality(part.cards) + Cardinality(part.revlog)
        Enough(n) == Size(Taken(n)) >= ChunkSize \/ Taken(n) = ids
        rounds == CHOOSE n \in 0..Size(ids) : Enough(n) /\ \A m \in 0..(n - 1) : ~Enough(m)
    IN  [part |-> Taken(rounds), done |-> Size(Taken(rounds)) < ChunkSize]

Rest(ids, part) == [cards |-> ids.cards \ part.cards, revlog |-> ids.revlog \ part.revlog]

Fetch(col, part) == [cards |-> Only(col.rows, part.cards), revlog |-> Only(col.revlog, part.revlog)]

\* sanity_check_info: the counts that both sides compare
Counts(col) == [cards  |-> Cardinality(DOMAIN col.rows \cap Cards),
                decks  |-> Cardinality(DOMAIN col.rows \cap Decks),
                revlog |-> Cardinality(DOMAIN col.revlog)]

\* table_has_usn
NothingPending(col) ==
    \A table \in {col.rows, col.graves, col.revlog} : Since(table, Pending) = {}

-----------------------------------------------------------------------------
Idle == [phase |-> "idle"]

Init ==
    /\ now = 1
    /\ device = [c \in Clients |-> StartCollection]
    /\ syncing = [c \in Clients |-> Idle]
    /\ offered = [c \in Clients |-> {}]
    /\ aborts = {}
    /\ server = StartCollection
    /\ session = Nobody
    /\ edits = 0 /\ syncs = 0 /\ faults = 0

-----------------------------------------------------------------------------
(* A user edits a collection that is not syncing.                           *)

Changes(c, col) ==
    /\ syncing[c] = Idle
    /\ edits < MaxEdits
    /\ edits' = edits + 1
    /\ now' = now + 1
    /\ device' = [device EXCEPT ![c] = [col EXCEPT !.mod = now']]
    /\ UNCHANGED <<syncing, offered, aborts, server, session, syncs, faults>>

Edit(c, o) ==
    /\ o \in DOMAIN device[c].rows
    /\ Changes(c, [device[c] EXCEPT !.rows[o] = NewRow(now + 1)])

\* The entry's id is the moment of the answer.
Review(c, card) ==
    /\ card \in DOMAIN device[c].rows
    /\ Changes(c, [device[c] EXCEPT !.rows[card] = NewRow(now + 1),
                                    !.revlog = Over(Just(now + 1, [usn |-> Pending]), @)])

\* An id is a moment too, so it is nobody else's.
Add(c, o) ==
    /\ \A col \in {server} \cup {device[d] : d \in Clients} :
           o \notin DOMAIN col.rows \cup DOMAIN col.graves
    /\ Changes(c, [device[c] EXCEPT !.rows = Over(Just(o, NewRow(now + 1)), @)])

Delete(c, o) ==
    /\ o \in DOMAIN device[c].rows
    /\ Changes(c, [device[c] EXCEPT !.rows = Without(@, {o}),
                                    !.graves = Over(@, Just(o, [usn |-> Pending]))])

Configure(c) == Changes(c, [device[c] EXCEPT !.conf = now + 1])

\* set_schema_modified, by the user's wish or a change of note types
ForceOneWay(c) ==
    /\ "schema" \in Faults
    /\ Changes(c, [device[c] EXCEPT !.scm = now + 1])

-----------------------------------------------------------------------------
(* The requests of a sync, in their order.                                  *)

InSession(c) == session # Nobody /\ session.key = c

\* No sync of another client ends between c's comparison and c's start.
NobodyComparing(c) ==
    \/ "overtaken" \in Faults
    \/ \A d \in Clients \ {c} : syncing[d].phase # "start"

\* meta, and the comparison; the server drops a sync in progress.
Meta(c) ==
    /\ syncing[c] = Idle
    /\ c \in aborts => "lost" \in Faults
    /\ syncs < MaxSyncs
    /\ syncs' = syncs + 1
    /\ session' = Nobody
    /\ \/ /\ device[c].mod = server.mod
          /\ offered' = [offered EXCEPT ![c] = {}]
          /\ UNCHANGED syncing
       \/ /\ device[c].mod # server.mod
          /\ device[c].scm # server.scm
          /\ offered' = [offered EXCEPT ![c] =
                            {way \in {"upload", "download"} :
                               IsEmpty(IF way = "upload" THEN device[c] ELSE server)
                                 => IsEmpty(device[c]) /\ IsEmpty(server)}]
          /\ UNCHANGED syncing
       \/ /\ device[c].mod # server.mod
          /\ device[c].scm = server.scm
          /\ offered' = [offered EXCEPT ![c] = {}]
          /\ syncing' = [syncing EXCEPT ![c] =
                            [phase |-> "start", newer |-> device[c].mod > server.mod,
                             server_usn |-> server.usn, work |-> device[c]]]
    /\ UNCHANGED <<now, device, aborts, server, edits, faults>>

\* start: the server opens a session and a transaction and answers with its
\* deletions; the client marks its own as sent.
StartSync(c) ==
    LET s == syncing[c]
        remote == Since(server.graves, device[c].usn)
        local == Since(s.work.graves, Pending)
        marked == [s.work EXCEPT !.graves = WithUsn(@, local, s.server_usn)]
    IN  /\ s.phase = "start"
        /\ session' = [key |-> c, server_usn |-> server.usn, client_usn |-> device[c].usn,
                       client_is_newer |-> s.newer, ids |-> <<>>, work |-> server]
        /\ syncing' = [syncing EXCEPT ![c] =
                         IF local = {}
                         THEN [s EXCEPT !.phase = "changes",
                                        !.work = ApplyGraves(marked, remote, s.server_usn)]
                         ELSE [phase |-> "graves", newer |-> s.newer, server_usn |-> s.server_usn,
                               work |-> marked, local |-> local, remote |-> remote]]
        /\ UNCHANGED <<now, device, offered, aborts, server, edits, syncs, faults>>

\* apply_graves: the client's deletions go to the server, then the server's
\* take effect on the client.
SendGraves(c) ==
    LET s == syncing[c]
    IN  /\ s.phase = "graves" /\ InSession(c)
        /\ session' = [session EXCEPT !.work = ApplyGraves(@, s.local, session.server_usn)]
        /\ syncing' = [syncing EXCEPT ![c] =
                         [phase |-> "changes", newer |-> s.newer, server_usn |-> s.server_usn,
                          work |-> ApplyGraves(s.work, s.remote, s.server_usn)]]
        /\ UNCHANGED <<now, device, offered, aborts, server, edits, syncs, faults>>

\* apply_changes: the server gathers its changed decks before it merges those
\* of the client.  The configuration goes as a whole, from the newer side.
SendChanges(c) ==
    LET s == syncing[c]
        DecksOf(col) == Only(col.rows, Decks \cap DOMAIN col.rows)
        local == Since(DecksOf(s.work), Pending)
        marked == [s.work EXCEPT !.rows = WithUsn(@, local, s.server_usn)]
        remote == Since(DecksOf(session.work), session.client_usn)
        conf == IF session.client_is_newer THEN s.work.conf ELSE session.work.conf
    IN  /\ s.phase = "changes" /\ InSession(c)
        /\ session' = [session EXCEPT
                         !.work = [MergeDecks(@, Only(marked.rows, local)) EXCEPT !.conf = conf]]
        /\ syncing' = [syncing EXCEPT ![c].phase = "chunk",
                         ![c].work = [MergeDecks(marked, Only(session.work.rows, remote))
                                        EXCEPT !.conf = conf]]
        /\ UNCHANGED <<now, device, offered, aborts, server, edits, syncs, faults>>

\* Mutant: the server gathers its ids on every request.
FetchChunkAnew(c) ==
    LET s == syncing[c]
        chunk == TakeChunk(ChunkableIds(session.work, session.client_usn))
        work == ApplyChunk(s.work, Fetch(session.work, chunk.part), Pending)
    IN  /\ s.phase = "chunk" /\ InSession(c)
        /\ syncing' = [syncing EXCEPT ![c] =
                         IF chunk.done
                         THEN [phase |-> "apply chunk", newer |-> s.newer,
                               server_usn |-> s.server_usn, work |-> work,
                               ids |-> ChunkableIds(work, Pending)]
                         ELSE [s EXCEPT !.work = work]]
        /\ UNCHANGED <<now, device, offered, aborts, server, session, edits, syncs, faults>>

\* chunk: the server gathers its ids once, on the first request.
FetchChunk(c) ==
    LET s == syncing[c]
        ids == IF session.ids = <<>> THEN ChunkableIds(session.work, session.client_usn)
               ELSE session.ids[1]
        chunk == TakeChunk(ids)
        work == ApplyChunk(s.work, Fetch(session.work, chunk.part), Pending)
    IN  /\ s.phase = "chunk" /\ InSession(c)
        /\ session' = [session EXCEPT !.ids = <<Rest(ids, chunk.part)>>]
        /\ syncing' = [syncing EXCEPT ![c] =
                         IF chunk.done
                         THEN [phase |-> "apply chunk", newer |-> s.newer,
                               server_usn |-> s.server_usn, work |-> work,
                               ids |-> ChunkableIds(work, Pending)]
                         ELSE [s EXCEPT !.work = work]]
        /\ UNCHANGED <<now, device, offered, aborts, server, edits, syncs, faults>>

\* apply_chunk: what the client sends is marked with the server's number.
SendChunk(c) ==
    LET s == syncing[c]
        chunk == TakeChunk(s.ids)
        work == [s.work EXCEPT !.rows = WithUsn(@, chunk.part.cards, s.server_usn),
                               !.revlog = WithUsn(@, chunk.part.revlog, s.server_usn)]
    IN  /\ s.phase = "apply chunk" /\ InSession(c)
        /\ session' = [session EXCEPT
                         !.work = ApplyChunk(@, Fetch(work, chunk.part), session.client_usn)]
        /\ syncing' = [syncing EXCEPT ![c] =
                         IF chunk.done
                         THEN [phase |-> "sanity", newer |-> s.newer,
                               server_usn |-> s.server_usn, work |-> work]
                         ELSE [s EXCEPT !.work = work, !.ids = Rest(@, chunk.part)]]
        /\ UNCHANGED <<now, device, offered, aborts, server, edits, syncs, faults>>

IsSane(c) ==
    /\ NothingPending(syncing[c].work) /\ NothingPending(session.work)
    /\ Counts(syncing[c].work) = Counts(session.work)

SanityCheck(c) ==
    /\ syncing[c].phase = "sanity" /\ InSession(c)
    /\ IsSane(c)
    /\ syncing' = [syncing EXCEPT ![c].phase = "finish"]
    /\ UNCHANGED <<now, device, offered, aborts, server, session, edits, syncs, faults>>

\* The client rolls back and sends an abort, then forces a one-way sync; the
\* server's transaction is gone with the collection it closed.
SanityCheckFails(c) ==
    /\ syncing[c].phase = "sanity" /\ InSession(c)
    /\ ~IsSane(c)
    /\ session' = [session EXCEPT !.work = server]
    /\ syncing' = [syncing EXCEPT ![c] = Idle]
    /\ aborts' = aborts \cup {c}
    /\ now' = now + 1
    /\ device' = [device EXCEPT ![c].scm = now']
    /\ UNCHANGED <<offered, server, edits, syncs, faults>>

\* Mutant: the modification time is not set.
FinishedSilently(col, t) == [col EXCEPT !.usn = @ + 1]

\* server_finish commits, and sets the modification time after that.
Finished(col, t) == [col EXCEPT !.usn = @ + 1, !.mod = t]

Finish(c) ==
    /\ syncing[c].phase = "finish" /\ InSession(c) /\ NobodyComparing(c)
    /\ now' = now + 1
    /\ server' = Finished(session.work, now')
    /\ session' = Nobody
    /\ device' = [device EXCEPT
                    ![c] = [syncing[c].work EXCEPT !.usn = syncing[c].server_usn + 1, !.mod = now']]
    /\ syncing' = [syncing EXCEPT ![c] = Idle]
    /\ UNCHANGED <<offered, aborts, edits, syncs, faults>>

-----------------------------------------------------------------------------
(* One-way syncs, which the user chooses among those that were offered.     *)

\* before_upload: a collection that others will download owes them nothing.
BeforeUpload(col, t) ==
    [col EXCEPT !.graves = Nothing,
                !.rows = [o \in DOMAIN @ |->
                            IF o \in Decks \/ @[o].usn = Pending THEN [@[o] EXCEPT !.usn = 0]
                            ELSE @[o]],
                !.revlog = WithUsn(@, Since(@, Pending), 0),
                !.usn = @ + 1, !.scm = t, !.mod = t]

FullUpload(c) ==
    /\ syncing[c] = Idle /\ "upload" \in offered[c] /\ NobodyComparing(c)
    /\ now' = now + 1
    /\ device' = [device EXCEPT ![c] = BeforeUpload(@, now')]
    /\ server' = device'[c]
    /\ session' = Nobody
    /\ offered' = [offered EXCEPT ![c] = {}]
    /\ UNCHANGED <<syncing, aborts, edits, syncs, faults>>

\* The server counts a download, and answers with the whole collection.
FullDownload(c) ==
    /\ syncing[c] = Idle /\ "download" \in offered[c] /\ NobodyComparing(c)
    /\ now' = now + 1
    /\ server' = Finished(server, now')
    /\ device' = [device EXCEPT ![c] = server']
    /\ session' = Nobody
    /\ offered' = [offered EXCEPT ![c] = {}]
    /\ UNCHANGED <<syncing, aborts, edits, syncs, faults>>

-----------------------------------------------------------------------------
(* Failures.                                                                *)

\* The client rolls its transaction back and asks the server to abort.
GivesUp(c) == /\ syncing' = [syncing EXCEPT ![c] = Idle]
              /\ aborts' = aborts \cup {c}

Fault == faults < MaxFaults /\ faults' = faults + 1

\* Mutant: the client commits what it has done so far.
RefusedCommits(c) ==
    /\ syncing[c].phase \notin {"idle", "start"} /\ ~InSession(c)
    /\ GivesUp(c)
    /\ device' = [device EXCEPT ![c] = syncing[c].work]
    /\ UNCHANGED <<now, offered, server, session, edits, syncs, faults>>

\* with_sync_state refuses a request of a session that is not the current one.
Refused(c) ==
    /\ syncing[c].phase \notin {"idle", "start"} /\ ~InSession(c)
    /\ GivesUp(c)
    /\ UNCHANGED <<now, device, offered, server, session, edits, syncs, faults>>

\* abort: it ends whichever session is active.
Abort(c) ==
    /\ c \in aborts
    /\ aborts' = aborts \ {c}
    /\ session' = Nobody
    /\ UNCHANGED <<now, device, syncing, offered, server, edits, syncs, faults>>

\* A request or its answer is lost before the last one, or the user interrupts.
SyncFails(c) ==
    /\ "lost" \in Faults /\ Fault
    /\ syncing[c] # Idle
    /\ GivesUp(c)
    /\ UNCHANGED <<now, device, offered, server, session, edits, syncs>>

AbortLost(c) ==
    /\ "lost" \in Faults /\ Fault
    /\ c \in aborts
    /\ aborts' = aborts \ {c}
    /\ UNCHANGED <<now, device, syncing, offered, server, session, edits, syncs>>

\* The server has finished, and the client does not learn of it.
FinishLost(c) ==
    /\ "lost" \in Faults /\ Fault
    /\ syncing[c].phase = "finish" /\ InSession(c) /\ NobodyComparing(c)
    /\ now' = now + 1
    /\ server' = Finished(session.work, now')
    /\ session' = Nobody
    /\ GivesUp(c)
    /\ UNCHANGED <<device, offered, edits, syncs>>

\* The server stops after the commit and before set_modified_time.
CrashInFinish(c) ==
    /\ "crash in finish" \in Faults /\ Fault
    /\ syncing[c].phase = "finish" /\ InSession(c) /\ NobodyComparing(c)
    /\ server' = Finished(session.work, server.mod)
    /\ session' = Nobody
    /\ GivesUp(c)
    /\ UNCHANGED <<now, device, offered, edits, syncs>>

ServerRestarts ==
    /\ "lost" \in Faults /\ Fault
    /\ session # Nobody
    /\ session' = Nobody
    /\ UNCHANGED <<now, device, syncing, offered, aborts, server, edits, syncs>>

\* before_upload is committed on the client; the upload does not arrive.
UploadFails(c) ==
    /\ "lost" \in Faults /\ Fault
    /\ syncing[c] = Idle /\ "upload" \in offered[c]
    /\ now' = now + 1
    /\ device' = [device EXCEPT ![c] = BeforeUpload(@, now')]
    /\ offered' = [offered EXCEPT ![c] = {}]
    /\ UNCHANGED <<syncing, aborts, server, session, edits, syncs>>

-----------------------------------------------------------------------------
Users(c) == \/ \E o \in Objects : Edit(c, o) \/ Add(c, o) \/ Delete(c, o)
            \/ \E card \in Cards : Review(c, card)
            \/ Configure(c) \/ ForceOneWay(c)

\* What the client does next once a sync has begun.
Proceeds(c) == \/ StartSync(c) \/ SendGraves(c) \/ SendChanges(c)
               \/ FetchChunk(c) \/ SendChunk(c)
               \/ SanityCheck(c) \/ SanityCheckFails(c) \/ Finish(c)
               \/ Refused(c)

Fails(c) == SyncFails(c) \/ AbortLost(c) \/ FinishLost(c) \/ CrashInFinish(c) \/ UploadFails(c)

Next == \/ \E c \in Clients : \/ Users(c) \/ Meta(c) \/ Proceeds(c) \/ Abort(c)
                              \/ FullUpload(c) \/ FullDownload(c) \/ Fails(c)
        \/ ServerRestarts

\* A sync runs to its end without waiting for the user, and HTTP requests time
\* out; nothing obliges the user to sync.
Spec == Init /\ [][Next]_vars /\ \A c \in Clients : WF_vars(Proceeds(c))

-----------------------------------------------------------------------------
(* Properties.                                                              *)

Table(keys) == [keys -> [mtime : 0..now, edit : 1..now, usn : {Pending} \cup Nat]]
Tombs(keys) == [keys -> [usn : {Pending} \cup Nat]]

IsCollection(col) ==
    /\ DOMAIN col.rows \subseteq Objects /\ col.rows \in Table(DOMAIN col.rows)
    /\ DOMAIN col.graves \subseteq Objects /\ col.graves \in Tombs(DOMAIN col.graves)
    /\ DOMAIN col.revlog \subseteq 1..now /\ col.revlog \in Tombs(DOMAIN col.revlog)
    /\ DOMAIN col.rows \cap DOMAIN col.graves = {}
    /\ {col.conf, col.mod, col.scm} \subseteq 1..now
    /\ col.usn \in Nat

Phases == {"idle", "start", "graves", "changes", "chunk", "apply chunk", "sanity", "finish"}

\* Every collection and every working copy is one: in particular no object is
\* both there and deleted.
TypeOK ==
    /\ \A c \in Clients : /\ IsCollection(device[c])
                          /\ syncing[c].phase \in Phases
                          /\ syncing[c] # Idle => IsCollection(syncing[c].work)
                          /\ offered[c] \subseteq {"upload", "download"}
    /\ IsCollection(server)
    /\ session # Nobody => session.key \in Clients /\ IsCollection(session.work)
    /\ aborts \subseteq Clients

\* What users see of a collection.
Content(col) == [rows |-> [o \in DOMAIN col.rows |-> col.rows[o].edit],
                 revlog |-> DOMAIN col.revlog, conf |-> col.conf]

\* "Both devices end in the same state after syncing"
\* (docs/sync-conflict-rule.md:32): a client whose sync ended well holds what
\* the server holds.
SyncedAlike == [][\A c \in Clients : Finish(c) => Content(device[c]') = Content(server')]_vars

\* A client that would be told that there is nothing to sync holds what the
\* server holds (SyncActionRequired::NoChanges, meta.rs).
NoChangesIsTrue ==
    \A c \in Clients :
        syncing[c] = Idle /\ device[c].mod = server.mod
            => Content(device[c]) = Content(server)

\* What a client no longer regards as unsent has reached the server, which has
\* that version or a newer one, or a deletion (usn, chunks.rs and changes.rs).
SentIsKept ==
    \A c \in Clients, o \in Objects :
        LET mine == device[c]
        IN  device[c].scm = server.scm
              => /\ o \in DOMAIN mine.rows /\ mine.rows[o].usn # Pending =>
                       \/ o \in DOMAIN server.graves
                       \/ o \in DOMAIN server.rows /\ server.rows[o].edit >= mine.rows[o].edit
                 /\ o \in DOMAIN mine.graves /\ mine.graves[o].usn # Pending =>
                       o \in DOMAIN server.graves

\* What a client does not have yet is numbered such that its next sync will
\* send it (client_usn, start.rs).
WillBeSent ==
    \A c \in Clients :
        device[c].scm = server.scm =>
          /\ \A o \in DOMAIN server.rows :
               server.rows[o].usn < device[c].usn =>
                  \/ o \in DOMAIN device[c].graves
                  \/ o \in DOMAIN device[c].rows /\ device[c].rows[o].edit >= server.rows[o].edit
          /\ \A o \in DOMAIN server.graves :
               server.graves[o].usn < device[c].usn => o \in DOMAIN device[c].graves
          /\ \A r \in DOMAIN server.revlog :
               server.revlog[r].usn < device[c].usn => r \in DOMAIN device[c].revlog

\* The counts of the two sides never differ, so no client is forced into a
\* one-way sync by the check (sanity.rs).
SanityHolds == \A c \in Clients : syncing[c].phase = "sanity" /\ InSession(c) => IsSane(c)

\* "We never resolve a conflict by silently dropping or duplicating a review"
\* (docs/sync-conflict-rule.md:38): a review that a client has sent is on the
\* server, as long as no one-way sync is due.
ReviewsKept ==
    \A c \in Clients : \A r \in DOMAIN device[c].revlog :
        device[c].scm = server.scm /\ device[c].revlog[r].usn # Pending
            => r \in DOMAIN server.revlog

\* A sync ends: it succeeds, is refused or gives up.
SyncEnds == \A c \in Clients : syncing[c] # Idle ~> syncing[c] = Idle

\* Sync keeps the newer version of each object and every review, whatever is
\* interrupted; a copy replaces another only in a one-way sync.
VersionIn(col, o) == IF o \in DOMAIN col.rows THEN col.rows[o].edit
                     ELSE IF o \in DOMAIN col.graves THEN -1 ELSE 0

CopyOf(col) == [version |-> [o \in Objects |-> VersionIn(col, o)],
                reviews |-> DOMAIN col.revlog]

Promise == INSTANCE LastWriterWins
             WITH Devices <- Clients, Stamps <- 1..(1 + MaxEdits + 2 * MaxSyncs),
                  held <- [c \in Clients |-> CopyOf(device[c])], kept <- CopyOf(server),
                  told <- {c \in Clients : offered[c] # {}}

IsLastWriterWins == Promise!Spec
=============================================================================
