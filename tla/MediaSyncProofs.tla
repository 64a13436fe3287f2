--------------------------- MODULE MediaSyncProofs ---------------------------
(***************************************************************************)
(* Proofs about media sync, for any number of clients, names, contents,    *)
(* limits and faults.  The invariant has three layers, each kept by every  *)
(* step on top of the ones before it:                                      *)
(*                                                                         *)
(*   Shape     the parts of the state have their fields, the server's      *)
(*             numbers bound every other, and its count is of its files;   *)
(*   Removals  a deletion in a database goes back to some user's removal;  *)
(*   Calm      while nothing is left that a later sync cannot see, a       *)
(*             client knows every change it has passed.  In the middle of  *)
(*             a sync this takes a form of its own for what is downloaded  *)
(*             and not yet recorded (Downloads), and for what is uploaded  *)
(*             and not yet confirmed (Sends).                              *)
(*                                                                         *)
(* What each step does is first stated as a relation between the client    *)
(* before and after it (..Does), so that the layers need not look into the *)
(* functions and records of the model again.                               *)
(***************************************************************************)
EXTENDS MediaSync, FunctionTheorems, FiniteSetTheorems, WellFoundedInduction, TLAPS

IsFiles(f) == DOMAIN f \subseteq Names /\ f \in [DOMAIN f -> Data]
IsDb(db) == /\ DOMAIN db \subseteq Names
            /\ db \in [DOMAIN db -> [sha1 : Data \cup {Gone}, dirty : BOOLEAN]]
IsRows(rows, u) == /\ DOMAIN rows \subseteq Names
                   /\ rows \in [DOMAIN rows -> [sha1 : Data \cup {Gone}, usn : 1..u]]
Listed(rows) == {n \in DOMAIN rows : rows[n].sha1 # Gone}

IsClient(x, u) ==
    /\ DOMAIN x = {"files", "fresh", "db", "usn"}
    /\ IsFiles(x.files) /\ IsDb(x.db)
    /\ x.fresh \in BOOLEAN /\ x.usn \in 0..u

IsDownload(s, u) ==
    /\ DOMAIN s = {"phase", "todo", "got", "delete", "clean", "last"}
    /\ s.phase = "download"
    /\ s.todo \subseteq Names /\ s.delete \subseteq Names /\ s.clean \subseteq Names
    /\ IsFiles(s.got)
    /\ s.last \in 0..u
IsSent(s, u) ==
    /\ DOMAIN s = {"phase", "names", "reply"}
    /\ s.phase = "sent"
    /\ s.names \subseteq Names
    /\ s.reply \in 0..u
IsSync(s, u) ==
    \/ s = Idle \/ s = [phase |-> "fetch"] \/ s = [phase |-> "send"]
    \/ IsDownload(s, u) \/ IsSent(s, u)

IsServer(s) ==
    /\ DOMAIN s = {"files", "rows", "usn", "count"}
    /\ s.usn \in Nat
    /\ IsFiles(s.files) /\ IsRows(s.rows, s.usn)
    /\ s.count = Cardinality(Listed(s.rows))

\* The parts of the state have their fields, whatever goes wrong.
Shape ==
    /\ DOMAIN client = Clients /\ DOMAIN syncing = Clients
    /\ \A c \in Clients : IsClient(client[c], server.usn) /\ IsSync(syncing[c], server.usn)
    /\ IsServer(server)

-----------------------------------------------------------------------------
(* What is known to be removed.                                             *)

AccountsFor(x) == \A n \in DOMAIN x.db : x.db[n].sha1 = Gone \/ n \notin DOMAIN x.files => n \in removed
GotOrRemoved(s, x) ==
    s.phase = "download" => \A n \in DOMAIN s.got : n \in DOMAIN x.files \/ n \in removed
Removals ==
    /\ \A c \in Clients : AccountsFor(client[c]) /\ GotOrRemoved(syncing[c], client[c])
    /\ \A n \in DOMAIN server.rows : server.rows[n].sha1 = Gone => n \in removed

-----------------------------------------------------------------------------
(* As long as nothing is disturbed.                                         *)

InStep == /\ DOMAIN server.files = Listed(server.rows)
          /\ \A n \in DOMAIN server.files : server.files[n] = server.rows[n].sha1

\* The database has what the folder has.
Mirrors(x) == /\ DOMAIN x.files = Present(x.db)
              /\ \A n \in DOMAIN x.files : x.files[n] = x.db[n].sha1

Knows(x, n) == LocalSha(x.db, n) = server.rows[n].sha1 \/ n \in Dirty(x.db)

Passed(x) == \A n \in DOMAIN server.rows : server.rows[n].usn <= x.usn => Knows(x, n)

\* What does not wait for upload is on the server.
Uploaded(x) == Present(x.db) \subseteq Dirty(x.db) \cup DOMAIN server.rows

\* The folder is ahead of the database by what was downloaded.
Ahead(x, got) ==
    /\ DOMAIN x.files = DOMAIN got \cup Present(x.db)
    /\ \A n \in DOMAIN x.files : x.files[n] = IF n \in DOMAIN got THEN got[n] ELSE x.db[n].sha1
    /\ x.fresh => DOMAIN got \subseteq Present(x.db)

Downloads(x, s) ==
    /\ Ahead(x, s.got)
    /\ (s.todo \cup DOMAIN s.got) \cap (s.delete \cup s.clean) = {} /\ s.delete \cap s.clean = {}
    /\ DOMAIN s.got \cup s.clean \subseteq DOMAIN server.rows
    /\ \A n \in s.delete \cap DOMAIN x.db : x.db[n].sha1 = Gone
    /\ \A n \in DOMAIN server.rows \ s.todo :
         server.rows[n].usn <= s.last =>
           IF n \in DOMAIN s.got THEN s.got[n] = server.rows[n].sha1
           ELSE IF n \in s.delete THEN server.rows[n].sha1 = Gone
           ELSE IF n \in s.clean THEN LocalSha(x.db, n) = server.rows[n].sha1
           ELSE Knows(x, n)

Sends(x, s) ==
    /\ x.usn <= s.reply
    /\ s.names \cap Present(x.db) \subseteq DOMAIN server.rows
    /\ \A n \in DOMAIN server.rows \cap s.names :
         server.rows[n].usn <= s.reply => LocalSha(x.db, n) = server.rows[n].sha1
    /\ x.usn + Cardinality(s.names) = s.reply =>
         \A n \in DOMAIN server.rows \ s.names :
           server.rows[n].usn <= s.reply => server.rows[n].usn <= x.usn

InSync(x, s) ==
    /\ Passed(x) /\ Uploaded(x)
    /\ IF s.phase = "download" THEN Downloads(x, s)
       ELSE /\ s # Idle => x.fresh
            /\ x.fresh => Mirrors(x)
            /\ s.phase = "sent" => Sends(x, s)

Calm == ~disturbed => InStep /\ \A c \in Clients : InSync(client[c], syncing[c])
-----------------------------------------------------------------------------
(* Functions.                                                               *)

LEMMA OnlyIs ==
    ASSUME NEW f, NEW K
    PROVE  DOMAIN Only(f, K) = K /\ \A k \in K : Only(f, K)[k] = f[k]
  BY DEF Only

LEMMA WithoutIs ==
    ASSUME NEW f, NEW K
    PROVE  /\ DOMAIN Without(f, K) = DOMAIN f \ K
           /\ \A k \in DOMAIN Without(f, K) : Without(f, K)[k] = f[k]
  BY OnlyIs DEF Without

LEMMA JustIs ==
    ASSUME NEW k, NEW v
    PROVE  DOMAIN Just(k, v) = {k} /\ Just(k, v)[k] = v
  BY DEF Just

LEMMA OverIs ==
    ASSUME NEW f, NEW g
    PROVE  /\ DOMAIN Over(f, g) = DOMAIN f \cup DOMAIN g
           /\ \A k \in DOMAIN f : Over(f, g)[k] = f[k]
           /\ \A k \in DOMAIN g \ DOMAIN f : Over(f, g)[k] = g[k]
  BY DEF Over

\* f is g with v at k.
WithValue(f, g, k, v) ==
    /\ DOMAIN f = DOMAIN g \cup {k} /\ f[k] = v
    /\ \A m \in DOMAIN g \ {k} : f[m] = g[m]

LEMMA OverJust ==
    ASSUME NEW k, NEW v, NEW g
    PROVE  WithValue(Over(Just(k, v), g), g, k, v)
  BY DEF Over, Just, WithValue

LEMMA OverFiles ==
    ASSUME NEW f, NEW g, IsFiles(f), IsFiles(g)
    PROVE  IsFiles(Over(f, g))
  BY DEF IsFiles, Over

LEMMA WithoutFiles ==
    ASSUME NEW f, NEW K, IsFiles(f)
    PROVE  IsFiles(Without(f, K))
  BY DEF IsFiles, Without, Only

LEMMA JustFiles ==
    ASSUME NEW n \in Names, NEW d \in Data
    PROVE  IsFiles(Just(n, d))
  BY DEF IsFiles, Just

LEMMA NothingIs ==
    /\ DOMAIN Nothing = {}
    /\ IsFiles(Nothing) /\ IsDb(Nothing) /\ \A u : IsRows(Nothing, u)
  BY DEF Nothing, IsFiles, IsDb, IsRows

LEMMA FilesAre ==
    ASSUME NEW f
    PROVE  IsFiles(f) <=> f \in Files
  BY DEF IsFiles, Files

LEMMA OverDb ==
    ASSUME NEW f, NEW g, IsDb(f), IsDb(g)
    PROVE  IsDb(Over(f, g))
  BY DEF IsDb, Over

LEMMA WithoutDb ==
    ASSUME NEW f, NEW K, IsDb(f)
    PROVE  IsDb(Without(f, K))
  BY DEF IsDb, Without, Only

LEMMA JustDb ==
    ASSUME NEW n \in Names, NEW h \in Data \cup {Gone}, NEW b \in BOOLEAN
    PROVE  IsDb(Just(n, [sha1 |-> h, dirty |-> b]))
  BY DEF IsDb, Just

\* The rows of a database are records of a checksum and a mark.
LEMMA RowsOfDb ==
    ASSUME NEW db, IsDb(db), NEW n \in DOMAIN db
    PROVE  /\ n \in Names
           /\ db[n] \in [sha1 : Data \cup {Gone}, dirty : BOOLEAN]
           /\ db[n].sha1 \in Data \cup {Gone} /\ db[n].dirty \in BOOLEAN
  BY DEF IsDb

\* Deleted(db, db2, names): the names are marked as deleted.
Deleted(db, db2, names) ==
    /\ DOMAIN db2 = DOMAIN db
    /\ \A n \in DOMAIN db : db2[n] = IF n \in names THEN [sha1 |-> Gone, dirty |-> TRUE] ELSE db[n]

LEMMA DeletedIs ==
    ASSUME NEW db, IsDb(db), NEW names, NEW db2,
           db2 = [n \in DOMAIN db |-> IF n \in names THEN [sha1 |-> Gone, dirty |-> TRUE] ELSE db[n]]
    PROVE  IsDb(db2) /\ Deleted(db, db2, names)
  BY DEF IsDb, Deleted

Scans(files, db, db2) ==
    /\ DOMAIN db2 = DOMAIN files \cup DOMAIN db
    /\ \A n \in DOMAIN files :
         /\ db2[n].sha1 = files[n]
         /\ n \in Present(db) /\ db[n].sha1 = files[n] => db2[n].dirty = db[n].dirty
         /\ ~(n \in Present(db) /\ db[n].sha1 = files[n]) => db2[n].dirty
    /\ \A n \in DOMAIN db \ DOMAIN files :
         db2[n] = IF n \in Present(db) THEN [sha1 |-> Gone, dirty |-> TRUE] ELSE db[n]

LEMMA ScannedIs ==
    ASSUME NEW files, IsFiles(files), NEW db, IsDb(db)
    PROVE  IsDb(Scanned(files, db)) /\ Scans(files, db, Scanned(files, db))
  <1> DEFINE Same(n) == n \in Present(db) /\ db[n].sha1 = files[n]
             row(n) == IF n \in DOMAIN files
                       THEN [sha1 |-> files[n], dirty |-> Same(n) => db[n].dirty]
                       ELSE IF n \in Present(db) THEN [sha1 |-> Gone, dirty |-> TRUE]
                       ELSE db[n]
  <1>1. Scanned(files, db) = [n \in DOMAIN files \cup DOMAIN db |-> row(n)]
    BY DEF Scanned
  <1>2. Present(db) \subseteq DOMAIN db
    BY DEF Present
  <1>3. ASSUME NEW n \in DOMAIN files
        PROVE  /\ n \in Names /\ row(n) \in [sha1 : Data \cup {Gone}, dirty : BOOLEAN]
               /\ row(n).sha1 = files[n]
               /\ Same(n) => row(n).dirty = db[n].dirty
               /\ ~Same(n) => row(n).dirty
    <2> DEFINE mark == Same(n) => db[n].dirty
    <2>1. row(n) = [sha1 |-> files[n], dirty |-> mark]
      OBVIOUS
    <2>2. mark \in BOOLEAN /\ (~Same(n) => mark)
      OBVIOUS
    <2>3. Same(n) => mark = db[n].dirty
      <3>1. Same(n) => db[n].dirty \in BOOLEAN
        BY <1>2, RowsOfDb
      <3> QED BY <3>1
    <2>4. files[n] \in Data /\ n \in Names
      BY DEF IsFiles
    <2> HIDE DEF mark, Same
    <2> QED BY <2>1, <2>2, <2>3, <2>4
  <1>4. ASSUME NEW n \in DOMAIN db \ DOMAIN files
        PROVE  /\ n \in Names /\ row(n) \in [sha1 : Data \cup {Gone}, dirty : BOOLEAN]
               /\ row(n) = IF n \in Present(db) THEN [sha1 |-> Gone, dirty |-> TRUE] ELSE db[n]
    BY RowsOfDb
  <1> HIDE DEF row
  <1>5. IsDb(Scanned(files, db))
    BY <1>1, <1>3, <1>4 DEF IsDb
  <1> QED
    BY <1>1, <1>3, <1>4, <1>5 DEF Scans

Cleans(db, db2, names) ==
    /\ DOMAIN db2 = DOMAIN db
    /\ \A n \in DOMAIN db :
         /\ db2[n].sha1 = db[n].sha1
         /\ n \in names => ~db2[n].dirty
         /\ n \notin names => db2[n].dirty = db[n].dirty

LEMMA CleanedIs ==
    ASSUME NEW db, IsDb(db), NEW names
    PROVE  IsDb(Cleaned(db, names)) /\ Cleans(db, Cleaned(db, names), names)
  <1> DEFINE row(n) == IF n \in names THEN [db[n] EXCEPT !.dirty = FALSE] ELSE db[n]
  <1>1. ASSUME NEW n \in DOMAIN db
        PROVE  /\ row(n) \in [sha1 : Data \cup {Gone}, dirty : BOOLEAN]
               /\ row(n).sha1 = db[n].sha1
               /\ n \in names => row(n).dirty = FALSE
               /\ n \notin names => row(n).dirty = db[n].dirty
    <2>1. CASE n \in names
      <3>1. row(n) = [db[n] EXCEPT !.dirty = FALSE]
        BY <2>1
      <3>2. db[n] \in [sha1 : Data \cup {Gone}, dirty : BOOLEAN]
        BY RowsOfDb
      <3> QED BY <2>1, <3>1, <3>2
    <2>2. CASE n \notin names
      BY <2>2, RowsOfDb
    <2> QED BY <2>1, <2>2
  <1>2. Cleaned(db, names) = [n \in DOMAIN db |-> row(n)]
    BY DEF Cleaned
  <1> HIDE DEF row
  <1> QED
    BY <1>1, <1>2 DEF Cleans, IsDb

-----------------------------------------------------------------------------
(* What the steps do.                                                       *)

\* All but c's side stays, and the server's numbers do not go back.
OnlyOf(c) ==
    /\ DOMAIN client' = Clients /\ DOMAIN syncing' = Clients
    /\ \A d \in Clients \ {c} : client'[d] = client[d] /\ syncing'[d] = syncing[d]

LEMMA ClientOf ==
    ASSUME Shape, NEW c \in Clients
    PROVE  /\ IsClient(client[c], server.usn) /\ IsSync(syncing[c], server.usn)
           /\ DOMAIN client[c] = {"files", "fresh", "db", "usn"}
           /\ IsFiles(client[c].files) /\ IsDb(client[c].db)
           /\ client[c].fresh \in BOOLEAN /\ client[c].usn \in 0..server.usn
           /\ server.usn \in Nat /\ client[c].usn \in Nat
  <1>1. IsClient(client[c], server.usn) /\ IsSync(syncing[c], server.usn) /\ server.usn \in Nat
    BY DEF Shape, IsServer
  <1> QED
    BY <1>1 DEF IsClient

\* Users.
Edited(c) ==
    /\ OnlyOf(c) /\ syncing' = syncing /\ server' = server
    /\ disturbed' = (disturbed \/ syncing[c] # Idle)
    /\ client'[c].usn = client[c].usn

LEMMA ChangesDoes ==
    ASSUME Shape, NEW c \in Clients, NEW to, Changes(c, to)
    PROVE  /\ client'[c] = to
           /\ OnlyOf(c) /\ syncing' = syncing /\ server' = server
           /\ disturbed' = (disturbed \/ syncing[c] # Idle)
  BY DEF Shape, Changes, OnlyOf

AddedFile(x, y, n, d) ==
    /\ WithValue(y.files, x.files, n, d)
    /\ n \in DOMAIN x.files => x.files[n] = d /\ LocalSha(x.db, n) # d
    /\ y.fresh = x.fresh
    /\ LocalSha(x.db, n) = d => y.db = x.db
    /\ LocalSha(x.db, n) # d =>
         WithValue(y.db, x.db, n, [sha1 |-> d, dirty |-> TRUE])

LEMMA AddFileDoes ==
    ASSUME Shape, NEW c \in Clients, NEW n \in Names, NEW d \in Data, AddFile(c, n, d)
    PROVE  /\ Edited(c) /\ removed' = removed
           /\ IsClient(client'[c], server.usn)
           /\ AddedFile(client[c], client'[c], n, d)
  <1> DEFINE x == client[c]
             files == Over(Just(n, d), x.files)
             row == [sha1 |-> d, dirty |-> TRUE]
             more == Over(Just(n, row), x.db)
             db == IF LocalSha(x.db, n) = d THEN x.db ELSE more
             to == [x EXCEPT !.files = files, !.db = db]
  <1>1. Changes(c, to) /\ removed' = removed
        /\ (n \in DOMAIN x.files => x.files[n] = d /\ LocalSha(x.db, n) # d)
    BY DEF AddFile
  <1>2. /\ DOMAIN x = {"files", "fresh", "db", "usn"} /\ IsFiles(x.files) /\ IsDb(x.db)
        /\ x.fresh \in BOOLEAN /\ x.usn \in 0..server.usn
    BY ClientOf
  <1>3. IsFiles(files) /\ IsDb(more)
    BY <1>2, OverFiles, JustFiles, OverDb, JustDb
  <1> HIDE DEF row, x
  <1>4. WithValue(files, x.files, n, d) /\ WithValue(more, x.db, n, row)
    BY OverJust
  <1>6. /\ to.files = files /\ to.db = db /\ to.fresh = x.fresh /\ to.usn = x.usn
        /\ DOMAIN to = {"files", "fresh", "db", "usn"}
    BY <1>2
  <1> HIDE DEF x, to, files, more, row
  <1>7. client'[c] = to /\ OnlyOf(c) /\ syncing' = syncing /\ server' = server
        /\ disturbed' = (disturbed \/ syncing[c] # Idle)
    BY <1>1, ChangesDoes
  <1>8. IsDb(db)
    BY <1>2, <1>3
  <1>9. IsClient(to, server.usn)
    BY <1>2, <1>3, <1>6, <1>8 DEF IsClient
  <1>10. AddedFile(x, to, n, d)
    BY <1>1, <1>4, <1>6 DEF AddedFile, db, row
  <1> QED
    BY <1>1, <1>6, <1>7, <1>9, <1>10 DEF Edited, x

RemovedFiles(x, y, names) ==
    /\ names \subseteq DOMAIN x.files
    /\ DOMAIN y.files = DOMAIN x.files \ names
    /\ \A m \in DOMAIN y.files : y.files[m] = x.files[m]
    /\ y.fresh = x.fresh
    /\ Deleted(x.db, y.db, names)

LEMMA RemoveFilesDoes ==
    ASSUME Shape, NEW c \in Clients, NEW names, RemoveFiles(c, names)
    PROVE  /\ Edited(c) /\ removed' = removed \cup names
           /\ IsClient(client'[c], server.usn)
           /\ RemovedFiles(client[c], client'[c], names)
  <1> DEFINE x == client[c]
             files == Without(x.files, names)
             db == [n \in DOMAIN x.db |-> IF n \in names THEN [sha1 |-> Gone, dirty |-> TRUE]
                                          ELSE x.db[n]]
             to == [x EXCEPT !.files = files, !.db = db]
  <1>1. Changes(c, to) /\ removed' = removed \cup names /\ names \subseteq DOMAIN x.files
    BY DEF RemoveFiles
  <1>2. /\ DOMAIN x = {"files", "fresh", "db", "usn"} /\ IsFiles(x.files) /\ IsDb(x.db)
        /\ x.fresh \in BOOLEAN /\ x.usn \in 0..server.usn
    BY ClientOf
  <1>3. IsFiles(files) /\ IsDb(db) /\ Deleted(x.db, db, names)
    BY <1>2, WithoutFiles, DeletedIs
  <1>4. DOMAIN files = DOMAIN x.files \ names /\ \A m \in DOMAIN files : files[m] = x.files[m]
    BY WithoutIs
  <1>5. /\ to.files = files /\ to.db = db /\ to.fresh = x.fresh /\ to.usn = x.usn
        /\ DOMAIN to = {"files", "fresh", "db", "usn"}
    BY <1>2
  <1> HIDE DEF x, to, files, db
  <1>6. client'[c] = to /\ OnlyOf(c) /\ syncing' = syncing /\ server' = server
        /\ disturbed' = (disturbed \/ syncing[c] # Idle)
    BY <1>1, ChangesDoes
  <1>7. IsClient(to, server.usn)
    BY <1>2, <1>3, <1>5 DEF IsClient
  <1>8. RemovedFiles(x, to, names)
    BY <1>1, <1>3, <1>4, <1>5 DEF RemovedFiles
  <1> QED
    BY <1>1, <1>5, <1>6, <1>7, <1>8 DEF Edited, x

\* Another program's change is left for the next scan.
Scribbled(x, y) == y.db = x.db /\ ~y.fresh

LEMMA PutDoes ==
    ASSUME Shape, NEW c \in Clients, NEW n \in Names, NEW d \in Data, Put(c, n, d)
    PROVE  /\ Edited(c) /\ removed' = removed
           /\ IsClient(client'[c], server.usn)
           /\ Scribbled(client[c], client'[c])
           /\ DOMAIN client'[c].files = DOMAIN client[c].files \cup {n}
  <1> DEFINE x == client[c]
             files == Over(Just(n, d), x.files)
             to == [x EXCEPT !.files = files, !.fresh = FALSE]
  <1>1. Changes(c, to) /\ removed' = removed
    BY DEF Put
  <1>2. /\ DOMAIN x = {"files", "fresh", "db", "usn"} /\ IsFiles(x.files) /\ IsDb(x.db)
        /\ x.fresh \in BOOLEAN /\ x.usn \in 0..server.usn
    BY ClientOf
  <1>3. IsFiles(files) /\ DOMAIN files = DOMAIN x.files \cup {n}
    <2>1. IsFiles(files)
      BY <1>2, OverFiles, JustFiles
    <2>2. DOMAIN files = DOMAIN x.files \cup {n}
      BY OverJust DEF WithValue
    <2> QED BY <2>1, <2>2
  <1>4. /\ to.files = files /\ to.db = x.db /\ to.fresh = FALSE /\ to.usn = x.usn
        /\ DOMAIN to = {"files", "fresh", "db", "usn"}
    BY <1>2
  <1> HIDE DEF x, to, files
  <1>5. client'[c] = to /\ OnlyOf(c) /\ syncing' = syncing /\ server' = server
        /\ disturbed' = (disturbed \/ syncing[c] # Idle)
    BY <1>1, ChangesDoes
  <1>6. IsClient(to, server.usn) /\ Scribbled(x, to)
    BY <1>2, <1>3, <1>4 DEF IsClient, Scribbled
  <1> QED
    BY <1>1, <1>3, <1>4, <1>5, <1>6 DEF Edited, x

LEMMA TakeDoes ==
    ASSUME Shape, NEW c \in Clients, NEW n \in Names, Take(c, n)
    PROVE  /\ Edited(c) /\ removed' = removed \cup {n}
           /\ IsClient(client'[c], server.usn)
           /\ Scribbled(client[c], client'[c])
           /\ DOMAIN client'[c].files = DOMAIN client[c].files \ {n}
  <1> DEFINE x == client[c]
             files == Without(x.files, {n})
             to == [x EXCEPT !.files = files, !.fresh = FALSE]
  <1>1. Changes(c, to) /\ removed' = removed \cup {n}
    BY DEF Take
  <1>2. /\ DOMAIN x = {"files", "fresh", "db", "usn"} /\ IsFiles(x.files) /\ IsDb(x.db)
        /\ x.fresh \in BOOLEAN /\ x.usn \in 0..server.usn
    BY ClientOf
  <1>3. IsFiles(files) /\ DOMAIN files = DOMAIN x.files \ {n}
    BY <1>2, WithoutFiles, WithoutIs
  <1>4. /\ to.files = files /\ to.db = x.db /\ to.fresh = FALSE /\ to.usn = x.usn
        /\ DOMAIN to = {"files", "fresh", "db", "usn"}
    BY <1>2
  <1> HIDE DEF x, to, files
  <1>5. client'[c] = to /\ OnlyOf(c) /\ syncing' = syncing /\ server' = server
        /\ disturbed' = (disturbed \/ syncing[c] # Idle)
    BY <1>1, ChangesDoes
  <1>6. IsClient(to, server.usn) /\ Scribbled(x, to)
    BY <1>2, <1>3, <1>4 DEF IsClient, Scribbled
  <1> QED
    BY <1>1, <1>3, <1>4, <1>5, <1>6 DEF Edited, x

-----------------------------------------------------------------------------
(* The steps of a sync.                                                     *)

LEMMA PhaseOf ==
    ASSUME Shape, NEW c \in Clients
    PROVE  /\ syncing[c].phase = "download" => IsDownload(syncing[c], server.usn)
           /\ syncing[c].phase = "sent" => IsSent(syncing[c], server.usn)
           /\ syncing[c].phase = "fetch" => syncing[c] = [phase |-> "fetch"]
           /\ syncing[c].phase = "send" => syncing[c] = [phase |-> "send"]
           /\ syncing[c] # Idle => syncing[c].phase # "idle"
           /\ syncing[c].phase \in Phases
  BY ClientOf DEF IsSync, IsDownload, IsSent, Idle, Phases

LEMMA IdleIs ==
    /\ Idle.phase = "idle"
    /\ \A u : IsSync(Idle, u) /\ IsSync([phase |-> "fetch"], u) /\ IsSync([phase |-> "send"], u)
  BY DEF Idle, IsSync

Began(x, y) ==
    /\ y.files = x.files /\ y.usn = x.usn /\ y.fresh
    /\ x.fresh => y.db = x.db
    /\ ~x.fresh => Scans(x.files, x.db, y.db)

LEMMA BeginDoes ==
    ASSUME Shape, NEW c \in Clients, Begin(c)
    PROVE  /\ OnlyOf(c) /\ server' = server /\ removed' = removed /\ disturbed' = disturbed
           /\ syncing[c] = Idle
           /\ syncing'[c] \in {Idle, [phase |-> "fetch"], [phase |-> "send"]}
           /\ IsClient(client'[c], server.usn)
           /\ Began(client[c], client'[c])
  <1> DEFINE x == client[c]
             known == IF x.fresh THEN x.db ELSE Scanned(x.files, x.db)
             y == client'[c]
  <1>1. /\ DOMAIN x = {"files", "fresh", "db", "usn"} /\ IsFiles(x.files) /\ IsDb(x.db)
        /\ x.fresh \in BOOLEAN /\ x.usn \in 0..server.usn
    BY ClientOf
  <1>2. /\ client' = [client EXCEPT ![c].db = known, ![c].fresh = TRUE]
        /\ server' = server /\ removed' = removed /\ disturbed' = disturbed
        /\ syncing[c] = Idle
    BY DEF Begin
  <1>3. \E s \in {Idle, [phase |-> "fetch"], [phase |-> "send"]} :
          syncing' = [syncing EXCEPT ![c] = s]
    BY DEF Begin, Goes
  <1>4. OnlyOf(c) /\ syncing'[c] \in {Idle, [phase |-> "fetch"], [phase |-> "send"]}
    BY <1>2, <1>3 DEF OnlyOf, Shape
  <1> HIDE DEF known
  <1>5. /\ y.files = x.files /\ y.db = known /\ y.fresh = TRUE /\ y.usn = x.usn
        /\ DOMAIN y = {"files", "fresh", "db", "usn"}
    BY <1>1, <1>2 DEF Shape
  <1> HIDE DEF x, y
  <1>6. IsDb(known) /\ (x.fresh => known = x.db) /\ (~x.fresh => Scans(x.files, x.db, known))
    BY <1>1, ScannedIs DEF known
  <1>7. IsClient(y, server.usn) /\ Began(x, y)
    BY <1>1, <1>5, <1>6 DEF IsClient, Began
  <1> QED
    BY <1>2, <1>4, <1>7 DEF x, y

\* The chunk is a prefix of the changes, by their numbers.
LEMMA ChunkIs ==
    ASSUME Shape, NEW after \in Nat
    PROVE  /\ ChangesChunk(after) \subseteq {n \in DOMAIN server.rows : server.rows[n].usn > after}
           /\ \A n \in ChangesChunk(after) : \A m \in DOMAIN server.rows :
                after < server.rows[m].usn /\ server.rows[m].usn <= server.rows[n].usn
                  => m \in ChangesChunk(after)
  <1> DEFINE newer == {n \in DOMAIN server.rows : server.rows[n].usn > after}
             Earlier(n) == {m \in newer : server.rows[m].usn < server.rows[n].usn}
             chunk == {n \in newer : Cardinality(Earlier(n)) < ChunkLimit}
  <1>1. ChangesChunk(after) = chunk
    BY DEF ChangesChunk
  <1>2. /\ DOMAIN server.rows \subseteq Names
        /\ \A n \in DOMAIN server.rows : server.rows[n].usn \in Nat
    BY DEF Shape, IsServer, IsRows
  <1>3. ASSUME NEW n \in chunk, NEW m \in DOMAIN server.rows, after < server.rows[m].usn,
               server.rows[m].usn <= server.rows[n].usn
        PROVE  m \in chunk
    <2>1. m \in newer /\ n \in newer
      BY <1>2, <1>3
    <2>2. Earlier(m) \in SUBSET Earlier(n)
      BY <1>2, <1>3
    <2>3. IsFiniteSet(Earlier(n)) /\ IsFiniteSet(Earlier(m))
      <3>1. Earlier(n) \subseteq Names /\ Earlier(m) \subseteq Names
        BY <1>2
      <3> QED BY <3>1, MediaAssumption, FS_Subset
    <2>4. Cardinality(Earlier(n)) \in Nat /\ Cardinality(Earlier(m)) \in Nat
          /\ Cardinality(Earlier(m)) <= Cardinality(Earlier(n))
      <3> HIDE DEF Earlier
      <3> QED BY <2>2, <2>3, FS_CardinalityType, FS_Subset
    <2>5. Cardinality(Earlier(n)) < ChunkLimit
      BY <1>3
    <2> HIDE DEF Earlier, newer
    <2>6. Cardinality(Earlier(m)) < ChunkLimit
      BY <2>4, <2>5, MediaAssumption
    <2> QED BY <2>1, <2>6
  <1>4. chunk \subseteq newer
    OBVIOUS
  <1> HIDE DEF chunk
  <1> QED
    BY <1>1, <1>3, <1>4

\* Of numbers that are all below a bound, one is the greatest.
LEMMA GreatestOf ==
    ASSUME NEW u \in Nat, NEW S \in SUBSET (0..u), S # {}
    PROVE  \E n \in S : \A m \in S : m <= n
  <1> DEFINE T == {u - m : m \in S}
  <1>1. T \in SUBSET Nat /\ T # {}
    <2>1. \A m \in S : u - m \in Nat
      OBVIOUS
    <2>2. PICK m \in S : TRUE
      OBVIOUS
    <2>3. u - m \in T
      OBVIOUS
    <2> QED BY <2>1, <2>3
  <1>2. PICK t \in T : \A y \in T : ~(<<y, t>> \in OpToRel(<, Nat))
    <2> HIDE DEF T
    <2> QED BY <1>1, NatLessThanWellFounded, WFMin
  <1>3. \A y \in T : ~(y < t)
    BY <1>1, <1>2 DEF OpToRel
  <1>4. PICK n \in S : t = u - n
    BY <1>2
  <1>5. ASSUME NEW m \in S PROVE m <= n
    <2>1. u - m \in T
      OBVIOUS
    <2>2. ~(u - m < t)
      BY <1>3, <2>1
    <2> QED BY <2>2, <1>4
  <1> QED
    BY <1>4, <1>5

\* What the client has to do about the names in a batch, given its database.
Sorts(db, chunk, s) ==
    /\ s.todo = {n \in chunk : /\ server.rows[n].sha1 # Gone
                               /\ LocalSha(db, n) # server.rows[n].sha1}
    /\ s.delete = {n \in chunk : /\ server.rows[n].sha1 = Gone
                                 /\ n \in DOMAIN db
                                 /\ ~(n \in Present(db) /\ db[n].dirty)}
    /\ s.clean = {n \in chunk : /\ server.rows[n].sha1 # Gone
                                /\ LocalSha(db, n) = server.rows[n].sha1
                                /\ db[n].dirty}
    /\ DOMAIN s.got = {}
    /\ \E n \in chunk : s.last = server.rows[n].usn
    /\ \A n \in chunk : server.rows[n].usn <= s.last

Fetched(x, y, s) ==
    /\ y.usn = x.usn /\ y.fresh = x.fresh
    /\ Deleted(x.db, y.db, s.delete)
    /\ DOMAIN y.files \subseteq DOMAIN x.files
    /\ DOMAIN x.files \subseteq DOMAIN y.files \cup s.delete
    /\ \A n \in DOMAIN y.files : y.files[n] = x.files[n]
    /\ ~disturbed' => DOMAIN y.files \cap s.delete = {}
    /\ Sorts(x.db, ChangesChunk(x.usn), s)

LEMMA FetchDoes ==
    ASSUME Shape, NEW c \in Clients, Fetch(c)
    PROVE  /\ OnlyOf(c) /\ server' = server /\ removed' = removed
           /\ ~disturbed' => ~disturbed
           /\ syncing[c].phase = "fetch" /\ syncing'[c].phase = "download"
           /\ IsClient(client'[c], server.usn) /\ IsDownload(syncing'[c], server.usn)
           /\ Fetched(client[c], client'[c], syncing'[c])
  <1> DEFINE x == client[c]
             chunk == ChangesChunk(x.usn)
             batch == [n \in chunk |-> server.rows[n].sha1]
             delete == ToDelete(x.db, batch)
             todo == ToDownload(x.db, batch)
             clean == ToRemovePending(x.db, batch)
             usns == {server.rows[n].usn : n \in DOMAIN batch}
             last == CHOOSE u \in usns : \A v \in usns : v <= u
             gone == Removable(x.files, delete)
             files == Without(x.files, gone)
             db == [n \in DOMAIN x.db |-> IF n \in delete THEN [sha1 |-> Gone, dirty |-> TRUE]
                                          ELSE x.db[n]]
             t == [phase |-> "download", todo |-> todo, got |-> Nothing, delete |-> delete,
                   clean |-> clean, last |-> last]
             left == (delete \cap DOMAIN x.files) \ gone
             y == client'[c]
  <1>1. /\ DOMAIN x = {"files", "fresh", "db", "usn"} /\ IsFiles(x.files) /\ IsDb(x.db)
        /\ x.fresh \in BOOLEAN /\ x.usn \in 0..server.usn /\ x.usn \in Nat
    BY ClientOf
  <1>2. /\ syncing[c].phase = "fetch" /\ batch # Nothing
        /\ client' = [client EXCEPT ![c].files = Without(@, Removable(@, delete)),
                                    ![c].db = [n \in DOMAIN @ |->
                                       IF n \in delete THEN [sha1 |-> Gone, dirty |-> TRUE] ELSE @[n]]]
        /\ syncing' = [syncing EXCEPT ![c] = t]
        /\ disturbed' = (disturbed \/ left # {})
        /\ server' = server /\ removed' = removed
    BY DEF Fetch, Goes
  <1>3. DOMAIN batch = chunk /\ \A n \in chunk : batch[n] = server.rows[n].sha1
    OBVIOUS
  <1>4. /\ server.usn \in Nat
        /\ chunk \subseteq DOMAIN server.rows /\ DOMAIN server.rows \subseteq Names
        /\ \A n \in DOMAIN server.rows : server.rows[n].usn \in 1..server.usn
    <2>1. chunk \subseteq DOMAIN server.rows
      BY <1>1, ChunkIs
    <2> QED BY <2>1 DEF Shape, IsServer, IsRows
  <1>5. chunk # {}
    <2> HIDE DEF chunk
    <2> QED BY <1>2 DEF Nothing
  <1>6. /\ delete = {n \in chunk : /\ server.rows[n].sha1 = Gone
                                   /\ n \in DOMAIN x.db
                                   /\ ~(n \in Present(x.db) /\ x.db[n].dirty)}
        /\ todo = {n \in chunk : server.rows[n].sha1 # Gone /\ LocalSha(x.db, n) # server.rows[n].sha1}
        /\ clean = {n \in chunk : /\ server.rows[n].sha1 # Gone
                                  /\ LocalSha(x.db, n) = server.rows[n].sha1
                                  /\ x.db[n].dirty}
    <2> HIDE DEF chunk, x
    <2> QED BY <1>3 DEF ToDelete, ToDownload, ToRemovePending
  <1>7. last \in usns /\ \A v \in usns : v <= last
    <2>1. usns \in SUBSET (0..server.usn) /\ usns # {}
      BY <1>3, <1>4, <1>5
    <2>2. \E u \in usns : \A v \in usns : v <= u
      <3> HIDE DEF usns
      <3> QED BY <1>4, <2>1, GreatestOf
    <2> HIDE DEF usns
    <2> QED BY <2>2
  <1>8. /\ \E n \in chunk : last = server.rows[n].usn
        /\ \A n \in chunk : server.rows[n].usn <= last
        /\ last \in 0..server.usn
    <2>1. \A n \in chunk : server.rows[n].usn \in usns
      BY <1>3
    <2>2. \E n \in chunk : last = server.rows[n].usn
      <3> HIDE DEF last
      <3> QED BY <1>3, <1>7
    <2> HIDE DEF usns, last, chunk
    <2> QED BY <1>4, <1>7, <2>1, <2>2
  <1> HIDE DEF usns, last, batch
  <1>9. /\ OnlyOf(c) /\ syncing'[c] = t
        /\ y.files = files /\ y.db = db /\ y.fresh = x.fresh /\ y.usn = x.usn
        /\ DOMAIN y = {"files", "fresh", "db", "usn"}
    <2> HIDE DEF t, delete
    <2>1. OnlyOf(c) /\ syncing'[c] = t
      BY <1>2 DEF OnlyOf, Shape
    <2>2. y.files = files /\ y.db = db /\ y.fresh = x.fresh /\ y.usn = x.usn
          /\ DOMAIN y = {"files", "fresh", "db", "usn"}
      BY <1>1, <1>2 DEF Shape
    <2> QED BY <2>1, <2>2
  <1>10. /\ t.phase = "download" /\ t.todo = todo /\ t.got = Nothing /\ t.delete = delete
         /\ t.clean = clean /\ t.last = last
         /\ DOMAIN t = {"phase", "todo", "got", "delete", "clean", "last"}
    OBVIOUS
  <1> HIDE DEF x, y, t, chunk, todo, delete, clean
  <1>11. IsFiles(files) /\ IsDb(db) /\ Deleted(x.db, db, delete)
    BY <1>1, WithoutFiles, DeletedIs
  <1>12. DOMAIN files = DOMAIN x.files \ gone /\ \A n \in DOMAIN files : files[n] = x.files[n]
    BY WithoutIs
  <1>13. gone \subseteq delete
    BY DEF Removable
  <1>14. ~disturbed' => DOMAIN files \cap delete = {}
    BY <1>2, <1>12
  <1> HIDE DEF files, db, gone, left
  <1>15. IsClient(y, server.usn)
    BY <1>1, <1>9, <1>11 DEF IsClient
  <1>16. IsDownload(t, server.usn)
    <2>1. todo \subseteq Names /\ delete \subseteq Names /\ clean \subseteq Names
      BY <1>4, <1>6
    <2> QED BY <2>1, <1>8, <1>10, NothingIs DEF IsDownload
  <1>17. Sorts(x.db, chunk, t)
    BY <1>6, <1>8, <1>10, NothingIs DEF Sorts
  <1>18. Fetched(x, y, t)
    BY <1>9, <1>10, <1>11, <1>12, <1>13, <1>14, <1>17 DEF Fetched, chunk
  <1> QED
    BY <1>2, <1>9, <1>10, <1>15, <1>16, <1>18 DEF x, y

LEMMA FetchedAllDoes ==
    ASSUME Shape, NEW c \in Clients, FetchedAll(c)
    PROVE  /\ OnlyOf(c) /\ client' = client /\ server' = server
           /\ removed' = removed /\ disturbed' = disturbed
           /\ syncing[c].phase = "fetch" /\ syncing'[c] = [phase |-> "send"]
  BY DEF FetchedAll, Goes, Shape, OnlyOf

\* A downloaded file is in the folder, and the database does not know it yet.
Downloaded(x, y, s, t, n) ==
    /\ n \in s.todo /\ n \in DOMAIN server.rows /\ n \in DOMAIN server.files
    /\ y.db = x.db /\ y.usn = x.usn
    /\ WithValue(y.files, x.files, n, server.files[n])
    /\ y.fresh => x.fresh /\ n \in DOMAIN x.files
    /\ t.todo = s.todo \ {n}
    /\ WithValue(t.got, s.got, n, server.files[n])
    /\ t.delete = s.delete /\ t.clean = s.clean /\ t.last = s.last

LEMMA DownloadDoes ==
    ASSUME Shape, NEW c \in Clients, NEW n, Download(c, n)
    PROVE  /\ OnlyOf(c) /\ server' = server /\ removed' = removed /\ disturbed' = disturbed
           /\ IsDownload(syncing[c], server.usn)
           /\ IsClient(client'[c], server.usn) /\ IsDownload(syncing'[c], server.usn)
           /\ Downloaded(client[c], client'[c], syncing[c], syncing'[c], n)
  <1> DEFINE x == client[c]
             s == syncing[c]
             y == client'[c]
             t == syncing'[c]
             d == server.files[n]
             files == Over(Just(n, d), x.files)
             got == Over(Just(n, d), s.got)
             fresh == x.fresh /\ n \in DOMAIN x.files
  <1>1. /\ DOMAIN x = {"files", "fresh", "db", "usn"} /\ IsFiles(x.files) /\ IsDb(x.db)
        /\ x.fresh \in BOOLEAN /\ x.usn \in 0..server.usn
    BY ClientOf
  <1>2. /\ s.phase = "download" /\ n \in s.todo /\ n \in DOMAIN server.files
        /\ RowSha(n) # Gone
        /\ client' = [client EXCEPT ![c].files = Over(Just(n, server.files[n]), @),
                                    ![c].fresh = @ /\ n \in DOMAIN client[c].files]
        /\ syncing' = [syncing EXCEPT ![c].todo = @ \ {n},
                                      ![c].got = Over(Just(n, server.files[n]), @)]
        /\ server' = server /\ removed' = removed /\ disturbed' = disturbed
    BY DEF Download
  <1>3. IsDownload(s, server.usn)
    BY <1>2, PhaseOf
  <1>4. OnlyOf(c)
    BY <1>2 DEF OnlyOf, Shape
  <1>5. n \in Names /\ d \in Data
    BY <1>2 DEF Shape, IsServer, IsFiles
  <1>6. IsFiles(files) /\ IsFiles(got)
    BY <1>1, <1>3, <1>5, JustFiles, OverFiles DEF IsDownload
  <1>7. WithValue(files, x.files, n, d) /\ WithValue(got, s.got, n, d)
    BY OverJust
  <1>8. /\ y.files = files /\ y.db = x.db /\ y.usn = x.usn /\ y.fresh = fresh
        /\ DOMAIN y = {"files", "fresh", "db", "usn"}
    <2> HIDE DEF d
    <2> QED BY <1>1, <1>2 DEF Shape, d
  <1>9. /\ t.phase = "download" /\ t.todo = s.todo \ {n} /\ t.got = got
        /\ t.delete = s.delete /\ t.clean = s.clean /\ t.last = s.last
        /\ DOMAIN t = {"phase", "todo", "got", "delete", "clean", "last"}
    BY <1>2, <1>3 DEF Shape, IsDownload
  <1>10. fresh \in BOOLEAN
    OBVIOUS
  <1>11. n \in DOMAIN server.rows
    BY <1>2 DEF RowSha
  <1> HIDE DEF x, y, s, t, files, got
  <1>12. IsClient(y, server.usn)
    <2> HIDE DEF fresh
    <2> QED BY <1>1, <1>6, <1>8, <1>10 DEF IsClient
  <1>13. IsDownload(t, server.usn)
    BY <1>3, <1>6, <1>9 DEF IsDownload
  <1>14. Downloaded(x, y, s, t, n)
    BY <1>2, <1>7, <1>8, <1>9, <1>11 DEF Downloaded
  <1> QED
    BY <1>2, <1>3, <1>4, <1>12, <1>13, <1>14 DEF x, y, s, t

LEMMA StopsDoes ==
    ASSUME Shape, NEW c \in Clients, client' = client, Stops(c)
    PROVE  /\ OnlyOf(c) /\ syncing'[c] = Idle /\ disturbed' = (disturbed \/ Torn(c))
  BY DEF Stops, Goes, Shape, OnlyOf

\* The rows after a download: the names that are got have their checksums, and
\* the deleted ones have no row.
Recorded(x, y, s) ==
    /\ y.files = x.files /\ y.fresh /\ y.usn = s.last
    /\ DOMAIN y.db = DOMAIN s.got \cup (DOMAIN x.db \ s.delete)
    /\ \A n \in DOMAIN s.got : y.db[n] = [sha1 |-> s.got[n], dirty |-> FALSE]
    /\ \A n \in (DOMAIN x.db \ s.delete) \ DOMAIN s.got :
         /\ y.db[n].sha1 = x.db[n].sha1
         /\ n \notin s.clean => y.db[n].dirty = x.db[n].dirty

LEMMA RecordDoes ==
    ASSUME Shape, NEW c \in Clients, Record(c)
    PROVE  /\ OnlyOf(c) /\ server' = server /\ removed' = removed /\ disturbed' = disturbed
           /\ IsDownload(syncing[c], server.usn) /\ syncing[c].todo = {}
           /\ syncing'[c] = [phase |-> "fetch"]
           /\ IsClient(client'[c], server.usn)
           /\ Recorded(client[c], client'[c], syncing[c])
  <1> DEFINE x == client[c]
             s == syncing[c]
             y == client'[c]
             Added == [n \in DOMAIN s.got |-> [sha1 |-> s.got[n], dirty |-> FALSE]]
             clean == Cleaned(x.db, s.clean)
             rest == Without(clean, s.delete)
             db == Over(Added, rest)
  <1>1. /\ DOMAIN x = {"files", "fresh", "db", "usn"} /\ IsFiles(x.files) /\ IsDb(x.db)
        /\ x.fresh \in BOOLEAN /\ x.usn \in 0..server.usn
    BY ClientOf
  <1>2. /\ s.phase = "download" /\ s.todo = {}
        /\ client' = [client EXCEPT ![c].db = Over(Added, Without(Cleaned(@, s.clean), s.delete)),
                                    ![c].usn = s.last, ![c].fresh = TRUE]
        /\ syncing' = [syncing EXCEPT ![c] = [phase |-> "fetch"]]
        /\ server' = server /\ removed' = removed /\ disturbed' = disturbed
    BY DEF Record, Goes
  <1>3. IsDownload(s, server.usn)
    BY <1>2, PhaseOf
  <1>4. OnlyOf(c) /\ syncing'[c] = [phase |-> "fetch"]
    BY <1>2 DEF OnlyOf, Shape
  <1>5. /\ y.files = x.files /\ y.db = db /\ y.usn = s.last /\ y.fresh = TRUE
        /\ DOMAIN y = {"files", "fresh", "db", "usn"}
    <2> HIDE DEF Added, s
    <2> QED BY <1>1, <1>2 DEF Shape
  <1>6. IsFiles(s.got) /\ s.last \in 0..server.usn
    BY <1>3 DEF IsDownload
  <1>7. IsDb(clean) /\ Cleans(x.db, clean, s.clean)
    BY <1>1, CleanedIs
  <1>8. IsDb(Added) /\ DOMAIN Added = DOMAIN s.got
    BY <1>6 DEF IsFiles, IsDb
  <1>9. \A n \in DOMAIN s.got : Added[n] = [sha1 |-> s.got[n], dirty |-> FALSE]
    OBVIOUS
  <1> HIDE DEF x, y, s, Added, clean
  <1>10. IsDb(rest) /\ DOMAIN rest = DOMAIN clean \ s.delete
         /\ (\A n \in DOMAIN rest : rest[n] = clean[n])
    BY <1>7, WithoutDb, WithoutIs
  <1> HIDE DEF rest
  <1>11. /\ IsDb(db) /\ DOMAIN db = DOMAIN Added \cup DOMAIN rest
         /\ (\A n \in DOMAIN Added : db[n] = Added[n])
         /\ (\A n \in DOMAIN rest \ DOMAIN Added : db[n] = rest[n])
    BY <1>8, <1>10, OverDb, OverIs
  <1> HIDE DEF db
  <1>12. IsClient(y, server.usn)
    BY <1>1, <1>5, <1>6, <1>11 DEF IsClient
  <1>13. DOMAIN clean = DOMAIN x.db
         /\ (\A n \in DOMAIN x.db : clean[n].sha1 = x.db[n].sha1
              /\ (n \notin s.clean => clean[n].dirty = x.db[n].dirty))
    BY <1>7 DEF Cleans
  <1>14. Recorded(x, y, s)
    BY <1>5, <1>8, <1>9, <1>10, <1>11, <1>13 DEF Recorded
  <1> QED
    BY <1>2, <1>3, <1>4, <1>12, <1>14 DEF x, y, s

\* What was sent no longer waits.
SentRecorded(x, y, s) ==
    /\ y.files = x.files /\ y.fresh = x.fresh
    /\ Cleans(x.db, y.db, s.names)
    /\ y.usn = IF x.usn + Cardinality(s.names) = s.reply THEN s.reply ELSE x.usn

LEMMA RecordSentDoes ==
    ASSUME Shape, NEW c \in Clients, RecordSent(c)
    PROVE  /\ OnlyOf(c) /\ server' = server /\ removed' = removed /\ disturbed' = disturbed
           /\ IsSent(syncing[c], server.usn)
           /\ syncing'[c] = [phase |-> "send"]
           /\ IsClient(client'[c], server.usn)
           /\ SentRecorded(client[c], client'[c], syncing[c])
  <1> DEFINE x == client[c]
             s == syncing[c]
             y == client'[c]
             db == Cleaned(x.db, s.names)
             usn == UsnAfter(x.usn, Cardinality(s.names), s.reply)
  <1>1. /\ DOMAIN x = {"files", "fresh", "db", "usn"} /\ IsFiles(x.files) /\ IsDb(x.db)
        /\ x.fresh \in BOOLEAN /\ x.usn \in 0..server.usn
    BY ClientOf
  <1>2. /\ s.phase = "sent"
        /\ client' = [client EXCEPT ![c].db = Cleaned(@, s.names),
                                    ![c].usn = UsnAfter(@, Cardinality(s.names), s.reply)]
        /\ syncing' = [syncing EXCEPT ![c] = [phase |-> "send"]]
        /\ server' = server /\ removed' = removed /\ disturbed' = disturbed
    BY DEF RecordSent, Goes
  <1>3. IsSent(s, server.usn)
    BY <1>2, PhaseOf
  <1>4. OnlyOf(c) /\ syncing'[c] = [phase |-> "send"]
    BY <1>2 DEF OnlyOf, Shape
  <1>5. /\ y.files = x.files /\ y.db = db /\ y.usn = usn /\ y.fresh = x.fresh
        /\ DOMAIN y = {"files", "fresh", "db", "usn"}
    <2> HIDE DEF s
    <2> QED BY <1>1, <1>2 DEF Shape
  <1>6. s.reply \in 0..server.usn
    BY <1>3 DEF IsSent
  <1>7. IsDb(db) /\ Cleans(x.db, db, s.names)
    BY <1>1, CleanedIs
  <1>8. usn = IF x.usn + Cardinality(s.names) = s.reply THEN s.reply ELSE x.usn
    BY DEF UsnAfter
  <1> HIDE DEF x, y, s, db, usn
  <1>9. IsClient(y, server.usn)
    BY <1>1, <1>5, <1>6, <1>7, <1>8 DEF IsClient
  <1>10. SentRecorded(x, y, s)
    BY <1>5, <1>7, <1>8 DEF SentRecorded
  <1> QED
    BY <1>2, <1>3, <1>4, <1>9, <1>10 DEF x, y, s

\* The database is emptied, to be filled again from the folder.
Emptied(x, y) == y.files = x.files /\ DOMAIN y.db = {} /\ y.usn = 0 /\ ~y.fresh

LEMMA FinalizeDoes ==
    ASSUME Shape, NEW c \in Clients, Finalize(c)
    PROVE  /\ OnlyOf(c) /\ server' = server /\ removed' = removed /\ disturbed' = disturbed
           /\ syncing[c].phase = "send" /\ syncing'[c] = Idle
           /\ IsClient(client'[c], server.usn)
           /\ client'[c] = client[c] \/ Emptied(client[c], client'[c])
  <1> DEFINE x == client[c]
             y == client'[c]
  <1>1. /\ DOMAIN x = {"files", "fresh", "db", "usn"} /\ IsFiles(x.files) /\ IsDb(x.db)
        /\ x.fresh \in BOOLEAN /\ x.usn \in 0..server.usn /\ IsClient(x, server.usn)
        /\ server.usn \in Nat
    BY ClientOf
  <1>2. /\ syncing[c].phase = "send"
        /\ syncing' = [syncing EXCEPT ![c] = Idle]
        /\ server' = server /\ removed' = removed /\ disturbed' = disturbed
    BY DEF Finalize, Goes
  <1>3. \/ client' = client
        \/ client' = [client EXCEPT ![c].db = Nothing, ![c].usn = 0, ![c].fresh = FALSE]
    BY DEF Finalize
  <1>4. OnlyOf(c) /\ syncing'[c] = Idle
    BY <1>2, <1>3 DEF OnlyOf, Shape
  <1>5. CASE client' = client
    BY <1>1, <1>2, <1>4, <1>5
  <1>6. CASE client' = [client EXCEPT ![c].db = Nothing, ![c].usn = 0, ![c].fresh = FALSE]
    <2>1. /\ y.files = x.files /\ y.db = Nothing /\ y.usn = 0 /\ y.fresh = FALSE
          /\ DOMAIN y = {"files", "fresh", "db", "usn"}
      BY <1>1, <1>6 DEF Shape
    <2> HIDE DEF x, y
    <2>2. IsDb(Nothing) /\ DOMAIN Nothing = {}
      BY NothingIs
    <2>3. 0 \in 0..server.usn
      BY <1>1
    <2>4. IsFiles(y.files) /\ IsDb(y.db) /\ y.usn \in 0..server.usn /\ y.fresh \in BOOLEAN
      BY <1>1, <2>1, <2>2, <2>3
    <2>5. IsClient(y, server.usn)
      BY <2>1, <2>4 DEF IsClient
    <2>6. Emptied(x, y)
      BY <2>1, <2>2 DEF Emptied
    <2> QED BY <1>2, <1>4, <2>5, <2>6 DEF x, y
  <1> QED
    BY <1>3, <1>5, <1>6

-----------------------------------------------------------------------------
(* Uploads.                                                                 *)

\* There are as many new numbers as names.
LEMMA NumbersAre ==
    ASSUME NEW N, IsFiniteSet(N), NEW from \in Nat
    PROVE  /\ Cardinality(N) \in Nat
           /\ DOMAIN Numbers(N, from) = N
           /\ \A n \in N : Numbers(N, from)[n] \in from + 1 .. from + Cardinality(N)
  <1> DEFINE T == from + 1 .. from + Cardinality(N)
  <1>1. Cardinality(N) \in Nat
    BY FS_CardinalityType
  <1>2. IsFiniteSet(T) /\ Cardinality(T) = Cardinality(N)
    <2>1. from + 1 \in Int /\ from + Cardinality(N) \in Int
      BY <1>1
    <2>2. IsFiniteSet(T) /\ Cardinality(T) = IF from + 1 > from + Cardinality(N) THEN 0
                                             ELSE (from + Cardinality(N)) - (from + 1) + 1
      BY <2>1, FS_Interval
    <2> HIDE DEF T
    <2> QED BY <1>1, <2>2
  <1> HIDE DEF T
  <1>3. PICK f \in Bijection(N, T) : TRUE
    BY <1>2, FS_SameCardinalityBij DEF ExistsBijection
  <1>4. f \in [N -> T] /\ \A m, n \in N : f[m] = f[n] => m = n
    BY Fun_BijectionProperties
  <1>5. Numbers(N, from) \in [N -> T]
    BY <1>4 DEF Numbers, T
  <1> QED
    BY <1>1, <1>5 DEF T

\* What the server does with a zip: the names that make a difference get new
\* numbers, and every other row stays.
Accepts(zip) ==
    /\ server.usn <= server'.usn
    /\ DOMAIN server'.rows = DOMAIN server.rows \cup Effective(zip)
    /\ \A n \in Effective(zip) : server'.rows[n].sha1 = zip[n] /\ server'.rows[n].usn > server.usn
    /\ \A n \in DOMAIN server.rows \ Effective(zip) : server'.rows[n] = server.rows[n]
    /\ server'.files = FilesAfter(server.files, zip, Effective(zip))

IsZip(zip) == DOMAIN zip \subseteq Names /\ zip \in [DOMAIN zip -> Data \cup {Gone}]

LEMMA ZipsAre ==
    ASSUME Shape, NEW c \in Clients, NEW zip \in Zips(c)
    PROVE  /\ IsZip(zip) /\ DOMAIN zip \subseteq Dirty(client[c].db)
           /\ \A n \in DOMAIN zip :
                zip[n] = IF n \in Present(client[c].db) \cap DOMAIN client[c].files
                         THEN client[c].files[n] ELSE Gone
  <1> DEFINE x == client[c]
             value(n) == IF n \in Present(x.db) \cap DOMAIN x.files THEN x.files[n] ELSE Gone
  <1>1. PICK ns \in SUBSET Dirty(x.db) : zip = [n \in ns |-> value(n)]
    BY DEF Zips
  <1>2. IsFiles(x.files) /\ DOMAIN x.db \subseteq Names
    BY ClientOf DEF IsDb
  <1>3. Dirty(x.db) \subseteq Names
    BY <1>2 DEF Dirty
  <1>4. \A n \in ns : value(n) \in Data \cup {Gone}
    BY <1>2 DEF IsFiles
  <1> HIDE DEF value
  <1>5. IsZip(zip) /\ DOMAIN zip \subseteq Dirty(x.db) /\ \A n \in DOMAIN zip : zip[n] = value(n)
    BY <1>1, <1>3, <1>4 DEF IsZip
  <1> QED
    BY <1>5 DEF value

\* The folder is brought to the contents of the zip, at some of its names.
Lays(f, files, zip, names) ==
    /\ DOMAIN f = (DOMAIN files \ names) \cup {n \in names : zip[n] # Gone}
    /\ \A n \in names : zip[n] # Gone => f[n] = zip[n]
    /\ \A n \in DOMAIN files \ names : f[n] = files[n]

LEMMA FilesAfterIs ==
    ASSUME NEW files, IsFiles(files), NEW zip, IsZip(zip), NEW names \in SUBSET DOMAIN zip
    PROVE  /\ IsFiles(FilesAfter(files, zip, names))
           /\ Lays(FilesAfter(files, zip, names), files, zip, names)
  <1> DEFINE New == {n \in names : zip[n] # Gone}
             Old == {n \in names : zip[n] = Gone}
             new == Only(zip, New)
             rest == Without(files, Old)
  <1>1. FilesAfter(files, zip, names) = Over(new, rest)
    BY DEF FilesAfter
  <1>2. New \subseteq DOMAIN zip /\ New \cup Old = names /\ New \cap Old = {}
    OBVIOUS
  <1>3. \A n \in New : zip[n] \in Data /\ n \in Names
    BY DEF IsZip
  <1> HIDE DEF New, Old
  <1>4. DOMAIN new = New /\ (\A n \in New : new[n] = zip[n])
    BY OnlyIs
  <1>5. DOMAIN rest = DOMAIN files \ Old /\ (\A n \in DOMAIN rest : rest[n] = files[n])
        /\ IsFiles(rest)
    BY WithoutIs, WithoutFiles
  <1>6. IsFiles(new)
    BY <1>3 DEF IsFiles, Only
  <1> HIDE DEF new, rest
  <1>7. IsFiles(Over(new, rest))
    BY <1>5, <1>6, OverFiles
  <1>8. /\ DOMAIN Over(new, rest) = New \cup (DOMAIN files \ Old)
        /\ (\A n \in New : Over(new, rest)[n] = zip[n])
        /\ (\A n \in (DOMAIN files \ Old) \ New : Over(new, rest)[n] = files[n])
    <2>1. /\ DOMAIN Over(new, rest) = DOMAIN new \cup DOMAIN rest
          /\ (\A n \in DOMAIN new : Over(new, rest)[n] = new[n])
          /\ (\A n \in DOMAIN rest \ DOMAIN new : Over(new, rest)[n] = rest[n])
      BY OverIs
    <2> QED BY <1>4, <1>5, <2>1
  <1>9. New \cup (DOMAIN files \ Old) = (DOMAIN files \ names) \cup New
        /\ DOMAIN files \ names = (DOMAIN files \ Old) \ New
    BY <1>2
  <1> QED
    BY <1>1, <1>7, <1>8, <1>9 DEF New, Lays

\* The files listed afterwards are counted: one more for a name that had none,
\* one less for a name that is deleted.
LEMMA CountAfter ==
    ASSUME Shape, NEW zip, IsZip(zip), NEW rows,
           DOMAIN rows = DOMAIN server.rows \cup Effective(zip),
           \A n \in Effective(zip) : rows[n].sha1 = zip[n],
           \A n \in DOMAIN server.rows \ Effective(zip) : rows[n] = server.rows[n]
    PROVE  Cardinality(Listed(rows))
             = server.count + Cardinality({n \in Effective(zip) : RowSha(n) = Gone})
                            - Cardinality({n \in Effective(zip) : zip[n] = Gone})
  <1> DEFINE N == Effective(zip)
             L == Listed(server.rows)
             A == {n \in N : RowSha(n) = Gone}
             G == {n \in N : zip[n] = Gone}
  <1>1. \A n \in N : zip[n] # RowSha(n)
    BY DEF Effective
  <1>2. N \subseteq Names /\ L \subseteq Names
    BY DEF Effective, IsZip, Shape, IsServer, IsRows, Listed
  <1>3. L = {n \in DOMAIN server.rows : RowSha(n) # Gone}
    BY DEF Listed, RowSha
  <1>4. A \cap L = {} /\ G \subseteq L
    <2>1. A \cap L = {}
      BY <1>3
    <2>2. ASSUME NEW n \in G PROVE n \in L
      <3>1. RowSha(n) # Gone
        BY <1>1
      <3>2. n \in DOMAIN server.rows
        BY <3>1 DEF RowSha
      <3> QED BY <1>3, <3>1, <3>2
    <2> QED BY <2>1, <2>2
  <1>5. Listed(rows) = (L \cup A) \ G
    <2>1. ASSUME NEW n \in N
          PROVE  n \in Listed(rows) <=> n \in (L \cup A) \ G
      <3>1. n \in Listed(rows) <=> zip[n] # Gone
        BY DEF Listed
      <3>2. n \in G <=> zip[n] = Gone
        OBVIOUS
      <3>3. n \in L \cup A
        <4>1. CASE RowSha(n) = Gone BY <4>1
        <4>2. CASE RowSha(n) # Gone BY <4>2, <1>3 DEF RowSha
        <4> QED BY <4>1, <4>2
      <3> QED BY <3>1, <3>2, <3>3
    <2>2. ASSUME NEW n, n \notin N
          PROVE  n \in Listed(rows) <=> n \in (L \cup A) \ G
      BY <2>2 DEF Listed
    <2> QED BY <2>1, <2>2
  <1>6. IsFiniteSet(L) /\ IsFiniteSet(N)
    BY <1>2, MediaAssumption, FS_Subset
  <1>7. IsFiniteSet(A) /\ IsFiniteSet(G)
    <2>1. A \subseteq N /\ G \subseteq N
      OBVIOUS
    <2> HIDE DEF A, G
    <2> QED BY <1>6, <2>1, FS_Subset
  <1>8. server.count = Cardinality(L)
    BY DEF Shape, IsServer
  <1> HIDE DEF N, L, A, G
  <1>9. Cardinality(L) \in Nat /\ Cardinality(A) \in Nat /\ Cardinality(G) \in Nat
    BY <1>6, <1>7, FS_CardinalityType
  <1>10. IsFiniteSet(L \cup A) /\ Cardinality(L \cup A) = Cardinality(L) + Cardinality(A)
    <2>1. L \cap A = {}
      BY <1>4
    <2>2. Cardinality(L \cap A) = 0
      BY <2>1, FS_EmptySet
    <2>3. IsFiniteSet(L \cup A)
          /\ Cardinality(L \cup A) = Cardinality(L) + Cardinality(A) - Cardinality(L \cap A)
      BY <1>6, <1>7, FS_Union
    <2> QED BY <1>9, <2>2, <2>3
  <1>11. Cardinality((L \cup A) \ G) = Cardinality(L) + Cardinality(A) - Cardinality(G)
    <2>1. Cardinality((L \cup A) \ G) = Cardinality(L \cup A) - Cardinality((L \cup A) \cap G)
      BY <1>10, FS_Difference
    <2>2. (L \cup A) \cap G = G
      BY <1>4
    <2>3. Cardinality((L \cup A) \cap G) = Cardinality(G)
      BY <2>2
    <2> QED BY <1>9, <1>10, <2>1, <2>3
  <1> QED
    BY <1>5, <1>8, <1>11 DEF A, G, N

LEMMA AcceptsZip ==
    ASSUME Shape, NEW zip, IsZip(zip), server' = ServerAfter(zip)
    PROVE  IsServer(server') /\ Accepts(zip)
  <1> DEFINE N == Effective(zip)
             usn == Numbers(N, server.usn)
             new == [n \in N |-> [sha1 |-> zip[n], usn |-> usn[n]]]
             rows == Over(new, server.rows)
             files == FilesAfter(server.files, zip, N)
             top == server.usn + Cardinality(N)
             count == server.count + Cardinality({n \in N : RowSha(n) = Gone})
                                   - Cardinality({n \in N : zip[n] = Gone})
             after == [files |-> files, rows |-> rows, usn |-> top, count |-> count]
  <1>1. server' = after
    BY DEF ServerAfter
  <1>2. /\ after.files = files /\ after.rows = rows /\ after.usn = top /\ after.count = count
        /\ DOMAIN after = {"files", "rows", "usn", "count"}
    OBVIOUS
  <1> HIDE DEF after
  <1>3. server.usn \in Nat /\ IsFiles(server.files) /\ IsRows(server.rows, server.usn)
    BY DEF Shape, IsServer
  <1>4. N \in SUBSET DOMAIN zip /\ N \subseteq Names
    BY DEF Effective, IsZip
  <1>5. IsFiniteSet(N)
    BY <1>4, MediaAssumption, FS_Subset
  <1> HIDE DEF N
  <1>6. /\ Cardinality(N) \in Nat /\ DOMAIN usn = N
        /\ \A n \in N : usn[n] \in server.usn + 1 .. server.usn + Cardinality(N)
    BY <1>3, <1>5, NumbersAre
  <1> HIDE DEF usn
  <1>7. top \in Nat /\ server.usn <= top
    BY <1>3, <1>6
  <1>8. \A n \in N : new[n].sha1 = zip[n] /\ new[n].usn = usn[n]
                     /\ new[n] \in [sha1 : Data \cup {Gone}, usn : 1..top] /\ usn[n] > server.usn
    <2>1. \A n \in N : zip[n] \in Data \cup {Gone}
      BY <1>4 DEF IsZip
    <2>2. \A n \in N : usn[n] \in 1..top /\ usn[n] > server.usn
      BY <1>3, <1>6
    <2> HIDE DEF top
    <2> QED BY <2>1, <2>2
  <1>9. DOMAIN new = N
    OBVIOUS
  <1> HIDE DEF new
  <1>10. /\ DOMAIN rows = DOMAIN server.rows \cup N
         /\ (\A n \in N : rows[n] = new[n])
         /\ (\A n \in DOMAIN server.rows \ N : rows[n] = server.rows[n])
         /\ rows = [n \in DOMAIN server.rows \cup N |-> rows[n]]
    BY <1>9 DEF Over
  <1> HIDE DEF rows
  <1>11. IsRows(rows, top)
    <2>1. DOMAIN rows \subseteq Names
      BY <1>3, <1>4, <1>10 DEF IsRows
    <2>2. ASSUME NEW n \in DOMAIN rows PROVE rows[n] \in [sha1 : Data \cup {Gone}, usn : 1..top]
      <3>1. CASE n \in N BY <1>8, <1>10, <3>1
      <3>2. CASE n \notin N
        <4>1. server.rows[n] \in [sha1 : Data \cup {Gone}, usn : 1..server.usn]
          BY <1>3, <1>10, <3>2 DEF IsRows
        <4>2. 1..server.usn \subseteq 1..top
          BY <1>3, <1>7
        <4> HIDE DEF top
        <4> QED BY <1>10, <3>2, <4>1, <4>2
      <3> QED BY <3>1, <3>2
    <2> HIDE DEF top
    <2> QED BY <2>1, <2>2, <1>10 DEF IsRows
  <1>12. IsFiles(files)
    BY <1>3, <1>4, FilesAfterIs
  <1>13. count = Cardinality(Listed(rows))
    <2>1. \A n \in N : rows[n].sha1 = zip[n]
      BY <1>8, <1>10
    <2> HIDE DEF count
    <2> QED BY <1>10, <2>1, CountAfter DEF N, count
  <1> HIDE DEF top, count, files
  <1>14. IsServer(after)
    BY <1>2, <1>7, <1>11, <1>12, <1>13 DEF IsServer
  <1>15. Accepts(zip)
    <2>1. \A n \in N : rows[n].sha1 = zip[n] /\ rows[n].usn > server.usn
      BY <1>8, <1>10
    <2> QED BY <1>1, <1>2, <1>7, <1>10, <2>1 DEF Accepts, N, files
  <1> QED
    BY <1>1, <1>14, <1>15

LEMMA UploadDoes ==
    ASSUME Shape, NEW c \in Clients, Upload(c)
    PROVE  /\ OnlyOf(c) /\ client' = client /\ removed' = removed
           /\ syncing[c].phase = "send"
           /\ IsServer(server') /\ IsSent(syncing'[c], server'.usn)
           /\ \E zip \in Zips(c) :
                /\ Accepts(zip)
                /\ syncing'[c].names = DOMAIN zip /\ syncing'[c].reply = server'.usn
                /\ disturbed' = (disturbed \/ Miscounts(c, zip))
  <1>1. /\ syncing[c].phase = "send" /\ client' = client /\ removed' = removed
    BY DEF Upload
  <1>2. PICK zip \in Zips(c) :
          /\ server' = ServerAfter(zip)
          /\ syncing' = [syncing EXCEPT ![c] =
                           [phase |-> "sent", names |-> DOMAIN zip, reply |-> server'.usn]]
          /\ disturbed' = (disturbed \/ Miscounts(c, zip))
    BY DEF Upload, Goes
  <1>3. IsZip(zip)
    BY ZipsAre
  <1>4. IsServer(server') /\ Accepts(zip)
    BY <1>2, <1>3, AcceptsZip
  <1>5. OnlyOf(c)
        /\ syncing'[c] = [phase |-> "sent", names |-> DOMAIN zip, reply |-> server'.usn]
    BY <1>1, <1>2 DEF OnlyOf, Shape
  <1>6. server'.usn \in 0..server'.usn
    BY <1>4 DEF IsServer
  <1>7. IsSent(syncing'[c], server'.usn)
    BY <1>3, <1>5, <1>6 DEF IsSent, IsZip
  <1> QED
    BY <1>1, <1>2, <1>4, <1>5, <1>7

\* The server forgets a file that it does not find.
Forgets(n) ==
    /\ server'.usn = server.usn /\ server'.files = server.files
    /\ DOMAIN server'.rows = DOMAIN server.rows \ {n}
    /\ \A m \in DOMAIN server'.rows : server'.rows[m] = server.rows[m]

LEMMA FindsNothingDoes ==
    ASSUME Shape, NEW c \in Clients, NEW n, DownloadFindsNothing(c, n)
    PROVE  /\ OnlyOf(c) /\ client' = client /\ removed' = removed
           /\ syncing'[c] = Idle /\ disturbed' = (disturbed \/ Torn(c))
           /\ n \in Listed(server.rows) /\ n \notin DOMAIN server.files
           /\ IsServer(server') /\ Forgets(n)
  <1>1. /\ RowSha(n) # Gone /\ n \notin DOMAIN server.files
        /\ server' = Forgotten(server, n) /\ Stops(c)
        /\ client' = client /\ removed' = removed
    BY DEF DownloadFindsNothing
  <1>2. OnlyOf(c) /\ syncing'[c] = Idle /\ disturbed' = (disturbed \/ Torn(c))
    BY <1>1, StopsDoes
  <1>3. n \in Listed(server.rows)
    BY <1>1 DEF RowSha, Listed
  <1> DEFINE rows == Without(server.rows, {n})
  <1>4. /\ server.usn \in Nat /\ DOMAIN server = {"files", "rows", "usn", "count"}
        /\ IsFiles(server.files) /\ IsRows(server.rows, server.usn)
        /\ server.count = Cardinality(Listed(server.rows))
    BY DEF Shape, IsServer
  <1>5. /\ server'.usn = server.usn /\ server'.files = server.files /\ server'.rows = rows
        /\ server'.count = server.count - 1
        /\ DOMAIN server' = {"files", "rows", "usn", "count"}
    BY <1>1, <1>4 DEF Forgotten
  <1>6. DOMAIN rows = DOMAIN server.rows \ {n} /\ (\A m \in DOMAIN rows : rows[m] = server.rows[m])
    BY WithoutIs
  <1>7. rows = [m \in DOMAIN rows |-> rows[m]]
    BY DEF Without, Only
  <1> HIDE DEF rows
  <1>8. IsRows(rows, server.usn)
    BY <1>4, <1>6, <1>7 DEF IsRows
  <1>9. Listed(rows) = Listed(server.rows) \ {n}
    BY <1>6 DEF Listed
  <1>10. IsFiniteSet(Listed(server.rows))
    <2>1. Listed(server.rows) \subseteq Names
      BY <1>4 DEF Listed, IsRows
    <2> QED BY <2>1, MediaAssumption, FS_Subset
  <1>11. Cardinality(Listed(rows)) = Cardinality(Listed(server.rows)) - 1
    BY <1>3, <1>9, <1>10, FS_RemoveElement
  <1>12. IsServer(server')
    BY <1>4, <1>5, <1>8, <1>11 DEF IsServer
  <1>13. Forgets(n)
    BY <1>5, <1>6 DEF Forgets
  <1> QED
    BY <1>1, <1>2, <1>3, <1>12, <1>13

LEMMA CrashDoes ==
    ASSUME Shape, NEW c \in Clients, UploadCrashes(c)
    PROVE  /\ OnlyOf(c) /\ client' = client /\ removed' = removed
           /\ syncing'[c] = Idle /\ disturbed'
           /\ IsServer(server') /\ server'.rows = server.rows /\ server'.usn = server.usn
  <1>1. /\ syncing' = [syncing EXCEPT ![c] = Idle] /\ client' = client /\ removed' = removed
        /\ disturbed' = TRUE
    BY DEF UploadCrashes, Goes
  <1>2. PICK zip \in Zips(c) : \E names \in SUBSET Effective(zip) :
          server' = [server EXCEPT !.files = FilesAfter(@, zip, names)]
    BY DEF UploadCrashes
  <1>3. PICK names \in SUBSET Effective(zip) :
          server' = [server EXCEPT !.files = FilesAfter(@, zip, names)]
    BY <1>2
  <1>4. IsZip(zip) /\ names \in SUBSET DOMAIN zip
    BY ZipsAre DEF Effective
  <1> DEFINE files == FilesAfter(server.files, zip, names)
  <1>5. /\ DOMAIN server = {"files", "rows", "usn", "count"}
        /\ IsFiles(server.files) /\ IsServer(server)
    BY DEF Shape, IsServer
  <1>6. IsFiles(files)
    BY <1>4, <1>5, FilesAfterIs
  <1>7. /\ server'.files = files /\ server'.rows = server.rows /\ server'.usn = server.usn
        /\ server'.count = server.count
        /\ DOMAIN server' = {"files", "rows", "usn", "count"}
    BY <1>3, <1>5
  <1> HIDE DEF files
  <1>8. IsServer(server')
    BY <1>5, <1>6, <1>7 DEF IsServer
  <1>9. OnlyOf(c) /\ syncing'[c] = Idle
    BY <1>1 DEF OnlyOf, Shape
  <1> QED
    BY <1>1, <1>7, <1>8, <1>9

LEMMA FailsDoes ==
    ASSUME Shape, NEW c \in Clients, Fails(c) \/ \E n \in Names : DownloadRefused(c, n)
    PROVE  /\ OnlyOf(c) /\ client' = client /\ server' = server /\ removed' = removed
           /\ syncing'[c] = Idle /\ disturbed' = (disturbed \/ Torn(c))
           /\ syncing[c] # Idle
  <1>1. client' = client /\ server' = server /\ removed' = removed /\ Stops(c)
    BY DEF Fails, DownloadRefused
  <1> QED
    BY <1>1, StopsDoes DEF Stops

-----------------------------------------------------------------------------
(* The parts of the state keep their fields.                                *)

LEMMA ShapeInit == Init => Shape
  <1> SUFFICES ASSUME Init PROVE Shape
    OBVIOUS
  <1>1. IsFiles(Nothing) /\ IsDb(Nothing) /\ DOMAIN Nothing = {}
    BY NothingIs
  <1>2. /\ DOMAIN client = Clients /\ DOMAIN syncing = Clients
        /\ \A c \in Clients : /\ syncing[c] = Idle
                              /\ client[c] = [files |-> Nothing, fresh |-> FALSE, db |-> Nothing, usn |-> 0]
    BY DEF Init
  <1>3. /\ server.files = Nothing /\ server.rows = Nothing /\ server.usn = 0 /\ server.count = 0
        /\ DOMAIN server = {"files", "rows", "usn", "count"}
    BY DEF Init
  <1>4. IsRows(Nothing, 0) /\ Listed(Nothing) = {}
    BY <1>1 DEF IsRows, Nothing, Listed
  <1>5. IsServer(server)
    BY <1>1, <1>3, <1>4, FS_EmptySet DEF IsServer
  <1>6. ASSUME NEW c \in Clients
        PROVE  IsClient(client[c], server.usn) /\ IsSync(syncing[c], server.usn)
    <2>1. /\ client[c].files = Nothing /\ client[c].fresh = FALSE /\ client[c].db = Nothing
          /\ client[c].usn = 0 /\ DOMAIN client[c] = {"files", "fresh", "db", "usn"}
      BY <1>2
    <2>2. client[c].usn \in 0..server.usn
      BY <1>3, <2>1
    <2>3. IsClient(client[c], server.usn)
      BY <1>1, <2>1, <2>2 DEF IsClient
    <2> QED BY <1>2, <2>3 DEF IsSync
  <1> QED
    BY <1>2, <1>5, <1>6 DEF Shape

\* A greater number of the server leaves what clients have as it was.
LEMMA StillIs ==
    ASSUME NEW u \in Nat, NEW v \in Nat, u <= v, NEW x, NEW s
    PROVE  /\ IsClient(x, u) => IsClient(x, v)
           /\ IsSync(s, u) => IsSync(s, v)
  BY DEF IsClient, IsSync, IsDownload, IsSent

LEMMA ShapeFrom ==
    ASSUME Shape, NEW c \in Clients, OnlyOf(c), IsServer(server'), server.usn <= server'.usn,
           IsClient(client'[c], server'.usn), IsSync(syncing'[c], server'.usn)
    PROVE  Shape'
  <1>1. server.usn \in Nat /\ server'.usn \in Nat
    BY DEF Shape, IsServer
  <1>2. ASSUME NEW d \in Clients
        PROVE  IsClient(client'[d], server'.usn) /\ IsSync(syncing'[d], server'.usn)
    <2>1. CASE d = c
      BY <2>1
    <2>2. CASE d # c
      <3>1. client'[d] = client[d] /\ syncing'[d] = syncing[d]
        BY <2>2 DEF OnlyOf
      <3>2. IsClient(client[d], server.usn) /\ IsSync(syncing[d], server.usn)
        BY DEF Shape
      <3> QED BY <1>1, <3>1, <3>2, StillIs
    <2> QED BY <2>1, <2>2
  <1>3. DOMAIN client' = Clients /\ DOMAIN syncing' = Clients
    BY DEF OnlyOf
  <1> QED
    BY <1>2, <1>3 DEF Shape

\* The same, for the steps that leave the server alone.
LEMMA ShapeSameServer ==
    ASSUME Shape, NEW c \in Clients, OnlyOf(c), server' = server,
           IsClient(client'[c], server.usn), IsSync(syncing'[c], server.usn)
    PROVE  Shape'
  <1>1. IsServer(server') /\ server.usn <= server'.usn
    BY DEF Shape, IsServer
  <1> QED
    BY <1>1, ShapeFrom

LEMMA ShapeStep ==
    ASSUME Shape, NEW c \in Clients,
           Users(c) \/ Begin(c) \/ Proceeds(c) \/ Fails(c) \/ UploadCrashes(c)
    PROVE  Shape'
  <1>1. IsClient(client[c], server.usn) /\ IsSync(syncing[c], server.usn) /\ IsServer(server)
    BY DEF Shape
  <1>2. /\ IsSync(Idle, server.usn) /\ IsSync([phase |-> "fetch"], server.usn)
        /\ IsSync([phase |-> "send"], server.usn)
    BY IdleIs
  <1>3. CASE Users(c)
    <2>1. Edited(c) /\ IsClient(client'[c], server.usn)
      <3>1. CASE \E n \in Names, d \in Data : AddFile(c, n, d)
        BY <3>1, AddFileDoes
      <3>2. CASE \E n \in Names, d \in Data : Put(c, n, d)
        BY <3>2, PutDoes
      <3>3. CASE \E n \in Names : Take(c, n)
        BY <3>3, TakeDoes
      <3>4. CASE \E names \in SUBSET Names : RemoveFiles(c, names)
        BY <3>4, RemoveFilesDoes
      <3> QED BY <1>3, <3>1, <3>2, <3>3, <3>4 DEF Users
    <2>2. OnlyOf(c) /\ syncing'[c] = syncing[c] /\ server' = server
      BY <2>1 DEF Edited
    <2> QED BY <1>1, <2>1, <2>2, ShapeSameServer
  <1>4. CASE Begin(c)
    <2>1. IsSync(syncing'[c], server.usn) /\ OnlyOf(c) /\ server' = server
          /\ IsClient(client'[c], server.usn)
      BY <1>2, <1>4, BeginDoes
    <2> QED BY <2>1, ShapeSameServer
  <1>5. CASE Proceeds(c)
    <2>1. CASE Fetch(c)
      <3>1. OnlyOf(c) /\ server' = server /\ IsClient(client'[c], server.usn)
            /\ IsDownload(syncing'[c], server.usn)
        BY <2>1, FetchDoes
      <3> QED BY <3>1, ShapeSameServer DEF IsSync
    <2>2. CASE FetchedAll(c)
      BY <1>1, <1>2, <2>2, FetchedAllDoes, ShapeSameServer
    <2>3. CASE \E n \in Names : Download(c, n)
      <3>1. OnlyOf(c) /\ server' = server /\ IsClient(client'[c], server.usn)
            /\ IsDownload(syncing'[c], server.usn)
        BY <2>3, DownloadDoes
      <3> QED BY <3>1, ShapeSameServer DEF IsSync
    <2>4. CASE \E n \in Names : DownloadRefused(c, n)
      BY <1>1, <1>2, <2>4, FailsDoes, ShapeSameServer
    <2>5. CASE \E n \in Names : DownloadFindsNothing(c, n)
      <3>1. PICK n \in Names : DownloadFindsNothing(c, n)
        BY <2>5
      <3>2. /\ OnlyOf(c) /\ client' = client /\ syncing'[c] = Idle
            /\ IsServer(server') /\ server'.usn = server.usn
        BY <3>1, FindsNothingDoes DEF Forgets
      <3>3. server.usn <= server'.usn
        BY <1>1, <3>2 DEF IsServer
      <3> QED BY <1>1, <1>2, <3>2, <3>3, ShapeFrom
    <2>6. CASE Record(c)
      <3>1. OnlyOf(c) /\ server' = server /\ IsClient(client'[c], server.usn)
            /\ syncing'[c] = [phase |-> "fetch"]
        BY <2>6, RecordDoes
      <3> QED BY <1>2, <3>1, ShapeSameServer
    <2>7. CASE Upload(c)
      <3>1. /\ OnlyOf(c) /\ client' = client
            /\ IsServer(server') /\ IsSent(syncing'[c], server'.usn)
            /\ server.usn <= server'.usn
        BY <2>7, UploadDoes DEF Accepts
      <3>2. server.usn \in Nat /\ server'.usn \in Nat
        BY <1>1, <3>1 DEF IsServer
      <3>3. IsClient(client'[c], server'.usn)
        BY <1>1, <3>1, <3>2, StillIs
      <3> QED BY <3>1, <3>3, ShapeFrom DEF IsSync
    <2>8. CASE RecordSent(c)
      <3>1. OnlyOf(c) /\ server' = server /\ IsClient(client'[c], server.usn)
            /\ syncing'[c] = [phase |-> "send"]
        BY <2>8, RecordSentDoes
      <3> QED BY <1>2, <3>1, ShapeSameServer
    <2>9. CASE Finalize(c)
      <3>1. OnlyOf(c) /\ server' = server /\ IsClient(client'[c], server.usn)
            /\ syncing'[c] = Idle
        BY <2>9, FinalizeDoes
      <3> QED BY <1>2, <3>1, ShapeSameServer
    <2> QED
      BY <1>5, <2>1, <2>2, <2>3, <2>4, <2>5, <2>6, <2>7, <2>8, <2>9 DEF Proceeds
  <1>6. CASE Fails(c)
    BY <1>1, <1>2, <1>6, FailsDoes, ShapeSameServer
  <1>7. CASE UploadCrashes(c)
    <2>1. /\ OnlyOf(c) /\ client' = client /\ syncing'[c] = Idle
          /\ IsServer(server') /\ server'.usn = server.usn
      BY <1>7, CrashDoes
    <2>2. server.usn <= server'.usn
      BY <1>1, <2>1 DEF IsServer
    <2> QED BY <1>1, <1>2, <2>1, <2>2, ShapeFrom
  <1> QED
    BY <1>3, <1>4, <1>5, <1>6, <1>7

LEMMA ShapeStutter == Shape /\ UNCHANGED vars => Shape'
  BY DEF Shape, vars

LEMMA ShapeAlways == Spec => []Shape
  <1>1. Shape /\ [Next]_vars => Shape'
    BY ShapeStep, ShapeStutter DEF Next
  <1> QED
    BY <1>1, ShapeInit, PTL DEF Spec

LEMMA ShapeIsTyped == Shape => TypeOK
  <1> SUFFICES ASSUME Shape PROVE TypeOK
    OBVIOUS
  <1>1. ASSUME NEW c \in Clients
        PROVE  /\ client[c].files \in Files
               /\ DOMAIN client[c].db \subseteq Names
               /\ \A n \in DOMAIN client[c].db :
                    client[c].db[n] \in [sha1 : Data \cup {Gone}, dirty : BOOLEAN]
               /\ client[c].fresh \in BOOLEAN
               /\ client[c].usn \in 0..server.usn
               /\ syncing[c].phase \in Phases
    <2>1. IsFiles(client[c].files) /\ IsDb(client[c].db) /\ client[c].fresh \in BOOLEAN
          /\ client[c].usn \in 0..server.usn
      BY ClientOf
    <2> QED BY <2>1, FilesAre, PhaseOf, RowsOfDb DEF IsDb
  <1>2. /\ IsFiles(server.files) /\ IsRows(server.rows, server.usn)
        /\ server.count = Cardinality(Listed(server.rows))
    BY DEF Shape, IsServer
  <1>3. \A n \in DOMAIN server.rows :
          server.rows[n] \in [sha1 : Data \cup {Gone}, usn : 1..server.usn]
    BY <1>2 DEF IsRows
  <1> QED
    BY <1>1, <1>2, <1>3, FilesAre DEF TypeOK, Listed

\* Whatever is edited, interrupted, lost or crashes, the state keeps its types, and
\* the server's total is the number of files it lists (register_uploaded_change
\* and forget_missing_file keep it up one change at a time).
THEOREM MediaStateIsTyped == Spec => []TypeOK
  BY ShapeAlways, ShapeIsTyped, PTL

-----------------------------------------------------------------------------
(* What a client or the server holds as deleted, some user has removed.     *)

LEMMA RemovalsFrom ==
    ASSUME Removals, NEW c \in Clients, OnlyOf(c), removed \subseteq removed',
           AccountsFor(client[c])', GotOrRemoved(syncing[c], client[c])',
           \A n \in DOMAIN server'.rows : server'.rows[n].sha1 = Gone => n \in removed'
    PROVE  Removals'
  <1>1. ASSUME NEW d \in Clients
        PROVE  AccountsFor(client[d])' /\ GotOrRemoved(syncing[d], client[d])'
    <2>1. CASE d = c
      BY <2>1
    <2>2. CASE d # c
      <3>1. client'[d] = client[d] /\ syncing'[d] = syncing[d]
        BY <2>2 DEF OnlyOf
      <3>2. AccountsFor(client[d]) /\ GotOrRemoved(syncing[d], client[d])
        BY DEF Removals
      <3> QED BY <3>1, <3>2 DEF AccountsFor, GotOrRemoved
    <2> QED BY <2>1, <2>2
  <1> QED
    BY <1>1 DEF Removals

LEMMA RemovalsSameServer ==
    ASSUME Removals, NEW c \in Clients, OnlyOf(c), server' = server, removed \subseteq removed',
           AccountsFor(client[c])', GotOrRemoved(syncing[c], client[c])'
    PROVE  Removals'
  BY RemovalsFrom DEF Removals

\* When neither the client nor what it has got changes.
LEMMA RemovalsSameClient ==
    ASSUME Removals, NEW c \in Clients, client' = client, removed' = removed,
           syncing'[c].phase # "download"
    PROVE  AccountsFor(client[c])' /\ GotOrRemoved(syncing[c], client[c])'
  BY DEF Removals, AccountsFor, GotOrRemoved

LEMMA RemovalsUsers ==
    ASSUME Shape, Removals, NEW c \in Clients, Users(c)
    PROVE  Removals'
  <1> DEFINE x == client[c]
             y == client'[c]
             s == syncing[c]
  <1>1. AccountsFor(x) /\ GotOrRemoved(s, x)
    BY DEF Removals
  <1>2. SUFFICES /\ Edited(c) /\ removed \subseteq removed'
                 /\ AccountsFor(client[c])' /\ GotOrRemoved(syncing[c], client[c])'
    BY RemovalsSameServer DEF Edited
  <1>3. CASE \E n \in Names, d \in Data : AddFile(c, n, d)
    <2>1. PICK n \in Names, d \in Data : AddFile(c, n, d)
      BY <1>3
    <2>2. Edited(c) /\ removed' = removed /\ AddedFile(x, y, n, d)
      BY <2>1, AddFileDoes
    <2>3. syncing'[c] = s /\ DOMAIN y.files = DOMAIN x.files \cup {n} /\ d # Gone
      BY <2>2, MediaAssumption DEF Edited, AddedFile, WithValue, Gone
    <2>4. GotOrRemoved(syncing[c], client[c])'
      BY <1>1, <2>2, <2>3 DEF GotOrRemoved
    <2>5. AccountsFor(client[c])'
      <3>1. CASE LocalSha(x.db, n) = d
        <4>1. y.db = x.db
          BY <2>2, <3>1 DEF AddedFile
        <4> QED BY <1>1, <2>2, <2>3, <4>1 DEF AccountsFor
      <3>2. CASE LocalSha(x.db, n) # d
        <4> DEFINE row == [sha1 |-> d, dirty |-> TRUE]
        <4>1. row.sha1 = d
          OBVIOUS
        <4>2. WithValue(y.db, x.db, n, row)
          BY <2>2, <3>2 DEF AddedFile
        <4> HIDE DEF row
        <4> QED BY <1>1, <2>2, <2>3, <4>1, <4>2 DEF AccountsFor, WithValue
      <3> QED BY <3>1, <3>2
    <2> QED BY <2>2, <2>4, <2>5
  <1>4. CASE \E n \in Names, d \in Data : Put(c, n, d)
    <2>1. PICK n \in Names, d \in Data : Put(c, n, d)
      BY <1>4
    <2>2. Edited(c) /\ removed' = removed /\ y.db = x.db /\ DOMAIN y.files = DOMAIN x.files \cup {n}
      BY <2>1, PutDoes DEF Scribbled
    <2> QED BY <1>1, <2>2 DEF AccountsFor, GotOrRemoved, Edited
  <1>5. CASE \E n \in Names : Take(c, n)
    <2>1. PICK n \in Names : Take(c, n)
      BY <1>5
    <2>2. Edited(c) /\ removed' = removed \cup {n} /\ y.db = x.db
          /\ DOMAIN y.files = DOMAIN x.files \ {n}
      BY <2>1, TakeDoes DEF Scribbled
    <2> QED BY <1>1, <2>2 DEF AccountsFor, GotOrRemoved, Edited
  <1>6. CASE \E names \in SUBSET Names : RemoveFiles(c, names)
    <2>1. PICK names \in SUBSET Names : RemoveFiles(c, names)
      BY <1>6
    <2>2. Edited(c) /\ removed' = removed \cup names /\ RemovedFiles(x, y, names)
      BY <2>1, RemoveFilesDoes
    <2>3. DOMAIN y.files = DOMAIN x.files \ names /\ Deleted(x.db, y.db, names)
      BY <2>2 DEF RemovedFiles
    <2> QED BY <1>1, <2>2, <2>3 DEF AccountsFor, GotOrRemoved, Edited, Deleted
  <1> QED
    BY <1>3, <1>4, <1>5, <1>6 DEF Users

LEMMA RemovalsBegin ==
    ASSUME Shape, Removals, NEW c \in Clients, Begin(c)
    PROVE  Removals'
  <1> DEFINE x == client[c]
             y == client'[c]
  <1>1. /\ OnlyOf(c) /\ server' = server /\ removed' = removed /\ Began(x, y)
        /\ syncing'[c] \in {Idle, [phase |-> "fetch"], [phase |-> "send"]}
    BY BeginDoes
  <1>2. syncing'[c].phase # "download"
    BY <1>1, IdleIs
  <1>3. AccountsFor(x) /\ IsFiles(x.files)
    BY ClientOf DEF Removals
  <1>4. AccountsFor(client[c])'
    <2>1. CASE x.fresh
      BY <1>1, <1>3, <2>1 DEF AccountsFor, Began
    <2>2. CASE ~x.fresh
      <3>1. Scans(x.files, x.db, y.db) /\ y.files = x.files
        BY <1>1, <2>2 DEF Began
      <3>2. \A n \in DOMAIN x.files : y.db[n].sha1 # Gone
        BY <1>3, <3>1, MediaAssumption DEF Scans, IsFiles, Gone
      <3>3. ASSUME NEW n \in DOMAIN y.db, y.db[n].sha1 = Gone \/ n \notin DOMAIN y.files
            PROVE  n \in removed
        <4>1. n \in DOMAIN x.db /\ n \notin DOMAIN x.files
          BY <3>1, <3>2, <3>3 DEF Scans
        <4> QED BY <1>3, <4>1 DEF AccountsFor
      <3> QED BY <1>1, <3>3 DEF AccountsFor
    <2> QED BY <2>1, <2>2
  <1>5. GotOrRemoved(syncing[c], client[c])'
    BY <1>2 DEF GotOrRemoved
  <1> QED
    BY <1>1, <1>4, <1>5, RemovalsSameServer

LEMMA RemovalsFetch ==
    ASSUME Shape, Removals, NEW c \in Clients, Fetch(c)
    PROVE  Removals'
  <1> DEFINE x == client[c]
             y == client'[c]
             t == syncing'[c]
  <1>1. OnlyOf(c) /\ server' = server /\ removed' = removed /\ Fetched(x, y, t)
    BY FetchDoes
  <1>2. /\ Deleted(x.db, y.db, t.delete) /\ DOMAIN x.files \subseteq DOMAIN y.files \cup t.delete
        /\ DOMAIN t.got = {}
        /\ t.delete \subseteq {n \in ChangesChunk(x.usn) : server.rows[n].sha1 = Gone}
    BY <1>1 DEF Fetched, Sorts
  <1>3. t.delete \subseteq removed
    <2>1. x.usn \in Nat
      BY ClientOf
    <2> QED BY <1>2, <2>1, ChunkIs DEF Removals
  <1>4. AccountsFor(x)
    BY DEF Removals
  <1>5. AccountsFor(client[c])'
    BY <1>1, <1>2, <1>3, <1>4 DEF AccountsFor, Deleted
  <1>6. GotOrRemoved(syncing[c], client[c])'
    BY <1>2 DEF GotOrRemoved
  <1> QED
    BY <1>1, <1>5, <1>6, RemovalsSameServer

LEMMA RemovalsDownload ==
    ASSUME Shape, Removals, NEW c \in Clients, NEW n \in Names, Download(c, n)
    PROVE  Removals'
  <1> DEFINE x == client[c]
             y == client'[c]
             s == syncing[c]
             t == syncing'[c]
  <1>1. /\ OnlyOf(c) /\ server' = server /\ removed' = removed
        /\ IsDownload(s, server.usn) /\ Downloaded(x, y, s, t, n)
    BY DownloadDoes
  <1>2. /\ y.db = x.db /\ DOMAIN y.files = DOMAIN x.files \cup {n}
        /\ DOMAIN t.got = DOMAIN s.got \cup {n}
    BY <1>1 DEF Downloaded, WithValue
  <1>3. AccountsFor(x) /\ GotOrRemoved(s, x) /\ s.phase = "download"
    BY <1>1 DEF Removals, IsDownload
  <1>4. AccountsFor(client[c])'
    BY <1>1, <1>2, <1>3 DEF AccountsFor
  <1>5. GotOrRemoved(syncing[c], client[c])'
    BY <1>1, <1>2, <1>3 DEF GotOrRemoved
  <1> QED
    BY <1>1, <1>4, <1>5, RemovalsSameServer

LEMMA RemovalsRecord ==
    ASSUME Shape, Removals, NEW c \in Clients, Record(c)
    PROVE  Removals'
  <1> DEFINE x == client[c]
             y == client'[c]
             s == syncing[c]
  <1>1. /\ OnlyOf(c) /\ server' = server /\ removed' = removed
        /\ IsDownload(s, server.usn) /\ Recorded(x, y, s)
        /\ syncing'[c] = [phase |-> "fetch"]
    BY RecordDoes
  <1>2. syncing'[c].phase # "download"
    BY <1>1
  <1>3. /\ y.files = x.files
        /\ DOMAIN y.db = DOMAIN s.got \cup (DOMAIN x.db \ s.delete)
        /\ \A n \in DOMAIN s.got : y.db[n] = [sha1 |-> s.got[n], dirty |-> FALSE]
        /\ \A n \in (DOMAIN x.db \ s.delete) \ DOMAIN s.got : y.db[n].sha1 = x.db[n].sha1
    BY <1>1 DEF Recorded
  <1>4. AccountsFor(x) /\ GotOrRemoved(s, x) /\ s.phase = "download" /\ IsFiles(s.got)
    BY <1>1 DEF Removals, IsDownload
  <1>5. \A n \in DOMAIN s.got : y.db[n].sha1 # Gone
    <2>1. \A n \in DOMAIN s.got : s.got[n] \in Data
      BY <1>4 DEF IsFiles
    <2>2. ASSUME NEW n \in DOMAIN s.got PROVE y.db[n].sha1 = s.got[n]
      <3>1. y.db[n] = [sha1 |-> s.got[n], dirty |-> FALSE]
        BY <1>3
      <3> QED BY <3>1
    <2> QED BY <2>1, <2>2, MediaAssumption DEF Gone
  <1>6. AccountsFor(client[c])'
    BY <1>1, <1>3, <1>4, <1>5 DEF AccountsFor, GotOrRemoved
  <1>7. GotOrRemoved(syncing[c], client[c])'
    BY <1>2 DEF GotOrRemoved
  <1> QED
    BY <1>1, <1>6, <1>7, RemovalsSameServer

LEMMA RemovalsUpload ==
    ASSUME Shape, Removals, NEW c \in Clients, Upload(c)
    PROVE  Removals'
  <1> DEFINE x == client[c]
  <1>1. /\ OnlyOf(c) /\ client' = client /\ removed' = removed
        /\ IsSent(syncing'[c], server'.usn)
        /\ \E zip \in Zips(c) : Accepts(zip)
    BY UploadDoes
  <1>2. PICK zip \in Zips(c) : Accepts(zip)
    BY <1>1
  <1>3. AccountsFor(x) /\ IsFiles(x.files)
    BY ClientOf DEF Removals
  <1>4. ASSUME NEW n \in DOMAIN zip, zip[n] = Gone PROVE n \in removed
    <2>1. n \in Dirty(x.db)
          /\ zip[n] = IF n \in Present(x.db) \cap DOMAIN x.files THEN x.files[n] ELSE Gone
      BY ZipsAre
    <2>2. n \notin Present(x.db) \cap DOMAIN x.files
      BY <1>3, <1>4, <2>1, MediaAssumption DEF IsFiles, Gone
    <2> QED BY <1>3, <2>1, <2>2 DEF AccountsFor, Dirty, Present
  <1>5. ASSUME NEW n \in DOMAIN server'.rows, server'.rows[n].sha1 = Gone
        PROVE  n \in removed
    <2>1. CASE n \in Effective(zip)
      BY <1>2, <1>4, <1>5, <2>1 DEF Accepts, Effective
    <2>2. CASE n \notin Effective(zip)
      BY <1>2, <1>5, <2>2 DEF Accepts, Removals
    <2> QED BY <2>1, <2>2
  <1>6. AccountsFor(client[c])' /\ GotOrRemoved(syncing[c], client[c])'
    BY <1>1, RemovalsSameClient DEF IsSent
  <1> QED
    BY <1>1, <1>5, <1>6, RemovalsFrom

LEMMA RemovalsStep ==
    ASSUME Shape, Removals, NEW c \in Clients,
           Users(c) \/ Begin(c) \/ Proceeds(c) \/ Fails(c) \/ UploadCrashes(c)
    PROVE  Removals'
  <1>1. CASE Users(c)
    BY <1>1, RemovalsUsers
  <1>2. CASE Begin(c)
    BY <1>2, RemovalsBegin
  <1>3. CASE Proceeds(c)
    <2>1. CASE Fetch(c)
      BY <2>1, RemovalsFetch
    <2>2. CASE FetchedAll(c)
      <3>1. /\ OnlyOf(c) /\ client' = client /\ server' = server /\ removed' = removed
            /\ syncing'[c] = [phase |-> "send"]
        BY <2>2, FetchedAllDoes
      <3>2. syncing'[c].phase # "download"
        BY <3>1
      <3> QED BY <3>1, <3>2, RemovalsSameClient, RemovalsSameServer
    <2>3. CASE \E n \in Names : Download(c, n)
      BY <2>3, RemovalsDownload
    <2>4. CASE \E n \in Names : DownloadRefused(c, n)
      BY <2>4, FailsDoes, IdleIs, RemovalsSameClient, RemovalsSameServer
    <2>5. CASE \E n \in Names : DownloadFindsNothing(c, n)
      <3>1. PICK n \in Names : DownloadFindsNothing(c, n)
        BY <2>5
      <3>2. /\ OnlyOf(c) /\ client' = client /\ removed' = removed
            /\ syncing'[c] = Idle /\ Forgets(n)
        BY <3>1, FindsNothingDoes
      <3>3. \A m \in DOMAIN server'.rows : server'.rows[m].sha1 = Gone => m \in removed'
        BY <3>2 DEF Forgets, Removals
      <3>4. AccountsFor(client[c])' /\ GotOrRemoved(syncing[c], client[c])'
        BY <3>2, IdleIs, RemovalsSameClient
      <3> QED BY <3>2, <3>3, <3>4, RemovalsFrom
    <2>6. CASE Record(c)
      BY <2>6, RemovalsRecord
    <2>7. CASE Upload(c)
      BY <2>7, RemovalsUpload
    <2>8. CASE RecordSent(c)
      <3>1. /\ OnlyOf(c) /\ server' = server /\ removed' = removed
            /\ syncing'[c] = [phase |-> "send"]
            /\ client'[c].files = client[c].files
            /\ Cleans(client[c].db, client'[c].db, syncing[c].names)
        BY <2>8, RecordSentDoes DEF SentRecorded
      <3>2. syncing'[c].phase # "download" /\ AccountsFor(client[c])
        BY <3>1 DEF Removals
      <3>3. AccountsFor(client[c])'
        BY <3>1, <3>2 DEF AccountsFor, Cleans
      <3>4. GotOrRemoved(syncing[c], client[c])'
        BY <3>2 DEF GotOrRemoved
      <3> QED BY <3>1, <3>3, <3>4, RemovalsSameServer
    <2>9. CASE Finalize(c)
      <3>1. /\ OnlyOf(c) /\ server' = server /\ removed' = removed /\ syncing'[c] = Idle
            /\ client'[c] = client[c] \/ Emptied(client[c], client'[c])
        BY <2>9, FinalizeDoes
      <3>2. AccountsFor(client[c])
        BY DEF Removals
      <3>3. AccountsFor(client[c])'
        BY <3>1, <3>2 DEF AccountsFor, Emptied
      <3>4. GotOrRemoved(syncing[c], client[c])'
        BY <3>1, IdleIs DEF GotOrRemoved
      <3> QED BY <3>1, <3>3, <3>4, RemovalsSameServer
    <2> QED
      BY <1>3, <2>1, <2>2, <2>3, <2>4, <2>5, <2>6, <2>7, <2>8, <2>9 DEF Proceeds
  <1>4. CASE Fails(c)
    BY <1>4, FailsDoes, IdleIs, RemovalsSameClient, RemovalsSameServer
  <1>5. CASE UploadCrashes(c)
    <2>1. /\ OnlyOf(c) /\ client' = client /\ removed' = removed /\ syncing'[c] = Idle
          /\ server'.rows = server.rows
      BY <1>5, CrashDoes
    <2>2. \A m \in DOMAIN server'.rows : server'.rows[m].sha1 = Gone => m \in removed'
      BY <2>1 DEF Removals
    <2>3. AccountsFor(client[c])' /\ GotOrRemoved(syncing[c], client[c])'
      BY <2>1, IdleIs, RemovalsSameClient
    <2> QED BY <2>1, <2>2, <2>3, RemovalsFrom
  <1> QED
    BY <1>1, <1>2, <1>3, <1>4, <1>5

LEMMA RemovalsInit == Init => Removals
  <1> SUFFICES ASSUME Init PROVE Removals
    OBVIOUS
  <1>1. DOMAIN server.rows = {}
    BY NothingIs DEF Init
  <1>2. ASSUME NEW c \in Clients
        PROVE  DOMAIN client[c].db = {} /\ syncing[c] = Idle
    BY NothingIs DEF Init
  <1> QED
    BY <1>1, <1>2, IdleIs DEF Removals, AccountsFor, GotOrRemoved

LEMMA RemovalsStutter == Removals /\ UNCHANGED vars => Removals'
  BY DEF Removals, AccountsFor, GotOrRemoved, vars

LEMMA RemovalsAlways == Spec => []Removals
  <1>1. Shape /\ Removals /\ [Next]_vars => Removals'
    BY RemovalsStep, RemovalsStutter DEF Next
  <1> QED
    BY <1>1, ShapeAlways, RemovalsInit, PTL DEF Spec

LEMMA EditsAlways == Spec => [](edits \in Nat)
  <1>1. Init => edits \in Nat
    BY DEF Init
  <1>2. ASSUME edits \in Nat, Next PROVE edits' \in Nat
    <2>1. PICK c \in Clients : Users(c) \/ Begin(c) \/ Proceeds(c) \/ Fails(c) \/ UploadCrashes(c)
      BY <1>2 DEF Next
    <2>2. Users(c) => edits' = edits + 1
      BY DEF Users, AddFile, Put, Take, RemoveFiles, Changes
    <2>3. Begin(c) \/ Fails(c) \/ UploadCrashes(c) => edits' = edits
      BY DEF Begin, Fails, UploadCrashes
    <2>4. Proceeds(c) => edits' = edits
      BY DEF Proceeds, Fetch, FetchedAll, Download, DownloadRefused, DownloadFindsNothing,
             Record, Upload, RecordSent, Finalize
    <2> QED BY <1>2, <2>1, <2>2, <2>3, <2>4
  <1>3. edits \in Nat /\ [Next]_vars => (edits \in Nat)'
    BY <1>2 DEF vars
  <1> QED
    BY <1>1, <1>3, PTL DEF Spec

\* No step but a user's takes a file out of a folder, save a fetch of deletions.
LEMMA FilesStay ==
    ASSUME Shape, NEW c \in Clients, Begin(c) \/ Proceeds(c) \/ Fails(c) \/ UploadCrashes(c),
           NEW d \in Clients
    PROVE  \/ DOMAIN client[d].files \subseteq DOMAIN client'[d].files
           \/ d = c /\ Fetch(c)
  <1>1. CASE d # c
    <2>1. OnlyOf(c)
      BY BeginDoes, FetchDoes, FetchedAllDoes, DownloadDoes, FindsNothingDoes, RecordDoes,
         UploadDoes, RecordSentDoes, FinalizeDoes, FailsDoes, CrashDoes DEF Proceeds
    <2> QED BY <1>1, <2>1 DEF OnlyOf
  <1>2. CASE d = c
    <2>1. Begin(c) => client'[c].files = client[c].files
      BY BeginDoes DEF Began
    <2>2. (\E n \in Names : Download(c, n)) => DOMAIN client[c].files \subseteq DOMAIN client'[c].files
      BY DownloadDoes DEF Downloaded, WithValue
    <2>3. Record(c) => client'[c].files = client[c].files
      BY RecordDoes DEF Recorded
    <2>4. RecordSent(c) => client'[c].files = client[c].files
      BY RecordSentDoes DEF SentRecorded
    <2>5. Finalize(c) => client'[c].files = client[c].files
      BY FinalizeDoes DEF Emptied
    <2>6. FetchedAll(c) \/ Upload(c) \/ Fails(c) \/ UploadCrashes(c)
          \/ (\E n \in Names : DownloadRefused(c, n) \/ DownloadFindsNothing(c, n))
            => client' = client
      BY FetchedAllDoes, UploadDoes, FailsDoes, CrashDoes, FindsNothingDoes
    <2> QED BY <1>2, <2>1, <2>2, <2>3, <2>4, <2>5, <2>6 DEF Proceeds
  <1> QED
    BY <1>1, <1>2

LEMMA KeptStep ==
    ASSUME Shape, Removals, edits \in Nat, Next, edits' = edits,
           NEW d \in Clients, NEW n \in DOMAIN client[d].files,
           n \notin removed \/ n \in Dirty(client[d].db) \cap Present(client[d].db)
    PROVE  n \in DOMAIN client'[d].files
  <1>1. PICK c \in Clients : Users(c) \/ Begin(c) \/ Proceeds(c) \/ Fails(c) \/ UploadCrashes(c)
    BY DEF Next
  <1>2. ~Users(c)
    <2>1. Users(c) => edits' = edits + 1
      BY DEF Users, AddFile, Put, Take, RemoveFiles, Changes
    <2> QED BY <2>1
  <1>3. CASE d = c /\ Fetch(c)
    <2> DEFINE x == client[c]
               y == client'[c]
               t == syncing'[c]
    <2>1. Fetched(x, y, t)
      BY <1>3, FetchDoes
    <2>2. /\ DOMAIN x.files \subseteq DOMAIN y.files \cup t.delete
          /\ \A m \in t.delete : /\ m \in ChangesChunk(x.usn) /\ server.rows[m].sha1 = Gone
                                 /\ ~(m \in Present(x.db) /\ x.db[m].dirty)
      BY <2>1 DEF Fetched, Sorts
    <2>3. x.usn \in Nat
      BY ClientOf
    <2>4. t.delete \subseteq removed
      BY <2>2, <2>3, ChunkIs DEF Removals
    <2>5. n \notin t.delete
      BY <1>3, <2>2, <2>4 DEF Dirty
    <2> QED BY <1>3, <2>2, <2>5
  <1> QED
    BY <1>1, <1>2, <1>3, FilesStay

\* No step of a sync removes a file that no user has removed anywhere, nor one that
\* waits for upload, whatever is interrupted and whoever interferes
\* (determine_required_changes, remove_files).
THEOREM SyncKeepsFiles == Spec => KeptUnlessRemoved
  <1>1. Shape /\ Removals /\ edits \in Nat /\ [Next]_vars
          => [edits' = edits =>
                \A c \in Clients : \A n \in DOMAIN client[c].files :
                    LET Waits == n \in Dirty(client[c].db) \cap Present(client[c].db)
                    IN  n \notin removed \/ Waits => n \in DOMAIN client'[c].files]_vars
    BY KeptStep
  <1> QED
    BY <1>1, ShapeAlways, RemovalsAlways, EditsAlways, PTL DEF Spec, KeptUnlessRemoved

-----------------------------------------------------------------------------
(* As long as nothing is disturbed, every side knows where it stands.       *)

\* The server's numbers only grow, and what has an old number is as it was.
Advances ==
    /\ server.usn <= server'.usn
    /\ DOMAIN server.rows \subseteq DOMAIN server'.rows
    /\ \A n \in DOMAIN server'.rows :
         server'.rows[n].usn <= server.usn => n \in DOMAIN server.rows /\ server'.rows[n] = server.rows[n]

\* What other clients upload does not disturb a client, nor its sync.
LEMMA StaysInSync ==
    ASSUME Shape, IsServer(server'), Advances, NEW d \in Clients,
           client'[d] = client[d], syncing'[d] = syncing[d],
           InSync(client[d], syncing[d])
    PROVE  InSync(client[d], syncing[d])'
  <1> DEFINE x == client[d]
             s == syncing[d]
  <1>1. /\ server.usn \in Nat /\ server'.usn \in Nat /\ x.usn \in 0..server.usn
        /\ s.phase = "download" => s.last \in 0..server.usn
        /\ s.phase = "sent" => s.reply \in 0..server.usn
    BY ClientOf, PhaseOf DEF IsDownload, IsSent, IsServer
  <1>2. \A n \in DOMAIN server'.rows : server'.rows[n].usn \in Nat
    BY <1>1 DEF IsServer, IsRows
  <1>3. \A u \in 0..server.usn : \A n \in DOMAIN server'.rows :
          server'.rows[n].usn <= u =>
            /\ n \in DOMAIN server.rows /\ server'.rows[n] = server.rows[n]
            /\ server.rows[n].usn <= u
    BY <1>1, <1>2 DEF Advances
  <1>4. DOMAIN server.rows \subseteq DOMAIN server'.rows
    BY DEF Advances
  <1>5. Passed(client[d])'
    BY <1>1, <1>3 DEF InSync, Passed, Knows
  <1>6. Uploaded(client[d])'
    BY <1>4 DEF InSync, Uploaded
  <1>7. s.phase = "download" => Downloads(client[d], syncing[d])'
    <2> SUFFICES ASSUME s.phase = "download" PROVE Downloads(client[d], syncing[d])'
      OBVIOUS
    <2>1. Downloads(x, s)
      BY DEF InSync
    <2>2. \A n \in DOMAIN server'.rows : server'.rows[n].usn <= s.last =>
            n \in DOMAIN server.rows /\ server'.rows[n] = server.rows[n] /\ server.rows[n].usn <= s.last
      BY <1>1, <1>3
    <2>3. /\ Ahead(x, s.got)
          /\ (s.todo \cup DOMAIN s.got) \cap (s.delete \cup s.clean) = {} /\ s.delete \cap s.clean = {}
          /\ DOMAIN s.got \cup s.clean \subseteq DOMAIN server'.rows
          /\ \A n \in s.delete \cap DOMAIN x.db : x.db[n].sha1 = Gone
      BY <1>4, <2>1 DEF Downloads
    <2>4. ASSUME NEW n \in DOMAIN server'.rows \ s.todo, server'.rows[n].usn <= s.last
          PROVE  IF n \in DOMAIN s.got THEN s.got[n] = server'.rows[n].sha1
                 ELSE IF n \in s.delete THEN server'.rows[n].sha1 = Gone
                 ELSE IF n \in s.clean THEN LocalSha(x.db, n) = server'.rows[n].sha1
                 ELSE LocalSha(x.db, n) = server'.rows[n].sha1 \/ n \in Dirty(x.db)
      <3>1. n \in DOMAIN server.rows \ s.todo /\ server'.rows[n] = server.rows[n]
            /\ server.rows[n].usn <= s.last
        BY <2>2, <2>4
      <3> QED BY <2>1, <3>1 DEF Downloads, Knows
    <2> QED BY <2>3, <2>4 DEF Downloads, Knows, Ahead, Present, LocalSha, Dirty
  <1>8. s.phase = "sent" => Sends(client[d], syncing[d])'
    <2> SUFFICES ASSUME s.phase = "sent" PROVE Sends(client[d], syncing[d])'
      OBVIOUS
    <2>1. Sends(x, s)
      BY DEF InSync
    <2>2. \A n \in DOMAIN server'.rows : server'.rows[n].usn <= s.reply =>
            n \in DOMAIN server.rows /\ server'.rows[n] = server.rows[n] /\ server.rows[n].usn <= s.reply
      BY <1>1, <1>3
    <2> QED BY <1>4, <2>1, <2>2 DEF Sends
  <1>9. s.phase # "download" => (s # Idle => x.fresh) /\ (x.fresh => Mirrors(x))
    BY DEF InSync
  <1>10. s.phase # "download" => (s # Idle => x.fresh) /\ (x.fresh => Mirrors(client[d])')
    BY <1>9 DEF Mirrors
  <1> QED
    BY <1>5, <1>6, <1>7, <1>8, <1>10 DEF InSync

LEMMA CalmFrom ==
    ASSUME Shape, Calm, ~disturbed, IsServer(server'), Advances, NEW c \in Clients, OnlyOf(c),
           InStep', InSync(client[c], syncing[c])'
    PROVE  Calm'
  <1>1. ASSUME NEW d \in Clients PROVE InSync(client[d], syncing[d])'
    <2>1. CASE d = c
      BY <2>1
    <2>2. CASE d # c
      <3>1. client'[d] = client[d] /\ syncing'[d] = syncing[d]
        BY <2>2 DEF OnlyOf
      <3>2. InSync(client[d], syncing[d])
        BY DEF Calm
      <3> QED BY <3>1, <3>2, StaysInSync
    <2> QED BY <2>1, <2>2
  <1> QED
    BY <1>1 DEF Calm

\* The same, for the steps that leave the server alone.
LEMMA CalmSameServer ==
    ASSUME Shape, Calm, ~disturbed, NEW c \in Clients, OnlyOf(c), server' = server,
           InSync(client'[c], syncing'[c])
    PROVE  Calm'
  <1>1. IsServer(server') /\ Advances
    <2>1. IsServer(server) /\ server.usn \in Nat
      BY DEF Shape, IsServer
    <2> QED BY <2>1 DEF Advances
  <1>2. InStep'
    BY DEF Calm, InStep, Listed
  <1>3. InSync(client[c], syncing[c])'
    BY DEF InSync, Passed, Knows, Uploaded, Downloads, Ahead, Mirrors, Sends,
           Present, LocalSha, Dirty
  <1> QED
    BY <1>1, <1>2, <1>3, CalmFrom

\* What Calm says of a client, when no file of it is on the way.
Rests(x) == Passed(x) /\ Uploaded(x) /\ (x.fresh => Mirrors(x))

LEMMA RestsIs ==
    ASSUME NEW x, NEW s, s.phase # "download", s.phase # "sent"
    PROVE  InSync(x, s) <=> Rests(x) /\ (s # Idle => x.fresh)
  BY DEF InSync, Rests

LEMMA CalmAddFile ==
    ASSUME NEW x, NEW y, NEW n, NEW d \in Data, Rests(x), AddedFile(x, y, n, d), y.usn = x.usn
    PROVE  Rests(y)
  <1>1. d # Gone
    BY MediaAssumption DEF Gone
  <1>2. CASE LocalSha(x.db, n) = d
    <2>1. y.db = x.db /\ y.fresh = x.fresh /\ n \notin DOMAIN x.files /\ n \in Present(x.db)
      BY <1>1, <1>2 DEF AddedFile, LocalSha, Present
    <2>2. ~x.fresh
      BY <2>1 DEF Rests, Mirrors
    <2> QED BY <2>1, <2>2 DEF Rests, Passed, Knows, Uploaded
  <1>3. CASE LocalSha(x.db, n) # d
    <2> DEFINE row == [sha1 |-> d, dirty |-> TRUE]
    <2>1. row.sha1 = d /\ row.dirty = TRUE
      OBVIOUS
    <2>2. WithValue(y.db, x.db, n, row) /\ WithValue(y.files, x.files, n, d) /\ y.fresh = x.fresh
      BY <1>3 DEF AddedFile
    <2> HIDE DEF row
    <2>3. /\ n \in DOMAIN y.db /\ y.db[n] = row /\ DOMAIN y.db = DOMAIN x.db \cup {n}
          /\ \A m \in DOMAIN x.db \ {n} : y.db[m] = x.db[m]
      BY <2>2 DEF WithValue
    <2>4. n \in Dirty(y.db) /\ n \in Present(y.db)
      BY <1>1, <2>1, <2>3 DEF Dirty, Present
    <2>5. /\ Dirty(x.db) \subseteq Dirty(y.db)
          /\ Present(y.db) = Present(x.db) \cup {n}
      BY <2>3, <2>4 DEF Dirty, Present
    <2>6. ASSUME NEW m, m # n PROVE LocalSha(y.db, m) = LocalSha(x.db, m)
      BY <2>3, <2>6 DEF LocalSha
    <2>7. Passed(y)
      BY <2>4, <2>5, <2>6 DEF Rests, Passed, Knows
    <2>8. Uploaded(y)
      BY <2>4, <2>5 DEF Rests, Uploaded
    <2>9. y.fresh => Mirrors(y)
      <3> SUFFICES ASSUME y.fresh PROVE Mirrors(y)
        OBVIOUS
      <3>1. Mirrors(x)
        BY <2>2 DEF Rests
      <3>2. DOMAIN y.files = DOMAIN x.files \cup {n} /\ y.files[n] = d
            /\ (\A m \in DOMAIN x.files \ {n} : y.files[m] = x.files[m])
        BY <2>2 DEF WithValue
      <3>3. Present(x.db) \subseteq DOMAIN x.db
        BY DEF Present
      <3> QED BY <2>1, <2>3, <2>5, <3>1, <3>2, <3>3 DEF Mirrors
    <2> QED BY <2>7, <2>8, <2>9 DEF Rests
  <1> QED
    BY <1>2, <1>3

LEMMA CalmRemoveFiles ==
    ASSUME NEW x, NEW y, NEW names, Rests(x), RemovedFiles(x, y, names), y.usn = x.usn
    PROVE  Rests(y)
  <1>1. /\ DOMAIN y.files = DOMAIN x.files \ names /\ y.fresh = x.fresh
        /\ (\A m \in DOMAIN y.files : y.files[m] = x.files[m])
        /\ DOMAIN y.db = DOMAIN x.db
    BY DEF RemovedFiles, Deleted
  <1>2. ASSUME NEW n \in DOMAIN x.db
        PROVE  /\ n \in names => y.db[n].sha1 = Gone /\ y.db[n].dirty
               /\ n \notin names => y.db[n] = x.db[n]
    <2>1. y.db[n] = IF n \in names THEN [sha1 |-> Gone, dirty |-> TRUE] ELSE x.db[n]
      BY DEF RemovedFiles, Deleted
    <2> QED BY <2>1
  <1>3. Present(y.db) = Present(x.db) \ names /\ Dirty(x.db) \subseteq Dirty(y.db)
        /\ DOMAIN x.db \cap names \subseteq Dirty(y.db)
    BY <1>1, <1>2 DEF Present, Dirty
  <1>4. ASSUME NEW m PROVE LocalSha(y.db, m) = LocalSha(x.db, m) \/ m \in Dirty(y.db)
    BY <1>1, <1>2, <1>3 DEF LocalSha
  <1>5. Passed(y)
    BY <1>3, <1>4 DEF Rests, Passed, Knows
  <1>6. Uploaded(y)
    BY <1>3 DEF Rests, Uploaded
  <1>7. y.fresh => Mirrors(y)
    <2> SUFFICES ASSUME y.fresh PROVE Mirrors(y)
      OBVIOUS
    <2>1. Mirrors(x) /\ Present(x.db) \subseteq DOMAIN x.db
      BY <1>1 DEF Rests, Present
    <2> QED BY <1>1, <1>2, <1>3, <2>1 DEF Mirrors
  <1> QED
    BY <1>5, <1>6, <1>7 DEF Rests

LEMMA CalmScribbled ==
    ASSUME NEW x, NEW y, Rests(x), Scribbled(x, y), y.usn = x.usn
    PROVE  Rests(y)
  BY DEF Rests, Scribbled, Passed, Knows, Uploaded

LEMMA CalmUsers ==
    ASSUME Shape, Calm, NEW c \in Clients, Users(c)
    PROVE  Calm'
  <1> DEFINE x == client[c]
             y == client'[c]
  <1> SUFFICES ASSUME ~disturbed' PROVE Calm'
    BY DEF Calm
  <1>1. Edited(c) /\ (Rests(x) => Rests(y))
    <2>1. CASE \E n \in Names, d \in Data : AddFile(c, n, d)
      <3>1. PICK n \in Names, d \in Data : AddFile(c, n, d)
        BY <2>1
      <3>2. Edited(c) /\ AddedFile(x, y, n, d) /\ y.usn = x.usn
        BY <3>1, AddFileDoes DEF Edited
      <3> QED BY <3>2, CalmAddFile
    <2>2. CASE \E n \in Names, d \in Data : Put(c, n, d)
      <3>1. Edited(c) /\ Scribbled(x, y) /\ y.usn = x.usn
        BY <2>2, PutDoes DEF Edited
      <3> QED BY <3>1, CalmScribbled
    <2>3. CASE \E n \in Names : Take(c, n)
      <3>1. Edited(c) /\ Scribbled(x, y) /\ y.usn = x.usn
        BY <2>3, TakeDoes DEF Edited
      <3> QED BY <3>1, CalmScribbled
    <2>4. CASE \E names \in SUBSET Names : RemoveFiles(c, names)
      <3>1. PICK names \in SUBSET Names : RemoveFiles(c, names)
        BY <2>4
      <3>2. Edited(c) /\ RemovedFiles(x, y, names) /\ y.usn = x.usn
        BY <3>1, RemoveFilesDoes DEF Edited
      <3> QED BY <3>2, CalmRemoveFiles
    <2> QED BY <2>1, <2>2, <2>3, <2>4 DEF Users
  <1>2. syncing[c] = Idle /\ ~disturbed
    BY <1>1 DEF Edited
  <1>3. OnlyOf(c) /\ server' = server /\ syncing'[c] = Idle
    BY <1>1, <1>2 DEF Edited
  <1>4. Rests(x)
    BY <1>2, IdleIs, RestsIs DEF Calm
  <1>5. InSync(y, syncing'[c])
    BY <1>1, <1>3, <1>4, IdleIs, RestsIs
  <1> QED
    BY <1>2, <1>3, <1>5, CalmSameServer

LEMMA CalmScan ==
    ASSUME NEW x, NEW y, NEW u, IsClient(x, u), Rests(x), Began(x, y)
    PROVE  Rests(y)
  <1>1. CASE x.fresh
    BY <1>1 DEF Began, Rests, Passed, Knows, Uploaded, Mirrors
  <1>2. CASE ~x.fresh
    <2>1. Scans(x.files, x.db, y.db) /\ y.files = x.files /\ y.usn = x.usn
      BY <1>2 DEF Began
    <2>2. \A n \in DOMAIN x.files : x.files[n] # Gone
      BY MediaAssumption DEF IsClient, IsFiles, Gone
    <2>3. DOMAIN y.db = DOMAIN x.files \cup DOMAIN x.db
      BY <2>1 DEF Scans
    <2>4. ASSUME NEW n \in DOMAIN x.files
          PROVE  /\ n \in Present(y.db) /\ y.db[n].sha1 = x.files[n]
                 /\ \/ n \in Dirty(y.db)
                    \/ /\ n \in Present(x.db) /\ n \notin Dirty(x.db)
                       /\ LocalSha(y.db, n) = LocalSha(x.db, n)
      BY <2>1, <2>2, <2>3 DEF Scans, Present, Dirty, LocalSha
    <2>5. ASSUME NEW n \in DOMAIN x.db \ DOMAIN x.files
          PROVE  /\ n \notin Present(y.db)
                 /\ \/ n \in Dirty(y.db)
                    \/ y.db[n] = x.db[n]
      <3>1. y.db[n] = IF n \in Present(x.db) THEN [sha1 |-> Gone, dirty |-> TRUE] ELSE x.db[n]
        BY <2>1 DEF Scans
      <3>2. CASE n \in Present(x.db)
        <4>1. y.db[n].sha1 = Gone /\ y.db[n].dirty = TRUE
          BY <3>1, <3>2
        <4> QED BY <2>3, <4>1 DEF Present, Dirty
      <3>3. CASE n \notin Present(x.db)
        BY <3>1, <3>3 DEF Present
      <3> QED BY <3>2, <3>3
    <2>6. ASSUME NEW n \in DOMAIN server.rows, server.rows[n].usn <= x.usn
          PROVE  Knows(y, n)
      <3>1. Knows(x, n)
        BY <2>6 DEF Rests, Passed
      <3>2. CASE n \in DOMAIN x.files
        BY <2>4, <3>1, <3>2 DEF Knows
      <3>3. CASE n \in DOMAIN x.db \ DOMAIN x.files
        BY <2>3, <2>5, <3>1, <3>3 DEF Knows, LocalSha, Dirty
      <3>4. CASE n \notin DOMAIN x.files \cup DOMAIN x.db
        BY <2>3, <3>1, <3>4 DEF Knows, LocalSha, Dirty
      <3> QED BY <3>2, <3>3, <3>4
    <2>7. Passed(y)
      BY <2>1, <2>6 DEF Passed
    <2>8. Present(y.db) = DOMAIN x.files
      BY <2>3, <2>4, <2>5 DEF Present
    <2>9. Uploaded(y)
      BY <2>4, <2>8 DEF Rests, Uploaded
    <2>10. Mirrors(y)
      BY <2>1, <2>4, <2>8 DEF Mirrors
    <2> QED BY <2>7, <2>9, <2>10 DEF Rests
  <1> QED
    BY <1>1, <1>2

LEMMA CalmBegin ==
    ASSUME Shape, Calm, NEW c \in Clients, Begin(c)
    PROVE  Calm'
  <1> DEFINE x == client[c]
             y == client'[c]
             t == syncing'[c]
  <1> SUFFICES ASSUME ~disturbed' PROVE Calm'
    BY DEF Calm
  <1>1. /\ OnlyOf(c) /\ server' = server /\ ~disturbed /\ syncing[c] = Idle
        /\ Began(x, y) /\ t \in {Idle, [phase |-> "fetch"], [phase |-> "send"]}
    BY BeginDoes
  <1>2. t.phase # "download" /\ t.phase # "sent"
    BY <1>1, IdleIs
  <1>3. Rests(x) /\ IsClient(x, server.usn)
    BY <1>1, IdleIs, RestsIs, ClientOf DEF Calm
  <1>4. Rests(y) /\ y.fresh
    BY <1>1, <1>3, CalmScan DEF Began
  <1>5. InSync(y, t)
    BY <1>2, <1>4, RestsIs
  <1> QED
    BY <1>1, <1>5, CalmSameServer

\* A batch is sorted rightly: what is left aside the client knows already.
LEMMA CalmSorted ==
    ASSUME Shape, NEW x, NEW y, NEW t, IsClient(x, server.usn), Rests(x), x.fresh,
           y.usn = x.usn, y.fresh = x.fresh, Deleted(x.db, y.db, t.delete),
           DOMAIN y.files = DOMAIN x.files \ t.delete,
           \A n \in DOMAIN y.files : y.files[n] = x.files[n],
           Sorts(x.db, ChangesChunk(x.usn), t)
    PROVE  Passed(y) /\ Uploaded(y) /\ Downloads(y, t)
  <1> DEFINE chunk == ChangesChunk(x.usn)
  <1>1. /\ x.usn \in Nat /\ server.usn \in Nat
        /\ \A n \in DOMAIN server.rows : server.rows[n].usn \in Nat
    BY DEF IsClient, Shape, IsServer, IsRows
  <1>2. /\ chunk \subseteq {n \in DOMAIN server.rows : server.rows[n].usn > x.usn}
        /\ \A n \in chunk : \A m \in DOMAIN server.rows :
             x.usn < server.rows[m].usn /\ server.rows[m].usn <= server.rows[n].usn => m \in chunk
    BY <1>1, ChunkIs
  <1> HIDE DEF chunk
  <1>3. /\ \A n \in chunk : n \in t.todo <=>
             server.rows[n].sha1 # Gone /\ LocalSha(x.db, n) # server.rows[n].sha1
        /\ \A n \in chunk : n \in t.delete <=>
             /\ server.rows[n].sha1 = Gone
             /\ n \in DOMAIN x.db
             /\ ~(n \in Present(x.db) /\ x.db[n].dirty)
        /\ \A n \in chunk : n \in t.clean <=>
             /\ server.rows[n].sha1 # Gone
             /\ LocalSha(x.db, n) = server.rows[n].sha1
             /\ x.db[n].dirty
        /\ t.todo \subseteq chunk /\ t.delete \subseteq chunk /\ t.clean \subseteq chunk
        /\ DOMAIN t.got = {}
        /\ \E n \in chunk : t.last = server.rows[n].usn
    BY DEF Sorts, chunk
  <1>4. DOMAIN y.db = DOMAIN x.db
    BY DEF Deleted
  <1>5. ASSUME NEW n \in DOMAIN x.db
        PROVE  /\ n \in t.delete => y.db[n].sha1 = Gone /\ y.db[n].dirty
               /\ n \notin t.delete => y.db[n] = x.db[n]
    <2>1. y.db[n] = IF n \in t.delete THEN [sha1 |-> Gone, dirty |-> TRUE] ELSE x.db[n]
      BY DEF Deleted
    <2> QED BY <2>1
  <1>6. Present(y.db) = Present(x.db) \ t.delete /\ Dirty(x.db) \subseteq Dirty(y.db)
        /\ DOMAIN x.db \cap t.delete \subseteq Dirty(y.db)
    BY <1>4, <1>5 DEF Present, Dirty
  <1>7. ASSUME NEW n
        PROVE  /\ n \notin t.delete => LocalSha(y.db, n) = LocalSha(x.db, n)
               /\ n \in t.delete => LocalSha(y.db, n) = Gone
    BY <1>4, <1>5 DEF LocalSha
  <1>8. ASSUME NEW n, n \notin t.delete, Knows(x, n) PROVE Knows(y, n)
    BY <1>6, <1>7, <1>8 DEF Knows
  <1>9. Passed(y)
    <2>1. ASSUME NEW n \in DOMAIN server.rows, server.rows[n].usn <= x.usn PROVE Knows(y, n)
      <3>1. Knows(x, n)
        BY <2>1 DEF Rests, Passed
      <3>2. CASE n \in t.delete
        BY <1>3, <1>6, <3>2 DEF Knows
      <3> QED BY <1>8, <3>1, <3>2
    <2> QED BY <2>1 DEF Passed
  <1>10. Uploaded(y)
    BY <1>6 DEF Rests, Uploaded
  <1>11. Ahead(y, t.got)
    <2>1. Mirrors(x) /\ Present(x.db) \subseteq DOMAIN x.db
      BY DEF Rests, Present
    <2>2. DOMAIN y.files = Present(y.db)
      BY <1>6, <2>1 DEF Mirrors
    <2>3. \A n \in DOMAIN y.files : y.files[n] = y.db[n].sha1
      BY <1>5, <2>1 DEF Mirrors
    <2> QED BY <1>3, <2>2, <2>3 DEF Ahead
  <1>12. ASSUME NEW n \in DOMAIN server.rows \ t.todo, server.rows[n].usn <= t.last
         PROVE  IF n \in t.delete THEN server.rows[n].sha1 = Gone
                ELSE IF n \in t.clean THEN LocalSha(y.db, n) = server.rows[n].sha1
                ELSE Knows(y, n)
    <2>1. CASE n \in chunk
      <3>1. CASE n \in t.delete \/ n \in t.clean
        BY <1>3, <1>7, <2>1, <3>1
      <3>2. CASE n \notin t.delete /\ n \notin t.clean
        <4>1. CASE server.rows[n].sha1 # Gone
          BY <1>3, <1>7, <1>12, <2>1, <3>2, <4>1 DEF Knows
        <4>2. CASE server.rows[n].sha1 = Gone
          <5>1. n \notin DOMAIN x.db \/ n \in Dirty(x.db)
            BY <1>3, <2>1, <3>2, <4>2 DEF Dirty
          <5>2. Knows(x, n)
            BY <4>2, <5>1 DEF Knows, LocalSha
          <5> QED BY <1>8, <3>2, <5>2
        <4> QED BY <4>1, <4>2
      <3> QED BY <3>1, <3>2
    <2>2. CASE n \notin chunk
      <3>1. PICK m \in chunk : t.last = server.rows[m].usn
        BY <1>3
      <3>2. ~(x.usn < server.rows[n].usn)
        BY <1>2, <1>12, <2>2, <3>1
      <3>3. server.rows[n].usn <= x.usn
        BY <1>1, <3>2
      <3>4. Knows(x, n)
        BY <3>3 DEF Rests, Passed
      <3>5. n \notin t.delete /\ n \notin t.clean
        BY <1>3, <2>2
      <3> QED BY <1>8, <3>4, <3>5
    <2> QED BY <2>1, <2>2
  <1>13. /\ t.todo \cap (t.delete \cup t.clean) = {} /\ t.delete \cap t.clean = {}
         /\ t.clean \subseteq DOMAIN server.rows
    BY <1>2, <1>3
  <1>14. Downloads(y, t)
    BY <1>3, <1>4, <1>5, <1>11, <1>12, <1>13 DEF Downloads
  <1> QED
    BY <1>9, <1>10, <1>14

LEMMA CalmFetch ==
    ASSUME Shape, Calm, NEW c \in Clients, Fetch(c)
    PROVE  Calm'
  <1> DEFINE x == client[c]
             y == client'[c]
             t == syncing'[c]
  <1> SUFFICES ASSUME ~disturbed' PROVE Calm'
    BY DEF Calm
  <1>1. /\ OnlyOf(c) /\ server' = server /\ ~disturbed
        /\ syncing[c].phase = "fetch" /\ t.phase = "download"
        /\ Fetched(x, y, t)
    BY FetchDoes
  <1>2. syncing[c].phase # "download" /\ syncing[c].phase # "sent" /\ syncing[c] # Idle
    BY <1>1, IdleIs
  <1>3. Rests(x) /\ x.fresh
    BY <1>1, <1>2, RestsIs DEF Calm
  <1>4. IsClient(x, server.usn)
    BY ClientOf
  <1>5. /\ y.usn = x.usn /\ y.fresh = x.fresh /\ Deleted(x.db, y.db, t.delete)
        /\ (\A n \in DOMAIN y.files : y.files[n] = x.files[n])
        /\ Sorts(x.db, ChangesChunk(x.usn), t)
    BY <1>1 DEF Fetched
  <1>6. DOMAIN y.files = DOMAIN x.files \ t.delete
    BY <1>1 DEF Fetched
  <1> HIDE DEF x, y, t
  <1>7. Passed(y) /\ Uploaded(y) /\ Downloads(y, t)
    BY <1>3, <1>4, <1>5, <1>6, CalmSorted
  <1>8. InSync(y, t)
    BY <1>1, <1>7 DEF InSync
  <1> QED
    BY <1>1, <1>8, CalmSameServer DEF x, y, t

LEMMA CalmDownload ==
    ASSUME Shape, Calm, NEW c \in Clients, NEW n \in Names, Download(c, n)
    PROVE  Calm'
  <1> DEFINE x == client[c]
             s == syncing[c]
             y == client'[c]
             t == syncing'[c]
  <1> SUFFICES ASSUME ~disturbed' PROVE Calm'
    BY DEF Calm
  <1>1. /\ OnlyOf(c) /\ server' = server /\ ~disturbed
        /\ s.phase = "download" /\ t.phase = "download"
        /\ Downloaded(x, y, s, t, n)
    BY DownloadDoes DEF IsDownload
  <1>2. InSync(x, s) /\ InStep
    BY <1>1 DEF Calm
  <1>3. Passed(x) /\ Uploaded(x) /\ Downloads(x, s)
    BY <1>1, <1>2 DEF InSync
  <1>4. server.files[n] = server.rows[n].sha1 /\ n \in DOMAIN server.rows
    BY <1>1, <1>2 DEF InStep, Downloaded
  <1>5. /\ y.db = x.db /\ y.usn = x.usn /\ (y.fresh => x.fresh /\ n \in DOMAIN x.files)
        /\ n \in s.todo /\ t.todo = s.todo \ {n}
        /\ t.delete = s.delete /\ t.clean = s.clean /\ t.last = s.last
    BY <1>1 DEF Downloaded
  <1>6. /\ DOMAIN y.files = DOMAIN x.files \cup {n} /\ y.files[n] = server.files[n]
        /\ (\A m \in DOMAIN x.files \ {n} : y.files[m] = x.files[m])
        /\ DOMAIN t.got = DOMAIN s.got \cup {n} /\ t.got[n] = server.files[n]
        /\ (\A m \in DOMAIN s.got \ {n} : t.got[m] = s.got[m])
    BY <1>1 DEF Downloaded, WithValue
  <1> HIDE DEF x, y, s, t
  <1>7. Passed(y) /\ Uploaded(y)
    BY <1>3, <1>5 DEF Passed, Knows, Uploaded
  <1>8. Ahead(y, t.got)
    <2>1. Ahead(x, s.got)
      BY <1>3 DEF Downloads
    <2>2. DOMAIN y.files = DOMAIN t.got \cup Present(y.db)
      BY <1>5, <1>6, <2>1 DEF Ahead
    <2>3. ASSUME NEW m \in DOMAIN y.files
          PROVE  y.files[m] = IF m \in DOMAIN t.got THEN t.got[m] ELSE y.db[m].sha1
      BY <1>5, <1>6, <2>1 DEF Ahead
    <2>4. y.fresh => DOMAIN t.got \subseteq Present(y.db)
      BY <1>5, <1>6, <2>1 DEF Ahead
    <2> QED BY <2>2, <2>3, <2>4 DEF Ahead
  <1>9. /\ (s.todo \cup DOMAIN s.got) \cap (s.delete \cup s.clean) = {} /\ s.delete \cap s.clean = {}
        /\ DOMAIN s.got \cup s.clean \subseteq DOMAIN server.rows
        /\ (\A m \in s.delete \cap DOMAIN x.db : x.db[m].sha1 = Gone)
    BY <1>3 DEF Downloads
  <1>10. ASSUME NEW m \in DOMAIN server.rows \ t.todo, server.rows[m].usn <= t.last
         PROVE  IF m \in DOMAIN t.got THEN t.got[m] = server.rows[m].sha1
                ELSE IF m \in t.delete THEN server.rows[m].sha1 = Gone
                ELSE IF m \in t.clean THEN LocalSha(y.db, m) = server.rows[m].sha1
                ELSE Knows(y, m)
    <2>1. CASE m = n
      BY <1>4, <1>6, <2>1
    <2>2. CASE m # n
      <3>1. m \in DOMAIN server.rows \ s.todo /\ server.rows[m].usn <= s.last
        BY <1>5, <1>10, <2>2
      <3>2. IF m \in DOMAIN s.got THEN s.got[m] = server.rows[m].sha1
            ELSE IF m \in s.delete THEN server.rows[m].sha1 = Gone
            ELSE IF m \in s.clean THEN LocalSha(x.db, m) = server.rows[m].sha1
            ELSE Knows(x, m)
        BY <1>3, <3>1 DEF Downloads
      <3> QED BY <1>5, <1>6, <2>2, <3>2 DEF Knows
    <2> QED BY <2>1, <2>2
  <1>11. /\ (t.todo \cup DOMAIN t.got) \cap (t.delete \cup t.clean) = {} /\ t.delete \cap t.clean = {}
         /\ DOMAIN t.got \cup t.clean \subseteq DOMAIN server.rows
    BY <1>4, <1>5, <1>6, <1>9
  <1>12. Downloads(y, t)
    BY <1>5, <1>8, <1>9, <1>10, <1>11 DEF Downloads
  <1>13. InSync(y, t)
    BY <1>1, <1>7, <1>12 DEF InSync
  <1> QED
    BY <1>1, <1>13, CalmSameServer DEF x, y, t

\* A sync that stops leaves a client that knows where it stands, unless a file
\* was torn.
LEMMA CalmStops ==
    ASSUME Shape, Calm, NEW c \in Clients, ~disturbed, ~Torn(c)
    PROVE  Rests(client[c])
  <1> DEFINE x == client[c]
             s == syncing[c]
  <1>1. InSync(x, s)
    BY DEF Calm
  <1>2. CASE s.phase = "download"
    <2>1. Passed(x) /\ Uploaded(x) /\ Ahead(x, s.got)
      BY <1>1, <1>2 DEF InSync, Downloads
    <2>2. DOMAIN s.got \cap Present(x.db) = {}
      BY <1>2 DEF Torn
    <2>3. x.fresh => Mirrors(x)
      BY <2>1, <2>2 DEF Ahead, Mirrors
    <2> QED BY <2>1, <2>3 DEF Rests
  <1>3. CASE s.phase # "download"
    BY <1>1, <1>3 DEF InSync, Rests
  <1> QED BY <1>2, <1>3

LEMMA CalmFails ==
    ASSUME Shape, Calm, NEW c \in Clients, Fails(c) \/ \E n \in Names : DownloadRefused(c, n)
    PROVE  Calm'
  <1> SUFFICES ASSUME ~disturbed' PROVE Calm'
    BY DEF Calm
  <1>1. /\ OnlyOf(c) /\ client' = client /\ server' = server
        /\ syncing'[c] = Idle /\ ~disturbed /\ ~Torn(c)
    BY FailsDoes
  <1>2. Rests(client'[c])
    BY <1>1, CalmStops
  <1>3. InSync(client'[c], syncing'[c])
    BY <1>1, <1>2, IdleIs, RestsIs
  <1> QED
    BY <1>1, <1>3, CalmSameServer

LEMMA CalmRecord ==
    ASSUME Shape, Calm, NEW c \in Clients, Record(c)
    PROVE  Calm'
  <1> DEFINE x == client[c]
             s == syncing[c]
             y == client'[c]
             t == syncing'[c]
  <1> SUFFICES ASSUME ~disturbed' PROVE Calm'
    BY DEF Calm
  <1>1. /\ OnlyOf(c) /\ server' = server /\ ~disturbed
        /\ s.phase = "download" /\ s.todo = {} /\ IsFiles(s.got)
        /\ t = [phase |-> "fetch"]
        /\ Recorded(x, y, s)
    BY RecordDoes DEF IsDownload
  <1>2. InSync(x, s)
    BY <1>1 DEF Calm
  <1>3. Uploaded(x) /\ Downloads(x, s)
    BY <1>1, <1>2 DEF InSync
  <1>4. /\ y.files = x.files /\ y.fresh /\ y.usn = s.last
        /\ DOMAIN y.db = DOMAIN s.got \cup (DOMAIN x.db \ s.delete)
        /\ \A n \in (DOMAIN x.db \ s.delete) \ DOMAIN s.got :
             /\ y.db[n].sha1 = x.db[n].sha1
             /\ n \notin s.clean => y.db[n].dirty = x.db[n].dirty
    BY <1>1 DEF Recorded
  <1>5. ASSUME NEW n \in DOMAIN s.got
        PROVE  y.db[n].sha1 = s.got[n] /\ s.got[n] # Gone
    <2>1. y.db[n] = [sha1 |-> s.got[n], dirty |-> FALSE]
      BY <1>1 DEF Recorded
    <2>2. s.got[n] \in Data
      BY <1>1 DEF IsFiles
    <2> QED BY <2>1, <2>2, MediaAssumption DEF Gone
  <1>6. t.phase # "download" /\ t.phase # "sent"
    BY <1>1
  <1> HIDE DEF x, y, s, t
  <1>7. /\ DOMAIN s.got \cap (s.delete \cup s.clean) = {} /\ s.delete \cap s.clean = {}
        /\ DOMAIN s.got \cup s.clean \subseteq DOMAIN server.rows
        /\ (\A n \in s.delete \cap DOMAIN x.db : x.db[n].sha1 = Gone)
    BY <1>3 DEF Downloads
  <1>8. Present(y.db) = DOMAIN s.got \cup Present(x.db)
    BY <1>4, <1>5, <1>7 DEF Present
  <1>9. ASSUME NEW n, n \notin DOMAIN s.got
        PROVE  /\ n \notin s.delete => LocalSha(y.db, n) = LocalSha(x.db, n)
               /\ n \in s.delete => LocalSha(y.db, n) = Gone
               /\ n \notin s.delete /\ n \notin s.clean => (n \in Dirty(y.db) <=> n \in Dirty(x.db))
    <2>1. n \notin s.delete => LocalSha(y.db, n) = LocalSha(x.db, n)
      BY <1>4, <1>9 DEF LocalSha
    <2>2. n \in s.delete => LocalSha(y.db, n) = Gone
      BY <1>4, <1>9 DEF LocalSha
    <2>3. n \notin s.delete /\ n \notin s.clean => (n \in Dirty(y.db) <=> n \in Dirty(x.db))
      BY <1>4, <1>9 DEF Dirty
    <2> QED BY <2>1, <2>2, <2>3
  <1>10. Passed(y)
    <2>1. ASSUME NEW n \in DOMAIN server.rows, server.rows[n].usn <= s.last PROVE Knows(y, n)
      <3>1. IF n \in DOMAIN s.got THEN s.got[n] = server.rows[n].sha1
            ELSE IF n \in s.delete THEN server.rows[n].sha1 = Gone
            ELSE IF n \in s.clean THEN LocalSha(x.db, n) = server.rows[n].sha1
            ELSE Knows(x, n)
        BY <1>1, <1>3, <2>1 DEF Downloads, s
      <3>2. CASE n \in DOMAIN s.got
        BY <1>4, <1>5, <3>1, <3>2 DEF Knows, LocalSha
      <3>3. CASE n \notin DOMAIN s.got
        BY <1>7, <1>9, <3>1, <3>3 DEF Knows
      <3> QED BY <3>2, <3>3
    <2> QED BY <1>4, <2>1 DEF Passed
  <1>11. Uploaded(y)
    <2>1. ASSUME NEW n \in Present(y.db) PROVE n \in Dirty(y.db) \cup DOMAIN server.rows
      <3>1. CASE n \in DOMAIN s.got
        BY <1>7, <3>1
      <3>2. CASE n \notin DOMAIN s.got
        <4>1. n \in Present(x.db) /\ n \notin s.delete
          BY <1>4, <1>7, <1>8, <3>2 DEF Present
        <4>2. n \in Dirty(x.db) \cup DOMAIN server.rows
          BY <1>3, <4>1 DEF Uploaded
        <4> QED BY <1>7, <1>9, <3>2, <4>1, <4>2
      <3> QED BY <3>1, <3>2
    <2> QED BY <2>1 DEF Uploaded
  <1>12. Mirrors(y)
    <2>1. Ahead(x, s.got)
      BY <1>3 DEF Downloads
    <2>2. DOMAIN y.files = Present(y.db)
      BY <1>4, <1>8, <2>1 DEF Ahead
    <2>3. ASSUME NEW n \in DOMAIN y.files PROVE y.files[n] = y.db[n].sha1
      <3>1. CASE n \in DOMAIN s.got
        BY <1>4, <1>5, <2>1, <3>1 DEF Ahead
      <3>2. CASE n \notin DOMAIN s.got
        <4>1. n \in Present(x.db) /\ n \in DOMAIN y.db
          BY <1>8, <2>2, <3>2 DEF Present
        <4>2. n \in (DOMAIN x.db \ s.delete) \ DOMAIN s.got
          BY <1>4, <3>2, <4>1
        <4> QED BY <1>4, <2>1, <3>2, <4>2 DEF Ahead
      <3> QED BY <3>1, <3>2
    <2> QED BY <2>2, <2>3 DEF Mirrors
  <1>13. InSync(y, t)
    BY <1>4, <1>6, <1>10, <1>11, <1>12, RestsIs DEF Rests
  <1> QED
    BY <1>1, <1>13, CalmSameServer DEF x, y, t, s

LEMMA CalmUpload ==
    ASSUME Shape, Calm, NEW c \in Clients, Upload(c)
    PROVE  Calm'
  <1> DEFINE x == client[c]
             t == syncing'[c]
  <1> SUFFICES ASSUME ~disturbed' PROVE Calm'
    BY DEF Calm
  <1>1. /\ OnlyOf(c) /\ client' = client /\ syncing[c].phase = "send" /\ t.phase = "sent"
        /\ IsServer(server')
    BY UploadDoes DEF IsSent
  <1>2. PICK zip \in Zips(c) :
          /\ Accepts(zip)
          /\ t.names = DOMAIN zip /\ t.reply = server'.usn
          /\ disturbed' = (disturbed \/ Miscounts(c, zip))
    BY UploadDoes
  <1>3. ~disturbed /\ ~Miscounts(c, zip)
    BY <1>2
  <1>4. InStep /\ InSync(x, syncing[c])
    BY <1>3 DEF Calm
  <1>5. Rests(x) /\ x.fresh
    BY <1>1, <1>4, IdleIs, RestsIs
  <1> DEFINE N == Effective(zip)
  <1>6. /\ N \subseteq DOMAIN zip /\ IsZip(zip) /\ DOMAIN zip \subseteq Dirty(x.db)
        /\ \A n \in DOMAIN zip \ N : zip[n] = RowSha(n)
    BY ZipsAre DEF Effective
  <1>7. /\ DOMAIN server'.rows = DOMAIN server.rows \cup N
        /\ (\A n \in N : server'.rows[n].sha1 = zip[n] /\ server'.rows[n].usn > server.usn)
        /\ (\A n \in DOMAIN server.rows \ N : server'.rows[n] = server.rows[n])
        /\ server'.files = FilesAfter(server.files, zip, N)
        /\ server.usn <= server'.usn
    BY <1>2 DEF Accepts
  <1>8. server.usn \in Nat /\ server'.usn \in Nat /\ x.usn \in 0..server.usn
        /\ (\A n \in DOMAIN server'.rows : server'.rows[n].usn \in 1..server'.usn)
        /\ IsFiles(server.files)
    <2>1. server.usn \in Nat /\ x.usn \in 0..server.usn /\ IsFiles(server.files)
      BY ClientOf DEF Shape, IsServer
    <2> QED BY <1>1, <2>1 DEF IsServer, IsRows
  <1> HIDE DEF N
  <1>9. Advances
    <2>1. ASSUME NEW n \in DOMAIN server'.rows, server'.rows[n].usn <= server.usn
          PROVE  n \in DOMAIN server.rows /\ server'.rows[n] = server.rows[n]
      <3>1. n \notin N
        <4>1. server'.rows[n].usn \in Nat
          BY <1>8
        <4> QED BY <1>7, <1>8, <2>1, <4>1
      <3> QED BY <1>7, <3>1
    <2> QED BY <1>7, <2>1 DEF Advances
  <1>10. InStep'
    <2> DEFINE files == FilesAfter(server.files, zip, N)
               New == {n \in N : zip[n] # Gone}
    <2>1. N \in SUBSET DOMAIN zip
      BY <1>6
    <2>2. Lays(files, server.files, zip, N)
      BY <1>6, <1>8, <2>1, FilesAfterIs
    <2> HIDE DEF files
    <2>3. /\ DOMAIN files = (DOMAIN server.files \ N) \cup New
          /\ (\A n \in New : files[n] = zip[n])
          /\ (\A n \in DOMAIN server.files \ N : files[n] = server.files[n])
      BY <2>2 DEF Lays
    <2>4. ASSUME NEW n PROVE n \in Listed(server'.rows) <=> n \in DOMAIN files
      <3>1. CASE n \in N
        BY <1>7, <2>3, <3>1 DEF Listed
      <3>2. CASE n \notin N
        BY <1>4, <1>7, <2>3, <3>2 DEF Listed, InStep
      <3> QED BY <3>1, <3>2
    <2>5. ASSUME NEW n \in DOMAIN files PROVE files[n] = server'.rows[n].sha1
      <3>1. CASE n \in N
        BY <1>7, <2>3, <3>1
      <3>2. CASE n \notin N
        BY <1>4, <1>7, <2>3, <3>2 DEF Listed, InStep
      <3> QED BY <3>1, <3>2
    <2> QED BY <1>7, <2>4, <2>5 DEF InStep, files
  <1>11. ASSUME NEW n \in DOMAIN zip
         PROVE  zip[n] = LocalSha(x.db, n)
    <2>1. zip[n] = IF n \in Present(x.db) \cap DOMAIN x.files THEN x.files[n] ELSE Gone
      BY ZipsAre
    <2>2. Mirrors(x)
      BY <1>5 DEF Rests
    <2> QED BY <2>1, <2>2 DEF Mirrors, Present, LocalSha
  <1>12. Passed(client[c])'
    <2>1. ASSUME NEW n \in DOMAIN server'.rows, server'.rows[n].usn <= x.usn
          PROVE  LocalSha(x.db, n) = server'.rows[n].sha1 \/ n \in Dirty(x.db)
      <3>1. server'.rows[n].usn <= server.usn
        <4>1. server'.rows[n].usn \in Nat
          BY <1>8
        <4> QED BY <1>8, <2>1, <4>1
      <3>2. n \in DOMAIN server.rows /\ server'.rows[n] = server.rows[n]
        BY <1>9, <3>1 DEF Advances
      <3> QED BY <1>5, <2>1, <3>2 DEF Rests, Passed, Knows
    <2> QED BY <1>1, <2>1 DEF Passed, Knows
  <1>13. Uploaded(client[c])'
    BY <1>1, <1>5, <1>7 DEF Rests, Uploaded
  <1>14. Sends(client[c], syncing[c])'
    <2>1. x.usn <= t.reply
      BY <1>2, <1>7, <1>8
    <2>2. ASSUME NEW n \in DOMAIN zip \cap Present(x.db) PROVE n \in DOMAIN server'.rows
      <3>1. zip[n] # Gone
        BY <1>11 DEF Present, LocalSha
      <3>2. CASE n \in N
        BY <1>7, <3>2
      <3>3. CASE n \notin N
        BY <1>6, <1>7, <3>1, <3>3 DEF RowSha
      <3> QED BY <3>2, <3>3
    <2>3. ASSUME NEW n \in DOMAIN server'.rows \cap DOMAIN zip
          PROVE  LocalSha(x.db, n) = server'.rows[n].sha1
      <3>1. CASE n \in N
        BY <1>7, <1>11, <3>1
      <3>2. CASE n \notin N
        BY <1>6, <1>7, <1>11, <3>2 DEF RowSha
      <3> QED BY <3>1, <3>2
    <2>4. ASSUME x.usn + Cardinality(DOMAIN zip) = server'.usn,
                 NEW n \in DOMAIN server'.rows \ DOMAIN zip
          PROVE  server'.rows[n].usn <= x.usn
      <3>1. n \in DOMAIN server.rows /\ server'.rows[n] = server.rows[n]
        BY <1>6, <1>7, <2>4
      <3>2. ~(server.rows[n].usn > x.usn)
        BY <1>3, <2>4, <3>1 DEF Miscounts
      <3> QED BY <1>8, <3>1, <3>2
    <2> QED BY <1>1, <1>2, <2>1, <2>2, <2>3, <2>4 DEF Sends
  <1>15. Mirrors(client[c])'
    BY <1>1, <1>5 DEF Rests, Mirrors
  <1>16. InSync(client[c], syncing[c])'
    BY <1>1, <1>5, <1>12, <1>13, <1>14, <1>15 DEF InSync
  <1> QED
    BY <1>1, <1>3, <1>9, <1>10, <1>16, CalmFrom

LEMMA CalmRecordSent ==
    ASSUME Shape, Calm, NEW c \in Clients, RecordSent(c)
    PROVE  Calm'
  <1> DEFINE x == client[c]
             s == syncing[c]
             y == client'[c]
             t == syncing'[c]
  <1> SUFFICES ASSUME ~disturbed' PROVE Calm'
    BY DEF Calm
  <1>1. /\ OnlyOf(c) /\ server' = server /\ ~disturbed
        /\ s.phase = "sent" /\ s.reply \in 0..server.usn
        /\ t = [phase |-> "send"]
        /\ SentRecorded(x, y, s)
    BY RecordSentDoes DEF IsSent
  <1>2. s # Idle /\ t.phase # "download" /\ t.phase # "sent"
    BY <1>1, IdleIs
  <1>3. InSync(x, s)
    BY <1>1 DEF Calm
  <1>4. Passed(x) /\ Uploaded(x) /\ x.fresh /\ Mirrors(x) /\ Sends(x, s)
    BY <1>1, <1>2, <1>3 DEF InSync
  <1>5. /\ y.files = x.files /\ y.fresh = x.fresh /\ DOMAIN y.db = DOMAIN x.db
        /\ (\A n \in DOMAIN x.db : /\ y.db[n].sha1 = x.db[n].sha1
                                   /\ n \notin s.names => y.db[n].dirty = x.db[n].dirty)
        /\ y.usn = IF x.usn + Cardinality(s.names) = s.reply THEN s.reply ELSE x.usn
    BY <1>1 DEF SentRecorded, Cleans
  <1>6. /\ x.usn \in Nat /\ server.usn \in Nat
        /\ (\A n \in DOMAIN server.rows : server.rows[n].usn \in Nat)
    BY ClientOf DEF Shape, IsServer, IsRows
  <1> HIDE DEF x, y, s, t
  <1>7. Present(y.db) = Present(x.db) /\ Dirty(x.db) \subseteq Dirty(y.db) \cup s.names
    BY <1>5 DEF Present, Dirty
  <1>8. ASSUME NEW n PROVE LocalSha(y.db, n) = LocalSha(x.db, n)
    BY <1>5 DEF LocalSha
  <1>9. Passed(y)
    <2>1. ASSUME NEW n \in DOMAIN server.rows, server.rows[n].usn <= y.usn PROVE Knows(y, n)
      <3>1. server.rows[n].usn <= s.reply
        BY <1>1, <1>4, <1>5, <1>6, <2>1 DEF Sends
      <3>2. CASE n \in s.names
        <4>1. LocalSha(x.db, n) = server.rows[n].sha1
          BY <1>4, <3>1, <3>2 DEF Sends
        <4> QED BY <1>8, <4>1 DEF Knows
      <3>3. CASE n \notin s.names
        <4>1. server.rows[n].usn <= x.usn
          BY <1>4, <1>5, <2>1, <3>1, <3>3 DEF Sends
        <4>2. Knows(x, n)
          BY <1>4, <4>1 DEF Passed
        <4> QED BY <1>7, <1>8, <3>3, <4>2 DEF Knows
      <3> QED BY <3>2, <3>3
    <2> QED BY <2>1 DEF Passed
  <1>10. Uploaded(y)
    BY <1>4, <1>7 DEF Uploaded, Sends
  <1>11. Mirrors(y)
    BY <1>4, <1>5, <1>7 DEF Mirrors, Present
  <1>12. InSync(y, t)
    BY <1>2, <1>4, <1>5, <1>9, <1>10, <1>11, RestsIs DEF Rests
  <1> QED
    BY <1>1, <1>12, CalmSameServer DEF x, y, s, t

LEMMA CalmFinalize ==
    ASSUME Shape, Calm, NEW c \in Clients, Finalize(c)
    PROVE  Calm'
  <1> DEFINE x == client[c]
             y == client'[c]
  <1> SUFFICES ASSUME ~disturbed' PROVE Calm'
    BY DEF Calm
  <1>1. /\ OnlyOf(c) /\ server' = server /\ ~disturbed
        /\ syncing[c].phase = "send" /\ syncing'[c] = Idle
        /\ y = x \/ Emptied(x, y)
    BY FinalizeDoes
  <1>2. Rests(x)
    BY <1>1, RestsIs DEF Calm
  <1>3. Rests(y)
    <2>1. CASE Emptied(x, y)
      <3>1. DOMAIN y.db = {} /\ y.usn = 0 /\ ~y.fresh
        BY <2>1 DEF Emptied
      <3>2. \A n \in DOMAIN server.rows : server.rows[n].usn \in Nat /\ server.rows[n].usn > 0
        BY DEF Shape, IsServer, IsRows
      <3>3. Passed(y)
        BY <3>1, <3>2 DEF Passed
      <3>4. Uploaded(y)
        BY <3>1 DEF Uploaded, Present
      <3> QED BY <3>1, <3>3, <3>4 DEF Rests
    <2> QED BY <1>1, <1>2, <2>1
  <1>4. InSync(y, syncing'[c])
    BY <1>1, <1>3, IdleIs, RestsIs
  <1> QED
    BY <1>1, <1>4, CalmSameServer

LEMMA CalmStep ==
    ASSUME Shape, Calm, NEW c \in Clients,
           Users(c) \/ Begin(c) \/ Proceeds(c) \/ Fails(c) \/ UploadCrashes(c)
    PROVE  Calm'
  <1>1. CASE Users(c)
    BY <1>1, CalmUsers
  <1>2. CASE Begin(c)
    BY <1>2, CalmBegin
  <1>3. CASE Proceeds(c)
    <2>1. CASE Fetch(c)
      BY <2>1, CalmFetch
    <2>2. CASE FetchedAll(c)
      <3> SUFFICES ASSUME ~disturbed' PROVE Calm'
        BY DEF Calm
      <3>1. /\ OnlyOf(c) /\ client' = client /\ server' = server /\ ~disturbed
            /\ syncing[c].phase = "fetch" /\ syncing'[c] = [phase |-> "send"]
        BY <2>2, FetchedAllDoes
      <3>2. syncing[c] # Idle /\ syncing'[c].phase # "download" /\ syncing'[c].phase # "sent"
        BY <3>1, IdleIs
      <3>3. Rests(client[c]) /\ client[c].fresh
        BY <3>1, <3>2, RestsIs DEF Calm
      <3>4. InSync(client'[c], syncing'[c])
        BY <3>1, <3>2, <3>3, RestsIs
      <3> QED BY <3>1, <3>4, CalmSameServer
    <2>3. CASE \E n \in Names : Download(c, n)
      BY <2>3, CalmDownload
    <2>4. CASE \E n \in Names : DownloadRefused(c, n)
      BY <2>4, CalmFails
    <2>5. CASE \E n \in Names : DownloadFindsNothing(c, n)
      <3> SUFFICES ASSUME ~disturbed' PROVE FALSE
        BY DEF Calm
      <3>1. PICK n \in Names : DownloadFindsNothing(c, n)
        BY <2>5
      <3>2. n \in Listed(server.rows) /\ n \notin DOMAIN server.files /\ ~disturbed
        BY <3>1, FindsNothingDoes
      <3> QED BY <3>2 DEF Calm, InStep
    <2>6. CASE Record(c)
      BY <2>6, CalmRecord
    <2>7. CASE Upload(c)
      BY <2>7, CalmUpload
    <2>8. CASE RecordSent(c)
      BY <2>8, CalmRecordSent
    <2>9. CASE Finalize(c)
      BY <2>9, CalmFinalize
    <2> QED
      BY <1>3, <2>1, <2>2, <2>3, <2>4, <2>5, <2>6, <2>7, <2>8, <2>9 DEF Proceeds
  <1>4. CASE Fails(c)
    BY <1>4, CalmFails
  <1>5. CASE UploadCrashes(c)
    BY <1>5, CrashDoes DEF Calm
  <1> QED
    BY <1>1, <1>2, <1>3, <1>4, <1>5

LEMMA CalmInit == Init => Calm
  <1> SUFFICES ASSUME Init PROVE Calm
    OBVIOUS
  <1>1. DOMAIN server.rows = {} /\ DOMAIN server.files = {}
    BY NothingIs DEF Init
  <1>2. InStep
    BY <1>1 DEF InStep, Listed
  <1>3. ASSUME NEW c \in Clients PROVE InSync(client[c], syncing[c])
    <2>1. DOMAIN client[c].db = {} /\ ~client[c].fresh /\ syncing[c] = Idle
      BY NothingIs DEF Init
    <2>2. Rests(client[c])
      BY <1>1, <2>1 DEF Rests, Passed, Uploaded, Present
    <2> QED BY <2>1, <2>2, IdleIs, RestsIs
  <1> QED
    BY <1>2, <1>3 DEF Calm

LEMMA CalmStutter == Calm /\ UNCHANGED vars => Calm'
  BY DEF Calm, InStep, Listed, InSync, Passed, Knows, Uploaded, Downloads, Ahead, Mirrors, Sends,
         Present, LocalSha, Dirty, vars

LEMMA CalmAlways == Spec => []Calm
  <1>1. Shape /\ Calm /\ [Next]_vars => Calm'
    BY CalmStep, CalmStutter DEF Next
  <1> QED
    BY <1>1, ShapeAlways, CalmInit, PTL DEF Spec

\* What the server lists under a number that a client has passed, the client has
\* too, unless its own version waits for upload: nothing is skipped by the number
\* that a sync starts from (last_sync_usn; send_changes, which skips the client's own).
THEOREM PassedFilesAreKnown == Spec => []PassedIsKnown
  <1>1. Calm => PassedIsKnown
    BY DEF Calm, InSync, Passed, Knows, PassedIsKnown
  <1> QED
    BY <1>1, CalmAlways, PTL

LEMMA NothingToDo ==
    ASSUME Shape, Calm, ~disturbed, NEW c \in Clients, syncing[c] = Idle,
           client[c].fresh, Dirty(client[c].db) = {}, client[c].usn = server.usn
    PROVE  client[c].files = ServerHolds
  <1> DEFINE x == client[c]
  <1>1. Passed(x) /\ Uploaded(x) /\ Mirrors(x)
    BY IdleIs, RestsIs DEF Calm, Rests
  <1>2. \A n \in DOMAIN server.rows : server.rows[n].usn <= x.usn
    BY DEF Shape, IsServer, IsRows
  <1>3. ASSUME NEW n \in DOMAIN server.rows PROVE LocalSha(x.db, n) = server.rows[n].sha1
    BY <1>1, <1>2 DEF Passed, Knows
  <1>4. ASSUME NEW n PROVE n \in Present(x.db) <=> n \in Listed(server.rows)
    <2>1. ASSUME n \in Present(x.db) PROVE n \in Listed(server.rows)
      <3>1. n \in DOMAIN server.rows
        BY <1>1, <2>1 DEF Uploaded
      <3> QED BY <1>3, <2>1, <3>1 DEF Present, LocalSha, Listed
    <2>2. ASSUME n \in Listed(server.rows) PROVE n \in Present(x.db)
      BY <1>3, <2>2 DEF Present, LocalSha, Listed
    <2> QED BY <2>1, <2>2
  <1>5. DOMAIN x.files = Listed(server.rows)
    BY <1>1, <1>4 DEF Mirrors
  <1>6. ASSUME NEW n \in DOMAIN x.files PROVE x.files[n] = server.rows[n].sha1
    <2>1. n \in DOMAIN server.rows /\ n \in Present(x.db)
      BY <1>4, <1>5, <1>6 DEF Listed
    <2>2. LocalSha(x.db, n) = server.rows[n].sha1 /\ LocalSha(x.db, n) = x.db[n].sha1
      BY <1>3, <2>1 DEF LocalSha, Present
    <2> QED BY <1>1, <1>6, <2>2 DEF Mirrors
  <1>7. ServerHolds = [n \in Listed(server.rows) |-> server.rows[n].sha1]
    BY DEF ServerHolds, Listed
  <1>8. x.files = [n \in DOMAIN x.files |-> x.files[n]]
    BY ClientOf DEF IsFiles
  <1> QED
    BY <1>5, <1>6, <1>7, <1>8

\* A client whose next sync would find nothing to do holds exactly the files that
\* the server lists, with their contents (sync_inner).
THEOREM NoMediaToSync == Spec => []NothingToDoIsTrue
  <1>1. Shape /\ Calm => NothingToDoIsTrue
    BY NothingToDo DEF NothingToDoIsTrue
  <1> QED
    BY <1>1, ShapeAlways, CalmAlways, PTL
==============================================================================
