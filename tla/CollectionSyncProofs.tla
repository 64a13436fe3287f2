------------------------- MODULE CollectionSyncProofs -------------------------
(***************************************************************************)
(* Theorems about CollectionSync.  The invariants are not inductive by     *)
(* themselves: what a copy says of itself when a sync ends was decided     *)
(* many requests before.  The inductive invariant is built in layers, each *)
(* of which uses those before it.                                          *)
(*                                                                         *)
(*   Shape       every collection, working copy and session has its fields *)
(*   ReviewsInv  what is marked as sent is at the server, or in the        *)
(*               session's copy while that is open                         *)
(*   Numbers     the two sides of a sync agree on the numbers they compare *)
(*   GravesInv   no object is both there and deleted; after the exchange   *)
(*               of deletions both sides have the same                     *)
(*   RowsInv     what each side still lacks of the other, in each phase,   *)
(*               is among what has yet to be sent                          *)
(*   ModsTell    equal modification times mean equal contents              *)
(*   Paced       the clock ticks once for each edit and each sync begun    *)
(*                                                                         *)
(* Each action has a lemma that says what it does in terms of the fields   *)
(* of the collections it replaces (Begins, Ends, Uploads and so on);       *)
(* NextIs says that there are no other steps.  The last part shows that    *)
(* each step is one of LastWriterWins, or is not seen there.               *)
(***************************************************************************)
EXTENDS CollectionSync, FiniteSetTheorems, WellFoundedInduction, TLAPS

Fields == {"rows", "graves", "revlog", "conf", "mod", "scm", "usn"}
Usns == {Pending} \cup Nat

IsRows(t, T) ==
    /\ DOMAIN t \subseteq Objects
    /\ t \in [DOMAIN t -> [mtime : 0..T, edit : 1..T, usn : Usns]]
IsTombs(t) == t \in [DOMAIN t -> [usn : Usns]]

Typed(col, T) ==
    /\ DOMAIN col = Fields
    /\ IsRows(col.rows, T)
    /\ IsTombs(col.graves) /\ DOMAIN col.graves \subseteq Objects
    /\ IsTombs(col.revlog) /\ DOMAIN col.revlog \subseteq 1..T
    /\ col.conf \in 1..T /\ col.mod \in 1..T /\ col.scm \in 1..T
    /\ col.usn \in Nat

Works == {"graves", "changes", "chunk", "apply chunk", "sanity", "finish"}
Working(c) == InSession(c) /\ syncing[c].phase \in Works

SyncFields(phase) ==
    {"phase", "newer", "server_usn", "work"}
      \cup (IF phase = "graves" THEN {"local", "remote"} ELSE {})
      \cup (IF phase = "apply chunk" THEN {"ids"} ELSE {})
SessionFields == {"key", "server_usn", "client_usn", "client_is_newer", "ids", "work"}

IdsIn(ids, col) == /\ ids = [cards |-> ids.cards, revlog |-> ids.revlog]
                   /\ ids.cards \subseteq Cards \cap DOMAIN col.rows
                   /\ ids.revlog \subseteq DOMAIN col.revlog

IsSync(s, T) ==
    \/ s = Idle
    \/ /\ s.phase \in {"start"} \cup Works
       /\ DOMAIN s = SyncFields(s.phase)
       /\ s.server_usn \in Nat
       /\ Typed(s.work, T)
       /\ s.phase = "graves" => s.local \subseteq Objects /\ s.remote \subseteq Objects
       /\ s.phase = "apply chunk" => IdsIn(s.ids, s.work)

IsSession(z, T) ==
    \/ z = Nobody
    \/ /\ DOMAIN z = SessionFields
       /\ z.key \in Clients
       /\ z.server_usn \in Nat /\ z.client_usn \in Nat
       /\ Typed(z.work, T)

\* The ids that the server has set aside for this session are of its objects.
IdsKnown(c) ==
    InSession(c) =>
      /\ syncing[c].phase # "start"
      /\ syncing[c].phase \in {"graves", "changes"} => session.ids = <<>>
      /\ syncing[c].phase = "chunk" /\ session.ids # <<>> =>
            IdsIn(session.ids[1], session.work)

\* The parts of the state have their fields, whatever goes wrong.
Shape ==
    /\ now \in Nat \ {0}
    /\ DOMAIN device = Clients /\ \A c \in Clients : Typed(device[c], now)
    /\ DOMAIN syncing = Clients /\ \A c \in Clients : IsSync(syncing[c], now)
    /\ offered \in [Clients -> SUBSET {"upload", "download"}]
    /\ aborts \subseteq Clients
    /\ Typed(server, now)
    /\ IsSession(session, now)
    /\ \A c \in Clients : IdsKnown(c)
-----------------------------------------------------------------------------
(* Tables.                                                                  *)

LEMMA OnlyIs ==
    ASSUME NEW t, NEW K
    PROVE  DOMAIN Only(t, K) = K /\ \A k \in K : Only(t, K)[k] = t[k]
  BY DEF Only

LEMMA WithoutIs ==
    ASSUME NEW t, NEW K
    PROVE  /\ DOMAIN Without(t, K) = DOMAIN t \ K
           /\ \A k \in DOMAIN t \ K : Without(t, K)[k] = t[k]
  BY OnlyIs DEF Without

LEMMA OverIs ==
    ASSUME NEW s, NEW t
    PROVE  /\ DOMAIN Over(s, t) = DOMAIN s \cup DOMAIN t
           /\ \A k \in DOMAIN s : Over(s, t)[k] = s[k]
           /\ \A k \in DOMAIN t \ DOMAIN s : Over(s, t)[k] = t[k]
  BY DEF Over

LEMMA OnlyRows ==
    ASSUME NEW T, NEW t, IsRows(t, T), NEW K \in SUBSET DOMAIN t
    PROVE  IsRows(Only(t, K), T)
  BY DEF IsRows, Only

LEMMA WithoutRows ==
    ASSUME NEW T, NEW t, IsRows(t, T), NEW K
    PROVE  IsRows(Without(t, K), T)
  BY OnlyRows DEF Without

LEMMA OverRows ==
    ASSUME NEW T, NEW s, NEW t, IsRows(s, T), IsRows(t, T)
    PROVE  IsRows(Over(s, t), T)
  BY DEF IsRows, Over

LEMMA OverTombs ==
    ASSUME NEW s, NEW t, IsTombs(s), IsTombs(t)
    PROVE  IsTombs(Over(s, t))
  BY DEF IsTombs, Over

LEMMA OnlyTombs ==
    ASSUME NEW t, IsTombs(t), NEW K \in SUBSET DOMAIN t
    PROVE  IsTombs(Only(t, K))
  BY DEF IsTombs, Only

LEMMA TombsOf ==
    ASSUME NEW K, NEW usn \in Usns
    PROVE  /\ IsTombs([k \in K |-> [usn |-> usn]])
           /\ DOMAIN [k \in K |-> [usn |-> usn]] = K
  BY DEF IsTombs

\* The rows in keys are marked as sent with the number usn.
MarkedRows(rows, old, keys, usn) ==
    /\ DOMAIN rows = DOMAIN old
    /\ \A k \in keys : rows[k].usn = usn /\ rows[k].mtime = old[k].mtime /\ rows[k].edit = old[k].edit
    /\ \A k \in DOMAIN old \ keys : rows[k] = old[k]

MarkedTombs(tombs, old, keys, usn) ==
    /\ DOMAIN tombs = DOMAIN old
    /\ \A k \in keys : tombs[k].usn = usn
    /\ \A k \in DOMAIN old \ keys : tombs[k] = old[k]

LEMMA WithUsnRows ==
    ASSUME NEW T, NEW t, IsRows(t, T), NEW K, K \subseteq DOMAIN t, NEW usn \in Usns
    PROVE  IsRows(WithUsn(t, K, usn), T) /\ MarkedRows(WithUsn(t, K, usn), t, K, usn)
  BY DEF IsRows, WithUsn, Over, MarkedRows

LEMMA WithUsnTombs ==
    ASSUME NEW t, IsTombs(t), NEW K, K \subseteq DOMAIN t, NEW usn \in Usns
    PROVE  IsTombs(WithUsn(t, K, usn)) /\ MarkedTombs(WithUsn(t, K, usn), t, K, usn)
  BY DEF IsTombs, WithUsn, Over, MarkedTombs

LEMMA SinceIs ==
    ASSUME NEW t, NEW n \in Nat
    PROVE  /\ Since(t, Pending) = {k \in DOMAIN t : t[k].usn = Pending}
           /\ Since(t, n) = {k \in DOMAIN t : t[k].usn >= n}
  BY DEF Since, IsPending, Pending

LEMMA TypedLater ==
    ASSUME NEW col, NEW t \in Nat, NEW u \in Nat, t <= u, Typed(col, t)
    PROVE  Typed(col, u)
  BY DEF Typed, IsRows

-----------------------------------------------------------------------------
(* Chunks.                                                                  *)

LEMMA HasSubset ==
    ASSUME NEW S, IsFiniteSet(S), NEW n \in Nat, n <= Cardinality(S)
    PROVE  \E T \in SUBSET S : Cardinality(T) = n
  <1>1. Cardinality(S) \in Nat /\ ExistsBijection(1..Cardinality(S), S)
    BY FS_CardinalityType
  <1>2. PICK f \in Bijection(1..Cardinality(S), S) : TRUE
    BY <1>1 DEF ExistsBijection
  <1> DEFINE T == {f[i] : i \in 1..n}
             g == [i \in 1..n |-> f[i]]
  <1>3. f \in [1..Cardinality(S) -> S]
        /\ \A i, j \in 1..Cardinality(S) : f[i] = f[j] => i = j
    BY <1>2 DEF Bijection, Injection, IsInjective
  <1>4. 1..n \subseteq 1..Cardinality(S)
    BY <1>1
  <1>5. T \in SUBSET S
    BY <1>3, <1>4
  <1>6. g \in [1..n -> T] /\ \A i, j \in 1..n : g[i] = g[j] => i = j
    BY <1>3, <1>4
  <1>7. \A t \in T : \E i \in 1..n : g[i] = t
    OBVIOUS
  <1>8. g \in Bijection(1..n, T)
    BY <1>6, <1>7 DEF Bijection, Injection, IsInjective, Surjection
  <1>9. Cardinality(T) = n
    BY <1>8, FS_CountingElements DEF ExistsBijection
  <1> QED
    BY <1>5, <1>9

LEMMA SomeIs ==
    ASSUME NEW keys, IsFiniteSet(keys), NEW n \in Nat
    PROVE  /\ Some(keys, n) \subseteq keys
           /\ Cardinality(keys) <= n => Some(keys, n) = keys
  <1> DEFINE m == IF Cardinality(keys) < n THEN Cardinality(keys) ELSE n
  <1>1. Cardinality(keys) \in Nat
    BY FS_CardinalityType
  <1>2. m \in Nat /\ m <= Cardinality(keys)
    BY <1>1
  <1>3. \E ks \in SUBSET keys : Cardinality(ks) = m
    BY <1>2, HasSubset
  <1>4. Some(keys, n) \in SUBSET keys /\ Cardinality(Some(keys, n)) = m
    BY <1>3 DEF Some
  <1>5. ASSUME Cardinality(keys) <= n PROVE Some(keys, n) = keys
    BY <1>1, <1>4, <1>5, FS_Subset
  <1> QED
    BY <1>4, <1>5

\* There is a least number of rounds.
LEMMA LeastOf ==
    ASSUME NEW S \in SUBSET Nat, S # {}
    PROVE  \E n \in S : \A m \in Nat : m < n => m \notin S
  <1>1. PICK x \in S : \A y \in S : ~(<<y, x>> \in OpToRel(<, Nat))
    BY NatLessThanWellFounded, WFMin
  <1>2. \A m \in S : ~(m < x)
    BY <1>1 DEF OpToRel
  <1> QED
    BY <1>2

LEMMA TakeChunkIs ==
    ASSUME NEW ids, ids = [cards |-> ids.cards, revlog |-> ids.revlog],
           IsFiniteSet(ids.cards), IsFiniteSet(ids.revlog)
    PROVE  LET part == TakeChunk(ids).part
           IN  /\ part = [cards |-> part.cards, revlog |-> part.revlog]
               /\ part.cards \subseteq ids.cards
               /\ part.revlog \subseteq ids.revlog
               /\ TakeChunk(ids).done \in BOOLEAN
               /\ TakeChunk(ids).done => part = ids
  <1> DEFINE Taken(n) == [cards |-> Some(ids.cards, n), revlog |-> Some(ids.revlog, n)]
             Size(part) == Cardinality(part.cards) + Cardinality(part.revlog)
             Enough(n) == Size(Taken(n)) >= ChunkSize \/ Taken(n) = ids
             rounds == CHOOSE n \in 0..Size(ids) : Enough(n) /\ \A m \in 0..(n - 1) : ~Enough(m)
  <1>1. Cardinality(ids.cards) \in Nat /\ Cardinality(ids.revlog) \in Nat
    BY FS_CardinalityType
  <1>2. Size(ids) \in Nat /\ Taken(Size(ids)) = ids
    <2>1. Size(ids) \in Nat /\ Cardinality(ids.cards) <= Size(ids) /\ Cardinality(ids.revlog) <= Size(ids)
      BY <1>1
    <2>2. Some(ids.cards, Size(ids)) = ids.cards /\ Some(ids.revlog, Size(ids)) = ids.revlog
      BY <2>1, SomeIs
    <2> QED
      BY <2>1, <2>2
  <1> HIDE DEF Size, Taken
  <1>3. Enough(Size(ids))
    BY <1>2
  <1>4. rounds \in 0..Size(ids) /\ Enough(rounds)
    <2> DEFINE S == {n \in 0..Size(ids) : Enough(n)}
    <2>1. S \in SUBSET Nat /\ S # {}
      BY <1>2, <1>3
    <2> HIDE DEF Enough
    <2>2. PICK n \in S : \A m \in Nat : m < n => m \notin S
      <3> HIDE DEF S
      <3> QED BY <2>1, LeastOf
    <2>3. n \in 0..Size(ids) /\ Enough(n) /\ \A m \in 0..(n - 1) : ~Enough(m)
      BY <2>2, <1>2
    <2> QED
      BY <2>3
  <1> HIDE DEF rounds
  <1>5. rounds \in Nat
    BY <1>4, <1>2
  <1>6. Taken(rounds).cards \subseteq ids.cards /\ Taken(rounds).revlog \subseteq ids.revlog
    BY <1>5, SomeIs DEF Taken
  <1>7. TakeChunk(ids) = [part |-> Taken(rounds), done |-> Size(Taken(rounds)) < ChunkSize]
    BY DEF TakeChunk, rounds, Taken, Size
  <1>8. Taken(rounds) = [cards |-> Taken(rounds).cards, revlog |-> Taken(rounds).revlog]
    BY DEF Taken
  <1>9. Size(Taken(rounds)) < ChunkSize => Taken(rounds) = ids
    <2>1. Size(Taken(rounds)) \in Nat
      <3>1. IsFiniteSet(Taken(rounds).cards) /\ IsFiniteSet(Taken(rounds).revlog)
        BY <1>6, FS_Subset
      <3> QED BY <3>1, FS_CardinalityType DEF Size
    <2> QED BY <1>4, <2>1, SyncAssumption
  <1> HIDE DEF Taken, Size
  <1>10. TakeChunk(ids).part = Taken(rounds)
    BY <1>7
  <1>11. TakeChunk(ids).done \in BOOLEAN
    BY <1>7
  <1>12. TakeChunk(ids).done => Taken(rounds) = ids
    <2> DEFINE below == Size(Taken(rounds)) < ChunkSize
    <2>1. below \in BOOLEAN
      OBVIOUS
    <2>2. TakeChunk(ids) = [part |-> Taken(rounds), done |-> below]
      BY <1>7
    <2> HIDE DEF below
    <2>3. TakeChunk(ids).done = below
      BY <2>2
    <2>4. TakeChunk(ids).done => below
      BY <2>1, <2>3
    <2> QED
      BY <1>9, <2>4 DEF below
  <1> QED
    BY <1>6, <1>8, <1>10, <1>11, <1>12

-----------------------------------------------------------------------------
(* Collections.  What each operation leaves is stated as a relation between *)
(* the collection before it and the one after it.                           *)

\* r is col without the objects in keys, which have graves now.
Buried(r, col, keys, usn) ==
    /\ DOMAIN r.rows = DOMAIN col.rows \ keys
    /\ \A o \in DOMAIN r.rows : r.rows[o] = col.rows[o]
    /\ DOMAIN r.graves = DOMAIN col.graves \cup keys
    /\ \A o \in DOMAIN col.graves : r.graves[o] = col.graves[o]
    /\ \A o \in keys \ DOMAIN col.graves : r.graves[o].usn = usn
    /\ r.revlog = col.revlog /\ r.conf = col.conf /\ r.mod = col.mod
    /\ r.scm = col.scm /\ r.usn = col.usn

\* r is col with the incoming rows that `taken` names.
TookRows(r, col, incoming, taken) ==
    /\ DOMAIN r.rows = DOMAIN col.rows \cup DOMAIN incoming
    /\ \A o \in taken : r.rows[o] = incoming[o]
    /\ \A o \in DOMAIN col.rows \ taken : r.rows[o] = col.rows[o]
    /\ r.graves = col.graves
    /\ r.mod = col.mod /\ r.scm = col.scm /\ r.usn = col.usn

\* r is col with the incoming reviews that it lacked.
TookReviews(r, col, incoming) ==
    /\ DOMAIN r.revlog = DOMAIN col.revlog \cup DOMAIN incoming
    /\ \A e \in DOMAIN col.revlog : r.revlog[e] = col.revlog[e]
    /\ \A e \in DOMAIN incoming \ DOMAIN col.revlog : r.revlog[e] = incoming[e]

NewerDecks(col, incoming) ==
    {k \in DOMAIN incoming : k \in DOMAIN col.rows => col.rows[k].mtime <= incoming[k].mtime}

NewerCards(col, incoming, since) ==
    {k \in DOMAIN incoming : k \in DOMAIN col.rows =>
                               \/ ~IsPending(col.rows[k].usn, since)
                               \/ col.rows[k].mtime < incoming[k].mtime}

\* r is what a finished sync leaves of col: the number usn, stamped t.
Ended(r, col, usn, t) ==
    /\ r.rows = col.rows /\ r.graves = col.graves /\ r.revlog = col.revlog
    /\ r.conf = col.conf /\ r.scm = col.scm /\ r.mod = t /\ r.usn = usn

\* r is what an upload leaves of col.
Uploaded(r, col, t) ==
    /\ DOMAIN r.rows = DOMAIN col.rows
    /\ \A o \in DOMAIN r.rows : /\ r.rows[o].edit = col.rows[o].edit
                                /\ r.rows[o].mtime = col.rows[o].mtime
                                /\ r.rows[o].usn # Pending
    /\ DOMAIN r.graves = {}
    /\ DOMAIN r.revlog = DOMAIN col.revlog
    /\ \A e \in DOMAIN r.revlog : r.revlog[e].usn # Pending
    /\ r.conf = col.conf /\ r.scm = t /\ r.mod = t /\ r.usn = col.usn + 1

LEMMA ApplyGravesIs ==
    ASSUME NEW T, NEW col, Typed(col, T), NEW keys, keys \subseteq Objects, NEW usn \in Usns
    PROVE  /\ Typed(ApplyGraves(col, keys, usn), T)
           /\ Buried(ApplyGraves(col, keys, usn), col, keys, usn)
  <1> DEFINE r == ApplyGraves(col, keys, usn)
             tombs == [k \in keys |-> [usn |-> usn]]
  <1>1. DOMAIN r = Fields /\ r.rows = Without(col.rows, keys) /\ r.graves = Over(col.graves, tombs)
        /\ r.revlog = col.revlog /\ r.conf = col.conf /\ r.mod = col.mod
        /\ r.scm = col.scm /\ r.usn = col.usn
    BY DEF ApplyGraves, Typed, Fields
  <1>2. IsTombs(tombs) /\ DOMAIN tombs = keys /\ \A k \in keys : tombs[k].usn = usn
    BY TombsOf
  <1> HIDE DEF tombs, r
  <1>3. IsRows(r.rows, T) /\ DOMAIN r.rows = DOMAIN col.rows \ keys
        /\ \A o \in DOMAIN r.rows : r.rows[o] = col.rows[o]
    <2>1. IsRows(col.rows, T)
      BY DEF Typed
    <2>2. IsRows(Without(col.rows, keys), T)
      BY <2>1, WithoutRows
    <2>3. DOMAIN Without(col.rows, keys) = DOMAIN col.rows \ keys
          /\ \A k \in DOMAIN col.rows \ keys : Without(col.rows, keys)[k] = col.rows[k]
      BY WithoutIs
    <2> QED
      BY <1>1, <2>2, <2>3
  <1>5. IsTombs(r.graves) /\ DOMAIN r.graves = DOMAIN col.graves \cup keys
        /\ (\A o \in DOMAIN col.graves : r.graves[o] = col.graves[o])
        /\ \A o \in keys \ DOMAIN col.graves : r.graves[o].usn = usn
    <2> DEFINE s == col.graves
    <2>1. IsTombs(s)
      BY DEF Typed
    <2> HIDE DEF s
    <2>2. IsTombs(Over(s, tombs))
      BY <1>2, <2>1, OverTombs
    <2>3. DOMAIN Over(s, tombs) = DOMAIN s \cup DOMAIN tombs
          /\ (\A k \in DOMAIN s : Over(s, tombs)[k] = s[k])
          /\ (\A k \in DOMAIN tombs \ DOMAIN s : Over(s, tombs)[k] = tombs[k])
      BY OverIs
    <2> QED
      BY <1>1, <1>2, <2>2, <2>3 DEF s
  <1>4. Typed(r, T)
    BY <1>1, <1>3, <1>5 DEF Typed
  <1> QED
    BY <1>1, <1>3, <1>4, <1>5 DEF r, Buried

LEMMA MergeDecksIs ==
    ASSUME NEW T, NEW col, Typed(col, T), NEW incoming, IsRows(incoming, T)
    PROVE  LET r == MergeDecks(col, incoming)
           IN  /\ Typed(r, T)
               /\ TookRows(r, col, incoming, NewerDecks(col, incoming))
               /\ r.revlog = col.revlog /\ r.conf = col.conf
  <1> DEFINE r == MergeDecks(col, incoming)
             taken == {k \in DOMAIN incoming :
                         k \in DOMAIN col.rows => col.rows[k].mtime <= incoming[k].mtime}
  <1>1. DOMAIN r = Fields /\ r.rows = Over(Only(incoming, taken), col.rows) /\ r.graves = col.graves
        /\ r.revlog = col.revlog /\ r.conf = col.conf /\ r.mod = col.mod
        /\ r.scm = col.scm /\ r.usn = col.usn
    BY DEF MergeDecks, Typed, Fields
  <1>2. taken \in SUBSET DOMAIN incoming /\ DOMAIN incoming \ taken \subseteq DOMAIN col.rows
    OBVIOUS
  <1> HIDE DEF taken, r
  <1>3. IsRows(Only(incoming, taken), T) /\ DOMAIN Only(incoming, taken) = taken
        /\ \A k \in taken : Only(incoming, taken)[k] = incoming[k]
    BY <1>2, OnlyRows, OnlyIs
  <1>4. Typed(r, T)
    BY <1>1, <1>3, OverRows DEF Typed
  <1>5. DOMAIN r.rows = taken \cup DOMAIN col.rows
        /\ (\A o \in taken : r.rows[o] = incoming[o])
        /\ (\A o \in DOMAIN col.rows \ taken : r.rows[o] = col.rows[o])
    <2> DEFINE s == Only(incoming, taken)
    <2> HIDE DEF s
    <2>1. DOMAIN Over(s, col.rows) = DOMAIN s \cup DOMAIN col.rows
          /\ (\A k \in DOMAIN s : Over(s, col.rows)[k] = s[k])
          /\ (\A k \in DOMAIN col.rows \ DOMAIN s : Over(s, col.rows)[k] = col.rows[k])
      BY OverIs
    <2> QED
      BY <1>1, <1>3, <2>1 DEF s
  <1>6. DOMAIN r.rows = DOMAIN col.rows \cup DOMAIN incoming
    BY <1>2, <1>5
  <1> QED
    BY <1>1, <1>4, <1>5, <1>6 DEF r, taken, TookRows, NewerDecks

LEMMA ApplyChunkIs ==
    ASSUME NEW T, NEW col, Typed(col, T), NEW chunk, IsRows(chunk.cards, T),
           IsTombs(chunk.revlog), DOMAIN chunk.revlog \subseteq 1..T, NEW since
    PROVE  LET r == ApplyChunk(col, chunk, since)
           IN  /\ Typed(r, T)
               /\ TookRows(r, col, chunk.cards, NewerCards(col, chunk.cards, since))
               /\ TookReviews(r, col, chunk.revlog)
               /\ r.conf = col.conf
  <1> DEFINE r == ApplyChunk(col, chunk, since)
             taken == {k \in DOMAIN chunk.cards :
                         k \in DOMAIN col.rows =>
                           \/ ~IsPending(col.rows[k].usn, since)
                           \/ col.rows[k].mtime < chunk.cards[k].mtime}
  <1>1. DOMAIN r = Fields /\ r.rows = Over(Only(chunk.cards, taken), col.rows)
        /\ r.graves = col.graves /\ r.revlog = Over(col.revlog, chunk.revlog)
        /\ r.conf = col.conf /\ r.mod = col.mod /\ r.scm = col.scm /\ r.usn = col.usn
    BY DEF ApplyChunk, Typed, Fields
  <1>2. taken \in SUBSET DOMAIN chunk.cards /\ DOMAIN chunk.cards \ taken \subseteq DOMAIN col.rows
    OBVIOUS
  <1> HIDE DEF taken, r
  <1>3. IsRows(Only(chunk.cards, taken), T) /\ DOMAIN Only(chunk.cards, taken) = taken
        /\ \A k \in taken : Only(chunk.cards, taken)[k] = chunk.cards[k]
    BY <1>2, OnlyRows, OnlyIs
  <1>8. DOMAIN r.revlog = DOMAIN col.revlog \cup DOMAIN chunk.revlog
        /\ (\A e \in DOMAIN col.revlog : r.revlog[e] = col.revlog[e])
        /\ \A e \in DOMAIN chunk.revlog \ DOMAIN col.revlog : r.revlog[e] = chunk.revlog[e]
    <2> DEFINE s == col.revlog   t == chunk.revlog
    <2> HIDE DEF s, t
    <2>1. DOMAIN Over(s, t) = DOMAIN s \cup DOMAIN t
          /\ (\A k \in DOMAIN s : Over(s, t)[k] = s[k])
          /\ (\A k \in DOMAIN t \ DOMAIN s : Over(s, t)[k] = t[k])
      BY OverIs
    <2> QED
      BY <1>1, <2>1 DEF s, t
  <1>4. IsTombs(r.revlog)
    <2>1. IsTombs(col.revlog)
      BY DEF Typed
    <2> QED
      BY <1>1, <2>1, OverTombs
  <1>5. Typed(r, T)
    BY <1>1, <1>3, <1>4, <1>8, OverRows DEF Typed
  <1>6. DOMAIN r.rows = taken \cup DOMAIN col.rows
        /\ (\A o \in taken : r.rows[o] = chunk.cards[o])
        /\ (\A o \in DOMAIN col.rows \ taken : r.rows[o] = col.rows[o])
    <2> DEFINE s == Only(chunk.cards, taken)
    <2> HIDE DEF s
    <2>1. DOMAIN Over(s, col.rows) = DOMAIN s \cup DOMAIN col.rows
          /\ (\A k \in DOMAIN s : Over(s, col.rows)[k] = s[k])
          /\ (\A k \in DOMAIN col.rows \ DOMAIN s : Over(s, col.rows)[k] = col.rows[k])
      BY OverIs
    <2> QED
      BY <1>1, <1>3, <2>1 DEF s
  <1>7. DOMAIN r.rows = DOMAIN col.rows \cup DOMAIN chunk.cards
    BY <1>2, <1>6
  <1> QED
    BY <1>1, <1>4, <1>5, <1>6, <1>7, <1>8 DEF r, taken, TookRows, TookReviews, NewerCards

LEMMA FetchIs ==
    ASSUME NEW T, NEW col, Typed(col, T), NEW part, part.cards \subseteq DOMAIN col.rows,
           part.revlog \subseteq DOMAIN col.revlog
    PROVE  LET chunk == Fetch(col, part)
           IN  /\ IsRows(chunk.cards, T) /\ DOMAIN chunk.cards = part.cards
               /\ \A k \in part.cards : chunk.cards[k] = col.rows[k]
               /\ IsTombs(chunk.revlog) /\ DOMAIN chunk.revlog = part.revlog
               /\ \A e \in part.revlog : chunk.revlog[e] = col.revlog[e]
               /\ DOMAIN chunk.revlog \subseteq 1..T
  <1>1. Fetch(col, part).cards = Only(col.rows, part.cards)
        /\ Fetch(col, part).revlog = Only(col.revlog, part.revlog)
    BY DEF Fetch
  <1> QED
    BY <1>1, OnlyIs, OnlyRows, OnlyTombs DEF Typed

LEMMA FinishedIs ==
    ASSUME NEW T, NEW col, Typed(col, T), NEW t \in 1..T
    PROVE  Typed(Finished(col, t), T) /\ Ended(Finished(col, t), col, col.usn + 1, t)
  BY DEF Finished, Typed, Fields, Ended

LEMMA BeforeUploadIs ==
    ASSUME NEW T, NEW col, Typed(col, T), NEW t \in 1..T
    PROVE  Typed(BeforeUpload(col, t), T) /\ Uploaded(BeforeUpload(col, t), col, t)
  <1> DEFINE r == BeforeUpload(col, t)
             rows == [o \in DOMAIN col.rows |->
                        IF o \in Decks \/ col.rows[o].usn = Pending
                        THEN [col.rows[o] EXCEPT !.usn = 0] ELSE col.rows[o]]
  <1>1. DOMAIN r = Fields /\ r.rows = rows /\ r.graves = Nothing
        /\ r.revlog = WithUsn(col.revlog, Since(col.revlog, Pending), 0)
        /\ r.conf = col.conf /\ r.mod = t /\ r.scm = t /\ r.usn = col.usn + 1
    BY DEF BeforeUpload, Typed, Fields
  <1>2. IsRows(rows, T) /\ DOMAIN rows = DOMAIN col.rows
        /\ \A o \in DOMAIN rows : /\ rows[o].edit = col.rows[o].edit
                                  /\ rows[o].mtime = col.rows[o].mtime
                                  /\ rows[o].usn # Pending
    BY DEF IsRows, Typed, Usns, Pending
  <1> HIDE DEF rows, r
  <1>3. Since(col.revlog, Pending) = {k \in DOMAIN col.revlog : col.revlog[k].usn = Pending}
    BY DEF Since, IsPending
  <1>4. IsTombs(r.revlog) /\ DOMAIN r.revlog = DOMAIN col.revlog
        /\ \A e \in DOMAIN r.revlog : r.revlog[e].usn # Pending
    <2> DEFINE log == col.revlog
               K == Since(log, Pending)
    <2>1. IsTombs(log) /\ K \subseteq DOMAIN log /\ 0 \in Usns /\ 0 # Pending
      BY <1>3 DEF Typed, Usns, Pending
    <2>2. \A k \in DOMAIN log \ K : log[k].usn # Pending
      BY <1>3
    <2> HIDE DEF log, K
    <2>3. IsTombs(WithUsn(log, K, 0)) /\ MarkedTombs(WithUsn(log, K, 0), log, K, 0)
      BY <2>1, WithUsnTombs
    <2>4. r.revlog = WithUsn(log, K, 0)
      BY <1>1 DEF log, K
    <2> QED
      BY <2>1, <2>2, <2>3, <2>4 DEF log, MarkedTombs
  <1>5. IsTombs(r.graves) /\ DOMAIN r.graves = {}
    BY <1>1 DEF Nothing, IsTombs
  <1>6. Typed(r, T)
    BY <1>1, <1>2, <1>4, <1>5 DEF Typed
  <1> QED
    BY <1>1, <1>2, <1>4, <1>5, <1>6 DEF r, Uploaded

-----------------------------------------------------------------------------
(* What the steps do.                                                       *)

\* A step that only ends syncs, and the session.
Drops ==
    /\ UNCHANGED <<now, device, server>>
    /\ DOMAIN syncing' = Clients
    /\ \A c \in Clients : syncing'[c] \in {syncing[c], Idle}
    /\ session' \in {session, Nobody}

\* A step of c's sync leaves all else as it is.
OnlySync(c) ==
    /\ UNCHANGED <<now, device, server, offered, aborts>>
    /\ DOMAIN syncing' = Clients
    /\ \A d \in Clients \ {c} : syncing'[d] = syncing[d]

LEMMA SyncOf ==
    ASSUME Shape, NEW c \in Clients, syncing[c].phase # "idle"
    PROVE  /\ syncing[c] # Idle
           /\ syncing[c].phase \in {"start"} \cup Works
           /\ DOMAIN syncing[c] = SyncFields(syncing[c].phase)
           /\ syncing[c].server_usn \in Nat
           /\ Typed(syncing[c].work, now)
           /\ syncing[c].phase = "graves" => syncing[c].local \subseteq Objects /\ syncing[c].remote \subseteq Objects
           /\ syncing[c].phase = "apply chunk" => IdsIn(syncing[c].ids, syncing[c].work)
  <1>1. IsSync(syncing[c], now) /\ syncing[c] # Idle
    BY DEF Shape, Idle
  <1> QED
    BY <1>1 DEF IsSync

LEMMA SessionOf ==
    ASSUME Shape, NEW c \in Clients, InSession(c)
    PROVE  /\ session # Nobody /\ session.key = c
           /\ DOMAIN session = SessionFields
           /\ session.server_usn \in Usns /\ session.server_usn \in Nat /\ session.client_usn \in Nat
           /\ Typed(session.work, now)
  <1>1. IsSession(session, now) /\ session # Nobody /\ session.key = c
    BY DEF Shape, InSession
  <1> QED
    BY <1>1 DEF IsSession, Usns

\* The client marks its deletions as sent.
Marked(w, usn) == [w EXCEPT !.graves = WithUsn(@, Since(@, Pending), usn)]

MarkedSent(r, w) ==
    /\ r.rows = w.rows /\ r.revlog = w.revlog /\ r.conf = w.conf /\ r.mod = w.mod
    /\ r.scm = w.scm /\ r.usn = w.usn
    /\ DOMAIN r.graves = DOMAIN w.graves
    /\ \A o \in DOMAIN w.graves : r.graves[o].usn # Pending

LEMMA MarkedIs ==
    ASSUME NEW T, NEW w, Typed(w, T), NEW usn \in Usns, usn # Pending
    PROVE  Typed(Marked(w, usn), T) /\ MarkedSent(Marked(w, usn), w)
  <1> DEFINE t == w.graves
             local == Since(t, Pending)
             r == Marked(w, usn)
  <1>1. IsTombs(t)
    BY DEF Typed
  <1>2. DOMAIN r = Fields /\ r.graves = WithUsn(t, local, usn)
        /\ r.rows = w.rows /\ r.revlog = w.revlog /\ r.conf = w.conf /\ r.mod = w.mod
        /\ r.scm = w.scm /\ r.usn = w.usn
    BY DEF Typed, Fields, Marked
  <1>3. local \subseteq DOMAIN t /\ \A k \in DOMAIN t \ local : t[k].usn # Pending
    BY DEF Since, IsPending
  <1> HIDE DEF t, local, r
  <1>4. IsTombs(WithUsn(t, local, usn)) /\ MarkedTombs(WithUsn(t, local, usn), t, local, usn)
    BY <1>1, <1>3, WithUsnTombs
  <1>5. IsTombs(r.graves) /\ DOMAIN r.graves = DOMAIN t
        /\ \A o \in DOMAIN t : r.graves[o].usn # Pending
    BY <1>1, <1>2, <1>3, <1>4 DEF MarkedTombs
  <1>6. Typed(r, T)
    BY <1>2, <1>5 DEF Typed, t
  <1> QED
    BY <1>2, <1>5, <1>6 DEF r, t, MarkedSent

\* The deletions to be exchanged.
Local(w) == {o \in DOMAIN w.graves : w.graves[o].usn = Pending}
Remote(c) == {o \in DOMAIN server.graves : server.graves[o].usn >= device[c].usn}

LEMMA StartSyncIs ==
    ASSUME Shape, NEW c \in Clients, StartSync(c)
    PROVE  LET s == syncing[c]
               next == syncing'[c]
               marked == Marked(s.work, s.server_usn)
           IN  /\ OnlySync(c)
               /\ s.phase = "start" /\ next.server_usn = s.server_usn
               /\ session' = [key |-> c, server_usn |-> server.usn, client_usn |-> device[c].usn,
                              client_is_newer |-> s.newer, ids |-> <<>>, work |-> server]
               /\ DOMAIN next = SyncFields(next.phase)
               /\ Typed(marked, now) /\ MarkedSent(marked, s.work)
               /\ Typed(next.work, now)
               /\ \/ /\ next.phase = "graves" /\ Local(s.work) # {}
                     /\ next.local = Local(s.work) /\ next.remote = Remote(c)
                     /\ next.work = marked
                  \/ /\ next.phase = "changes" /\ Local(s.work) = {}
                     /\ Buried(next.work, marked, Remote(c), s.server_usn)
  <1> DEFINE s == syncing[c]
             w == s.work
             usn == s.server_usn
             marked == Marked(w, usn)
  <1>1. s.phase = "start"
    BY DEF StartSync
  <1>2. s.phase # "idle"
    BY <1>1
  <1>3. DOMAIN s = SyncFields("start") /\ usn \in Nat /\ Typed(w, now)
    BY <1>1, <1>2, SyncOf
  <1>4. Typed(server, now) /\ device[c].usn \in Nat
    BY DEF Shape, Typed
  <1>5. Since(server.graves, device[c].usn) = Remote(c) /\ Since(w.graves, Pending) = Local(w)
    BY <1>4, SinceIs DEF Local, Remote
  <1>6. Remote(c) \subseteq Objects
    BY <1>4 DEF Typed, Remote
  <1>7. Typed(marked, now) /\ MarkedSent(marked, w)
    BY <1>3, MarkedIs DEF Usns, Pending
  <1>8. /\ OnlySync(c)
        /\ session' = [key |-> c, server_usn |-> server.usn, client_usn |-> device[c].usn,
                       client_is_newer |-> s.newer, ids |-> <<>>, work |-> server]
        /\ syncing'[c] = IF Local(w) = {}
                         THEN [s EXCEPT !.phase = "changes",
                                        !.work = ApplyGraves(marked, Remote(c), usn)]
                         ELSE [phase |-> "graves", newer |-> s.newer, server_usn |-> s.server_usn,
                               work |-> marked, local |-> Local(w), remote |-> Remote(c)]
    BY <1>5 DEF StartSync, OnlySync, Shape, Marked
  <1> HIDE DEF marked, w, usn
  <1>9. CASE Local(w) # {}
    <2>1. syncing'[c] = [phase |-> "graves", newer |-> s.newer, server_usn |-> s.server_usn,
                         work |-> marked, local |-> Local(w), remote |-> Remote(c)]
      BY <1>8, <1>9
    <2>2. DOMAIN syncing'[c] = SyncFields("graves") /\ syncing'[c].phase = "graves"
          /\ syncing'[c].server_usn = usn /\ syncing'[c].work = marked
          /\ syncing'[c].local = Local(w) /\ syncing'[c].remote = Remote(c)
      BY <2>1 DEF SyncFields, usn
    <2> QED
      BY <1>1, <1>7, <1>8, <1>9, <2>2 DEF w, usn, marked
  <1>10. CASE Local(w) = {}
    <2> DEFINE r == ApplyGraves(marked, Remote(c), usn)
    <2>1. syncing'[c] = [s EXCEPT !.phase = "changes", !.work = r]
      BY <1>8, <1>10 DEF usn
    <2>2. Typed(r, now) /\ Buried(r, marked, Remote(c), usn)
      BY <1>3, <1>6, <1>7, ApplyGravesIs DEF Usns
    <2> HIDE DEF r
    <2>3. DOMAIN syncing'[c] = SyncFields("changes") /\ syncing'[c].phase = "changes"
          /\ syncing'[c].server_usn = usn /\ syncing'[c].work = r
      BY <2>1, <1>3 DEF SyncFields, usn
    <2> QED
      BY <1>1, <1>7, <1>8, <1>10, <2>2, <2>3 DEF w, usn, marked
  <1> QED
    BY <1>9, <1>10

\* The session stays the same but for its work, and its ids.
SameSession ==
    /\ DOMAIN session' = SessionFields
    /\ session'.key = session.key /\ session'.server_usn = session.server_usn
    /\ session'.client_usn = session.client_usn

LEMMA SendGravesIs ==
    ASSUME Shape, NEW c \in Clients, SendGraves(c)
    PROVE  LET s == syncing[c]
               next == syncing'[c]
           IN  /\ OnlySync(c)
               /\ s.phase = "graves" /\ InSession(c)
               /\ DOMAIN next = SyncFields("changes") /\ next.phase = "changes"
               /\ next.server_usn = s.server_usn
               /\ Typed(next.work, now) /\ Buried(next.work, s.work, s.remote, s.server_usn)
               /\ SameSession /\ session'.ids = session.ids
               /\ Typed(session'.work, now)
               /\ Buried(session'.work, session.work, s.local, session.server_usn)
  <1> DEFINE s == syncing[c]
             w == ApplyGraves(s.work, s.remote, s.server_usn)
             z == ApplyGraves(session.work, s.local, session.server_usn)
  <1>1. s.phase = "graves" /\ InSession(c)
    BY DEF SendGraves
  <1>2. s.server_usn \in Nat /\ Typed(s.work, now)
        /\ s.local \subseteq Objects /\ s.remote \subseteq Objects
    BY <1>1, SyncOf
  <1>3. DOMAIN session = SessionFields /\ session.server_usn \in Nat /\ Typed(session.work, now)
    BY <1>1, SessionOf
  <1>4. /\ OnlySync(c)
        /\ session' = [session EXCEPT !.work = z]
        /\ syncing'[c] = [phase |-> "changes", newer |-> s.newer, server_usn |-> s.server_usn,
                          work |-> w]
    BY DEF SendGraves, OnlySync, Shape
  <1>5. Typed(w, now) /\ Buried(w, s.work, s.remote, s.server_usn)
    BY <1>2, ApplyGravesIs DEF Usns
  <1>6. Typed(z, now) /\ Buried(z, session.work, s.local, session.server_usn)
    BY <1>2, <1>3, ApplyGravesIs DEF Usns
  <1> HIDE DEF w, z
  <1>7. SameSession /\ session'.ids = session.ids /\ session'.work = z
    BY <1>3, <1>4 DEF SameSession, SessionFields
  <1>8. DOMAIN syncing'[c] = SyncFields("changes") /\ syncing'[c].phase = "changes"
        /\ syncing'[c].server_usn = s.server_usn /\ syncing'[c].work = w
    BY <1>4 DEF SyncFields
  <1> QED
    BY <1>1, <1>4, <1>5, <1>6, <1>7, <1>8

\* The decks to be exchanged.
LocalDecks(w) == {o \in Decks \cap DOMAIN w.rows : w.rows[o].usn = Pending}
RemoteDecks(z, n) == {o \in Decks \cap DOMAIN z.rows : z.rows[o].usn >= n}

LEMMA SendChangesIs ==
    ASSUME Shape, NEW c \in Clients, SendChanges(c)
    PROVE  LET s == syncing[c]
               next == syncing'[c]
               w == s.work
               z == session.work
           IN  /\ OnlySync(c)
               /\ s.phase = "changes" /\ InSession(c)
               /\ DOMAIN next = SyncFields("chunk") /\ next.phase = "chunk"
               /\ next.server_usn = s.server_usn
               /\ SameSession /\ session'.ids = session.ids
               /\ Typed(next.work, now) /\ Typed(session'.work, now)
               /\ next.work.revlog = w.revlog /\ session'.work.revlog = z.revlog
               /\ next.work.conf = session'.work.conf
               /\ \E marked, sent, got :
                    /\ Typed(marked, now)
                    /\ MarkedRows(marked.rows, w.rows, LocalDecks(w), s.server_usn)
                    /\ marked.graves = w.graves /\ marked.mod = w.mod /\ marked.scm = w.scm
                    /\ marked.usn = w.usn
                    /\ DOMAIN sent = LocalDecks(w)
                    /\ \A o \in LocalDecks(w) : sent[o] = marked.rows[o]
                    /\ DOMAIN got = RemoteDecks(z, session.client_usn)
                    /\ \A o \in RemoteDecks(z, session.client_usn) : got[o] = z.rows[o]
                    /\ IsRows(sent, now) /\ IsRows(got, now)
                    /\ TookRows(session'.work, z, sent, NewerDecks(z, sent))
                    /\ TookRows(next.work, marked, got, NewerDecks(marked, got))
  <1> DEFINE s == syncing[c]
             w == s.work
             z == session.work
             n == session.client_usn
             usn == s.server_usn
             local == LocalDecks(w)
             remote == RemoteDecks(z, n)
             marked == [w EXCEPT !.rows = WithUsn(@, local, usn)]
             sent == Only(marked.rows, local)
             got == Only(z.rows, remote)
             conf == IF session.client_is_newer THEN w.conf ELSE z.conf
             zz == MergeDecks(z, sent)
             ww == MergeDecks(marked, got)
  <1>1. s.phase = "changes" /\ InSession(c)
    BY DEF SendChanges
  <1>2. usn \in Nat /\ Typed(w, now) /\ DOMAIN s = SyncFields("changes")
    BY <1>1, SyncOf
  <1>3. DOMAIN session = SessionFields /\ n \in Nat /\ Typed(z, now)
    BY <1>1, SessionOf
  <1>4. /\ Since(Only(w.rows, Decks \cap DOMAIN w.rows), Pending) = local
        /\ Since(Only(z.rows, Decks \cap DOMAIN z.rows), n) = remote
    BY <1>3 DEF Since, Only, IsPending, Pending, LocalDecks, RemoteDecks
  <1>5. /\ OnlySync(c)
        /\ session' = [session EXCEPT !.work = [zz EXCEPT !.conf = conf]]
        /\ syncing'[c] = [s EXCEPT !.phase = "chunk", !.work = [ww EXCEPT !.conf = conf]]
    BY <1>4 DEF SendChanges, OnlySync, Shape
  <1>6. conf \in 1..now
    BY <1>2, <1>3 DEF Typed
  <1>7. local \subseteq DOMAIN w.rows /\ remote \subseteq DOMAIN z.rows
    BY DEF LocalDecks, RemoteDecks
  <1>8. Typed(marked, now) /\ MarkedRows(marked.rows, w.rows, local, usn)
        /\ marked.graves = w.graves /\ marked.mod = w.mod /\ marked.scm = w.scm
        /\ marked.usn = w.usn /\ marked.revlog = w.revlog
    <2> DEFINE t == w.rows
    <2>1. DOMAIN marked = Fields /\ marked.rows = WithUsn(t, local, usn)
          /\ marked.graves = w.graves /\ marked.mod = w.mod /\ marked.scm = w.scm
          /\ marked.usn = w.usn /\ marked.revlog = w.revlog /\ marked.conf = w.conf
      BY <1>2 DEF Typed, Fields
    <2>2. IsRows(t, now) /\ local \subseteq DOMAIN t /\ usn \in Usns
      BY <1>2, <1>7 DEF Typed, Usns
    <2> HIDE DEF t, local, usn, marked
    <2>3. IsRows(WithUsn(t, local, usn), now) /\ MarkedRows(WithUsn(t, local, usn), t, local, usn)
      BY <2>2, WithUsnRows
    <2>4. Typed(marked, now)
      BY <1>2, <2>1, <2>3 DEF Typed, MarkedRows
    <2>5. MarkedRows(marked.rows, t, local, usn)
      BY <2>1, <2>3
    <2> QED
      BY <2>1, <2>4, <2>5 DEF t
  <1> HIDE DEF marked, local, remote, conf, usn, n
  <1>9. IsRows(sent, now) /\ DOMAIN sent = local /\ \A o \in local : sent[o] = marked.rows[o]
    <2>1. IsRows(marked.rows, now) /\ local \in SUBSET DOMAIN marked.rows
      BY <1>7, <1>8 DEF Typed, MarkedRows
    <2> QED
      BY <2>1, OnlyRows, OnlyIs
  <1>10. IsRows(got, now) /\ DOMAIN got = remote /\ \A o \in remote : got[o] = z.rows[o]
    <2>1. IsRows(z.rows, now) /\ remote \in SUBSET DOMAIN z.rows
      BY <1>3, <1>7 DEF Typed
    <2> QED
      BY <2>1, OnlyRows, OnlyIs
  <1> HIDE DEF sent, got
  <1>11. Typed(zz, now) /\ TookRows(zz, z, sent, NewerDecks(z, sent)) /\ zz.revlog = z.revlog
    BY <1>3, <1>9, MergeDecksIs
  <1>12. Typed(ww, now) /\ TookRows(ww, marked, got, NewerDecks(marked, got)) /\ ww.revlog = w.revlog
    BY <1>8, <1>10, MergeDecksIs
  <1> HIDE DEF zz, ww
  <1>13. ASSUME NEW x, NEW y, NEW in, NEW taken, Typed(x, now), TookRows(x, y, in, taken)
         PROVE  LET r == [x EXCEPT !.conf = conf]
                IN  Typed(r, now) /\ TookRows(r, y, in, taken) /\ r.revlog = x.revlog /\ r.conf = conf
    <2> DEFINE r == [x EXCEPT !.conf = conf]
    <2>1. DOMAIN r = Fields /\ r.rows = x.rows /\ r.graves = x.graves /\ r.revlog = x.revlog
          /\ r.conf = conf /\ r.mod = x.mod /\ r.scm = x.scm /\ r.usn = x.usn
      BY <1>13 DEF Typed, Fields
    <2> HIDE DEF r
    <2>2. Typed(r, now)
      BY <1>6, <1>13, <2>1 DEF Typed
    <2>3. TookRows(r, y, in, taken)
      BY <1>13, <2>1 DEF TookRows
    <2> QED
      BY <2>1, <2>2, <2>3 DEF r
  <1> DEFINE zc == [zz EXCEPT !.conf = conf]
             wc == [ww EXCEPT !.conf = conf]
  <1>14. Typed(zc, now) /\ TookRows(zc, z, sent, NewerDecks(z, sent)) /\ zc.revlog = z.revlog /\ zc.conf = conf
    BY <1>11, <1>13
  <1>15. Typed(wc, now) /\ TookRows(wc, marked, got, NewerDecks(marked, got)) /\ wc.revlog = w.revlog /\ wc.conf = conf
    BY <1>12, <1>13
  <1> HIDE DEF zc, wc
  <1>16. SameSession /\ session'.ids = session.ids /\ session'.work = zc
    BY <1>3, <1>5 DEF SameSession, SessionFields, zc
  <1>17. DOMAIN syncing'[c] = SyncFields("chunk") /\ syncing'[c].phase = "chunk"
        /\ syncing'[c].server_usn = usn /\ syncing'[c].work = wc
    BY <1>2, <1>5 DEF SyncFields, wc, usn
  <1> QED
    BY <1>1, <1>5, <1>8, <1>9, <1>10, <1>14, <1>15, <1>16, <1>17 DEF usn, local, remote, n

\* What the server has still to hand out in this session.
Awaited == IF session.ids = <<>> THEN ChunkableIds(session.work, session.client_usn)
           ELSE session.ids[1]

LEMMA ChunkableIdsIn ==
    ASSUME NEW col, NEW since
    PROVE  IdsIn(ChunkableIds(col, since), col)
  BY DEF ChunkableIds, IdsIn, Since, Only

LEMMA AwaitedIn ==
    ASSUME Shape, NEW c \in Clients, InSession(c), syncing[c].phase = "chunk"
    PROVE  IdsIn(Awaited, session.work)
  <1>1. session.ids # <<>> => IdsIn(session.ids[1], session.work)
    BY DEF Shape, IdsKnown
  <1> QED
    BY <1>1, ChunkableIdsIn DEF Awaited

\* A chunk of what a collection holds.
LEMMA ChunkOf ==
    ASSUME NEW T \in Nat, NEW col, Typed(col, T), NEW ids, IdsIn(ids, col)
    PROVE  LET part == TakeChunk(ids).part
               chunk == Fetch(col, part)
           IN  /\ part = [cards |-> part.cards, revlog |-> part.revlog]
               /\ part.cards \subseteq ids.cards /\ part.revlog \subseteq ids.revlog
               /\ TakeChunk(ids).done => part = ids
  <1>1. IsFiniteSet(ids.cards)
    BY FS_Subset, SyncAssumption DEF IdsIn
  <1>2. IsFiniteSet(ids.revlog)
    <2>1. ids.revlog \in SUBSET (1..T)
      BY DEF IdsIn, Typed
    <2>2. IsFiniteSet(1..T)
      BY FS_Interval
    <2> QED
      BY <2>1, <2>2, FS_Subset
  <1>3. ids = [cards |-> ids.cards, revlog |-> ids.revlog]
    BY DEF IdsIn
  <1> QED
    BY <1>1, <1>2, <1>3, TakeChunkIs

LEMMA IsSending ==
    ASSUME NEW x, NEW newer, NEW usn, NEW work, NEW ids,
           x = [phase |-> "apply chunk", newer |-> newer, server_usn |-> usn,
                work |-> work, ids |-> ids]
    PROVE  /\ DOMAIN x = SyncFields("apply chunk") /\ x.phase = "apply chunk"
           /\ x.server_usn = usn /\ x.work = work /\ x.ids = ids
  BY DEF SyncFields

LEMMA FetchChunkIs ==
    ASSUME Shape, NEW c \in Clients, FetchChunk(c)
    PROVE  LET s == syncing[c]
               next == syncing'[c]
               w == s.work
               z == session.work
               part == TakeChunk(Awaited).part
               chunk == Fetch(z, part)
           IN  /\ OnlySync(c)
               /\ s.phase = "chunk" /\ InSession(c)
               /\ SameSession /\ session'.work = z
               /\ session'.ids = <<Rest(Awaited, part)>>
               /\ IdsIn(Rest(Awaited, part), z)
               /\ part.cards \subseteq Awaited.cards /\ part.revlog \subseteq Awaited.revlog
               /\ DOMAIN next = SyncFields(next.phase) /\ next.server_usn = s.server_usn
               /\ Typed(next.work, now)
               /\ DOMAIN chunk.cards = part.cards
               /\ \A o \in part.cards : chunk.cards[o] = z.rows[o]
               /\ DOMAIN chunk.revlog = part.revlog
               /\ \A e \in part.revlog : chunk.revlog[e] = z.revlog[e]
               /\ TookRows(next.work, w, chunk.cards, NewerCards(w, chunk.cards, Pending))
               /\ TookReviews(next.work, w, chunk.revlog)
               /\ next.work.conf = w.conf
               /\ \/ next.phase = "chunk"
                  \/ /\ next.phase = "apply chunk"
                     /\ next.ids = ChunkableIds(next.work, Pending)
                     /\ part = Awaited
  <1> DEFINE s == syncing[c]
             w == s.work
             z == session.work
             ids == Awaited
             part == TakeChunk(ids).part
             chunk == Fetch(z, part)
             r == ApplyChunk(w, chunk, Pending)
  <1>1. s.phase = "chunk" /\ InSession(c)
    BY DEF FetchChunk
  <1>2. s.server_usn \in Nat /\ Typed(w, now) /\ DOMAIN s = SyncFields("chunk")
    BY <1>1, SyncOf
  <1>3. DOMAIN session = SessionFields /\ Typed(z, now)
    BY <1>1, SessionOf
  <1>4. IdsIn(ids, z)
    BY <1>1, AwaitedIn
  <1>5. /\ OnlySync(c)
        /\ session' = [session EXCEPT !.ids = <<Rest(ids, part)>>]
        /\ syncing'[c] = IF TakeChunk(ids).done
                         THEN [phase |-> "apply chunk", newer |-> s.newer,
                               server_usn |-> s.server_usn, work |-> r,
                               ids |-> ChunkableIds(r, Pending)]
                         ELSE [s EXCEPT !.work = r]
    BY DEF FetchChunk, OnlySync, Shape, Awaited
  <1>6. now \in Nat
    BY DEF Shape
  <1>7. part = [cards |-> part.cards, revlog |-> part.revlog]
        /\ part.cards \subseteq ids.cards /\ part.revlog \subseteq ids.revlog
        /\ (TakeChunk(ids).done => part = ids)
    BY <1>3, <1>4, <1>6, ChunkOf
  <1> HIDE DEF part, ids
  <1>8. part.cards \subseteq DOMAIN z.rows /\ part.revlog \subseteq DOMAIN z.revlog
        /\ IdsIn(Rest(ids, part), z)
    BY <1>4, <1>7 DEF IdsIn, Rest
  <1>9. IsRows(chunk.cards, now) /\ DOMAIN chunk.cards = part.cards
        /\ (\A k \in part.cards : chunk.cards[k] = z.rows[k])
        /\ IsTombs(chunk.revlog) /\ DOMAIN chunk.revlog = part.revlog
        /\ (\A e \in part.revlog : chunk.revlog[e] = z.revlog[e])
        /\ DOMAIN chunk.revlog \subseteq 1..now
    BY <1>3, <1>8, FetchIs
  <1> HIDE DEF chunk
  <1>10. Typed(r, now) /\ TookRows(r, w, chunk.cards, NewerCards(w, chunk.cards, Pending))
         /\ TookReviews(r, w, chunk.revlog) /\ r.conf = w.conf
    BY <1>2, <1>9, ApplyChunkIs
  <1> HIDE DEF r
  <1>11. SameSession /\ session'.work = z /\ session'.ids = <<Rest(ids, part)>>
    BY <1>3, <1>5 DEF SameSession, SessionFields
  <1>12. CASE TakeChunk(ids).done
    <2>1. syncing'[c] = [phase |-> "apply chunk", newer |-> s.newer,
                         server_usn |-> s.server_usn, work |-> r,
                         ids |-> ChunkableIds(r, Pending)]
      BY <1>5, <1>12
    <2> DEFINE left == ChunkableIds(r, Pending)
    <2> HIDE DEF left
    <2>3. syncing'[c] = [phase |-> "apply chunk", newer |-> s.newer,
                         server_usn |-> s.server_usn, work |-> r, ids |-> left]
      BY <2>1 DEF left
    <2> DEFINE x == syncing'[c]  newer == s.newer  usn == s.server_usn
    <2>5. x = [phase |-> "apply chunk", newer |-> newer, server_usn |-> usn, work |-> r, ids |-> left]
      BY <2>3
    <2> HIDE DEF x, newer, usn
    <2>6. DOMAIN x = SyncFields("apply chunk") /\ x.phase = "apply chunk"
          /\ x.server_usn = usn /\ x.work = r /\ x.ids = left
      BY ONLY <2>5, IsSending
    <2>2. DOMAIN syncing'[c] = SyncFields("apply chunk") /\ syncing'[c].phase = "apply chunk"
          /\ syncing'[c].server_usn = s.server_usn /\ syncing'[c].work = r
          /\ syncing'[c].ids = left
      BY <2>6 DEF x, usn
    <2> QED
      BY <1>1, <1>5, <1>7, <1>8, <1>9, <1>10, <1>11, <1>12, <2>2 DEF part, ids, chunk, left
  <1>13. CASE ~TakeChunk(ids).done
    <2>1. syncing'[c] = [s EXCEPT !.work = r]
      BY <1>5, <1>13
    <2>2. DOMAIN syncing'[c] = SyncFields("chunk") /\ syncing'[c].phase = "chunk"
          /\ syncing'[c].server_usn = s.server_usn /\ syncing'[c].work = r
      BY <1>1, <1>2, <2>1 DEF SyncFields
    <2> QED
      BY <1>1, <1>5, <1>7, <1>8, <1>9, <1>10, <1>11, <2>2 DEF part, ids, chunk
  <1> QED
    BY <1>12, <1>13

LEMMA SendChunkIs ==
    ASSUME Shape, NEW c \in Clients, SendChunk(c)
    PROVE  LET s == syncing[c]
               next == syncing'[c]
               w == s.work
               z == session.work
               part == TakeChunk(s.ids).part
           IN  /\ OnlySync(c)
               /\ s.phase = "apply chunk" /\ InSession(c)
               /\ SameSession /\ session'.ids = session.ids
               /\ part.cards \subseteq s.ids.cards /\ part.revlog \subseteq s.ids.revlog
               /\ IdsIn(s.ids, w) /\ s.ids.cards \subseteq Cards
               /\ DOMAIN next = SyncFields(next.phase) /\ next.server_usn = s.server_usn
               /\ Typed(next.work, now) /\ Typed(session'.work, now)
               /\ MarkedRows(next.work.rows, w.rows, part.cards, s.server_usn)
               /\ MarkedTombs(next.work.revlog, w.revlog, part.revlog, s.server_usn)
               /\ next.work.graves = w.graves /\ next.work.conf = w.conf
               /\ next.work.mod = w.mod /\ next.work.scm = w.scm /\ next.work.usn = w.usn
               /\ \E sent :
                    /\ IsRows(sent.cards, now) /\ DOMAIN sent.cards = part.cards
                    /\ \A o \in part.cards : sent.cards[o] = next.work.rows[o]
                    /\ DOMAIN sent.revlog = part.revlog
                    /\ \A e \in part.revlog : sent.revlog[e] = next.work.revlog[e]
                    /\ TookRows(session'.work, z, sent.cards,
                                NewerCards(z, sent.cards, session.client_usn))
                    /\ TookReviews(session'.work, z, sent.revlog)
               /\ session'.work.conf = z.conf
               /\ \/ next.phase = "sanity" /\ part = s.ids
                  \/ next.phase = "apply chunk" /\ next.ids = Rest(s.ids, part)
  <1> DEFINE s == syncing[c]
             w == s.work
             z == session.work
             ids == s.ids
             usn == s.server_usn
             part == TakeChunk(ids).part
             marked == [w EXCEPT !.rows = WithUsn(@, part.cards, usn),
                                 !.revlog = WithUsn(@, part.revlog, usn)]
             chunk == Fetch(marked, part)
             r == ApplyChunk(z, chunk, session.client_usn)
  <1>1. s.phase = "apply chunk" /\ InSession(c)
    BY DEF SendChunk
  <1>2. usn \in Nat /\ Typed(w, now) /\ DOMAIN s = SyncFields("apply chunk") /\ IdsIn(ids, w)
    BY <1>1, SyncOf
  <1>3. DOMAIN session = SessionFields /\ Typed(z, now)
    BY <1>1, SessionOf
  <1>4. /\ OnlySync(c)
        /\ session' = [session EXCEPT !.work = r]
        /\ syncing'[c] = IF TakeChunk(ids).done
                         THEN [phase |-> "sanity", newer |-> s.newer,
                               server_usn |-> s.server_usn, work |-> marked]
                         ELSE [s EXCEPT !.work = marked, !.ids = Rest(@, part)]
    BY DEF SendChunk, OnlySync, Shape
  <1>5. now \in Nat
    BY DEF Shape
  <1>6. part = [cards |-> part.cards, revlog |-> part.revlog]
        /\ part.cards \subseteq ids.cards /\ part.revlog \subseteq ids.revlog
        /\ (TakeChunk(ids).done => part = ids)
    BY <1>2, <1>5, ChunkOf
  <1> HIDE DEF part, ids
  <1>7. part.cards \subseteq DOMAIN w.rows /\ part.revlog \subseteq DOMAIN w.revlog
        /\ ids.cards \subseteq Cards
    BY <1>2, <1>6 DEF IdsIn
  <1>8. /\ Typed(marked, now)
        /\ MarkedRows(marked.rows, w.rows, part.cards, usn)
        /\ MarkedTombs(marked.revlog, w.revlog, part.revlog, usn)
        /\ marked.graves = w.graves /\ marked.conf = w.conf
        /\ marked.mod = w.mod /\ marked.scm = w.scm /\ marked.usn = w.usn
    <2> DEFINE t == w.rows  v == w.revlog
    <2>1. DOMAIN marked = Fields
          /\ marked.rows = WithUsn(t, part.cards, usn) /\ marked.revlog = WithUsn(v, part.revlog, usn)
          /\ marked.graves = w.graves /\ marked.mod = w.mod /\ marked.scm = w.scm
          /\ marked.usn = w.usn /\ marked.conf = w.conf
      BY <1>2 DEF Typed, Fields
    <2>2. IsRows(t, now) /\ part.cards \subseteq DOMAIN t /\ usn \in Usns
          /\ IsTombs(v) /\ part.revlog \subseteq DOMAIN v
      BY <1>2, <1>7 DEF Typed, Usns
    <2> HIDE DEF t, v, usn, marked
    <2>3. IsRows(WithUsn(t, part.cards, usn), now)
          /\ MarkedRows(WithUsn(t, part.cards, usn), t, part.cards, usn)
      BY <2>2, WithUsnRows
    <2>4. IsTombs(WithUsn(v, part.revlog, usn))
          /\ MarkedTombs(WithUsn(v, part.revlog, usn), v, part.revlog, usn)
      BY <2>2, WithUsnTombs
    <2>5. Typed(marked, now)
      BY <1>2, <2>1, <2>3, <2>4 DEF Typed, v, MarkedRows, MarkedTombs
    <2>6. MarkedRows(marked.rows, t, part.cards, usn) /\ MarkedTombs(marked.revlog, v, part.revlog, usn)
      BY <2>1, <2>3, <2>4
    <2> QED
      BY <2>1, <2>5, <2>6 DEF t, v
  <1> HIDE DEF marked
  <1>9. part.cards \subseteq DOMAIN marked.rows /\ part.revlog \subseteq DOMAIN marked.revlog
    BY <1>7, <1>8 DEF MarkedRows, MarkedTombs
  <1>10. IsRows(chunk.cards, now) /\ DOMAIN chunk.cards = part.cards
        /\ (\A k \in part.cards : chunk.cards[k] = marked.rows[k])
        /\ IsTombs(chunk.revlog) /\ DOMAIN chunk.revlog = part.revlog
        /\ (\A e \in part.revlog : chunk.revlog[e] = marked.revlog[e])
        /\ DOMAIN chunk.revlog \subseteq 1..now
    BY <1>8, <1>9, FetchIs
  <1> HIDE DEF chunk
  <1>11. Typed(r, now) /\ TookRows(r, z, chunk.cards, NewerCards(z, chunk.cards, session.client_usn))
         /\ TookReviews(r, z, chunk.revlog) /\ r.conf = z.conf
    BY <1>3, <1>10, ApplyChunkIs
  <1> HIDE DEF r
  <1>12. SameSession /\ session'.work = r /\ session'.ids = session.ids
    BY <1>3, <1>4 DEF SameSession, SessionFields
  <1>15. \E sent :
            /\ IsRows(sent.cards, now) /\ DOMAIN sent.cards = part.cards
            /\ \A o \in part.cards : sent.cards[o] = marked.rows[o]
            /\ DOMAIN sent.revlog = part.revlog
            /\ \A e \in part.revlog : sent.revlog[e] = marked.revlog[e]
            /\ TookRows(r, z, sent.cards, NewerCards(z, sent.cards, session.client_usn))
            /\ TookReviews(r, z, sent.revlog)
    BY <1>10, <1>11
  <1>13. CASE TakeChunk(ids).done
    <2>1. syncing'[c] = [phase |-> "sanity", newer |-> s.newer,
                         server_usn |-> s.server_usn, work |-> marked]
      BY <1>4, <1>13
    <2>2. DOMAIN syncing'[c] = SyncFields("sanity") /\ syncing'[c].phase = "sanity"
          /\ syncing'[c].server_usn = s.server_usn /\ syncing'[c].work = marked
      BY <2>1 DEF SyncFields
    <2>3. part = ids
      BY <1>6, <1>13
    <2>4. Typed(syncing'[c].work, now) /\ Typed(session'.work, now)
          /\ MarkedRows(syncing'[c].work.rows, w.rows, part.cards, usn)
          /\ MarkedTombs(syncing'[c].work.revlog, w.revlog, part.revlog, usn)
      BY <1>8, <1>11, <1>12, <2>2
    <2> QED
      BY <1>1, <1>2, <1>4, <1>6, <1>7, <1>8, <1>11, <1>12, <1>15, <2>2, <2>3, <2>4 DEF part, ids
  <1>14. CASE ~TakeChunk(ids).done
    <2>1. syncing'[c] = [s EXCEPT !.work = marked, !.ids = Rest(@, part)]
      BY <1>4, <1>14
    <2>2. DOMAIN syncing'[c] = SyncFields("apply chunk") /\ syncing'[c].phase = "apply chunk"
          /\ syncing'[c].server_usn = s.server_usn /\ syncing'[c].work = marked
          /\ syncing'[c].ids = Rest(ids, part)
      BY <1>1, <1>2, <2>1 DEF SyncFields, ids
    <2> QED
      BY <1>1, <1>2, <1>4, <1>6, <1>7, <1>8, <1>11, <1>12, <1>15, <2>2 DEF part, ids
  <1> QED
    BY <1>13, <1>14


-----------------------------------------------------------------------------
(* The other steps.                                                         *)

\* r is col after an edit at t: an object is new, changed or deleted, or the
\* configuration is, or the schema.
EditedAt(r, col, t) ==
    /\ \A o \in DOMAIN r.rows :
         \/ o \in DOMAIN col.rows /\ r.rows[o] = col.rows[o]
         \/ r.rows[o] = NewRow(t)
    /\ DOMAIN col.rows \subseteq DOMAIN r.rows \cup DOMAIN r.graves
    /\ DOMAIN col.graves \subseteq DOMAIN r.graves
    /\ \A o \in DOMAIN r.graves :
         \/ o \in DOMAIN col.graves /\ r.graves[o] = col.graves[o]
         \/ r.graves[o].usn = Pending
    /\ DOMAIN col.rows \cap DOMAIN col.graves = {} => DOMAIN r.rows \cap DOMAIN r.graves = {}
    /\ DOMAIN col.revlog \subseteq DOMAIN r.revlog
    /\ \A e \in DOMAIN r.revlog :
         \/ e \in DOMAIN col.revlog /\ r.revlog[e] = col.revlog[e]
         \/ r.revlog[e].usn = Pending
    /\ r.mod = t /\ r.scm \in {col.scm, t} /\ r.usn = col.usn

Edited(c) ==
    /\ syncing[c] = Idle
    /\ now' = now + 1
    /\ DOMAIN device' = Clients
    /\ \A d \in Clients \ {c} : device'[d] = device[d]
    /\ Typed(device'[c], now') /\ EditedAt(device'[c], device[c], now')
    /\ UNCHANGED <<syncing, offered, aborts, server, session>>

LEMMA NewRowIs ==
    ASSUME NEW t \in Nat \ {0}
    PROVE  /\ NewRow(t) \in [mtime : 0..t, edit : 1..t, usn : Usns]
           /\ NewRow(t).edit = t /\ NewRow(t).usn = Pending
           /\ MsPerSec = 1 => NewRow(t).mtime = t
  <1>1. MsPerSec \in Nat \ {0}
    BY SyncAssumption
  <1>2. t \div MsPerSec \in 0..t /\ (MsPerSec = 1 => t \div MsPerSec = t)
    BY <1>1
  <1> QED
    BY <1>2 DEF NewRow, Usns

\* One row of a table is set.
LEMMA JustRow ==
    ASSUME NEW T \in Nat \ {0}, NEW t, IsRows(t, T), NEW o \in Objects
    PROVE  LET r == Over(Just(o, NewRow(T)), t)
           IN  /\ IsRows(r, T) /\ DOMAIN r = DOMAIN t \cup {o}
               /\ r[o] = NewRow(T) /\ \A k \in DOMAIN t \ {o} : r[k] = t[k]
  <1> DEFINE s == Just(o, NewRow(T))
  <1>1. DOMAIN s = {o} /\ s[o] = NewRow(T) /\ IsRows(s, T)
    BY NewRowIs DEF Just, IsRows
  <1> HIDE DEF s
  <1>2. IsRows(Over(s, t), T)
    BY <1>1, OverRows
  <1>3. DOMAIN Over(s, t) = DOMAIN s \cup DOMAIN t
        /\ (\A k \in DOMAIN s : Over(s, t)[k] = s[k])
        /\ (\A k \in DOMAIN t \ DOMAIN s : Over(s, t)[k] = t[k])
    BY OverIs
  <1> QED
    BY <1>1, <1>2, <1>3 DEF s

LEMMA JustTomb ==
    ASSUME NEW t, IsTombs(t), NEW k
    PROVE  LET new == Just(k, [usn |-> Pending])
               r == Over(new, t)
               q == Over(t, new)
           IN  /\ IsTombs(r) /\ DOMAIN r = DOMAIN t \cup {k}
               /\ r[k].usn = Pending /\ \A o \in DOMAIN t \ {k} : r[o] = t[o]
               /\ IsTombs(q) /\ DOMAIN q = DOMAIN t \cup {k}
               /\ k \notin DOMAIN t => q[k].usn = Pending
               /\ \A o \in DOMAIN t : q[o] = t[o]
  <1> DEFINE s == Just(k, [usn |-> Pending])
  <1>1. DOMAIN s = {k} /\ s[k].usn = Pending /\ IsTombs(s)
    BY DEF Just, IsTombs, Usns
  <1> HIDE DEF s
  <1>2. IsTombs(Over(s, t)) /\ IsTombs(Over(t, s))
    BY <1>1, OverTombs
  <1>3. /\ DOMAIN Over(s, t) = DOMAIN s \cup DOMAIN t
        /\ \A x \in DOMAIN s : Over(s, t)[x] = s[x]
        /\ \A x \in DOMAIN t \ DOMAIN s : Over(s, t)[x] = t[x]
    BY OverIs
  <1>4. /\ DOMAIN Over(t, s) = DOMAIN t \cup DOMAIN s
        /\ \A x \in DOMAIN t : Over(t, s)[x] = t[x]
        /\ \A x \in DOMAIN s \ DOMAIN t : Over(t, s)[x] = s[x]
    BY OverIs
  <1> QED
    BY <1>1, <1>2, <1>3, <1>4 DEF s

\* What Changes leaves of a collection in which only rows, graves, reviews,
\* the configuration and the schema were set.
LEMMA ChangesIs ==
    ASSUME Shape, NEW c \in Clients, NEW col, Changes(c, col)
    PROVE  /\ syncing[c] = Idle /\ now' = now + 1 /\ now' \in Nat \ {0} /\ now <= now'
           /\ DOMAIN device' = Clients
           /\ \A d \in Clients \ {c} : device'[d] = device[d]
           /\ device'[c] = [col EXCEPT !.mod = now']
           /\ UNCHANGED <<syncing, offered, aborts, server, session>>
           /\ Typed(device[c], now')
  <1>1. now \in Nat \ {0} /\ Typed(device[c], now) /\ DOMAIN device = Clients
    BY DEF Shape
  <1>2. syncing[c] = Idle /\ now' = now + 1
        /\ device' = [device EXCEPT ![c] = [col EXCEPT !.mod = now']]
        /\ UNCHANGED <<syncing, offered, aborts, server, session>>
    BY DEF Changes
  <1>3. Typed(device[c], now')
    BY <1>1, <1>2, TypedLater
  <1> QED
    BY <1>1, <1>2, <1>3

\* col, which the edit leaves at t but for the modification time
Draft(col, d, t) ==
    /\ DOMAIN col = Fields
    /\ IsRows(col.rows, t)
    /\ IsTombs(col.graves) /\ DOMAIN col.graves \subseteq Objects
    /\ IsTombs(col.revlog) /\ DOMAIN col.revlog \subseteq 1..t
    /\ col.conf \in {d.conf, t} /\ col.scm \in {d.scm, t} /\ col.usn = d.usn
    /\ \A o \in DOMAIN col.rows :
         (o \in DOMAIN d.rows /\ col.rows[o] = d.rows[o]) \/ col.rows[o] = NewRow(t)
    /\ DOMAIN d.rows \subseteq DOMAIN col.rows \cup DOMAIN col.graves
    /\ DOMAIN d.graves \subseteq DOMAIN col.graves
    /\ \A o \in DOMAIN col.graves :
         (o \in DOMAIN d.graves /\ col.graves[o] = d.graves[o]) \/ col.graves[o].usn = Pending
    /\ DOMAIN d.rows \cap DOMAIN d.graves = {} => DOMAIN col.rows \cap DOMAIN col.graves = {}
    /\ DOMAIN d.revlog \subseteq DOMAIN col.revlog
    /\ \A e \in DOMAIN col.revlog :
         (e \in DOMAIN d.revlog /\ col.revlog[e] = d.revlog[e]) \/ col.revlog[e].usn = Pending

LEMMA DraftIs ==
    ASSUME Shape, NEW c \in Clients, NEW col, Changes(c, col), Draft(col, device[c], now')
    PROVE  Edited(c)
  <1> DEFINE d == device[c]
             t == now'
             r == device'[c]
  <1>1. /\ syncing[c] = Idle /\ t = now + 1 /\ t \in Nat \ {0}
        /\ DOMAIN device' = Clients
        /\ (\A e \in Clients \ {c} : device'[e] = device[e])
        /\ r = [col EXCEPT !.mod = t]
        /\ UNCHANGED <<syncing, offered, aborts, server, session>>
        /\ Typed(d, t)
    BY ChangesIs
  <1>2. DOMAIN r = Fields /\ r.rows = col.rows /\ r.graves = col.graves /\ r.revlog = col.revlog
        /\ r.conf = col.conf /\ r.mod = t /\ r.scm = col.scm /\ r.usn = d.usn
    BY <1>1 DEF Draft, Fields
  <1> HIDE DEF r
  <1>3. Typed(r, t)
    <2>1. r.conf \in 1..t /\ r.scm \in 1..t /\ r.mod \in 1..t /\ r.usn \in Nat
      BY <1>1, <1>2 DEF Typed, Draft
    <2> QED BY <1>2, <2>1 DEF Typed, Draft
  <1>4. EditedAt(r, d, t)
    BY <1>2 DEF EditedAt, Draft
  <1> QED
    BY <1>1, <1>3, <1>4 DEF Edited, r

\* Its parts, each with what an edit may do to it.
LEMMA DeviceLater ==
    ASSUME Shape, NEW c \in Clients, now' = now + 1
    PROVE  /\ now' \in Nat \ {0} /\ now' = now + 1
           /\ DOMAIN device[c] = Fields
           /\ IsRows(device[c].rows, now')
           /\ IsTombs(device[c].graves) /\ DOMAIN device[c].graves \subseteq Objects
           /\ IsTombs(device[c].revlog) /\ DOMAIN device[c].revlog \subseteq 1..now'
           /\ now' \notin DOMAIN device[c].revlog
  <1>1. now \in Nat \ {0} /\ Typed(device[c], now)
    BY DEF Shape
  <1>2. Typed(device[c], now')
    BY <1>1, TypedLater
  <1>3. DOMAIN device[c].revlog \subseteq 1..now
    BY <1>1 DEF Typed
  <1> QED
    BY <1>1, <1>2, <1>3 DEF Typed

LEMMA EditIs ==
    ASSUME Shape, NEW c \in Clients, NEW o, Edit(c, o)
    PROVE  Edited(c)
  <1> DEFINE d == device[c]
             rows == [d.rows EXCEPT ![o] = NewRow(now + 1)]
             col == [d EXCEPT !.rows = rows]
  <1>1. o \in DOMAIN d.rows /\ Changes(c, col) /\ now' = now + 1
    BY DEF Edit, Changes
  <1>2. now' \in Nat \ {0} /\ DOMAIN d = Fields /\ IsRows(d.rows, now')
        /\ IsTombs(d.graves) /\ DOMAIN d.graves \subseteq Objects
        /\ IsTombs(d.revlog) /\ DOMAIN d.revlog \subseteq 1..now'
    BY <1>1, DeviceLater
  <1>3. IsRows(rows, now') /\ DOMAIN rows = DOMAIN d.rows
        /\ \A k \in DOMAIN rows : rows[k] = d.rows[k] \/ rows[k] = NewRow(now')
    <2>1. NewRow(now') \in [mtime : 0..now', edit : 1..now', usn : Usns]
      BY <1>2, NewRowIs
    <2> HIDE DEF d
    <2> QED BY <1>1, <1>2, <2>1 DEF IsRows
  <1>4. DOMAIN col = Fields /\ col.rows = rows /\ col.graves = d.graves /\ col.revlog = d.revlog
        /\ col.conf = d.conf /\ col.scm = d.scm /\ col.usn = d.usn
    BY <1>2 DEF Fields
  <1> HIDE DEF rows, col
  <1>5. Draft(col, d, now')
    BY <1>2, <1>3, <1>4 DEF Draft
  <1> QED
    BY <1>1, <1>5, DraftIs

LEMMA ReviewIs ==
    ASSUME Shape, NEW c \in Clients, NEW o, Review(c, o)
    PROVE  Edited(c)
  <1> DEFINE d == device[c]
             rows == [d.rows EXCEPT ![o] = NewRow(now + 1)]
             revlog == Over(Just(now + 1, [usn |-> Pending]), d.revlog)
             col == [d EXCEPT !.rows = rows, !.revlog = revlog]
  <1>1. o \in DOMAIN d.rows /\ now' = now + 1
    BY DEF Review, Changes
  <1>2. now' \in Nat \ {0} /\ DOMAIN d = Fields /\ IsRows(d.rows, now')
        /\ IsTombs(d.graves) /\ DOMAIN d.graves \subseteq Objects
        /\ IsTombs(d.revlog) /\ DOMAIN d.revlog \subseteq 1..now'
        /\ now' \notin DOMAIN d.revlog
    BY <1>1, DeviceLater
  <1>3. IsRows(rows, now') /\ DOMAIN rows = DOMAIN d.rows
        /\ \A k \in DOMAIN rows : rows[k] = d.rows[k] \/ rows[k] = NewRow(now')
    <2>1. NewRow(now') \in [mtime : 0..now', edit : 1..now', usn : Usns]
      BY <1>2, NewRowIs
    <2> HIDE DEF d
    <2> QED BY <1>1, <1>2, <2>1 DEF IsRows
  <1>4. IsTombs(revlog) /\ DOMAIN revlog = DOMAIN d.revlog \cup {now'}
        /\ revlog[now'].usn = Pending /\ \A e \in DOMAIN d.revlog : revlog[e] = d.revlog[e]
    <2> DEFINE t == d.revlog   u == now + 1
    <2>1. IsTombs(t) /\ u \notin DOMAIN t /\ u = now'
      BY <1>1, <1>2
    <2> HIDE DEF t, u
    <2>2. LET r == Over(Just(u, [usn |-> Pending]), t)
          IN  /\ IsTombs(r) /\ DOMAIN r = DOMAIN t \cup {u}
              /\ r[u].usn = Pending /\ \A e \in DOMAIN t \ {u} : r[e] = t[e]
      BY <2>1, JustTomb
    <2> QED BY <2>1, <2>2 DEF t, u
  <1>5. Changes(c, col)
    BY DEF Review
  <1>6. DOMAIN col = Fields /\ col.rows = rows /\ col.graves = d.graves /\ col.revlog = revlog
        /\ col.conf = d.conf /\ col.scm = d.scm /\ col.usn = d.usn
    BY <1>2 DEF Fields
  <1> HIDE DEF rows, revlog, col
  <1>7. DOMAIN revlog \subseteq 1..now'
    BY <1>2, <1>4
  <1>8. \A e \in DOMAIN revlog :
          (e \in DOMAIN d.revlog /\ revlog[e] = d.revlog[e]) \/ revlog[e].usn = Pending
    BY <1>4
  <1>9. Draft(col, d, now')
    BY <1>2, <1>3, <1>4, <1>6, <1>7, <1>8 DEF Draft
  <1> QED
    BY <1>5, <1>9, DraftIs

LEMMA AddIs ==
    ASSUME Shape, NEW c \in Clients, NEW o \in Objects, Add(c, o)
    PROVE  Edited(c)
  <1> DEFINE d == device[c]
             rows == Over(Just(o, NewRow(now + 1)), d.rows)
             col == [d EXCEPT !.rows = rows]
  <1>1. o \notin DOMAIN d.rows /\ o \notin DOMAIN d.graves /\ Changes(c, col) /\ now' = now + 1
    BY DEF Add, Changes
  <1>2. now' \in Nat \ {0} /\ DOMAIN d = Fields /\ IsRows(d.rows, now')
        /\ IsTombs(d.graves) /\ DOMAIN d.graves \subseteq Objects
        /\ IsTombs(d.revlog) /\ DOMAIN d.revlog \subseteq 1..now'
    BY <1>1, DeviceLater
  <1>3. IsRows(rows, now') /\ DOMAIN rows = DOMAIN d.rows \cup {o}
        /\ rows[o] = NewRow(now') /\ \A k \in DOMAIN d.rows : rows[k] = d.rows[k]
    <2> DEFINE t == d.rows   u == now + 1
    <2>1. IsRows(t, u) /\ o \notin DOMAIN t /\ u = now' /\ u \in Nat \ {0}
      BY <1>1, <1>2
    <2> HIDE DEF t, u
    <2>2. LET r == Over(Just(o, NewRow(u)), t)
          IN  /\ IsRows(r, u) /\ DOMAIN r = DOMAIN t \cup {o}
              /\ r[o] = NewRow(u) /\ \A k \in DOMAIN t \ {o} : r[k] = t[k]
      BY <2>1, JustRow
    <2> QED BY <2>1, <2>2 DEF t, u
  <1>4. DOMAIN col = Fields /\ col.rows = rows /\ col.graves = d.graves /\ col.revlog = d.revlog
        /\ col.conf = d.conf /\ col.scm = d.scm /\ col.usn = d.usn
    BY <1>2 DEF Fields
  <1> HIDE DEF rows, col
  <1>5. Draft(col, d, now')
    BY <1>1, <1>2, <1>3, <1>4 DEF Draft
  <1> QED
    BY <1>1, <1>5, DraftIs

LEMMA DeleteIs ==
    ASSUME Shape, NEW c \in Clients, NEW o \in Objects, Delete(c, o)
    PROVE  Edited(c)
  <1> DEFINE d == device[c]
             rows == Without(d.rows, {o})
             graves == Over(d.graves, Just(o, [usn |-> Pending]))
             col == [d EXCEPT !.rows = rows, !.graves = graves]
  <1>1. o \in DOMAIN d.rows /\ Changes(c, col) /\ now' = now + 1
    BY DEF Delete, Changes
  <1>2. now' \in Nat \ {0} /\ DOMAIN d = Fields /\ IsRows(d.rows, now')
        /\ IsTombs(d.graves) /\ DOMAIN d.graves \subseteq Objects
        /\ IsTombs(d.revlog) /\ DOMAIN d.revlog \subseteq 1..now'
    BY <1>1, DeviceLater
  <1>3. IsRows(rows, now') /\ DOMAIN rows = DOMAIN d.rows \ {o}
        /\ \A k \in DOMAIN rows : rows[k] = d.rows[k]
    <2>1. IsRows(rows, now')
      BY <1>2, WithoutRows
    <2>2. DOMAIN rows = DOMAIN d.rows \ {o} /\ \A k \in DOMAIN d.rows \ {o} : rows[k] = d.rows[k]
      BY WithoutIs
    <2> QED BY <2>1, <2>2
  <1>4. IsTombs(graves) /\ DOMAIN graves = DOMAIN d.graves \cup {o}
        /\ (o \notin DOMAIN d.graves => graves[o].usn = Pending)
        /\ \A k \in DOMAIN d.graves : graves[k] = d.graves[k]
    <2> DEFINE t == d.graves
    <2>1. IsTombs(t)
      BY <1>2
    <2> HIDE DEF t
    <2>2. LET q == Over(t, Just(o, [usn |-> Pending]))
          IN  /\ IsTombs(q) /\ DOMAIN q = DOMAIN t \cup {o}
              /\ o \notin DOMAIN t => q[o].usn = Pending
              /\ \A k \in DOMAIN t : q[k] = t[k]
      BY <2>1, JustTomb
    <2> QED BY <2>1, <2>2 DEF t
  <1>5. DOMAIN col = Fields /\ col.rows = rows /\ col.graves = graves /\ col.revlog = d.revlog
        /\ col.conf = d.conf /\ col.scm = d.scm /\ col.usn = d.usn
    BY <1>2 DEF Fields
  <1> HIDE DEF rows, graves, col
  <1>6. Draft(col, d, now')
    BY <1>1, <1>2, <1>3, <1>4, <1>5 DEF Draft
  <1> QED
    BY <1>1, <1>6, DraftIs

LEMMA SettingIs ==
    ASSUME Shape, NEW c \in Clients, Configure(c) \/ ForceOneWay(c)
    PROVE  Edited(c)
  <1> DEFINE d == device[c]
  <1>1. now' = now + 1
    BY DEF Configure, ForceOneWay, Changes
  <1>2. now' \in Nat \ {0} /\ now' = now + 1 /\ DOMAIN d = Fields /\ IsRows(d.rows, now')
        /\ IsTombs(d.graves) /\ DOMAIN d.graves \subseteq Objects
        /\ IsTombs(d.revlog) /\ DOMAIN d.revlog \subseteq 1..now'
    BY <1>1, DeviceLater
  <1>3. PICK col : /\ Changes(c, col)
                   /\ \/ col = [d EXCEPT !.conf = now + 1]
                      \/ col = [d EXCEPT !.scm = now + 1]
    BY DEF Configure, ForceOneWay
  <1>4. DOMAIN col = Fields /\ col.rows = d.rows /\ col.graves = d.graves /\ col.revlog = d.revlog
        /\ col.conf \in {d.conf, now'} /\ col.scm \in {d.scm, now'} /\ col.usn = d.usn
    BY <1>2, <1>3 DEF Fields
  <1>5. Draft(col, d, now')
    BY <1>2, <1>4 DEF Draft
  <1> QED
    BY <1>3, <1>5, DraftIs

LEMMA UsersIs ==
    ASSUME Shape, NEW c \in Clients, Users(c)
    PROVE  Edited(c)
  <1>1. CASE \E o \in Objects : Edit(c, o) \/ Add(c, o) \/ Delete(c, o)
    BY <1>1, EditIs, AddIs, DeleteIs
  <1>2. CASE \E card \in Cards : Review(c, card)
    BY <1>2, ReviewIs
  <1>3. CASE Configure(c) \/ ForceOneWay(c)
    BY <1>3, SettingIs
  <1> QED
    BY <1>1, <1>2, <1>3 DEF Users

-----------------------------------------------------------------------------
\* A sync of c begins, with numbers that agree.
Begins(c) ==
    /\ syncing[c] = Idle
    /\ DOMAIN syncing' = Clients
    /\ \A d \in Clients \ {c} : syncing'[d] = syncing[d]
    /\ UNCHANGED <<now, device, server, aborts>>
    /\ device[c].scm = server.scm /\ device[c].mod # server.mod
    /\ offered' = [offered EXCEPT ![c] = {}]
    /\ session' = Nobody
    /\ DOMAIN syncing'[c] = SyncFields("start") /\ syncing'[c].phase = "start"
    /\ syncing'[c].server_usn = server.usn /\ syncing'[c].work = device[c]

LEMMA MetaIs ==
    ASSUME Shape, NEW c \in Clients, Meta(c)
    PROVE  Drops \/ Begins(c)
  <1>1. DOMAIN syncing = Clients
    BY DEF Shape
  <1>2. CASE UNCHANGED syncing
    BY <1>1, <1>2 DEF Meta, Drops
  <1>3. CASE ~UNCHANGED syncing
    <2> DEFINE next == [phase |-> "start", newer |-> device[c].mod > server.mod,
                        server_usn |-> server.usn, work |-> device[c]]
    <2>1. /\ syncing' = [syncing EXCEPT ![c] = next]
          /\ UNCHANGED <<now, device, server, aborts>>
          /\ device[c].scm = server.scm /\ device[c].mod # server.mod
          /\ offered' = [offered EXCEPT ![c] = {}]
          /\ session' = Nobody /\ syncing[c] = Idle
      BY <1>3 DEF Meta
    <2>2. DOMAIN next = SyncFields("start") /\ next.phase = "start"
          /\ next.server_usn = server.usn /\ next.work = device[c]
      BY DEF SyncFields
    <2> HIDE DEF next
    <2>3. DOMAIN syncing' = Clients /\ syncing'[c] = next
          /\ \A d \in Clients \ {c} : syncing'[d] = syncing[d]
      BY <1>1, <2>1
    <2> QED
      BY <2>1, <2>2, <2>3 DEF Begins
  <1> QED
    BY <1>2, <1>3

\* The check passes.
Checks(c) ==
    /\ OnlySync(c)
    /\ syncing[c].phase = "sanity" /\ InSession(c)
    /\ UNCHANGED session
    /\ DOMAIN syncing'[c] = SyncFields("finish") /\ syncing'[c].phase = "finish"
    /\ syncing'[c].server_usn = syncing[c].server_usn
    /\ syncing'[c].work = syncing[c].work

LEMMA SanityCheckIs ==
    ASSUME Shape, NEW c \in Clients, SanityCheck(c)
    PROVE  Checks(c) /\ NothingPending(syncing[c].work) /\ NothingPending(session.work)
  <1> DEFINE s == syncing[c]
  <1>1. s.phase = "sanity" /\ InSession(c)
    BY DEF SanityCheck
  <1>2. DOMAIN s = SyncFields("sanity") /\ DOMAIN syncing = Clients
    BY <1>1, SyncOf DEF Shape
  <1>3. OnlySync(c) /\ UNCHANGED session /\ syncing'[c] = [s EXCEPT !.phase = "finish"]
    BY <1>2 DEF SanityCheck, OnlySync
  <1>4. DOMAIN syncing'[c] = SyncFields("finish") /\ syncing'[c].phase = "finish"
        /\ syncing'[c].server_usn = s.server_usn /\ syncing'[c].work = s.work
    BY <1>2, <1>3 DEF SyncFields
  <1> QED
    BY <1>1, <1>3, <1>4 DEF Checks, SanityCheck, IsSane

\* The check fails, and forces a one-way sync.
CheckFails(c) ==
    /\ syncing[c].phase = "sanity" /\ InSession(c) /\ ~IsSane(c)
    /\ now' = now + 1
    /\ UNCHANGED <<offered, server>>
    /\ DOMAIN device' = Clients
    /\ \A d \in Clients \ {c} : device'[d] = device[d]
    /\ Typed(device'[c], now') /\ device'[c].scm = now'
    /\ device'[c].rows = device[c].rows /\ device'[c].graves = device[c].graves
    /\ device'[c].revlog = device[c].revlog /\ device'[c].mod = device[c].mod
    /\ device'[c].conf = device[c].conf /\ device'[c].usn = device[c].usn
    /\ DOMAIN syncing' = Clients /\ syncing'[c] = Idle
    /\ \A d \in Clients \ {c} : syncing'[d] = syncing[d]
    /\ SameSession /\ session'.work = server /\ session'.ids = session.ids
    /\ aborts' = aborts \cup {c}

LEMMA SanityCheckFailsIs ==
    ASSUME Shape, NEW c \in Clients, SanityCheckFails(c)
    PROVE  CheckFails(c)
  <1> DEFINE d == device[c]
             r == device'[c]
  <1>1. syncing[c].phase = "sanity" /\ InSession(c) /\ ~IsSane(c) /\ now' = now + 1
        /\ UNCHANGED <<offered, server>> /\ aborts' = aborts \cup {c}
        /\ session' = [session EXCEPT !.work = server]
        /\ syncing' = [syncing EXCEPT ![c] = Idle]
        /\ device' = [device EXCEPT ![c] = [d EXCEPT !.scm = now']]
    BY DEF SanityCheckFails
  <1>2. DOMAIN session = SessionFields
    BY <1>1, SessionOf
  <1>3. now \in Nat \ {0} /\ DOMAIN device = Clients /\ DOMAIN syncing = Clients /\ Typed(d, now)
    BY DEF Shape
  <1>4. now' \in 1..now' /\ Typed(d, now')
    BY <1>1, <1>3, TypedLater
  <1>5. r = [d EXCEPT !.scm = now'] /\ DOMAIN device' = Clients /\ DOMAIN syncing' = Clients
        /\ syncing'[c] = Idle
        /\ \A e \in Clients \ {c} : device'[e] = device[e] /\ syncing'[e] = syncing[e]
    BY <1>1, <1>3
  <1>6. SameSession /\ session'.work = server /\ session'.ids = session.ids
    BY <1>1, <1>2 DEF SameSession, SessionFields
  <1>7. DOMAIN r = Fields /\ r.scm = now' /\ r.rows = d.rows /\ r.graves = d.graves
        /\ r.revlog = d.revlog /\ r.mod = d.mod /\ r.conf = d.conf /\ r.usn = d.usn
    BY <1>4, <1>5 DEF Typed, Fields
  <1> HIDE DEF r
  <1>8. Typed(r, now')
    BY <1>4, <1>7 DEF Typed
  <1> QED
    BY <1>1, <1>5, <1>6, <1>7, <1>8 DEF CheckFails, r

\* The server's last request is done: it has committed.
Ends(c) ==
    /\ syncing[c].phase = "finish" /\ InSession(c) /\ NobodyComparing(c)
    /\ now' \in {now, now + 1}
    /\ session' = Nobody /\ UNCHANGED offered
    /\ Typed(server', now')
    /\ Ended(server', session.work, session.work.usn + 1, server'.mod)
    /\ \/ now' = now + 1 /\ server'.mod = now'
       \/ now' = now /\ server'.mod = server.mod /\ "crash in finish" \in Faults
    /\ DOMAIN syncing' = Clients /\ syncing'[c] = Idle
    /\ \A d \in Clients \ {c} : syncing'[d] = syncing[d]
    /\ DOMAIN device' = Clients
    /\ \A d \in Clients \ {c} : device'[d] = device[d]
    /\ aborts' \subseteq Clients

\* The client has committed too, or it has not.
EndsWell(c) ==
    /\ Typed(device'[c], now') /\ server'.mod = now' /\ now' = now + 1
    /\ Ended(device'[c], syncing[c].work, syncing[c].server_usn + 1, now')
    /\ UNCHANGED aborts
EndsBadly(c) == UNCHANGED device

LEMMA FinishOf ==
    ASSUME Shape, NEW c \in Clients, syncing[c].phase = "finish", InSession(c)
    PROVE  /\ DOMAIN syncing = Clients /\ DOMAIN device = Clients /\ aborts \subseteq Clients
           /\ now \in Nat \ {0} /\ syncing[c].server_usn \in Nat
           /\ \A t \in {now, now + 1} : Typed(session.work, t) /\ Typed(syncing[c].work, t)
           /\ server.mod \in 1..now
  <1>1. Typed(syncing[c].work, now) /\ syncing[c].server_usn \in Nat
    BY SyncOf
  <1>2. Typed(session.work, now)
    BY SessionOf
  <1>3. now \in Nat \ {0} /\ DOMAIN syncing = Clients /\ DOMAIN device = Clients
        /\ aborts \subseteq Clients /\ server.mod \in 1..now
    BY DEF Shape, Typed
  <1>4. \A t \in {now, now + 1} : Typed(session.work, t) /\ Typed(syncing[c].work, t)
    BY <1>1, <1>2, <1>3, TypedLater
  <1> QED
    BY <1>1, <1>3, <1>4

LEMMA FinishIs ==
    ASSUME Shape, NEW c \in Clients, Finish(c)
    PROVE  Ends(c) /\ EndsWell(c)
  <1> DEFINE w == syncing[c].work
             usn == syncing[c].server_usn + 1
             t == now'
             r == device'[c]
  <1>1. /\ syncing[c].phase = "finish" /\ InSession(c) /\ NobodyComparing(c)
        /\ t = now + 1 /\ server' = Finished(session.work, t) /\ session' = Nobody
        /\ device' = [device EXCEPT ![c] = [w EXCEPT !.usn = usn, !.mod = t]]
        /\ syncing' = [syncing EXCEPT ![c] = Idle]
        /\ UNCHANGED <<offered, aborts>>
    BY DEF Finish
  <1>2. /\ DOMAIN syncing = Clients /\ DOMAIN device = Clients /\ aborts \subseteq Clients
        /\ now \in Nat \ {0} /\ syncing[c].server_usn \in Nat
        /\ Typed(session.work, t) /\ Typed(w, t)
    BY <1>1, FinishOf
  <1>3. t \in 1..t
    BY <1>1, <1>2
  <1>4. Typed(server', t) /\ Ended(server', session.work, session.work.usn + 1, t)
    BY <1>1, <1>2, <1>3, FinishedIs
  <1>5. /\ DOMAIN r = Fields /\ r.rows = w.rows /\ r.graves = w.graves /\ r.revlog = w.revlog
        /\ r.conf = w.conf /\ r.scm = w.scm /\ r.mod = t /\ r.usn = usn
    BY <1>1, <1>2 DEF Typed, Fields
  <1>6. /\ DOMAIN syncing' = Clients /\ DOMAIN device' = Clients /\ syncing'[c] = Idle
        /\ \A d \in Clients \ {c} : syncing'[d] = syncing[d] /\ device'[d] = device[d]
    BY <1>1, <1>2
  <1> HIDE DEF r
  <1>7. Typed(r, t)
    BY <1>2, <1>3, <1>5 DEF Typed
  <1>8. Ended(r, w, usn, t)
    BY <1>5 DEF Ended
  <1>9. server'.mod = t
    BY <1>4 DEF Ended
  <1> QED
    BY <1>1, <1>2, <1>4, <1>6, <1>7, <1>8, <1>9 DEF Ends, EndsWell, r

LEMMA FinishLostIs ==
    ASSUME Shape, NEW c \in Clients, FinishLost(c)
    PROVE  Ends(c) /\ EndsBadly(c)
  <1> DEFINE t == now'
  <1>1. /\ syncing[c].phase = "finish" /\ InSession(c) /\ NobodyComparing(c)
        /\ t = now + 1 /\ server' = Finished(session.work, t) /\ session' = Nobody
        /\ syncing' = [syncing EXCEPT ![c] = Idle] /\ aborts' = aborts \cup {c}
        /\ UNCHANGED <<device, offered>>
    BY DEF FinishLost, GivesUp
  <1>2. /\ DOMAIN syncing = Clients /\ DOMAIN device = Clients /\ aborts \subseteq Clients
        /\ now \in Nat \ {0} /\ Typed(session.work, t)
    BY <1>1, FinishOf
  <1>3. t \in 1..t
    BY <1>1, <1>2
  <1>4. Typed(server', t) /\ Ended(server', session.work, session.work.usn + 1, t)
    BY <1>1, <1>2, <1>3, FinishedIs
  <1>5. server'.mod = t
    BY <1>4 DEF Ended
  <1> QED
    BY <1>1, <1>2, <1>4, <1>5 DEF Ends, EndsBadly

LEMMA CrashInFinishIs ==
    ASSUME Shape, NEW c \in Clients, CrashInFinish(c)
    PROVE  Ends(c) /\ EndsBadly(c)
  <1>1. /\ syncing[c].phase = "finish" /\ InSession(c) /\ NobodyComparing(c)
        /\ server' = Finished(session.work, server.mod) /\ session' = Nobody
        /\ syncing' = [syncing EXCEPT ![c] = Idle] /\ aborts' = aborts \cup {c}
        /\ UNCHANGED <<now, device, offered>> /\ "crash in finish" \in Faults
    BY DEF CrashInFinish, GivesUp
  <1>2. /\ DOMAIN syncing = Clients /\ DOMAIN device = Clients /\ aborts \subseteq Clients
        /\ now \in Nat \ {0} /\ Typed(session.work, now) /\ server.mod \in 1..now
    BY <1>1, FinishOf
  <1>3. Typed(server', now) /\ Ended(server', session.work, session.work.usn + 1, server.mod)
    BY <1>1, <1>2, FinishedIs
  <1>4. server'.mod = server.mod
    BY <1>3 DEF Ended
  <1> QED
    BY <1>1, <1>2, <1>3, <1>4 DEF Ends, EndsBadly

\* c prepares an upload, which arrives or does not.
Uploads(c) ==
    /\ syncing[c] = Idle /\ "upload" \in offered[c]
    /\ now' = now + 1
    /\ DOMAIN device' = Clients
    /\ \A d \in Clients \ {c} : device'[d] = device[d]
    /\ Typed(device'[c], now') /\ Uploaded(device'[c], device[c], now')
    /\ offered' = [offered EXCEPT ![c] = {}]
    /\ UNCHANGED <<syncing, aborts>>
    /\ \/ server' = device'[c] /\ session' = Nobody /\ NobodyComparing(c)
       \/ UNCHANGED <<server, session>>

LEMMA UploadsIs ==
    ASSUME Shape, NEW c \in Clients, FullUpload(c) \/ UploadFails(c)
    PROVE  Uploads(c)
  <1> DEFINE t == now'
             r == BeforeUpload(device[c], t)
  <1>1. /\ syncing[c] = Idle /\ "upload" \in offered[c]
        /\ t = now + 1 /\ device' = [device EXCEPT ![c] = r]
        /\ offered' = [offered EXCEPT ![c] = {}] /\ UNCHANGED <<syncing, aborts>>
    BY DEF FullUpload, UploadFails
  <1>2. \/ server' = device'[c] /\ session' = Nobody /\ NobodyComparing(c)
        \/ UNCHANGED <<server, session>>
    BY DEF FullUpload, UploadFails
  <1>3. now \in Nat \ {0} /\ Typed(device[c], now) /\ DOMAIN device = Clients
    BY DEF Shape
  <1>4. t \in 1..t /\ Typed(device[c], t)
    BY <1>1, <1>3, TypedLater
  <1>5. Typed(r, t) /\ Uploaded(r, device[c], t)
    BY <1>4, BeforeUploadIs
  <1> HIDE DEF r
  <1>6. DOMAIN device' = Clients /\ device'[c] = r
        /\ \A d \in Clients \ {c} : device'[d] = device[d]
    BY <1>1, <1>3
  <1> QED
    BY <1>1, <1>2, <1>5, <1>6 DEF Uploads

\* c gets the server's collection.
Downloads(c) ==
    /\ syncing[c] = Idle /\ "download" \in offered[c] /\ NobodyComparing(c)
    /\ now' = now + 1
    /\ Typed(server', now') /\ Ended(server', server, server.usn + 1, now')
    /\ DOMAIN device' = Clients /\ device'[c] = server'
    /\ \A d \in Clients \ {c} : device'[d] = device[d]
    /\ session' = Nobody
    /\ offered' = [offered EXCEPT ![c] = {}]
    /\ UNCHANGED <<syncing, aborts>>

LEMMA FullDownloadIs ==
    ASSUME Shape, NEW c \in Clients, FullDownload(c)
    PROVE  Downloads(c)
  <1> DEFINE t == now'
             r == Finished(server, t)
  <1>1. /\ syncing[c] = Idle /\ "download" \in offered[c] /\ NobodyComparing(c)
        /\ t = now + 1 /\ server' = r /\ device' = [device EXCEPT ![c] = server']
        /\ offered' = [offered EXCEPT ![c] = {}] /\ session' = Nobody
        /\ UNCHANGED <<syncing, aborts>>
    BY DEF FullDownload
  <1>2. now \in Nat \ {0} /\ Typed(server, now) /\ DOMAIN device = Clients
    BY DEF Shape
  <1>3. t \in 1..t /\ Typed(server, t)
    BY <1>1, <1>2, TypedLater
  <1>4. Typed(r, t) /\ Ended(r, server, server.usn + 1, t)
    BY <1>3, FinishedIs
  <1> HIDE DEF r
  <1> QED
    BY <1>1, <1>2, <1>4 DEF Downloads

LEMMA FailuresDrop ==
    ASSUME Shape, NEW c \in Clients,
           Refused(c) \/ Abort(c) \/ SyncFails(c) \/ AbortLost(c) \/ ServerRestarts \/ UNCHANGED vars
    PROVE  Drops /\ UNCHANGED offered
  <1>1. DOMAIN syncing = Clients
    BY DEF Shape
  <1> QED
    BY <1>1 DEF Refused, Abort, SyncFails, AbortLost, ServerRestarts, GivesUp, Drops, vars

\* What may become of the requests to abort, and of the offers.
LEMMA OffersTyped ==
    ASSUME Shape, [Next]_vars
    PROVE  offered' \in [Clients -> SUBSET {"upload", "download"}] /\ aborts' \subseteq Clients
  <1> USE DEF Shape
  <1>1. CASE UNCHANGED vars
    BY <1>1 DEF vars
  <1>2. CASE ServerRestarts
    BY <1>2 DEF ServerRestarts
  <1>3. ASSUME NEW c \in Clients, Users(c)
        PROVE  UNCHANGED <<offered, aborts>>
    BY <1>3 DEF Users, Edit, Add, Delete, Review, Configure, ForceOneWay, Changes
  <1>4. ASSUME NEW c \in Clients, Meta(c)
        PROVE  offered' \in [Clients -> SUBSET {"upload", "download"}] /\ aborts' = aborts
    <2> DEFINE ways == {way \in {"upload", "download"} :
                          IsEmpty(IF way = "upload" THEN device[c] ELSE server)
                            => IsEmpty(device[c]) /\ IsEmpty(server)}
    <2>1. \/ offered' = [offered EXCEPT ![c] = {}]
          \/ offered' = [offered EXCEPT ![c] = ways]
      BY <1>4 DEF Meta
    <2>2. ways \in SUBSET {"upload", "download"} /\ {} \in SUBSET {"upload", "download"}
      OBVIOUS
    <2> HIDE DEF ways
    <2>3. aborts' = aborts
      BY <1>4 DEF Meta
    <2> QED BY <2>1, <2>2, <2>3
  <1>5. ASSUME NEW c \in Clients, Proceeds(c)
        PROVE  offered' = offered /\ aborts' \in {aborts, aborts \cup {c}}
    BY <1>5 DEF Proceeds, StartSync, SendGraves, SendChanges, FetchChunk, SendChunk, SanityCheck,
                SanityCheckFails, Finish, Refused, GivesUp
  <1>6. ASSUME NEW c \in Clients, Abort(c) \/ FullUpload(c) \/ FullDownload(c) \/ Fails(c)
        PROVE  offered' \in {offered, [offered EXCEPT ![c] = {}]}
               /\ aborts' \in {aborts, aborts \cup {c}, aborts \ {c}}
    BY <1>6 DEF Abort, FullUpload, FullDownload, Fails, SyncFails, AbortLost, FinishLost,
                CrashInFinish, UploadFails, GivesUp
  <1> QED
    BY <1>1, <1>2, <1>3, <1>4, <1>5, <1>6 DEF Next

\* Every step is one of these.
Steps(c) ==
    \/ Drops \/ Edited(c) \/ Begins(c)
    \/ StartSync(c) \/ SendGraves(c) \/ SendChanges(c) \/ FetchChunk(c) \/ SendChunk(c)
    \/ Checks(c) /\ SanityCheck(c)
    \/ CheckFails(c)
    \/ Ends(c) /\ (EndsWell(c) \/ EndsBadly(c))
    \/ Uploads(c) \/ Downloads(c)

LEMMA NextIs ==
    ASSUME Shape, [Next]_vars
    PROVE  Drops \/ \E c \in Clients : Steps(c)
  <1>1. CASE UNCHANGED vars \/ ServerRestarts
    <2>1. DOMAIN syncing = Clients
      BY DEF Shape
    <2> QED BY <1>1, <2>1 DEF ServerRestarts, Drops, vars
  <1>2. ASSUME NEW c \in Clients, Users(c) \/ Meta(c) \/ Proceeds(c) \/ Abort(c)
                                  \/ FullUpload(c) \/ FullDownload(c) \/ Fails(c)
        PROVE  Steps(c)
    <2>1. CASE Users(c)
      BY <2>1, UsersIs DEF Steps
    <2>2. CASE Meta(c)
      BY <2>2, MetaIs DEF Steps
    <2>3. CASE Proceeds(c)
      BY <2>3, SanityCheckIs, SanityCheckFailsIs, FinishIs, FailuresDrop DEF Proceeds, Steps
    <2>4. CASE Abort(c) \/ FullUpload(c) \/ FullDownload(c)
      BY <2>4, FailuresDrop, UploadsIs, FullDownloadIs DEF Steps
    <2>5. CASE Fails(c)
      BY <2>5, FailuresDrop, UploadsIs, FinishLostIs, CrashInFinishIs DEF Fails, Steps
    <2> QED
      BY <1>2, <2>1, <2>2, <2>3, <2>4, <2>5
  <1> QED
    BY <1>1, <1>2 DEF Next

-----------------------------------------------------------------------------
(* The shape of the state is kept.                                          *)

LEMMA ShapeInit == Init => Shape
  <1> SUFFICES ASSUME Init PROVE Shape
    OBVIOUS
  <1>1. Start \subseteq Objects
    BY SyncAssumption
  <1>2. Typed(StartCollection, 1)
    <2> DEFINE rows == [o \in Start |-> [mtime |-> 0, edit |-> 1, usn |-> 0]]
    <2>1. IsRows(rows, 1) /\ IsTombs(Nothing) /\ DOMAIN Nothing = {}
      BY <1>1 DEF IsRows, IsTombs, Nothing, Usns
    <2>2. StartCollection = [rows |-> rows, graves |-> Nothing, revlog |-> Nothing,
                             conf |-> 1, mod |-> 1, scm |-> 1, usn |-> 1]
      BY DEF StartCollection
    <2> HIDE DEF rows
    <2>3. DOMAIN StartCollection = Fields
      BY <2>2 DEF Fields
    <2>4. StartCollection.rows = rows /\ StartCollection.graves = Nothing
          /\ StartCollection.revlog = Nothing /\ StartCollection.conf = 1
          /\ StartCollection.mod = 1 /\ StartCollection.scm = 1 /\ StartCollection.usn = 1
      BY <2>2
    <2> QED BY <2>1, <2>3, <2>4 DEF Typed
  <1> QED
    BY <1>2 DEF Init, Shape, IsSync, IsSession, IdsKnown, InSession

LEMMA LaterIs ==
    ASSUME Shape, now' \in {now, now + 1}
    PROVE  /\ now' \in Nat \ {0}
           /\ \A d \in Clients : Typed(device[d], now') /\ IsSync(syncing[d], now')
           /\ Typed(server, now') /\ IsSession(session, now')
  <1>1. now \in Nat /\ now' \in Nat \ {0} /\ now <= now'
    BY DEF Shape
  <1>2. ASSUME NEW col, Typed(col, now) PROVE Typed(col, now')
    BY <1>1, <1>2, TypedLater
  <1>3. ASSUME NEW d \in Clients PROVE Typed(device[d], now') /\ IsSync(syncing[d], now')
    BY <1>2 DEF Shape, IsSync
  <1>4. Typed(server, now') /\ IsSession(session, now')
    BY <1>2 DEF Shape, IsSession
  <1> QED
    BY <1>1, <1>3, <1>4

\* The part of Shape that is about one client.
ShapeOf(d) == Typed(device[d], now) /\ IsSync(syncing[d], now) /\ IdsKnown(d)

ShapeGoal ==
    /\ now \in Nat \ {0}
    /\ DOMAIN device = Clients /\ DOMAIN syncing = Clients
    /\ \A d \in Clients : ShapeOf(d)
    /\ Typed(server, now) /\ IsSession(session, now)

\* A request disturbs only its client and the session.
LEMMA RequestShape ==
    ASSUME Shape, NEW c \in Clients, OnlySync(c),
           DOMAIN session' = SessionFields, session'.key = c,
           session'.server_usn \in Nat, session'.client_usn \in Nat, Typed(session'.work, now),
           IsSync(syncing'[c], now),
           syncing'[c].phase # "start",
           syncing'[c].phase \in {"graves", "changes"} => session'.ids = <<>>,
           syncing'[c].phase = "chunk" /\ session'.ids # <<>> =>
             IdsIn(session'.ids[1], session'.work)
    PROVE  ShapeGoal'
  <1>1. UNCHANGED <<now, device, server>> /\ DOMAIN syncing' = Clients
        /\ \A d \in Clients \ {c} : syncing'[d] = syncing[d]
    BY DEF OnlySync
  <1>2. ASSUME NEW d \in Clients PROVE ShapeOf(d)'
    <2>1. Typed(device[d], now)' /\ IsSync(syncing[d], now)'
      BY <1>1 DEF Shape
    <2>2. IdsKnown(d)'
      BY DEF IdsKnown, InSession
    <2> QED BY <2>1, <2>2 DEF ShapeOf
  <1>3. IsSession(session, now)'
    BY <1>1 DEF IsSession
  <1> QED
    BY <1>1, <1>2, <1>3 DEF Shape, ShapeGoal

LEMMA StepShape ==
    ASSUME Shape, NEW c \in Clients, Steps(c)
    PROVE  ShapeGoal'
  <1>0. now' \in {now, now + 1} =>
          /\ now' \in Nat \ {0}
          /\ \A d \in Clients : Typed(device[d], now') /\ IsSync(syncing[d], now')
          /\ Typed(server, now') /\ IsSession(session, now')
    BY LaterIs
  <1>00. DOMAIN device = Clients /\ DOMAIN syncing = Clients /\ now \in Nat \ {0}
         /\ \A d \in Clients : Typed(device[d], now) /\ IsSync(syncing[d], now) /\ IdsKnown(d)
    BY DEF Shape
  <1>1. CASE Drops
    <2>1. ASSUME NEW d \in Clients PROVE ShapeOf(d)'
      <3>1. Typed(device[d], now)' /\ IsSync(syncing[d], now)'
        BY <1>1, <1>0, <1>00 DEF Drops, IsSync
      <3>2. IdsKnown(d)'
        BY <1>1, <1>00 DEF Drops, IdsKnown, InSession, Idle
      <3> QED BY <3>1, <3>2 DEF ShapeOf
    <2>2. IsSession(session', now')
      BY <1>1, <1>0 DEF Drops, IsSession
    <2> QED BY <1>1, <1>0, <1>00, <2>1, <2>2 DEF Drops, ShapeGoal
  <1>2. CASE Edited(c)
    <2>1. ASSUME NEW d \in Clients PROVE ShapeOf(d)'
      BY <1>2, <1>0, <1>00 DEF Edited, ShapeOf, IdsKnown, InSession
    <2> QED BY <1>2, <1>0, <1>00, <2>1 DEF Edited, ShapeGoal
  <1>3. CASE Begins(c)
    <2>1. IsSync(syncing'[c], now')
      BY <1>3, <1>0, <1>00 DEF Begins, IsSync, Typed
    <2>2. \A d \in Clients : IsSync(syncing'[d], now')
      BY <1>3, <1>0, <2>1 DEF Begins
    <2>3. \A d \in Clients : IdsKnown(d)'
      BY <1>3 DEF Begins, IdsKnown, InSession
    <2> QED BY <1>3, <1>0, <1>00, <2>2, <2>3 DEF Begins, ShapeOf, IsSession, ShapeGoal
  <1>4. CASE StartSync(c)
    <2> DEFINE s == syncing[c]  next == syncing'[c]  marked == Marked(s.work, s.server_usn)
    <2>1. /\ OnlySync(c)
          /\ s.phase = "start" /\ next.server_usn = s.server_usn
          /\ session' = [key |-> c, server_usn |-> server.usn, client_usn |-> device[c].usn,
                         client_is_newer |-> s.newer, ids |-> <<>>, work |-> server]
          /\ DOMAIN next = SyncFields(next.phase)
          /\ Typed(next.work, now)
          /\ \/ next.phase = "graves" /\ next.local = Local(s.work) /\ next.remote = Remote(c)
             \/ next.phase = "changes"
      BY <1>4, StartSyncIs
    <2>2. s.server_usn \in Nat /\ Typed(s.work, now)
      BY <2>1, SyncOf
    <2>3. Local(s.work) \subseteq Objects /\ Remote(c) \subseteq Objects
      BY <2>2, <1>0, <1>00 DEF Typed, Local, Remote, Shape
    <2>4. IsSync(next, now)
      BY <2>1, <2>2, <2>3 DEF IsSync, Works
    <2>5. DOMAIN session' = SessionFields /\ session'.key = c
          /\ session'.server_usn \in Nat /\ session'.client_usn \in Nat
          /\ Typed(session'.work, now) /\ session'.ids = <<>>
      BY <2>1 DEF SessionFields, Shape, Typed
    <2>6. next.phase \in {"graves", "changes"}
      BY <2>1
    <2> HIDE DEF next, s
    <2> QED BY <2>1, <2>4, <2>5, <2>6, RequestShape DEF next
  <1>5. CASE SendGraves(c)
    <2>1. /\ OnlySync(c) /\ InSession(c) /\ syncing[c].phase = "graves"
          /\ DOMAIN syncing'[c] = SyncFields("changes") /\ syncing'[c].phase = "changes"
          /\ syncing'[c].server_usn = syncing[c].server_usn
          /\ Typed(syncing'[c].work, now)
          /\ SameSession /\ session'.ids = session.ids /\ Typed(session'.work, now)
      BY <1>5, SendGravesIs
    <2>2. syncing[c].server_usn \in Nat
      BY <2>1, SyncOf
    <2>3. IsSync(syncing'[c], now)
      BY <2>1, <2>2 DEF IsSync, Works
    <2>4. session.key = c /\ session.server_usn \in Nat /\ session.client_usn \in Nat
      BY <2>1, SessionOf
    <2>5. session.ids = <<>>
      BY <2>1, <1>00 DEF IdsKnown
    <2> QED BY <2>1, <2>3, <2>4, <2>5, RequestShape DEF SameSession
  <1>6. CASE SendChanges(c)
    <2>1. /\ OnlySync(c) /\ InSession(c) /\ syncing[c].phase = "changes"
          /\ DOMAIN syncing'[c] = SyncFields("chunk") /\ syncing'[c].phase = "chunk"
          /\ syncing'[c].server_usn = syncing[c].server_usn
          /\ Typed(syncing'[c].work, now)
          /\ SameSession /\ session'.ids = session.ids /\ Typed(session'.work, now)
      BY <1>6, SendChangesIs
    <2>2. syncing[c].server_usn \in Nat
      BY <2>1, SyncOf
    <2>3. IsSync(syncing'[c], now)
      BY <2>1, <2>2 DEF IsSync, Works
    <2>4. session.key = c /\ session.server_usn \in Nat /\ session.client_usn \in Nat
      BY <2>1, SessionOf
    <2>5. session.ids = <<>>
      BY <2>1, <1>00 DEF IdsKnown
    <2> QED BY <2>1, <2>3, <2>4, <2>5, RequestShape DEF SameSession
  <1>7. CASE FetchChunk(c)
    <2> DEFINE rest == Rest(Awaited, TakeChunk(Awaited).part)
    <2>1. /\ OnlySync(c) /\ InSession(c) /\ syncing[c].phase = "chunk"
          /\ DOMAIN syncing'[c] = SyncFields(syncing'[c].phase)
          /\ \/ syncing'[c].phase = "chunk"
             \/ /\ syncing'[c].phase = "apply chunk"
                /\ syncing'[c].ids = ChunkableIds(syncing'[c].work, Pending)
          /\ syncing'[c].server_usn = syncing[c].server_usn
          /\ Typed(syncing'[c].work, now)
          /\ SameSession /\ session'.ids = <<rest>> /\ session'.work = session.work
          /\ IdsIn(rest, session.work)
      BY <1>7, FetchChunkIs
    <2>2. syncing[c].server_usn \in Nat
      BY <2>1, SyncOf
    <2> HIDE DEF rest
    <2>3. IsSync(syncing'[c], now)
      <3>1. syncing'[c].phase = "apply chunk" => IdsIn(syncing'[c].ids, syncing'[c].work)
        BY <2>1, ChunkableIdsIn
      <3> QED BY <2>1, <2>2, <3>1 DEF IsSync, Works
    <2>4. session.key = c /\ session.server_usn \in Nat /\ session.client_usn \in Nat
          /\ Typed(session.work, now)
      BY <2>1, SessionOf
    <2>5. session'.ids[1] = rest
      <3> DEFINE x == session'.ids
      <3>1. x = <<rest>>
        BY <2>1
      <3> HIDE DEF x
      <3>2. x[1] = rest
        BY ONLY <3>1
      <3> QED BY <3>2 DEF x
    <2>6. syncing'[c].phase \notin {"start", "graves", "changes"}
      BY <2>1
    <2> QED BY <2>1, <2>3, <2>4, <2>5, <2>6, RequestShape DEF SameSession
  <1>8. CASE SendChunk(c)
    <2> DEFINE s == syncing[c]  part == TakeChunk(s.ids).part
    <2>1. /\ OnlySync(c) /\ InSession(c) /\ s.phase = "apply chunk"
          /\ DOMAIN syncing'[c] = SyncFields(syncing'[c].phase)
          /\ \/ syncing'[c].phase = "sanity"
             \/ syncing'[c].phase = "apply chunk" /\ syncing'[c].ids = Rest(s.ids, part)
          /\ syncing'[c].server_usn = s.server_usn
          /\ Typed(syncing'[c].work, now)
          /\ IdsIn(s.ids, s.work)
          /\ MarkedRows(syncing'[c].work.rows, s.work.rows, part.cards, s.server_usn)
          /\ MarkedTombs(syncing'[c].work.revlog, s.work.revlog, part.revlog, s.server_usn)
          /\ SameSession /\ session'.ids = session.ids /\ Typed(session'.work, now)
      BY <1>8, SendChunkIs
    <2>2. s.server_usn \in Nat
      BY <2>1, SyncOf
    <2> HIDE DEF part
    <2>3. IsSync(syncing'[c], now)
      <3>1. IdsIn(Rest(s.ids, part), syncing'[c].work)
        BY <2>1 DEF IdsIn, Rest, MarkedRows, MarkedTombs
      <3> QED BY <2>1, <2>2, <3>1 DEF IsSync, Works
    <2>4. session.key = c /\ session.server_usn \in Nat /\ session.client_usn \in Nat
      BY <2>1, SessionOf
    <2>5. syncing'[c].phase \notin {"start", "graves", "changes", "chunk"}
      BY <2>1
    <2> QED BY <2>1, <2>3, <2>4, <2>5, RequestShape DEF SameSession
  <1>9. CASE Checks(c)
    <2>1. /\ OnlySync(c) /\ InSession(c) /\ syncing[c].phase = "sanity"
          /\ DOMAIN syncing'[c] = SyncFields("finish") /\ syncing'[c].phase = "finish"
          /\ syncing'[c].server_usn = syncing[c].server_usn
          /\ syncing'[c].work = syncing[c].work
          /\ session' = session
      BY <1>9 DEF Checks
    <2>2. syncing[c].server_usn \in Nat /\ Typed(syncing[c].work, now)
      BY <2>1, SyncOf
    <2>3. IsSync(syncing'[c], now)
      BY <2>1, <2>2 DEF IsSync, Works
    <2>4. session.key = c /\ session.server_usn \in Nat /\ session.client_usn \in Nat
          /\ DOMAIN session = SessionFields /\ Typed(session.work, now)
      BY <2>1, SessionOf
    <2> QED BY <2>1, <2>3, <2>4, RequestShape
  <1>10. CASE CheckFails(c)
    <2>1. session.key = c /\ session.server_usn \in Nat /\ session.client_usn \in Nat
          /\ session # Nobody
      BY <1>10, SessionOf DEF CheckFails
    <2>2. ASSUME NEW d \in Clients PROVE Typed(device[d], now)' /\ IsSync(syncing[d], now)'
      BY <1>10, <1>0 DEF CheckFails, IsSync
    <2>3. ASSUME NEW d \in Clients PROVE IdsKnown(d)'
      BY <1>10, <2>1 DEF CheckFails, SameSession, IdsKnown, InSession, Idle
    <2>4. IsSession(session', now')
      BY <1>10, <1>0, <2>1 DEF CheckFails, SameSession, IsSession
    <2> QED BY <1>10, <1>0, <2>2, <2>3, <2>4 DEF CheckFails, ShapeGoal, ShapeOf
  <1>11. CASE Ends(c) /\ (EndsWell(c) \/ EndsBadly(c))
    <2>1. ASSUME NEW d \in Clients PROVE ShapeOf(d)'
      BY <1>11, <1>0 DEF Ends, EndsWell, EndsBadly, IsSync, ShapeOf, IdsKnown, InSession
    <2> QED BY <1>11, <1>0, <2>1 DEF Ends, ShapeGoal, IsSession
  <1>12. CASE Uploads(c)
    <2>1. ASSUME NEW d \in Clients PROVE ShapeOf(d)'
      BY <1>12, <1>0, <1>00 DEF Uploads, ShapeOf, IdsKnown, InSession
    <2> QED BY <1>12, <1>0, <1>00, <2>1 DEF Uploads, ShapeGoal, IsSession
  <1>13. CASE Downloads(c)
    <2>1. ASSUME NEW d \in Clients PROVE ShapeOf(d)'
      BY <1>13, <1>0, <1>00 DEF Downloads, ShapeOf, IdsKnown, InSession
    <2> QED BY <1>13, <1>0, <1>00, <2>1 DEF Downloads, ShapeGoal, IsSession
  <1> QED
    BY <1>1, <1>2, <1>3, <1>4, <1>5, <1>6, <1>7, <1>8, <1>9, <1>10, <1>11, <1>12, <1>13 DEF Steps

LEMMA ShapeKept ==
    ASSUME Shape, [Next]_vars
    PROVE  Shape'
  <1>1. offered' \in [Clients -> SUBSET {"upload", "download"}] /\ aborts' \subseteq Clients
    BY OffersTyped
  <1>2. ShapeGoal'
    <2>1. CASE Clients = {}
      BY <2>1, NextIs, LaterIs DEF Drops, Shape, ShapeGoal, IsSession
    <2>2. CASE Clients # {}
      BY <2>2, NextIs, StepShape DEF Steps
    <2> QED BY <2>1, <2>2
  <1> QED
    BY <1>1, <1>2 DEF Shape, ShapeGoal, ShapeOf
-----------------------------------------------------------------------------
(* Reviews.                                                                 *)

\* What x no longer regards as unsent is in y.
SentReviews(x, y) ==
    \A e \in DOMAIN x.revlog : x.revlog[e].usn # Pending => e \in DOMAIN y.revlog

ReviewsSent(d) == device[d].scm = server.scm => SentReviews(device[d], server)
StartsClean(d) == syncing[d].phase = "start" => syncing[d].work = device[d]
ReviewsServed == session # Nobody =>
                   /\ session.work.scm = server.scm
                   /\ DOMAIN server.revlog \subseteq DOMAIN session.work.revlog
ReviewsWorked(d) ==
    Working(d) /\ syncing[d].work.scm = session.work.scm => SentReviews(syncing[d].work, session.work)

ReviewsInv == ReviewsServed /\ \A d \in Clients : ReviewsSent(d) /\ StartsClean(d) /\ ReviewsWorked(d)

LEMMA Stamped ==
    ASSUME Shape
    PROVE  /\ now \in Nat /\ server.scm \in 1..now /\ server.mod \in 1..now
           /\ \A d \in Clients : device[d].scm \in 1..now /\ device[d].mod \in 1..now
  BY DEF Shape, Typed

\* Steps of c's sync concern only c.
LEMMA WorkingAlone ==
    ASSUME NEW c, NEW d, session'.key = c, c # d
    PROVE  ~Working(d)'
  BY DEF Working, InSession

LEMMA WorkOf ==
    ASSUME Shape, NEW c \in Clients, InSession(c), syncing[c].phase \in Works
    PROVE  Working(c)
  BY DEF Working

LEMMA IdleWorks == Idle.phase \notin Works \cup {"start"}
  BY DEF Idle, Works

LEMMA StepReviews ==
    ASSUME Shape, ReviewsInv, NEW c \in Clients, Steps(c)
    PROVE  ReviewsInv'
  <1>0. /\ now \in Nat /\ server.scm \in 1..now
        /\ \A d \in Clients : device[d].scm \in 1..now
    BY Stamped
  <1>00. /\ ReviewsServed
         /\ \A d \in Clients : ReviewsSent(d) /\ StartsClean(d) /\ ReviewsWorked(d)
    BY DEF ReviewsInv
  <1>01. ASSUME InSession(c), syncing[c].phase \in Works
         PROVE  /\ Working(c) /\ session.key = c
                /\ session.work.scm = server.scm
                /\ DOMAIN server.revlog \subseteq DOMAIN session.work.revlog
    BY <1>01, <1>00 DEF Working, InSession, ReviewsServed
  <1>1. CASE Drops
    <2>1. ReviewsServed'
      BY <1>1, <1>00 DEF Drops, ReviewsServed
    <2>2. ASSUME NEW d \in Clients
          PROVE  ReviewsSent(d)' /\ StartsClean(d)' /\ ReviewsWorked(d)'
      <3>1. ReviewsSent(d)'
        BY <1>1, <1>00 DEF Drops, ReviewsSent
      <3>2. StartsClean(d)'
        BY <1>1, <1>00, IdleWorks DEF Drops, StartsClean
      <3>3. ReviewsWorked(d)'
        BY <1>1, <1>00, IdleWorks DEF Drops, ReviewsWorked, Working, InSession
      <3> QED BY <3>1, <3>2, <3>3
    <2> QED BY <2>1, <2>2 DEF ReviewsInv
  <1>2. CASE Edited(c)
    <2>1. ReviewsServed'
      BY <1>2, <1>00 DEF Edited, ReviewsServed
    <2>2. ASSUME NEW d \in Clients
          PROVE  ReviewsSent(d)' /\ StartsClean(d)' /\ ReviewsWorked(d)'
      <3>1. ReviewsSent(d)'
        <4>1. CASE d # c
          BY <1>2, <1>00, <4>1 DEF Edited, ReviewsSent
        <4>2. CASE d = c
          <5>1. SUFFICES ASSUME device'[c].scm = server.scm PROVE SentReviews(device'[c], server)
            BY <1>2, <4>2 DEF Edited, ReviewsSent
          <5>2. device[c].scm = server.scm
            BY <5>1, <1>2, <1>0 DEF Edited, EditedAt
          <5>3. SentReviews(device[c], server)
            BY <5>2, <1>00 DEF ReviewsSent
          <5> QED BY <5>3, <1>2 DEF Edited, EditedAt, SentReviews
        <4> QED BY <4>1, <4>2
      <3>2. StartsClean(d)'
        BY <1>2, <1>00, IdleWorks DEF Edited, StartsClean
      <3>3. ReviewsWorked(d)'
        BY <1>2, <1>00 DEF Edited, ReviewsWorked, Working, InSession
      <3> QED BY <3>1, <3>2, <3>3
    <2> QED BY <2>1, <2>2 DEF ReviewsInv
  <1>3. CASE Begins(c)
    <2>1. ReviewsServed'
      BY <1>3 DEF Begins, ReviewsServed
    <2>2. ASSUME NEW d \in Clients
          PROVE  ReviewsSent(d)' /\ StartsClean(d)' /\ ReviewsWorked(d)'
      <3>1. ReviewsSent(d)'
        BY <1>3, <1>00 DEF Begins, ReviewsSent
      <3>2. StartsClean(d)'
        BY <1>3, <1>00 DEF Begins, StartsClean
      <3>3. ReviewsWorked(d)'
        BY <1>3 DEF Begins, ReviewsWorked, Working, InSession
      <3> QED BY <3>1, <3>2, <3>3
    <2> QED BY <2>1, <2>2 DEF ReviewsInv
  \* a request of c's sync
  <1>4. ASSUME OnlySync(c), session'.key = c,
               session'.work.scm = server.scm,
               DOMAIN server.revlog \subseteq DOMAIN session'.work.revlog,
               syncing'[c].phase # "start",
               syncing'[c].work.scm = session'.work.scm => SentReviews(syncing'[c].work, session'.work)
        PROVE  ReviewsInv'
    <2>1. ReviewsServed'
      BY <1>4 DEF OnlySync, ReviewsServed
    <2>2. ASSUME NEW d \in Clients
          PROVE  ReviewsSent(d)' /\ StartsClean(d)' /\ ReviewsWorked(d)'
      <3>1. ReviewsSent(d)'
        BY <1>4, <1>00 DEF OnlySync, ReviewsSent
      <3>2. StartsClean(d)'
        BY <1>4, <1>00 DEF OnlySync, StartsClean
      <3>3. ReviewsWorked(d)'
        BY <1>4, WorkingAlone DEF ReviewsWorked
      <3> QED BY <3>1, <3>2, <3>3
    <2> QED BY <2>1, <2>2 DEF ReviewsInv
  <1>5. CASE StartSync(c)
    <2> DEFINE s == syncing[c]  next == syncing'[c]  marked == Marked(s.work, s.server_usn)
    <2>1. /\ OnlySync(c) /\ s.phase = "start"
          /\ session' = [key |-> c, server_usn |-> server.usn, client_usn |-> device[c].usn,
                         client_is_newer |-> s.newer, ids |-> <<>>, work |-> server]
          /\ MarkedSent(marked, s.work)
          /\ \/ next.phase = "graves" /\ next.work = marked
             \/ next.phase = "changes" /\ Buried(next.work, marked, Remote(c), s.server_usn)
      BY <1>5, StartSyncIs
    <2>2. session'.key = c /\ session'.work = server /\ next.phase # "start"
      BY <2>1
    <2>3. s.work = device[c]
      BY <2>1, <1>00 DEF StartsClean
    <2> HIDE DEF marked
    <2>4. next.work.revlog = device[c].revlog /\ next.work.scm = device[c].scm
      BY <2>1, <2>3 DEF MarkedSent, Buried
    <2>5. next.work.scm = server.scm => SentReviews(next.work, server)
      BY <2>4, <1>00 DEF ReviewsSent, SentReviews
    <2> QED BY <2>1, <2>2, <2>5, <1>4
  <1>6. CASE SendGraves(c)
    <2>1. /\ OnlySync(c) /\ InSession(c) /\ syncing[c].phase = "graves" /\ syncing'[c].phase = "changes"
          /\ Buried(syncing'[c].work, syncing[c].work, syncing[c].remote, syncing[c].server_usn)
          /\ Buried(session'.work, session.work, syncing[c].local, session.server_usn)
          /\ SameSession
      BY <1>6, SendGravesIs
    <2>2. session'.key = c /\ Working(c)
          /\ session.work.scm = server.scm /\ DOMAIN server.revlog \subseteq DOMAIN session.work.revlog
      BY <2>1, <1>01 DEF SameSession, Works
    <2>3. /\ syncing'[c].work.scm = syncing[c].work.scm /\ session'.work.scm = session.work.scm
          /\ syncing'[c].work.revlog = syncing[c].work.revlog
          /\ session'.work.revlog = session.work.revlog
      BY <2>1 DEF Buried
    <2>4. syncing'[c].work.scm = session'.work.scm => SentReviews(syncing'[c].work, session'.work)
      BY <2>2, <2>3, <1>00 DEF ReviewsWorked, SentReviews
    <2> QED BY <2>1, <2>2, <2>3, <2>4, <1>4
  <1>7. CASE SendChanges(c)
    <2> DEFINE s == syncing[c]  w == s.work  z == session.work  n == session.client_usn
    <2>1. /\ OnlySync(c) /\ InSession(c) /\ s.phase = "changes" /\ syncing'[c].phase = "chunk"
          /\ SameSession
          /\ syncing'[c].work.revlog = w.revlog /\ session'.work.revlog = z.revlog
          /\ syncing'[c].work.scm = w.scm /\ session'.work.scm = z.scm
      <3>1. \E marked, sent, got :
              /\ marked.scm = w.scm
              /\ TookRows(session'.work, z, sent, NewerDecks(z, sent))
              /\ TookRows(syncing'[c].work, marked, got, NewerDecks(marked, got))
        BY <1>7, SendChangesIs
      <3>2. syncing'[c].work.scm = w.scm /\ session'.work.scm = z.scm
        BY <3>1 DEF TookRows
      <3> QED BY <1>7, <3>2, SendChangesIs
    <2>2. session'.key = c /\ Working(c)
          /\ session.work.scm = server.scm /\ DOMAIN server.revlog \subseteq DOMAIN session.work.revlog
      BY <2>1, <1>01 DEF SameSession, Works
    <2>3. syncing'[c].work.scm = session'.work.scm => SentReviews(syncing'[c].work, session'.work)
      BY <2>1, <2>2, <1>00 DEF ReviewsWorked, SentReviews
    <2> QED BY <2>1, <2>2, <2>3, <1>4
  <1>8. CASE FetchChunk(c)
    <2> DEFINE s == syncing[c]  w == s.work  z == session.work
               part == TakeChunk(Awaited).part  chunk == Fetch(z, part)
    <2>1. /\ OnlySync(c) /\ InSession(c) /\ s.phase = "chunk"
          /\ syncing'[c].phase \in {"chunk", "apply chunk"}
          /\ SameSession /\ session'.work = z
          /\ IdsIn(Awaited, z)
          /\ part.revlog \subseteq Awaited.revlog
          /\ DOMAIN chunk.revlog = part.revlog
          /\ TookRows(syncing'[c].work, w, chunk.cards, NewerCards(w, chunk.cards, Pending))
          /\ TookReviews(syncing'[c].work, w, chunk.revlog)
      BY <1>8, FetchChunkIs, AwaitedIn
    <2>2. session'.key = c /\ Working(c)
          /\ session.work.scm = server.scm /\ DOMAIN server.revlog \subseteq DOMAIN session.work.revlog
      BY <2>1, <1>01 DEF SameSession, Works
    <2> HIDE DEF part, chunk
    <2>3. DOMAIN chunk.revlog \subseteq DOMAIN z.revlog /\ syncing'[c].work.scm = w.scm
      BY <2>1 DEF IdsIn, TookRows
    <2>4. syncing'[c].work.scm = session'.work.scm => SentReviews(syncing'[c].work, session'.work)
      BY <2>1, <2>2, <2>3, <1>00 DEF ReviewsWorked, SentReviews, TookReviews
    <2> QED BY <2>1, <2>2, <2>4, <1>4
  <1>9. CASE SendChunk(c)
    <2> DEFINE s == syncing[c]  w == s.work  z == session.work  part == TakeChunk(s.ids).part
    <2>1. /\ OnlySync(c) /\ InSession(c) /\ s.phase = "apply chunk"
          /\ syncing'[c].phase \in {"sanity", "apply chunk"}
          /\ SameSession
          /\ MarkedTombs(syncing'[c].work.revlog, w.revlog, part.revlog, s.server_usn)
          /\ syncing'[c].work.scm = w.scm
      BY <1>9, SendChunkIs
    <2>2. PICK sent :
            /\ DOMAIN sent.revlog = part.revlog
            /\ TookRows(session'.work, z, sent.cards, NewerCards(z, sent.cards, session.client_usn))
            /\ TookReviews(session'.work, z, sent.revlog)
      BY <1>9, SendChunkIs
    <2>3. session'.key = c /\ Working(c)
          /\ session.work.scm = server.scm /\ DOMAIN server.revlog \subseteq DOMAIN session.work.revlog
      BY <2>1, <1>01 DEF SameSession, Works
    <2> HIDE DEF part
    <2>4. session'.work.scm = z.scm
          /\ DOMAIN session'.work.revlog = DOMAIN z.revlog \cup part.revlog
      BY <2>2 DEF TookRows, TookReviews
    <2>5. ASSUME syncing'[c].work.scm = session'.work.scm
          PROVE  SentReviews(syncing'[c].work, session'.work)
      <3>1. SentReviews(w, z)
        BY <2>1, <2>3, <2>4, <2>5, <1>00 DEF ReviewsWorked
      <3> DEFINE v == syncing'[c].work.revlog
      <3>2. DOMAIN v = DOMAIN w.revlog /\ \A e \in DOMAIN w.revlog \ part.revlog : v[e] = w.revlog[e]
        BY <2>1 DEF MarkedTombs
      <3>3. \A e \in DOMAIN v : v[e].usn # Pending => e \in DOMAIN session'.work.revlog
        <4> HIDE DEF v
        <4> QED BY <2>4, <3>1, <3>2 DEF SentReviews
      <3> QED BY <3>3 DEF SentReviews
    <2> QED BY <2>1, <2>3, <2>4, <2>5, <1>4
  <1>10. CASE Checks(c)
    <2>1. /\ OnlySync(c) /\ InSession(c) /\ syncing[c].phase = "sanity" /\ syncing'[c].phase = "finish"
          /\ session' = session /\ syncing'[c].work = syncing[c].work
      BY <1>10 DEF Checks
    <2>2. session.key = c /\ Working(c)
          /\ session.work.scm = server.scm /\ DOMAIN server.revlog \subseteq DOMAIN session.work.revlog
      BY <2>1, <1>01 DEF Works
    <2> QED BY <2>1, <2>2, <1>4, <1>00 DEF ReviewsWorked
  <1>11. CASE CheckFails(c)
    <2>1. session.key = c
      BY <1>11 DEF CheckFails, InSession
    <2>2. ReviewsServed'
      BY <1>11 DEF CheckFails, ReviewsServed
    <2>3. ASSUME NEW d \in Clients
          PROVE  ReviewsSent(d)' /\ StartsClean(d)' /\ ReviewsWorked(d)'
      <3>1. ReviewsSent(d)'
        BY <1>11, <1>0, <1>00 DEF CheckFails, ReviewsSent
      <3>2. StartsClean(d)'
        BY <1>11, <1>00, IdleWorks DEF CheckFails, StartsClean
      <3>3. ReviewsWorked(d)'
        BY <1>11, <2>1, IdleWorks DEF CheckFails, SameSession, ReviewsWorked, Working, InSession
      <3> QED BY <3>1, <3>2, <3>3
    <2> QED BY <2>2, <2>3 DEF ReviewsInv
  <1>12. CASE Ends(c) /\ (EndsWell(c) \/ EndsBadly(c))
    <2>1. /\ Working(c)
          /\ session.work.scm = server.scm /\ DOMAIN server.revlog \subseteq DOMAIN session.work.revlog
      BY <1>12, <1>01 DEF Ends, Works
    <2>2. server'.revlog = session.work.revlog /\ server'.scm = session.work.scm /\ session' = Nobody
      BY <1>12 DEF Ends, Ended
    <2>3. ReviewsServed'
      BY <2>2 DEF ReviewsServed
    <2>4. ASSUME NEW d \in Clients
          PROVE  ReviewsSent(d)' /\ StartsClean(d)' /\ ReviewsWorked(d)'
      <3>1. CASE UNCHANGED device[d]
        <4>1. ReviewsSent(d)'
          BY <2>1, <2>2, <3>1, <1>00 DEF ReviewsSent, SentReviews
        <4>2. StartsClean(d)'
          BY <1>12, <3>1, <1>00, IdleWorks DEF Ends, StartsClean
        <4> QED BY <2>2, <4>1, <4>2 DEF ReviewsWorked, Working, InSession
      <3>2. CASE d = c /\ EndsWell(c)
        <4>1. device'[c].revlog = syncing[c].work.revlog /\ device'[c].scm = syncing[c].work.scm
          BY <3>2 DEF EndsWell, Ended
        <4>2. ReviewsSent(d)'
          BY <2>1, <2>2, <3>2, <4>1, <1>00 DEF ReviewsSent, ReviewsWorked, SentReviews
        <4>3. StartsClean(d)'
          BY <1>12, <3>2, IdleWorks DEF Ends, StartsClean
        <4> QED BY <2>2, <4>2, <4>3 DEF ReviewsWorked, Working, InSession
      <3> QED BY <1>12, <3>1, <3>2 DEF Ends, EndsBadly
    <2> QED BY <2>3, <2>4 DEF ReviewsInv
  <1>13. CASE Uploads(c)
    <2>1. device'[c].scm = now + 1 /\ \A e \in DOMAIN device'[c].revlog : device'[c].revlog[e].usn # Pending
      BY <1>13 DEF Uploads, Uploaded
    <2>2. ReviewsServed'
      BY <1>13, <1>00 DEF Uploads, ReviewsServed
    <2>3. ASSUME NEW d \in Clients
          PROVE  ReviewsSent(d)' /\ StartsClean(d)' /\ ReviewsWorked(d)'
      <3>1. ReviewsSent(d)'
        <4>1. CASE d = c
          BY <1>13, <4>1, <2>1, <1>0 DEF Uploads, ReviewsSent, SentReviews
        <4>2. CASE d # c
          BY <1>13, <4>2, <2>1, <1>0, <1>00 DEF Uploads, ReviewsSent
        <4> QED BY <4>1, <4>2
      <3>2. StartsClean(d)'
        BY <1>13, <1>00, IdleWorks DEF Uploads, StartsClean
      <3>3. ReviewsWorked(d)'
        BY <1>13, <1>00 DEF Uploads, ReviewsWorked, Working, InSession
      <3> QED BY <3>1, <3>2, <3>3
    <2> QED BY <2>2, <2>3 DEF ReviewsInv
  <1>14. CASE Downloads(c)
    <2>1. server'.revlog = server.revlog /\ server'.scm = server.scm /\ device'[c] = server'
      BY <1>14 DEF Downloads, Ended
    <2>2. ReviewsServed'
      BY <1>14 DEF Downloads, ReviewsServed
    <2>3. ASSUME NEW d \in Clients
          PROVE  ReviewsSent(d)' /\ StartsClean(d)' /\ ReviewsWorked(d)'
      <3>1. ReviewsSent(d)'
        BY <1>14, <2>1, <1>00 DEF Downloads, ReviewsSent, SentReviews
      <3>2. StartsClean(d)'
        BY <1>14, <1>00, IdleWorks DEF Downloads, StartsClean
      <3>3. ReviewsWorked(d)'
        BY <1>14 DEF Downloads, ReviewsWorked, Working, InSession
      <3> QED BY <3>1, <3>2, <3>3
    <2> QED BY <2>2, <2>3 DEF ReviewsInv
  <1> QED
    BY <1>1, <1>2, <1>3, <1>5, <1>6, <1>7, <1>8, <1>9, <1>10, <1>11, <1>12, <1>13, <1>14 DEF Steps

LEMMA ReviewsInit == Init => ReviewsInv
  <1> SUFFICES ASSUME Init PROVE ReviewsInv
    OBVIOUS
  <1>1. server.revlog = Nothing /\ \A d \in Clients : device[d] = server /\ syncing[d] = Idle
    BY DEF Init, StartCollection
  <1>2. session = Nobody
    BY DEF Init
  <1>3. ASSUME NEW d \in Clients PROVE ReviewsSent(d) /\ StartsClean(d) /\ ReviewsWorked(d)
    BY <1>1, <1>2, IdleWorks DEF ReviewsSent, SentReviews, StartsClean, ReviewsWorked, Working, InSession
  <1> QED
    BY <1>2, <1>3 DEF ReviewsInv, ReviewsServed

LEMMA DropsReviews ==
    ASSUME ReviewsInv, Drops
    PROVE  ReviewsInv'
  <1>1. ReviewsServed /\ \A d \in Clients : ReviewsSent(d) /\ StartsClean(d) /\ ReviewsWorked(d)
    BY DEF ReviewsInv
  <1>2. ReviewsServed'
    BY <1>1 DEF Drops, ReviewsServed
  <1>3. ASSUME NEW d \in Clients
        PROVE  ReviewsSent(d)' /\ StartsClean(d)' /\ ReviewsWorked(d)'
    <2>1. ReviewsSent(d)'
      BY <1>1 DEF Drops, ReviewsSent
    <2>2. StartsClean(d)'
      BY <1>1, IdleWorks DEF Drops, StartsClean
    <2>3. ReviewsWorked(d)'
      BY <1>1, IdleWorks DEF Drops, ReviewsWorked, Working, InSession
    <2> QED BY <2>1, <2>2, <2>3
  <1> QED
    BY <1>2, <1>3 DEF ReviewsInv

LEMMA ReviewsInvKept ==
    ASSUME Shape, ReviewsInv, [Next]_vars
    PROVE  ReviewsInv'
  BY NextIs, DropsReviews, StepReviews

\* Whatever goes wrong, as long as no one-way sync is due, a review that a client
\* has sent (its usn is no longer pending) is on the server: the entry's number
\* is committed on the client only with the server's copy (finish.rs).
THEOREM ReviewsAreKept == Spec => []ReviewsKept
  <1>1. Init => Shape /\ ReviewsInv
    BY ShapeInit, ReviewsInit
  <1>2. Shape /\ ReviewsInv /\ [Next]_vars => Shape' /\ ReviewsInv'
    BY ShapeKept, ReviewsInvKept
  <1>3. Shape /\ ReviewsInv => ReviewsKept
    BY DEF ReviewsInv, ReviewsSent, SentReviews, ReviewsKept
  <1> QED
    BY <1>1, <1>2, <1>3, PTL DEF Spec

-----------------------------------------------------------------------------
(* Sequence numbers, as long as no sync ends between another one's         *)
(* comparison and its first request.                                       *)

Behind(d) == device[d].scm = server.scm => device[d].usn <= server.usn
Compared(d) ==
    syncing[d].phase = "start" =>
       /\ syncing[d].work = device[d] /\ device[d].scm = server.scm
       /\ syncing[d].server_usn = server.usn
Served == session # Nobody => /\ session.work.usn = server.usn /\ session.server_usn = server.usn
                              /\ session.work.scm = server.scm
Agreed(d) ==
    Working(d) => /\ device[d].scm = server.scm /\ syncing[d].work.scm = device[d].scm
                  /\ syncing[d].server_usn = server.usn
                  /\ session.client_usn = device[d].usn

Numbers == Served /\ \A d \in Clients : Behind(d) /\ Compared(d) /\ Agreed(d)

LEMMA NumbersInit == Init => Numbers
  <1> SUFFICES ASSUME Init PROVE Numbers
    OBVIOUS
  <1>1. server.usn \in Nat /\ \A d \in Clients : device[d] = server /\ syncing[d] = Idle
    BY DEF Init, StartCollection
  <1>2. session = Nobody
    BY DEF Init
  <1>3. ASSUME NEW d \in Clients PROVE Behind(d) /\ Compared(d) /\ Agreed(d)
    BY <1>1, <1>2, IdleWorks DEF Behind, Compared, Agreed, Working, InSession
  <1> QED
    BY <1>2, <1>3 DEF Numbers, Served

LEMMA StepNumbers ==
    ASSUME Shape, Numbers, "overtaken" \notin Faults, NEW c \in Clients, Drops \/ Steps(c)
    PROVE  Numbers'
  <1>0. /\ now \in Nat /\ server.scm \in 1..now
        /\ \A d \in Clients : device[d].scm \in 1..now
    BY Stamped
  <1>00. Served /\ \A d \in Clients : Behind(d) /\ Compared(d) /\ Agreed(d)
    BY DEF Numbers
  <1>01. server.usn \in Nat /\ \A d \in Clients : device[d].usn \in Nat
    BY DEF Shape, Typed
  <1>02. ASSUME InSession(c), syncing[c].phase \in Works
         PROVE  /\ Working(c) /\ session.key = c
                /\ session.work.usn = server.usn /\ session.server_usn = server.usn
                /\ session.work.scm = server.scm
                /\ device[c].scm = server.scm /\ syncing[c].work.scm = device[c].scm
                /\ syncing[c].server_usn = server.usn
                /\ session.client_usn = device[c].usn
    BY <1>02, <1>00 DEF Working, InSession, Served, Agreed
  <1>1. CASE Drops
    <2>1. Served'
      BY <1>1, <1>00 DEF Drops, Served
    <2>2. ASSUME NEW d \in Clients PROVE Behind(d)' /\ Compared(d)' /\ Agreed(d)'
      <3>1. Behind(d)'
        BY <1>1, <1>00 DEF Drops, Behind
      <3>2. Compared(d)'
        BY <1>1, <1>00, IdleWorks DEF Drops, Compared
      <3>3. Agreed(d)'
        BY <1>1, <1>00, IdleWorks DEF Drops, Agreed, Working, InSession
      <3> QED BY <3>1, <3>2, <3>3
    <2> QED BY <2>1, <2>2 DEF Numbers
  <1>2. CASE Edited(c)
    <2>1. Served'
      BY <1>2, <1>00 DEF Edited, Served
    <2>2. ASSUME NEW d \in Clients PROVE Behind(d)' /\ Compared(d)' /\ Agreed(d)'
      <3>1. Behind(d)'
        BY <1>2, <1>00, <1>0 DEF Edited, EditedAt, Behind
      <3>2. Compared(d)'
        BY <1>2, <1>00, IdleWorks DEF Edited, Compared
      <3>3. Agreed(d)'
        BY <1>2, <1>00, IdleWorks DEF Edited, Agreed, Working, InSession
      <3> QED BY <3>1, <3>2, <3>3
    <2> QED BY <2>1, <2>2 DEF Numbers
  <1>3. CASE Begins(c)
    <2>1. Served'
      BY <1>3 DEF Begins, Served
    <2>2. ASSUME NEW d \in Clients PROVE Behind(d)' /\ Compared(d)' /\ Agreed(d)'
      <3>1. Behind(d)'
        BY <1>3, <1>00 DEF Begins, Behind
      <3>2. Compared(d)'
        BY <1>3, <1>00 DEF Begins, Compared
      <3>3. Agreed(d)'
        BY <1>3 DEF Begins, Agreed, Working, InSession
      <3> QED BY <3>1, <3>2, <3>3
    <2> QED BY <2>1, <2>2 DEF Numbers
  \* a request of c's sync
  <1>4. ASSUME OnlySync(c), session'.key = c,
               session'.work.usn = server.usn, session'.server_usn = server.usn,
               session'.work.scm = server.scm,
               syncing'[c].phase # "start",
               device[c].scm = server.scm, syncing'[c].work.scm = device[c].scm,
               syncing'[c].server_usn = server.usn, session'.client_usn = device[c].usn
        PROVE  Numbers'
    <2>1. Served'
      BY <1>4 DEF OnlySync, Served
    <2>2. ASSUME NEW d \in Clients PROVE Behind(d)' /\ Compared(d)' /\ Agreed(d)'
      <3>1. Behind(d)'
        BY <1>4, <1>00 DEF OnlySync, Behind
      <3>2. Compared(d)'
        BY <1>4, <1>00 DEF OnlySync, Compared
      <3>3. Agreed(d)'
        BY <1>4, WorkingAlone DEF OnlySync, Agreed
      <3> QED BY <3>1, <3>2, <3>3
    <2> QED BY <2>1, <2>2 DEF Numbers
  <1>5. CASE StartSync(c)
    <2> DEFINE s == syncing[c]  next == syncing'[c]  marked == Marked(s.work, s.server_usn)
    <2>1. /\ OnlySync(c) /\ s.phase = "start" /\ next.server_usn = s.server_usn
          /\ session' = [key |-> c, server_usn |-> server.usn, client_usn |-> device[c].usn,
                         client_is_newer |-> s.newer, ids |-> <<>>, work |-> server]
          /\ MarkedSent(marked, s.work)
          /\ \/ next.phase = "graves" /\ next.work = marked
             \/ next.phase = "changes" /\ Buried(next.work, marked, Remote(c), s.server_usn)
      BY <1>5, StartSyncIs
    <2>2. session'.key = c /\ session'.work = server /\ next.phase # "start"
          /\ session'.server_usn = server.usn /\ session'.client_usn = device[c].usn
      BY <2>1
    <2>3. s.work = device[c] /\ device[c].scm = server.scm /\ s.server_usn = server.usn
      BY <2>1, <1>00 DEF Compared
    <2> HIDE DEF marked
    <2>4. next.work.scm = device[c].scm
      BY <2>1, <2>3 DEF MarkedSent, Buried
    <2> HIDE DEF s
    <2> QED BY <2>1, <2>2, <2>3, <2>4, <1>4
  <1>6. CASE SendGraves(c)
    <2>1. /\ OnlySync(c) /\ InSession(c) /\ syncing[c].phase = "graves" /\ syncing'[c].phase = "changes"
          /\ syncing'[c].server_usn = syncing[c].server_usn
          /\ Buried(syncing'[c].work, syncing[c].work, syncing[c].remote, syncing[c].server_usn)
          /\ Buried(session'.work, session.work, syncing[c].local, session.server_usn)
          /\ SameSession
      BY <1>6, SendGravesIs
    <2>2. /\ syncing'[c].work.scm = syncing[c].work.scm /\ session'.work.scm = session.work.scm
          /\ session'.work.usn = session.work.usn
      BY <2>1 DEF Buried
    <2> QED BY <2>1, <2>2, <1>02, <1>4 DEF SameSession, Works
  <1>7. CASE SendChanges(c)
    <2> DEFINE s == syncing[c]  w == s.work  z == session.work  n == session.client_usn
    <2>1. /\ OnlySync(c) /\ InSession(c) /\ s.phase = "changes" /\ syncing'[c].phase = "chunk"
          /\ SameSession /\ syncing'[c].server_usn = s.server_usn
          /\ syncing'[c].work.scm = w.scm /\ session'.work.scm = z.scm
          /\ session'.work.usn = z.usn
      <3>1. \E marked, sent, got :
              /\ marked.scm = w.scm
              /\ TookRows(session'.work, z, sent, NewerDecks(z, sent))
              /\ TookRows(syncing'[c].work, marked, got, NewerDecks(marked, got))
        BY <1>7, SendChangesIs
      <3>2. syncing'[c].work.scm = w.scm /\ session'.work.scm = z.scm /\ session'.work.usn = z.usn
        BY <3>1 DEF TookRows
      <3> QED BY <1>7, <3>2, SendChangesIs
    <2> QED BY <2>1, <1>02, <1>4 DEF SameSession, Works
  <1>8. CASE FetchChunk(c)
    <2> DEFINE s == syncing[c]  w == s.work  z == session.work
               part == TakeChunk(Awaited).part  chunk == Fetch(z, part)
    <2>1. /\ OnlySync(c) /\ InSession(c) /\ s.phase = "chunk"
          /\ syncing'[c].phase \in {"chunk", "apply chunk"}
          /\ syncing'[c].server_usn = s.server_usn
          /\ SameSession /\ session'.work = z
          /\ TookRows(syncing'[c].work, w, chunk.cards, NewerCards(w, chunk.cards, Pending))
      BY <1>8, FetchChunkIs
    <2> HIDE DEF part, chunk
    <2>2. syncing'[c].work.scm = w.scm
      BY <2>1 DEF TookRows
    <2> QED BY <2>1, <2>2, <1>02, <1>4 DEF SameSession, Works
  <1>9. CASE SendChunk(c)
    <2> DEFINE s == syncing[c]  w == s.work  z == session.work  part == TakeChunk(s.ids).part
    <2>1. /\ OnlySync(c) /\ InSession(c) /\ s.phase = "apply chunk"
          /\ syncing'[c].phase \in {"sanity", "apply chunk"}
          /\ SameSession /\ syncing'[c].server_usn = s.server_usn
          /\ syncing'[c].work.scm = w.scm
      BY <1>9, SendChunkIs
    <2>2. \E sent :
            TookRows(session'.work, z, sent.cards, NewerCards(z, sent.cards, session.client_usn))
      BY <1>9, SendChunkIs
    <2>3. session'.work.scm = z.scm /\ session'.work.usn = z.usn
      BY <2>2 DEF TookRows
    <2> QED BY <2>1, <2>3, <1>02, <1>4 DEF SameSession, Works
  <1>10. CASE Checks(c)
    <2>1. /\ OnlySync(c) /\ InSession(c) /\ syncing[c].phase = "sanity" /\ syncing'[c].phase = "finish"
          /\ session' = session /\ syncing'[c].work = syncing[c].work
          /\ syncing'[c].server_usn = syncing[c].server_usn
      BY <1>10 DEF Checks
    <2> QED BY <2>1, <1>02, <1>4 DEF Works
  <1>11. CASE CheckFails(c)
    <2>1. session.key = c /\ session # Nobody
      BY <1>11 DEF CheckFails, InSession
    <2>2. Served'
      BY <1>11, <2>1, <1>00 DEF CheckFails, Served, SameSession
    <2>3. ASSUME NEW d \in Clients PROVE Behind(d)' /\ Compared(d)' /\ Agreed(d)'
      <3>1. Behind(d)'
        BY <1>11, <1>0, <1>00 DEF CheckFails, Behind
      <3>2. Compared(d)'
        BY <1>11, <1>00, IdleWorks DEF CheckFails, Compared
      <3>3. Agreed(d)'
        BY <1>11, <2>1, IdleWorks DEF CheckFails, SameSession, Agreed, Working, InSession
      <3> QED BY <3>1, <3>2, <3>3
    <2> QED BY <2>2, <2>3 DEF Numbers
  <1>12. CASE Ends(c) /\ (EndsWell(c) \/ EndsBadly(c))
    <2>1. /\ InSession(c) /\ syncing[c].phase = "finish" /\ session' = Nobody
          /\ \A d \in Clients \ {c} : syncing[d].phase # "start"
          /\ server'.scm = session.work.scm /\ server'.usn = session.work.usn + 1
      BY <1>12 DEF Ends, Ended, NobodyComparing
    <2>2. server'.scm = server.scm /\ server'.usn = server.usn + 1
          /\ syncing[c].work.scm = server.scm /\ syncing[c].server_usn = server.usn
      BY <2>1, <1>02 DEF Works
    <2>3. Served'
      BY <2>1 DEF Served
    <2>4. ASSUME NEW d \in Clients PROVE Behind(d)' /\ Compared(d)' /\ Agreed(d)'
      <3>1. Behind(d)'
        <4>1. CASE UNCHANGED device[d]
          BY <4>1, <2>2, <1>00, <1>01 DEF Behind
        <4>2. CASE d = c /\ EndsWell(c)
          BY <4>2, <2>2, <1>01 DEF EndsWell, Ended, Behind
        <4> QED BY <1>12, <4>1, <4>2 DEF Ends, EndsBadly
      <3>2. Compared(d)'
        BY <1>12, <2>1, IdleWorks DEF Ends, Compared
      <3>3. Agreed(d)'
        BY <2>1 DEF Agreed, Working, InSession
      <3> QED BY <3>1, <3>2, <3>3
    <2> QED BY <2>3, <2>4 DEF Numbers
  <1>13. CASE Uploads(c)
    <2>1. device'[c].scm = now + 1
      BY <1>13 DEF Uploads, Uploaded
    <2>2. CASE UNCHANGED <<server, session>>
      <3>1. Served'
        BY <2>2, <1>00 DEF Served
      <3>2. ASSUME NEW d \in Clients PROVE Behind(d)' /\ Compared(d)' /\ Agreed(d)'
        <4>1. Behind(d)'
          BY <1>13, <2>1, <2>2, <1>0, <1>00 DEF Uploads, Behind
        <4>2. Compared(d)'
          BY <1>13, <2>2, <1>00, IdleWorks DEF Uploads, Compared
        <4>3. Agreed(d)'
          BY <1>13, <2>2, <1>00, IdleWorks DEF Uploads, Agreed, Working, InSession
        <4> QED BY <4>1, <4>2, <4>3
      <3> QED BY <3>1, <3>2 DEF Numbers
    <2>3. CASE server' = device'[c] /\ session' = Nobody /\ NobodyComparing(c)
      <3>1. Served'
        BY <2>3 DEF Served
      <3>2. ASSUME NEW d \in Clients PROVE Behind(d)' /\ Compared(d)' /\ Agreed(d)'
        <4>1. Behind(d)'
          <5>1. CASE d = c
            <6>1. device'[c].usn \in Nat
              BY <1>13 DEF Uploads, Typed
            <6> QED BY <6>1, <5>1, <2>3 DEF Behind
          <5>2. CASE d # c
            BY <5>2, <1>13, <2>1, <2>3, <1>0 DEF Uploads, Behind
          <5> QED BY <5>1, <5>2
        <4>2. Compared(d)'
          BY <1>13, <2>3, IdleWorks DEF Uploads, Compared, NobodyComparing
        <4>3. Agreed(d)'
          BY <2>3 DEF Agreed, Working, InSession
        <4> QED BY <4>1, <4>2, <4>3
      <3> QED BY <3>1, <3>2 DEF Numbers
    <2> QED BY <1>13, <2>2, <2>3 DEF Uploads
  <1>14. CASE Downloads(c)
    <2>1. server'.scm = server.scm /\ server'.usn = server.usn + 1 /\ device'[c] = server'
          /\ session' = Nobody /\ \A d \in Clients \ {c} : syncing[d].phase # "start"
      BY <1>14 DEF Downloads, Ended, NobodyComparing
    <2>2. Served'
      BY <2>1 DEF Served
    <2>3. ASSUME NEW d \in Clients PROVE Behind(d)' /\ Compared(d)' /\ Agreed(d)'
      <3>1. Behind(d)'
        BY <1>14, <2>1, <1>00, <1>01 DEF Downloads, Behind
      <3>2. Compared(d)'
        BY <1>14, <2>1, IdleWorks DEF Downloads, Compared
      <3>3. Agreed(d)'
        BY <2>1 DEF Agreed, Working, InSession
      <3> QED BY <3>1, <3>2, <3>3
    <2> QED BY <2>2, <2>3 DEF Numbers
  <1> QED
    BY <1>1, <1>2, <1>3, <1>5, <1>6, <1>7, <1>8, <1>9, <1>10, <1>11, <1>12, <1>13, <1>14 DEF Steps

LEMMA NumbersKept ==
    ASSUME Shape, Numbers, "overtaken" \notin Faults, [Next]_vars
    PROVE  Numbers'
  <1>1. CASE Clients = {}
    BY <1>1, NextIs DEF Drops, Numbers, Served
  <1>2. CASE Clients # {}
    BY <1>2, NextIs, StepNumbers
  <1> QED
    BY <1>1, <1>2

-----------------------------------------------------------------------------
(* Deletions.                                                               *)

Disjoint(col) == DOMAIN col.rows \cap DOMAIN col.graves = {}
NoPending(t) == \A k \in DOMAIN t : t[k].usn # Pending
SentGraves(x, y) == \A o \in DOMAIN x.graves : x.graves[o].usn # Pending => o \in DOMAIN y.graves
KnownGraves(x, y, n) == \A o \in DOMAIN y.graves : y.graves[o].usn < n => o \in DOMAIN x.graves

\* z is the table t, and all that is new in it is numbered n.
Grown(t, z, n) ==
    /\ DOMAIN t \subseteq DOMAIN z
    /\ \A k \in DOMAIN z : z[k].usn = n \/ (k \in DOMAIN t /\ z[k].usn = t[k].usn)

GravesHeld == Disjoint(server) /\ NoPending(server.graves)
GravesOf(d) ==
    /\ Disjoint(device[d])
    /\ device[d].scm = server.scm =>
         /\ SentGraves(device[d], server)
         /\ KnownGraves(device[d], server, device[d].usn)
GravesServed ==
    session # Nobody =>
      /\ Disjoint(session.work) /\ NoPending(session.work.graves)
      /\ Grown(server.graves, session.work.graves, server.usn)
DisjointWork(d) == syncing[d] # Idle => Disjoint(syncing[d].work)

\* Until the deletions are exchanged, both sides have their own; then both have
\* all of them.
BeforeGraves(d) ==
    /\ DOMAIN syncing[d].work.graves = DOMAIN device[d].graves
    /\ syncing[d].local = Local(device[d]) /\ syncing[d].remote = Remote(d)
    /\ syncing[d].work.rows = device[d].rows
    /\ session.work.graves = server.graves /\ session.work.rows = server.rows
AfterGraves(d) ==
    /\ DOMAIN syncing[d].work.graves = DOMAIN device[d].graves \cup DOMAIN server.graves
    /\ DOMAIN session.work.graves = DOMAIN syncing[d].work.graves
GravesWorked(d) ==
    Working(d) =>
      /\ NoPending(syncing[d].work.graves)
      /\ IF syncing[d].phase = "graves" THEN BeforeGraves(d) ELSE AfterGraves(d)

GravesInv ==
    /\ GravesHeld /\ GravesServed
    /\ \A d \in Clients : GravesOf(d) /\ DisjointWork(d) /\ GravesWorked(d)

\* What is known of c's sync while it runs.
LEMMA AgreedIs ==
    ASSUME Shape, Numbers, NEW c \in Clients, InSession(c), syncing[c].phase \in Works
    PROVE  /\ Working(c) /\ session.key = c /\ session # Nobody
           /\ session.work.usn = server.usn /\ session.server_usn = server.usn
           /\ session.work.scm = server.scm
           /\ device[c].scm = server.scm /\ syncing[c].work.scm = device[c].scm
           /\ syncing[c].server_usn = server.usn
           /\ session.client_usn = device[c].usn
           /\ syncing[c] # Idle
           /\ server.usn \in Nat /\ server.usn # Pending /\ device[c].usn \in Nat
           /\ Typed(device[c], now) /\ Typed(server, now)
           /\ Typed(session.work, now) /\ Typed(syncing[c].work, now)
  <1>1. Working(c) /\ session.key = c /\ session # Nobody /\ syncing[c] # Idle
    BY IdleWorks DEF Working, InSession
  <1>2. Served /\ Agreed(c)
    BY DEF Numbers
  <1>3. Typed(device[c], now) /\ Typed(server, now) /\ Typed(session.work, now)
    BY SessionOf DEF Shape
  <1>4. syncing[c].phase # "idle"
    BY DEF Works
  <1>5. Typed(syncing[c].work, now)
    BY <1>4, SyncOf
  <1>6. server.usn \in Nat /\ server.usn # Pending /\ device[c].usn \in Nat
    BY <1>3 DEF Typed, Pending
  <1> QED
    BY <1>1, <1>2, <1>3, <1>5, <1>6 DEF Served, Agreed

\* Before the exchange the two sides' graves, taken together, are the same
\* seen from either side.
LEMMA GravesMeet ==
    ASSUME NEW d, NEW s, SentGraves(d, s), KnownGraves(d, s, d.usn), d.usn \in Nat,
           \A o \in DOMAIN s.graves : s.graves[o].usn \in Usns,
           NoPending(s.graves),
           NEW local, local = {o \in DOMAIN d.graves : d.graves[o].usn = Pending},
           NEW remote, remote = {o \in DOMAIN s.graves : s.graves[o].usn >= d.usn}
    PROVE  /\ DOMAIN d.graves \cup remote = DOMAIN d.graves \cup DOMAIN s.graves
           /\ DOMAIN s.graves \cup local = DOMAIN d.graves \cup DOMAIN s.graves
  <1>1. \A o \in DOMAIN s.graves : o \in remote \/ o \in DOMAIN d.graves
    BY DEF KnownGraves, Usns, Pending
  <1>2. \A o \in DOMAIN d.graves : o \in local \/ o \in DOMAIN s.graves
    BY DEF SentGraves
  <1> QED
    BY <1>1, <1>2

LEMMA BuriedDisjoint ==
    ASSUME NEW r, NEW col, NEW keys, NEW usn, Buried(r, col, keys, usn), Disjoint(col)
    PROVE  Disjoint(r)
  BY DEF Buried, Disjoint

LEMMA BuriedPending ==
    ASSUME NEW r, NEW col, NEW keys, NEW usn, Buried(r, col, keys, usn), usn # Pending,
           NoPending(col.graves)
    PROVE  NoPending(r.graves)
  BY DEF Buried, NoPending

LEMMA StepGraves ==
    ASSUME Shape, Numbers, GravesInv, NEW c \in Clients, Drops \/ Steps(c)
    PROVE  GravesInv'
  <1>0. /\ now \in Nat /\ server.scm \in 1..now
        /\ \A d \in Clients : device[d].scm \in 1..now
    BY Stamped
  <1>00. /\ GravesHeld /\ GravesServed
         /\ \A d \in Clients : GravesOf(d) /\ DisjointWork(d) /\ GravesWorked(d)
    BY DEF GravesInv
  <1>01. server.usn \in Nat /\ \A d \in Clients : device[d].usn \in Nat /\ Behind(d)
    BY DEF Shape, Typed, Numbers
  \* steps outside the session
  <1>1. CASE Drops
    <2>1. GravesHeld' /\ GravesServed'
      BY <1>1, <1>00 DEF Drops, GravesHeld, GravesServed
    <2>2. ASSUME NEW d \in Clients PROVE GravesOf(d)' /\ DisjointWork(d)' /\ GravesWorked(d)'
      <3>1. GravesOf(d)'
        BY <1>1, <1>00 DEF Drops, GravesOf
      <3>2. DisjointWork(d)'
        BY <1>1, <1>00 DEF Drops, DisjointWork
      <3>3. GravesWorked(d)'
        BY <1>1, <1>00, IdleWorks
           DEF Drops, GravesWorked, Working, InSession, BeforeGraves, AfterGraves, Remote
      <3> QED BY <3>1, <3>2, <3>3
    <2> QED BY <2>1, <2>2 DEF GravesInv
  <1>2. CASE Edited(c)
    <2>1. GravesHeld' /\ GravesServed'
      BY <1>2, <1>00 DEF Edited, GravesHeld, GravesServed
    <2>2. ASSUME NEW d \in Clients PROVE GravesOf(d)' /\ DisjointWork(d)' /\ GravesWorked(d)'
      <3>1. CASE d # c
        <4>1. device'[d] = device[d] /\ server' = server /\ syncing' = syncing /\ session' = session
          BY <1>2, <3>1 DEF Edited
        <4> QED BY <4>1, <1>00 DEF GravesOf, DisjointWork, GravesWorked, Working, InSession,
                                   BeforeGraves, AfterGraves, Remote
      <3>2. CASE d = c
        <4>1. Disjoint(device'[c])
          BY <1>2, <1>00 DEF Edited, EditedAt, GravesOf, Disjoint
        <4>2. ASSUME device'[c].scm = server'.scm
              PROVE  SentGraves(device'[c], server') /\ KnownGraves(device'[c], server', device'[c].usn)
          <5>1. device[c].scm = server.scm
            BY <4>2, <1>2, <1>0 DEF Edited, EditedAt
          <5>2. SentGraves(device[c], server) /\ KnownGraves(device[c], server, device[c].usn)
            BY <5>1, <1>00 DEF GravesOf
          <5>3. SentGraves(device'[c], server')
            BY <5>2, <1>2 DEF Edited, EditedAt, SentGraves
          <5>4. KnownGraves(device'[c], server', device'[c].usn)
            BY <5>2, <1>2 DEF Edited, EditedAt, KnownGraves
          <5> QED BY <5>3, <5>4
        <4>3. DisjointWork(c)' /\ GravesWorked(c)'
          BY <1>2, IdleWorks DEF Edited, DisjointWork, GravesWorked, Working
        <4> QED BY <3>2, <4>1, <4>2, <4>3 DEF GravesOf
      <3> QED BY <3>1, <3>2
    <2> QED BY <2>1, <2>2 DEF GravesInv
  <1>3. CASE Begins(c)
    <2>1. GravesHeld' /\ GravesServed'
      BY <1>3, <1>00 DEF Begins, GravesHeld, GravesServed
    <2>2. ASSUME NEW d \in Clients PROVE GravesOf(d)' /\ DisjointWork(d)' /\ GravesWorked(d)'
      <3>1. GravesOf(d)'
        BY <1>3, <1>00 DEF Begins, GravesOf
      <3>2. DisjointWork(d)'
        BY <1>3, <1>00 DEF Begins, DisjointWork, GravesOf
      <3>3. GravesWorked(d)'
        BY <1>3 DEF Begins, GravesWorked, Working, InSession
      <3> QED BY <3>1, <3>2, <3>3
    <2> QED BY <2>1, <2>2 DEF GravesInv
  \* a request of c's sync
  <1>4. ASSUME OnlySync(c), session'.key = c,
               Disjoint(session'.work), NoPending(session'.work.graves),
               Grown(server.graves, session'.work.graves, server.usn),
               Disjoint(syncing'[c].work), NoPending(syncing'[c].work.graves),
               IF syncing'[c].phase = "graves" THEN BeforeGraves(c)' ELSE AfterGraves(c)'
        PROVE  GravesInv'
    <2>1. GravesHeld' /\ GravesServed'
      BY <1>4, <1>00 DEF OnlySync, GravesHeld, GravesServed
    <2>2. ASSUME NEW d \in Clients PROVE GravesOf(d)' /\ DisjointWork(d)' /\ GravesWorked(d)'
      <3>1. GravesOf(d)'
        BY <1>4, <1>00 DEF OnlySync, GravesOf
      <3>2. DisjointWork(d)'
        BY <1>4, <1>00 DEF OnlySync, DisjointWork
      <3>3. GravesWorked(d)'
        BY <1>4, WorkingAlone DEF GravesWorked
      <3> QED BY <3>1, <3>2, <3>3
    <2> QED BY <2>1, <2>2 DEF GravesInv
  <1>5. CASE StartSync(c)
    <2> DEFINE s == syncing[c]  next == syncing'[c]  marked == Marked(s.work, s.server_usn)
               d == device[c]
    <2>1. /\ OnlySync(c) /\ s.phase = "start"
          /\ session' = [key |-> c, server_usn |-> server.usn, client_usn |-> device[c].usn,
                         client_is_newer |-> s.newer, ids |-> <<>>, work |-> server]
          /\ MarkedSent(marked, s.work)
          /\ \/ /\ next.phase = "graves"
                /\ next.local = Local(s.work) /\ next.remote = Remote(c) /\ next.work = marked
             \/ /\ next.phase = "changes" /\ Local(s.work) = {}
                /\ Buried(next.work, marked, Remote(c), s.server_usn)
      BY <1>5, StartSyncIs
    <2>2. session'.key = c /\ session'.work = server
      BY <2>1
    <2>3. s.work = d /\ d.scm = server.scm /\ s.server_usn = server.usn
      BY <2>1 DEF Numbers, Compared
    <2>4. server' = server /\ device' = device
      BY <2>1 DEF OnlySync
    <2> HIDE DEF marked
    <2>5. Disjoint(marked) /\ NoPending(marked.graves) /\ marked.rows = d.rows
          /\ DOMAIN marked.graves = DOMAIN d.graves
      BY <2>1, <2>3, <1>00 DEF MarkedSent, GravesOf, Disjoint, NoPending
    <2>6. Disjoint(server) /\ NoPending(server.graves) /\ Grown(server.graves, server.graves, server.usn)
      BY <1>00 DEF GravesHeld, Grown
    <2> HIDE DEF s
    <2>7. CASE next.phase = "graves"
      <3>1. next.local = Local(d) /\ next.remote = Remote(c) /\ next.work = marked
        BY <2>1, <2>3, <2>7
      <3>2. BeforeGraves(c)'
        BY <2>2, <2>4, <2>5, <3>1 DEF BeforeGraves, Remote
      <3> QED BY <2>1, <2>2, <2>5, <2>6, <2>7, <3>1, <3>2, <1>4
    <2>8. CASE next.phase = "changes"
      <3>1. Local(d) = {} /\ Buried(next.work, marked, Remote(c), server.usn)
        BY <2>1, <2>3, <2>8
      <3>2. /\ SentGraves(d, server) /\ KnownGraves(d, server, d.usn) /\ d.usn \in Nat
            /\ \A o \in DOMAIN server.graves : server.graves[o].usn \in Usns
        BY <2>3, <1>00, <1>01 DEF GravesOf, Shape, Typed, IsTombs
      <3>3. /\ DOMAIN d.graves \cup Remote(c) = DOMAIN d.graves \cup DOMAIN server.graves
            /\ DOMAIN server.graves \cup Local(d) = DOMAIN d.graves \cup DOMAIN server.graves
        <4> DEFINE l == Local(d)  r == Remote(c)
        <4>1. l = {o \in DOMAIN d.graves : d.graves[o].usn = Pending}
              /\ r = {o \in DOMAIN server.graves : server.graves[o].usn >= d.usn}
          BY DEF Local, Remote
        <4> HIDE DEF l, r, d
        <4> QED BY <2>6, <3>2, <4>1, GravesMeet DEF l, r
      <3>4. DOMAIN next.work.graves = DOMAIN d.graves \cup Remote(c)
        BY <2>5, <3>1 DEF Buried
      <3>5. AfterGraves(c)'
        BY <2>2, <2>4, <3>1, <3>3, <3>4 DEF AfterGraves
      <3>6. server.usn # Pending
        BY <1>01 DEF Pending
      <3>7. Disjoint(next.work) /\ NoPending(next.work.graves)
        BY <2>5, <3>1, <3>6, BuriedDisjoint, BuriedPending
      <3> QED BY <2>1, <2>2, <2>6, <2>8, <3>5, <3>7, <1>4
    <2> QED BY <2>1, <2>7, <2>8
  <1>6. CASE SendGraves(c)
    <2> DEFINE s == syncing[c]  d == device[c]
    <2>1. /\ OnlySync(c) /\ InSession(c) /\ s.phase = "graves" /\ syncing'[c].phase = "changes"
          /\ Buried(syncing'[c].work, s.work, s.remote, s.server_usn)
          /\ Buried(session'.work, session.work, s.local, session.server_usn)
          /\ SameSession
      BY <1>6, SendGravesIs
    <2>2. /\ Working(c) /\ session.key = c /\ session # Nobody
          /\ session.server_usn = server.usn /\ s.server_usn = server.usn
          /\ d.scm = server.scm /\ server.usn # Pending /\ d.usn \in Nat
          /\ s # Idle
      BY <2>1, AgreedIs DEF Works
    <2>3. BeforeGraves(c) /\ NoPending(s.work.graves) /\ Disjoint(s.work)
          /\ Disjoint(session.work) /\ NoPending(session.work.graves)
      BY <2>1, <2>2, <1>00 DEF GravesWorked, DisjointWork, GravesServed
    <2>4. server' = server /\ device' = device
      BY <2>1 DEF OnlySync
    <2>5. /\ SentGraves(d, server) /\ KnownGraves(d, server, d.usn) /\ NoPending(server.graves)
          /\ \A o \in DOMAIN server.graves : server.graves[o].usn \in Usns
      BY <2>2, <1>00 DEF GravesOf, GravesHeld, Shape, Typed, IsTombs
    <2>6. /\ DOMAIN d.graves \cup Remote(c) = DOMAIN d.graves \cup DOMAIN server.graves
          /\ DOMAIN server.graves \cup Local(d) = DOMAIN d.graves \cup DOMAIN server.graves
      <3> DEFINE l == Local(d)  r == Remote(c)
      <3>1. l = {o \in DOMAIN d.graves : d.graves[o].usn = Pending}
            /\ r = {o \in DOMAIN server.graves : server.graves[o].usn >= d.usn}
        BY DEF Local, Remote
      <3> HIDE DEF l, r, d
      <3> QED BY <2>2, <2>5, <3>1, GravesMeet DEF l, r
    <2>7. DOMAIN syncing'[c].work.graves = DOMAIN d.graves \cup Remote(c)
          /\ DOMAIN session'.work.graves = DOMAIN server.graves \cup Local(d)
      BY <2>1, <2>3 DEF Buried, BeforeGraves
    <2>8. AfterGraves(c)'
      BY <2>4, <2>6, <2>7 DEF AfterGraves
    <2>9. Disjoint(syncing'[c].work) /\ NoPending(syncing'[c].work.graves)
          /\ Disjoint(session'.work) /\ NoPending(session'.work.graves)
      BY <2>1, <2>2, <2>3, BuriedDisjoint, BuriedPending
    <2>10. Grown(server.graves, session'.work.graves, server.usn)
      BY <2>1, <2>2, <2>3 DEF Grown, Buried, BeforeGraves
    <2> QED BY <2>1, <2>2, <2>8, <2>9, <2>10, <1>4 DEF SameSession
  \* a request that leaves the deletions alone, and brings no row that either
  \* side has not
  <1>7. ASSUME OnlySync(c), InSession(c), SameSession,
               syncing[c].phase \in Works \ {"graves"}, syncing'[c].phase # "graves",
               syncing'[c].work.graves = syncing[c].work.graves,
               session'.work.graves = session.work.graves,
               DOMAIN syncing'[c].work.rows \subseteq DOMAIN syncing[c].work.rows \cup DOMAIN session.work.rows,
               DOMAIN session'.work.rows \subseteq DOMAIN syncing[c].work.rows \cup DOMAIN session.work.rows
        PROVE  GravesInv'
    <2>1. /\ Working(c) /\ session.key = c /\ session # Nobody /\ syncing[c] # Idle
      BY <1>7, AgreedIs
    <2>2. AfterGraves(c) /\ NoPending(syncing[c].work.graves) /\ Disjoint(syncing[c].work)
          /\ Disjoint(session.work) /\ NoPending(session.work.graves)
          /\ Grown(server.graves, session.work.graves, server.usn)
      BY <1>7, <2>1, <1>00 DEF GravesWorked, DisjointWork, GravesServed
    <2>3. server' = server /\ device' = device
      BY <1>7 DEF OnlySync
    <2>4. AfterGraves(c)'
      BY <1>7, <2>2, <2>3 DEF AfterGraves
    <2>5. Disjoint(syncing'[c].work) /\ Disjoint(session'.work)
      BY <1>7, <2>2 DEF Disjoint, AfterGraves
    <2> QED BY <1>7, <2>1, <2>2, <2>4, <2>5, <1>4 DEF SameSession
  <1>8. CASE SendChanges(c)
    <2> DEFINE s == syncing[c]  w == s.work  z == session.work  n == session.client_usn
    <2>1. /\ OnlySync(c) /\ InSession(c) /\ s.phase = "changes" /\ syncing'[c].phase = "chunk"
          /\ SameSession
      BY <1>8, SendChangesIs
    <2>2. \E marked, sent, got :
            /\ marked.graves = w.graves /\ DOMAIN marked.rows = DOMAIN w.rows
            /\ DOMAIN sent \subseteq DOMAIN w.rows /\ DOMAIN got \subseteq DOMAIN z.rows
            /\ TookRows(session'.work, z, sent, NewerDecks(z, sent))
            /\ TookRows(syncing'[c].work, marked, got, NewerDecks(marked, got))
      <3>1. LocalDecks(w) \subseteq DOMAIN w.rows /\ RemoteDecks(z, n) \subseteq DOMAIN z.rows
        BY DEF LocalDecks, RemoteDecks
      <3>2. \E marked, sent, got :
              /\ MarkedRows(marked.rows, w.rows, LocalDecks(w), s.server_usn)
              /\ marked.graves = w.graves
              /\ DOMAIN sent = LocalDecks(w) /\ DOMAIN got = RemoteDecks(z, n)
              /\ TookRows(session'.work, z, sent, NewerDecks(z, sent))
              /\ TookRows(syncing'[c].work, marked, got, NewerDecks(marked, got))
        BY <1>8, SendChangesIs
      <3> QED BY <3>1, <3>2 DEF MarkedRows
    <2>3. /\ syncing'[c].work.graves = w.graves /\ session'.work.graves = z.graves
          /\ DOMAIN syncing'[c].work.rows \subseteq DOMAIN w.rows \cup DOMAIN z.rows
          /\ DOMAIN session'.work.rows \subseteq DOMAIN w.rows \cup DOMAIN z.rows
      BY <2>2 DEF TookRows
    <2> QED BY <2>1, <2>3, <1>7 DEF Works
  <1>9. CASE FetchChunk(c)
    <2> DEFINE s == syncing[c]  w == s.work  z == session.work
               part == TakeChunk(Awaited).part  chunk == Fetch(z, part)
    <2>1. /\ OnlySync(c) /\ InSession(c) /\ s.phase = "chunk"
          /\ syncing'[c].phase \in {"chunk", "apply chunk"}
          /\ SameSession /\ session'.work = z /\ IdsIn(Awaited, z)
          /\ part.cards \subseteq Awaited.cards /\ DOMAIN chunk.cards = part.cards
          /\ TookRows(syncing'[c].work, w, chunk.cards, NewerCards(w, chunk.cards, Pending))
      BY <1>9, FetchChunkIs, AwaitedIn
    <2> HIDE DEF part, chunk
    <2>2. /\ syncing'[c].work.graves = w.graves /\ session'.work.graves = z.graves
          /\ DOMAIN syncing'[c].work.rows \subseteq DOMAIN w.rows \cup DOMAIN z.rows
          /\ DOMAIN session'.work.rows \subseteq DOMAIN w.rows \cup DOMAIN z.rows
      BY <2>1 DEF TookRows, IdsIn
    <2> QED BY <2>1, <2>2, <1>7 DEF Works
  <1>10. CASE SendChunk(c)
    <2> DEFINE s == syncing[c]  w == s.work  z == session.work  part == TakeChunk(s.ids).part
    <2>1. /\ OnlySync(c) /\ InSession(c) /\ s.phase = "apply chunk"
          /\ syncing'[c].phase \in {"sanity", "apply chunk"}
          /\ SameSession
          /\ part.cards \subseteq s.ids.cards /\ IdsIn(s.ids, w)
          /\ MarkedRows(syncing'[c].work.rows, w.rows, part.cards, s.server_usn)
          /\ syncing'[c].work.graves = w.graves
      BY <1>10, SendChunkIs
    <2>2. \E sent : /\ DOMAIN sent.cards = part.cards
                    /\ TookRows(session'.work, z, sent.cards, NewerCards(z, sent.cards, session.client_usn))
      BY <1>10, SendChunkIs
    <2> HIDE DEF part
    <2>3. /\ session'.work.graves = z.graves
          /\ DOMAIN syncing'[c].work.rows \subseteq DOMAIN w.rows \cup DOMAIN z.rows
          /\ DOMAIN session'.work.rows \subseteq DOMAIN w.rows \cup DOMAIN z.rows
      BY <2>1, <2>2 DEF TookRows, IdsIn, MarkedRows
    <2> QED BY <2>1, <2>3, <1>7 DEF Works
  <1>11. CASE Checks(c)
    <2>1. /\ OnlySync(c) /\ InSession(c) /\ syncing[c].phase = "sanity" /\ syncing'[c].phase = "finish"
          /\ session' = session /\ syncing'[c].work = syncing[c].work
      BY <1>11 DEF Checks
    <2>2. SameSession
      BY <2>1, SessionOf DEF SameSession
    <2> QED BY <2>1, <2>2, <1>7 DEF Works
  <1>12. CASE CheckFails(c)
    <2>1. session.key = c /\ session # Nobody
      BY <1>12 DEF CheckFails, InSession
    <2>2. GravesHeld' /\ GravesServed'
      BY <1>12, <1>00 DEF CheckFails, GravesHeld, GravesServed, Grown
    <2>3. ASSUME NEW d \in Clients PROVE GravesOf(d)' /\ DisjointWork(d)' /\ GravesWorked(d)'
      <3>1. GravesOf(d)'
        <4>1. CASE d = c
          BY <1>12, <4>1, <1>0, <1>00 DEF CheckFails, GravesOf, Disjoint
        <4>2. CASE d # c
          BY <1>12, <4>2, <1>00 DEF CheckFails, GravesOf
        <4> QED BY <4>1, <4>2
      <3>2. DisjointWork(d)'
        BY <1>12, <1>00 DEF CheckFails, DisjointWork
      <3>3. GravesWorked(d)'
        BY <1>12, <2>1, IdleWorks DEF CheckFails, SameSession, GravesWorked, Working, InSession
      <3> QED BY <3>1, <3>2, <3>3
    <2> QED BY <2>2, <2>3 DEF GravesInv
  <1>13. CASE Ends(c) /\ (EndsWell(c) \/ EndsBadly(c))
    <2> DEFINE z == session.work
    <2>1. /\ InSession(c) /\ syncing[c].phase = "finish" /\ session' = Nobody
          /\ server'.scm = z.scm /\ server'.graves = z.graves /\ server'.rows = z.rows
      BY <1>13 DEF Ends, Ended
    <2>2. Working(c) /\ session # Nobody /\ z.scm = server.scm /\ syncing[c] # Idle
      BY <2>1, AgreedIs DEF Works
    <2>3. AfterGraves(c) /\ NoPending(syncing[c].work.graves) /\ Disjoint(syncing[c].work)
          /\ Disjoint(z) /\ NoPending(z.graves)
          /\ Grown(server.graves, z.graves, server.usn)
      BY <2>1, <2>2, <1>00 DEF GravesWorked, DisjointWork, GravesServed
    <2> HIDE DEF z
    <2>4. GravesHeld' /\ GravesServed'
      BY <2>1, <2>3 DEF GravesHeld, GravesServed, Disjoint
    <2>5. ASSUME NEW d \in Clients PROVE GravesOf(d)' /\ DisjointWork(d)' /\ GravesWorked(d)'
      <3>1. CASE UNCHANGED device[d]
        <4>1. ASSUME device[d].scm = server.scm
              PROVE  SentGraves(device[d], server') /\ KnownGraves(device[d], server', device[d].usn)
          <5>1. SentGraves(device[d], server) /\ KnownGraves(device[d], server, device[d].usn)
                /\ device[d].usn <= server.usn /\ device[d].usn \in Nat /\ server.usn \in Nat
            BY <4>1, <1>00, <1>01 DEF GravesOf, Behind
          <5>2. SentGraves(device[d], server')
            BY <5>1, <2>1, <2>3 DEF SentGraves, Grown
          <5>3. KnownGraves(device[d], server', device[d].usn)
            BY <5>1, <2>1, <2>3 DEF KnownGraves, Grown
          <5> QED BY <5>2, <5>3
        <4>2. GravesOf(d)'
          BY <2>1, <2>2, <3>1, <4>1, <1>00 DEF GravesOf
        <4> QED BY <1>13, <2>1, <4>2, <1>00 DEF Ends, DisjointWork, GravesWorked, Working, InSession
      <3>2. CASE d = c /\ EndsWell(c)
        <4>1. device'[c].graves = syncing[c].work.graves /\ device'[c].rows = syncing[c].work.rows
          BY <3>2 DEF EndsWell, Ended
        <4>2. DOMAIN device'[c].graves = DOMAIN server'.graves
          BY <2>1, <2>3, <4>1 DEF AfterGraves, z
        <4>3. GravesOf(d)'
          BY <2>3, <3>2, <4>1, <4>2 DEF GravesOf, SentGraves, KnownGraves, Disjoint
        <4> QED BY <1>13, <2>1, <3>2, <4>3 DEF Ends, DisjointWork, GravesWorked, Working, InSession
      <3> QED BY <1>13, <3>1, <3>2 DEF Ends, EndsBadly
    <2> QED BY <2>4, <2>5 DEF GravesInv
  <1>14. CASE Uploads(c)
    <2>1. device'[c].scm = now + 1 /\ DOMAIN device'[c].graves = {}
      BY <1>14 DEF Uploads, Uploaded
    <2>2. Disjoint(device'[c]) /\ NoPending(device'[c].graves)
      BY <2>1 DEF Disjoint, NoPending
    <2>3. GravesHeld' /\ GravesServed'
      BY <1>14, <1>00, <2>2 DEF Uploads, GravesHeld, GravesServed
    <2>4. ASSUME NEW d \in Clients PROVE GravesOf(d)' /\ DisjointWork(d)' /\ GravesWorked(d)'
      <3>1. GravesOf(d)'
        <4>1. CASE d = c
          BY <1>14, <4>1, <2>1, <2>2, <1>0 DEF Uploads, GravesOf, SentGraves, KnownGraves
        <4>2. CASE d # c
          BY <1>14, <4>2, <2>1, <1>0, <1>00 DEF Uploads, GravesOf
        <4> QED BY <4>1, <4>2
      <3>2. DisjointWork(d)'
        BY <1>14, <1>00 DEF Uploads, DisjointWork
      <3>3. GravesWorked(d)'
        <4>1. CASE d = c
          BY <1>14, <4>1, IdleWorks DEF Uploads, GravesWorked, Working
        <4>2. CASE d # c /\ session' = Nobody
          BY <4>2 DEF GravesWorked, Working, InSession
        <4>3. CASE d # c /\ UNCHANGED <<server, session>>
          BY <1>14, <4>3, <1>00 DEF Uploads, GravesWorked, Working, InSession,
                                    BeforeGraves, AfterGraves, Remote
        <4> QED BY <1>14, <4>1, <4>2, <4>3 DEF Uploads
      <3> QED BY <3>1, <3>2, <3>3
    <2> QED BY <2>3, <2>4 DEF GravesInv
  <1>15. CASE Downloads(c)
    <2>1. server'.scm = server.scm /\ server'.graves = server.graves /\ server'.rows = server.rows
          /\ device'[c] = server' /\ session' = Nobody
      BY <1>15 DEF Downloads, Ended
    <2>2. GravesHeld' /\ GravesServed'
      BY <2>1, <1>00 DEF GravesHeld, GravesServed, Disjoint
    <2>3. ASSUME NEW d \in Clients PROVE GravesOf(d)' /\ DisjointWork(d)' /\ GravesWorked(d)'
      <3>1. GravesOf(d)'
        <4>1. CASE d = c
          BY <4>1, <2>1, <2>2 DEF GravesOf, GravesHeld, SentGraves, KnownGraves
        <4>2. CASE d # c
          BY <1>15, <4>2, <2>1, <1>00 DEF Downloads, GravesOf, SentGraves, KnownGraves
        <4> QED BY <4>1, <4>2
      <3>2. DisjointWork(d)'
        BY <1>15, <1>00 DEF Downloads, DisjointWork
      <3>3. GravesWorked(d)'
        BY <2>1 DEF GravesWorked, Working, InSession
      <3> QED BY <3>1, <3>2, <3>3
    <2> QED BY <2>2, <2>3 DEF GravesInv
  <1> QED
    BY <1>1, <1>2, <1>3, <1>5, <1>6, <1>8, <1>9, <1>10, <1>11, <1>12, <1>13, <1>14, <1>15 DEF Steps

LEMMA GravesInit == Init => GravesInv
  <1> SUFFICES ASSUME Init PROVE GravesInv
    OBVIOUS
  <1>1. DOMAIN server.graves = {} /\ \A d \in Clients : device[d] = server /\ syncing[d] = Idle
    BY DEF Init, StartCollection, Nothing
  <1>2. session = Nobody
    BY DEF Init
  <1>3. ASSUME NEW d \in Clients PROVE GravesOf(d) /\ DisjointWork(d) /\ GravesWorked(d)
    BY <1>1, <1>2 DEF GravesOf, SentGraves, KnownGraves, Disjoint, DisjointWork, GravesWorked,
                      Working, InSession
  <1> QED
    BY <1>1, <1>2, <1>3 DEF GravesInv, GravesHeld, GravesServed, Disjoint, NoPending

LEMMA GravesKept ==
    ASSUME Shape, Numbers, GravesInv, [Next]_vars
    PROVE  GravesInv'
  <1>1. CASE Clients = {}
    BY <1>1, NextIs DEF Drops, GravesInv, GravesHeld, GravesServed
  <1>2. CASE Clients # {}
    BY <1>2, NextIs, StepGraves
  <1> QED
    BY <1>1, <1>2

LEMMA IsCollectionIs ==
    ASSUME NEW col, Typed(col, now), Disjoint(col)
    PROVE  IsCollection(col)
  BY DEF Typed, IsRows, IsTombs, Usns, Disjoint, IsCollection, Table, Tombs

\* In every collection, committed or being worked on, rows and deletions are well
\* formed and no object is both there and deleted (apply_graves, chunks.rs), as
\* long as no sync overtakes another one.
THEOREM EveryCopyIsACollection ==
    ASSUME "overtaken" \notin Faults
    PROVE  Spec => []TypeOK
  <1> DEFINE Inv == Shape /\ Numbers /\ GravesInv
  <1>1. Init => Inv
    BY ShapeInit, NumbersInit, GravesInit
  <1>2. Inv /\ [Next]_vars => Inv'
    BY ShapeKept, NumbersKept, GravesKept
  <1>3. Inv => TypeOK
    <2> SUFFICES ASSUME Inv PROVE TypeOK
      OBVIOUS
    <2>1. ASSUME NEW c \in Clients
          PROVE  /\ IsCollection(device[c])
                 /\ syncing[c].phase \in Phases
                 /\ syncing[c] # Idle => IsCollection(syncing[c].work)
                 /\ offered[c] \subseteq {"upload", "download"}
      <3>1. IsCollection(device[c])
        BY IsCollectionIs DEF Shape, GravesInv, GravesOf
      <3>2. IsSync(syncing[c], now)
        BY DEF Shape
      <3>3. syncing[c].phase \in Phases
        <4>1. CASE syncing[c] = Idle
          BY <4>1 DEF Idle, Phases
        <4>2. CASE syncing[c] # Idle
          BY <4>2, <3>2 DEF IsSync, Phases, Works
        <4> QED BY <4>1, <4>2
      <3>4. syncing[c] # Idle => IsCollection(syncing[c].work)
        BY <3>2, IsCollectionIs DEF IsSync, GravesInv, DisjointWork
      <3> QED BY <3>1, <3>3, <3>4 DEF Shape
    <2>2. IsCollection(server)
      BY IsCollectionIs DEF Shape, GravesInv, GravesHeld
    <2>3. session # Nobody => session.key \in Clients /\ IsCollection(session.work)
      BY IsCollectionIs DEF Shape, IsSession, GravesInv, GravesServed
    <2> QED
      BY <2>1, <2>2, <2>3 DEF TypeOK, Shape
  <1> QED
    BY <1>1, <1>2, <1>3, PTL DEF Spec

-----------------------------------------------------------------------------
(* Rows and reviews, as long as no two edits share a second: then comparing *)
(* modification times compares versions.                                    *)

Dated(t) == \A k \in DOMAIN t : t[k].mtime = IF t[k].edit = 1 THEN 0 ELSE t[k].edit

\* y has o in the version that x has, or in a newer one, or has deleted it.
AsNewIn(y, x, o) ==
    \/ o \in DOMAIN y.graves
    \/ o \in DOMAIN y.rows /\ y.rows[o].edit >= x.rows[o].edit

SentRows(x, y) == \A o \in DOMAIN x.rows : x.rows[o].usn # Pending => AsNewIn(y, x, o)
KnownRows(x, y, n) == \A o \in DOMAIN y.rows : y.rows[o].usn < n => AsNewIn(x, y, o)
KnownReviews(x, y, n) == \A e \in DOMAIN y.revlog : y.revlog[e].usn < n => e \in DOMAIN x.revlog
Kept(x, w) == \A o \in DOMAIN x.rows : AsNewIn(w, x, o)

\* z is the server's copy s with what a client has sent, numbered n.
Renewed(s, z, n) ==
    /\ \A o \in DOMAIN z.rows : z.rows[o].usn = n \/ (o \in DOMAIN s.rows /\ z.rows[o] = s.rows[o])
    /\ Kept(s, z)
    /\ Grown(s.revlog, z.revlog, n)

\* Halfway through the exchange of rows: the client's copy w lacks, of what the
\* server's copy z has, at most the rows in `awaited`, and z lacks of w at most
\* those in `unsent`.
Halfway(w, z, awaited, unsent) ==
    /\ \A o \in DOMAIN w.rows :
         IF w.rows[o].usn = Pending THEN o \in unsent
         ELSE o \in DOMAIN z.rows /\ z.rows[o].edit >= w.rows[o].edit
    /\ \A o \in DOMAIN z.rows \ awaited :
         o \in DOMAIN w.rows /\ w.rows[o].edit >= z.rows[o].edit

HalfwayReviews(w, z, awaited, unsent) ==
    /\ \A e \in DOMAIN w.revlog :
         IF w.revlog[e].usn = Pending THEN e \in unsent ELSE e \in DOMAIN z.revlog
    /\ \A e \in DOMAIN z.revlog \ awaited : e \in DOMAIN w.revlog

\* Every version in w is from x or y.
FromOneOf(w, x, y) ==
    \A o \in DOMAIN w.rows : \/ o \in DOMAIN x.rows /\ x.rows[o].edit = w.rows[o].edit
                             \/ o \in DOMAIN y.rows /\ y.rows[o].edit = w.rows[o].edit

\* What the two sides hold now comes from what they had, d and s.
Gathered(w, z, d, s) ==
    /\ Kept(d, w)
    /\ FromOneOf(w, d, s) /\ FromOneOf(z, d, s)
    /\ DOMAIN d.revlog \subseteq DOMAIN w.revlog
    /\ DOMAIN w.revlog \cup DOMAIN z.revlog \subseteq DOMAIN d.revlog \cup DOMAIN s.revlog

\* r is col after the incoming rows, of which it takes the newer ones.
Upgraded(r, col, incoming) ==
    /\ DOMAIN r.rows = DOMAIN col.rows \cup DOMAIN incoming
    /\ \A o \in DOMAIN r.rows : \/ o \in DOMAIN col.rows /\ r.rows[o] = col.rows[o]
                                \/ o \in DOMAIN incoming /\ r.rows[o] = incoming[o]
    /\ \A o \in DOMAIN col.rows : r.rows[o].edit >= col.rows[o].edit
    /\ \A o \in DOMAIN incoming : r.rows[o].edit >= incoming[o].edit
    /\ r.graves = col.graves

\* Dates order rows as versions do.
LEMMA DatesOrder ==
    ASSUME NEW T \in Nat, NEW s, NEW t, IsRows(s, T), IsRows(t, T), Dated(s), Dated(t),
           NEW o \in DOMAIN s \cap DOMAIN t
    PROVE  /\ s[o].mtime <= t[o].mtime <=> s[o].edit <= t[o].edit
           /\ s[o].mtime < t[o].mtime <=> s[o].edit < t[o].edit
           /\ s[o].edit \in Nat /\ t[o].edit \in Nat
  <1>1. s[o].edit \in 1..T /\ t[o].edit \in 1..T
    BY DEF IsRows
  <1>2. s[o].mtime = (IF s[o].edit = 1 THEN 0 ELSE s[o].edit)
        /\ t[o].mtime = (IF t[o].edit = 1 THEN 0 ELSE t[o].edit)
    BY DEF Dated
  <1> QED
    BY <1>1, <1>2

LEMMA EditsAreNumbers ==
    ASSUME NEW T \in Nat, NEW t, IsRows(t, T)
    PROVE  \A o \in DOMAIN t : t[o].edit \in Nat /\ t[o].edit \in 1..T /\ t[o].usn \in Usns
  BY DEF IsRows

LEMMA MergeUpgrades ==
    ASSUME NEW T \in Nat, NEW r, NEW col, NEW incoming, IsRows(col.rows, T), IsRows(incoming, T),
           Dated(col.rows), Dated(incoming),
           TookRows(r, col, incoming, NewerDecks(col, incoming))
    PROVE  Upgraded(r, col, incoming)
  <1> DEFINE taken == NewerDecks(col, incoming)
  <1>1. \A o \in DOMAIN col.rows \cap DOMAIN incoming :
          /\ col.rows[o].edit \in Nat /\ incoming[o].edit \in Nat
          /\ o \in taken <=> col.rows[o].edit <= incoming[o].edit
    BY DatesOrder DEF NewerDecks
  <1>2. taken \subseteq DOMAIN incoming /\ DOMAIN incoming \ DOMAIN col.rows \subseteq taken
    BY DEF NewerDecks
  <1>3. /\ \A o \in DOMAIN col.rows : col.rows[o].edit \in Nat
        /\ \A o \in DOMAIN incoming : incoming[o].edit \in Nat
    BY EditsAreNumbers
  <1> HIDE DEF taken
  <1> QED
    BY <1>1, <1>2, <1>3 DEF TookRows, Upgraded, taken

LEMMA ChunkUpgrades ==
    ASSUME NEW T \in Nat, NEW r, NEW col, NEW incoming, IsRows(col.rows, T), IsRows(incoming, T),
           Dated(col.rows), Dated(incoming), NEW since,
           TookRows(r, col, incoming, NewerCards(col, incoming, since)),
           \A o \in DOMAIN col.rows \cap DOMAIN incoming :
             IsPending(col.rows[o].usn, since) \/ col.rows[o].edit <= incoming[o].edit
    PROVE  Upgraded(r, col, incoming)
  <1> DEFINE taken == NewerCards(col, incoming, since)
  <1>1. ASSUME NEW o \in DOMAIN col.rows \cap DOMAIN incoming
        PROVE  /\ o \in taken => col.rows[o].edit <= incoming[o].edit
               /\ o \notin taken => incoming[o].edit <= col.rows[o].edit
    <2>1. /\ col.rows[o].mtime < incoming[o].mtime <=> col.rows[o].edit < incoming[o].edit
          /\ col.rows[o].edit \in Nat /\ incoming[o].edit \in Nat
      BY DatesOrder
    <2>2. o \in taken <=> \/ ~IsPending(col.rows[o].usn, since)
                          \/ col.rows[o].mtime < incoming[o].mtime
      BY DEF NewerCards
    <2> QED BY <2>1, <2>2
  <1>2. taken \subseteq DOMAIN incoming /\ DOMAIN incoming \ DOMAIN col.rows \subseteq taken
    BY DEF NewerCards
  <1>3. /\ \A o \in DOMAIN col.rows : col.rows[o].edit \in Nat
        /\ \A o \in DOMAIN incoming : incoming[o].edit \in Nat
    BY EditsAreNumbers
  <1> HIDE DEF taken
  <1> QED
    BY <1>1, <1>2, <1>3 DEF TookRows, Upgraded, taken

LEMMA UpgradedDated ==
    ASSUME NEW r, NEW col, NEW incoming, Upgraded(r, col, incoming), Dated(col.rows), Dated(incoming)
    PROVE  Dated(r.rows)
  BY DEF Upgraded, Dated

LEMMA UpgradedKept ==
    ASSUME NEW T \in Nat, NEW s, NEW r, NEW col, NEW incoming, Upgraded(r, col, incoming),
           IsRows(s.rows, T), IsRows(col.rows, T), IsRows(r.rows, T), Kept(s, col)
    PROVE  Kept(s, r)
  <1>1. /\ \A o \in DOMAIN s.rows : s.rows[o].edit \in Nat
        /\ \A o \in DOMAIN col.rows : col.rows[o].edit \in Nat
        /\ \A o \in DOMAIN r.rows : r.rows[o].edit \in Nat
    BY EditsAreNumbers
  <1> QED
    BY <1>1 DEF Upgraded, Kept, AsNewIn

\* After the deletions: each side has lost the rows that the other deleted.
LEMMA HalfwayStarts ==
    ASSUME NEW d, NEW s, NEW w, NEW z, d.usn \in Nat,
           Disjoint(d), Disjoint(s), NoPending(s.graves),
           SentGraves(d, s), KnownGraves(d, s, d.usn), SentRows(d, s), KnownRows(d, s, d.usn),
           NEW remote, remote = {o \in DOMAIN s.graves : s.graves[o].usn >= d.usn},
           NEW local, local = {o \in DOMAIN d.graves : d.graves[o].usn = Pending},
           \A o \in DOMAIN s.graves : s.graves[o].usn \in Usns,
           \A o \in DOMAIN s.rows : s.rows[o].usn \in Usns,
           NoPending(s.rows),
           DOMAIN w.rows = DOMAIN d.rows \ remote, \A o \in DOMAIN w.rows : w.rows[o] = d.rows[o],
           DOMAIN z.rows = DOMAIN s.rows \ local, \A o \in DOMAIN z.rows : z.rows[o] = s.rows[o],
           remote \subseteq DOMAIN w.graves, local \subseteq DOMAIN z.graves,
           \A o \in DOMAIN d.rows : d.rows[o].edit \in Nat,
           \A o \in DOMAIN s.rows : s.rows[o].edit \in Nat,
           NEW unsent, DOMAIN d.rows \subseteq unsent
    PROVE  /\ Halfway(w, z, Since(z.rows, d.usn), unsent)
           /\ Kept(d, w) /\ Kept(s, z) /\ FromOneOf(w, d, s) /\ FromOneOf(z, d, s)
  <1>1. \A o \in DOMAIN s.graves : o \in remote \/ o \in DOMAIN d.graves
    BY DEF KnownGraves, Usns, Pending
  <1>2. \A o \in DOMAIN d.graves : o \in local \/ o \in DOMAIN s.graves
    BY DEF SentGraves
  <1>3. ASSUME NEW o \in DOMAIN w.rows, w.rows[o].usn # Pending
        PROVE  o \in DOMAIN z.rows /\ z.rows[o].edit >= w.rows[o].edit
    <2>1. o \in DOMAIN d.rows /\ o \notin remote /\ w.rows[o] = d.rows[o] /\ o \notin DOMAIN d.graves
      BY DEF Disjoint
    <2>2. o \notin DOMAIN s.graves /\ o \notin local
      BY <1>1, <2>1
    <2>3. o \in DOMAIN s.rows /\ s.rows[o].edit >= d.rows[o].edit
      BY <1>3, <2>1, <2>2 DEF SentRows, AsNewIn
    <2> QED BY <2>1, <2>2, <2>3
  <1>4. ASSUME NEW o \in DOMAIN z.rows \ Since(z.rows, d.usn)
        PROVE  o \in DOMAIN w.rows /\ w.rows[o].edit >= z.rows[o].edit
    <2>1. o \in DOMAIN s.rows /\ o \notin local /\ z.rows[o] = s.rows[o] /\ o \notin DOMAIN s.graves
      BY DEF Disjoint
    <2>2. s.rows[o].usn < d.usn
      BY <1>4, <2>1, SinceIs DEF Usns, NoPending
    <2>3. o \notin DOMAIN d.graves /\ o \notin remote
      BY <1>2, <2>1
    <2>4. o \in DOMAIN d.rows /\ d.rows[o].edit >= s.rows[o].edit
      BY <2>1, <2>2, <2>3 DEF KnownRows, AsNewIn
    <2> QED BY <2>1, <2>3, <2>4
  <1>5. Halfway(w, z, Since(z.rows, d.usn), unsent)
    BY <1>3, <1>4 DEF Halfway
  <1>6. Kept(d, w) /\ Kept(s, z)
    BY DEF Kept, AsNewIn
  <1>7. FromOneOf(w, d, s) /\ FromOneOf(z, d, s)
    BY DEF FromOneOf
  <1> QED
    BY <1>5, <1>6, <1>7

LEMMA HalfwayMore ==
    ASSUME NEW w, NEW z, NEW A, NEW U, Halfway(w, z, A, U), NEW B, NEW V,
           A \cap DOMAIN z.rows \subseteq B,
           \A o \in DOMAIN w.rows : w.rows[o].usn = Pending /\ o \in U => o \in V
    PROVE  Halfway(w, z, B, V)
  BY DEF Halfway

\* The decks are exchanged.
LEMMA HalfwayDecks ==
    ASSUME NEW T \in Nat, NEW w, NEW z, NEW ww, NEW zz, NEW marked, NEW sent, NEW got,
           NEW n \in Nat, NEW usn \in Nat, NEW unsent,
           IsRows(w.rows, T), IsRows(z.rows, T), IsRows(ww.rows, T), IsRows(zz.rows, T),
           Halfway(w, z, Since(z.rows, n), unsent), NoPending(z.rows),
           MarkedRows(marked.rows, w.rows, LocalDecks(w), usn),
           DOMAIN sent = LocalDecks(w), \A o \in LocalDecks(w) : sent[o] = marked.rows[o],
           DOMAIN got = RemoteDecks(z, n), \A o \in RemoteDecks(z, n) : got[o] = z.rows[o],
           Upgraded(zz, z, sent), Upgraded(ww, marked, got)
    PROVE  Halfway(ww, zz, ChunkableIds(zz, n).cards, Cards)
  <1>0. /\ \A o \in DOMAIN w.rows : w.rows[o].edit \in Nat /\ w.rows[o].usn \in Usns
        /\ \A o \in DOMAIN z.rows : z.rows[o].edit \in Nat /\ z.rows[o].usn \in Usns
        /\ \A o \in DOMAIN ww.rows : ww.rows[o].edit \in Nat
        /\ \A o \in DOMAIN zz.rows : zz.rows[o].edit \in Nat
    BY EditsAreNumbers
  <1>1. /\ LocalDecks(w) = {o \in Decks \cap DOMAIN w.rows : w.rows[o].usn = Pending}
        /\ RemoteDecks(z, n) = {o \in Decks \cap DOMAIN z.rows : z.rows[o].usn >= n}
        /\ DOMAIN w.rows \subseteq Cards \cup Decks /\ DOMAIN z.rows \subseteq Cards \cup Decks
        /\ usn # Pending
    BY DEF LocalDecks, RemoteDecks, IsRows, Objects, Pending
  <1>2. \A o \in DOMAIN z.rows : o \in Since(z.rows, n) <=> z.rows[o].usn >= n
    BY SinceIs
  <1>3. \A o \in DOMAIN zz.rows : o \in Cards /\ zz.rows[o].usn >= n
                                    => o \in ChunkableIds(zz, n).cards
    BY DEF ChunkableIds, Since, Only, IsPending, Pending
  <1>4. /\ DOMAIN marked.rows = DOMAIN w.rows
        /\ \A o \in DOMAIN w.rows : marked.rows[o].edit = w.rows[o].edit
        /\ \A o \in LocalDecks(w) : marked.rows[o].usn = usn
        /\ \A o \in DOMAIN w.rows \ LocalDecks(w) : marked.rows[o] = w.rows[o]
    BY <1>1 DEF MarkedRows
  <1>5. ASSUME NEW o \in DOMAIN ww.rows
        PROVE  IF ww.rows[o].usn = Pending THEN o \in Cards
               ELSE o \in DOMAIN zz.rows /\ zz.rows[o].edit >= ww.rows[o].edit
    <2>1. CASE o \in LocalDecks(w) /\ ww.rows[o] = marked.rows[o]
      <3>1. o \in DOMAIN sent /\ sent[o] = ww.rows[o] /\ o \in DOMAIN zz.rows
            /\ zz.rows[o].edit >= sent[o].edit
        BY <2>1 DEF Upgraded
      <3> QED BY <1>1, <1>4, <2>1, <3>1
    <2>2. CASE o \in DOMAIN w.rows /\ o \notin LocalDecks(w) /\ ww.rows[o] = marked.rows[o]
      <3>1. ww.rows[o] = w.rows[o]
        BY <1>4, <2>2
      <3>2. CASE w.rows[o].usn = Pending
        BY <1>1, <2>2, <3>1, <3>2
      <3>3. CASE w.rows[o].usn # Pending
        <4>1. o \in DOMAIN z.rows /\ z.rows[o].edit >= w.rows[o].edit
          BY <2>2, <3>3 DEF Halfway
        <4>2. o \in DOMAIN zz.rows /\ zz.rows[o].edit >= z.rows[o].edit
          BY <4>1 DEF Upgraded
        <4> QED BY <1>0, <2>2, <3>1, <3>3, <4>1, <4>2
      <3> QED BY <3>2, <3>3
    <2>3. CASE o \in DOMAIN got /\ ww.rows[o] = got[o]
      <3>1. o \in DOMAIN z.rows /\ ww.rows[o] = z.rows[o] /\ z.rows[o].usn # Pending
        BY <1>1, <2>3 DEF NoPending
      <3>2. o \in DOMAIN zz.rows /\ zz.rows[o].edit >= z.rows[o].edit
        BY <3>1 DEF Upgraded
      <3> QED BY <3>1, <3>2
    <2> QED BY <1>4, <2>1, <2>2, <2>3 DEF Upgraded
  <1>6. ASSUME NEW o \in DOMAIN zz.rows, o \notin ChunkableIds(zz, n).cards
        PROVE  o \in DOMAIN ww.rows /\ ww.rows[o].edit >= zz.rows[o].edit
    <2>1. CASE o \in DOMAIN sent /\ zz.rows[o] = sent[o]
      <3>1. o \in DOMAIN w.rows /\ o \in DOMAIN marked.rows /\ zz.rows[o] = marked.rows[o]
        BY <1>1, <1>4, <2>1
      <3>2. o \in DOMAIN ww.rows /\ ww.rows[o].edit >= marked.rows[o].edit
        BY <3>1 DEF Upgraded
      <3> QED BY <3>1, <3>2
    <2>2. CASE o \in DOMAIN z.rows /\ zz.rows[o] = z.rows[o]
      <3>1. CASE z.rows[o].usn >= n
        <4>1. o \in RemoteDecks(z, n)
          BY <1>1, <1>3, <1>6, <2>2, <3>1
        <4>2. o \in DOMAIN ww.rows /\ ww.rows[o].edit >= got[o].edit /\ got[o] = z.rows[o]
          BY <4>1 DEF Upgraded
        <4> QED BY <2>2, <4>2
      <3>2. CASE ~(z.rows[o].usn >= n)
        <4>1. o \in DOMAIN w.rows /\ w.rows[o].edit >= z.rows[o].edit
          BY <1>2, <2>2, <3>2 DEF Halfway
        <4>2. o \in DOMAIN ww.rows /\ ww.rows[o].edit >= marked.rows[o].edit
          BY <1>4, <4>1 DEF Upgraded
        <4> QED BY <1>0, <1>4, <2>2, <4>1, <4>2
      <3> QED BY <3>1, <3>2
    <2> QED BY <2>1, <2>2 DEF Upgraded
  <1> QED
    BY <1>5, <1>6 DEF Halfway

\* The client gets the rows in part.
LEMMA HalfwayFetched ==
    ASSUME NEW T \in Nat, NEW w, NEW z, NEW ww, NEW chunk, NEW part, NEW awaited, NEW unsent,
           IsRows(w.rows, T), IsRows(z.rows, T), IsRows(ww.rows, T),
           Halfway(w, z, awaited, unsent), NoPending(z.rows),
           part \subseteq DOMAIN z.rows, DOMAIN chunk = part, \A o \in part : chunk[o] = z.rows[o],
           Upgraded(ww, w, chunk)
    PROVE  Halfway(ww, z, awaited \ part, unsent)
  <1>0. /\ \A o \in DOMAIN w.rows : w.rows[o].edit \in Nat
        /\ \A o \in DOMAIN z.rows : z.rows[o].edit \in Nat
        /\ \A o \in DOMAIN ww.rows : ww.rows[o].edit \in Nat
    BY EditsAreNumbers
  <1>1. ASSUME NEW o \in DOMAIN ww.rows
        PROVE  IF ww.rows[o].usn = Pending THEN o \in unsent
               ELSE o \in DOMAIN z.rows /\ z.rows[o].edit >= ww.rows[o].edit
    <2>1. CASE o \in DOMAIN w.rows /\ ww.rows[o] = w.rows[o]
      BY <2>1 DEF Halfway
    <2>2. CASE o \in part /\ ww.rows[o] = z.rows[o]
      BY <1>0, <2>2 DEF NoPending
    <2> QED BY <2>1, <2>2 DEF Upgraded
  <1>2. ASSUME NEW o \in DOMAIN z.rows, o \notin awaited \ part
        PROVE  o \in DOMAIN ww.rows /\ ww.rows[o].edit >= z.rows[o].edit
    <2>1. CASE o \in part
      BY <2>1 DEF Upgraded
    <2>2. CASE o \notin part
      <3>1. o \in DOMAIN w.rows /\ w.rows[o].edit >= z.rows[o].edit
        BY <1>2, <2>2 DEF Halfway
      <3>2. o \in DOMAIN ww.rows /\ ww.rows[o].edit >= w.rows[o].edit
        BY <3>1 DEF Upgraded
      <3> QED BY <1>0, <3>1, <3>2
    <2> QED BY <2>1, <2>2
  <1> QED
    BY <1>1, <1>2 DEF Halfway

\* The client sends the rows in part.
LEMMA HalfwaySent ==
    ASSUME NEW T \in Nat, NEW w, NEW z, NEW ww, NEW zz, NEW sent, NEW part, NEW unsent,
           NEW usn \in Nat,
           IsRows(w.rows, T), IsRows(z.rows, T), IsRows(ww.rows, T), IsRows(zz.rows, T),
           Halfway(w, z, {}, unsent), part \subseteq DOMAIN w.rows,
           MarkedRows(ww.rows, w.rows, part, usn),
           DOMAIN sent = part, \A o \in part : sent[o] = ww.rows[o],
           Upgraded(zz, z, sent)
    PROVE  Halfway(ww, zz, {}, unsent \ part)
  <1>0. /\ \A o \in DOMAIN w.rows : w.rows[o].edit \in Nat
        /\ \A o \in DOMAIN z.rows : z.rows[o].edit \in Nat
        /\ \A o \in DOMAIN zz.rows : zz.rows[o].edit \in Nat
        /\ usn # Pending
    BY EditsAreNumbers DEF Pending
  <1>1. /\ DOMAIN ww.rows = DOMAIN w.rows
        /\ \A o \in DOMAIN w.rows : ww.rows[o].edit = w.rows[o].edit
        /\ \A o \in part : ww.rows[o].usn = usn
        /\ \A o \in DOMAIN w.rows \ part : ww.rows[o] = w.rows[o]
    BY DEF MarkedRows
  <1>2. ASSUME NEW o \in DOMAIN ww.rows
        PROVE  IF ww.rows[o].usn = Pending THEN o \in unsent \ part
               ELSE o \in DOMAIN zz.rows /\ zz.rows[o].edit >= ww.rows[o].edit
    <2>1. CASE o \in part
      BY <1>0, <1>1, <2>1 DEF Upgraded
    <2>2. CASE o \notin part /\ w.rows[o].usn = Pending
      BY <1>1, <2>2 DEF Halfway
    <2>3. CASE o \notin part /\ w.rows[o].usn # Pending
      <3>1. o \in DOMAIN z.rows /\ z.rows[o].edit >= w.rows[o].edit
        BY <1>1, <2>3 DEF Halfway
      <3>2. o \in DOMAIN zz.rows /\ zz.rows[o].edit >= z.rows[o].edit
        BY <3>1 DEF Upgraded
      <3> QED BY <1>0, <1>1, <2>3, <3>1, <3>2
    <2> QED BY <2>1, <2>2, <2>3
  <1>3. ASSUME NEW o \in DOMAIN zz.rows
        PROVE  o \in DOMAIN ww.rows /\ ww.rows[o].edit >= zz.rows[o].edit
    <2>1. CASE o \in DOMAIN z.rows /\ zz.rows[o] = z.rows[o]
      BY <1>1, <2>1 DEF Halfway
    <2>2. CASE o \in part /\ zz.rows[o] = ww.rows[o]
      BY <1>0, <1>1, <2>2
    <2> QED BY <2>1, <2>2 DEF Upgraded
  <1> QED
    BY <1>2, <1>3 DEF Halfway

\* The same for reviews, which are never changed.
LEMMA ReviewsMore ==
    ASSUME NEW w, NEW z, NEW A, NEW U, HalfwayReviews(w, z, A, U), NEW B, NEW V,
           A \cap DOMAIN z.revlog \subseteq B,
           \A e \in DOMAIN w.revlog : w.revlog[e].usn = Pending /\ e \in U => e \in V
    PROVE  HalfwayReviews(w, z, B, V)
  BY DEF HalfwayReviews

LEMMA ReviewsFetched ==
    ASSUME NEW w, NEW z, NEW ww, NEW chunk, NEW part, NEW awaited, NEW unsent,
           HalfwayReviews(w, z, awaited, unsent), NoPending(z.revlog),
           part \subseteq DOMAIN z.revlog, DOMAIN chunk = part, \A e \in part : chunk[e] = z.revlog[e],
           TookReviews(ww, w, chunk)
    PROVE  HalfwayReviews(ww, z, awaited \ part, unsent)
  BY DEF HalfwayReviews, TookReviews, NoPending

LEMMA ReviewsSentOn ==
    ASSUME NEW w, NEW z, NEW ww, NEW zz, NEW sent, NEW part, NEW unsent, NEW usn, usn # Pending,
           HalfwayReviews(w, z, {}, unsent), part \subseteq DOMAIN w.revlog,
           MarkedTombs(ww.revlog, w.revlog, part, usn),
           DOMAIN sent = part, TookReviews(zz, z, sent)
    PROVE  HalfwayReviews(ww, zz, {}, unsent \ part)
  <1> DEFINE v == ww.revlog  u == w.revlog
  <1>1. /\ DOMAIN v = DOMAIN u
        /\ \A e \in part : v[e].usn = usn
        /\ \A e \in DOMAIN u \ part : v[e] = u[e]
    BY DEF MarkedTombs
  <1>2. DOMAIN zz.revlog = DOMAIN z.revlog \cup part
    BY DEF TookReviews
  <1>3. /\ \A e \in DOMAIN u : IF u[e].usn = Pending THEN e \in unsent ELSE e \in DOMAIN z.revlog
        /\ \A e \in DOMAIN z.revlog : e \in DOMAIN u
    BY DEF HalfwayReviews
  <1>0. part \subseteq DOMAIN u
    OBVIOUS
  <1> HIDE DEF u, v
  <1>4. ASSUME NEW e \in DOMAIN v
        PROVE  IF v[e].usn = Pending THEN e \in unsent \ part ELSE e \in DOMAIN zz.revlog
    <2>1. CASE e \in part
      BY <1>1, <1>2, <2>1
    <2>2. CASE e \notin part
      <3>1. v[e] = u[e] /\ e \in DOMAIN u
        BY <1>1, <2>2
      <3> QED BY <1>2, <1>3, <2>2, <3>1
    <2> QED BY <2>1, <2>2
  <1>5. \A e \in DOMAIN zz.revlog : e \in DOMAIN v
    BY <1>0, <1>1, <1>2, <1>3
  <1> QED
    BY <1>4, <1>5 DEF HalfwayReviews, v

\* What the server has added is numbered n.
LEMMA RenewedUpgrade ==
    ASSUME NEW T \in Nat, NEW s, NEW z, NEW zz, NEW sent, NEW n, Renewed(s, z, n),
           IsRows(s.rows, T), IsRows(z.rows, T), IsRows(zz.rows, T),
           Upgraded(zz, z, sent), \A o \in DOMAIN sent : sent[o].usn = n,
           Grown(s.revlog, zz.revlog, n)
    PROVE  Renewed(s, zz, n)
  <1>1. Kept(s, zz)
    BY UpgradedKept DEF Renewed
  <1>2. \A o \in DOMAIN zz.rows : zz.rows[o].usn = n \/ (o \in DOMAIN s.rows /\ zz.rows[o] = s.rows[o])
    BY DEF Renewed, Upgraded
  <1> QED
    BY <1>1, <1>2 DEF Renewed

LEMMA UpgradedPending ==
    ASSUME NEW r, NEW col, NEW incoming, Upgraded(r, col, incoming), NoPending(col.rows),
           \A o \in DOMAIN incoming : incoming[o].usn # Pending
    PROVE  NoPending(r.rows)
  BY DEF Upgraded, NoPending

LEMMA UpgradedFrom ==
    ASSUME NEW r, NEW col, NEW incoming, Upgraded(r, col, incoming), NEW d, NEW s, NEW x,
           FromOneOf(col, d, s), FromOneOf(x, d, s),
           \A o \in DOMAIN incoming : o \in DOMAIN x.rows /\ incoming[o].edit = x.rows[o].edit
    PROVE  FromOneOf(r, d, s)
  BY DEF Upgraded, FromOneOf

\* Marking changes no version.
LEMMA MarkedKept ==
    ASSUME NEW m, NEW w, NEW K, NEW usn, MarkedRows(m.rows, w.rows, K, usn),
           m.graves = w.graves, K \subseteq DOMAIN w.rows, NEW d, NEW s
    PROVE  /\ Kept(d, w) => Kept(d, m)
           /\ FromOneOf(w, d, s) => FromOneOf(m, d, s)
           /\ Dated(w.rows) => Dated(m.rows)
  <1>1. DOMAIN m.rows = DOMAIN w.rows
        /\ \A o \in DOMAIN w.rows : m.rows[o].edit = w.rows[o].edit /\ m.rows[o].mtime = w.rows[o].mtime
    BY DEF MarkedRows
  <1> QED
    BY <1>1 DEF Kept, AsNewIn, FromOneOf, Dated

-----------------------------------------------------------------------------
(* The invariant about rows and reviews.                                    *)

RowsHeld == Dated(server.rows) /\ NoPending(server.rows) /\ NoPending(server.revlog)
RowsOf(d) ==
    /\ Dated(device[d].rows)
    /\ device[d].scm = server.scm =>
         /\ SentRows(device[d], server)
         /\ KnownRows(device[d], server, device[d].usn)
         /\ KnownReviews(device[d], server, device[d].usn)
RowsServed ==
    session # Nobody =>
      /\ Dated(session.work.rows) /\ NoPending(session.work.rows)
      /\ NoPending(session.work.revlog)
      /\ Renewed(server, session.work, server.usn)
DatedWork(d) == syncing[d] # Idle => Dated(syncing[d].work.rows)

\* How far the exchange has come, in each phase.
Exchanged(d) ==
    LET s == syncing[d]
        w == s.work
        z == session.work
        n == session.client_usn
    IN  /\ s.phase = "graves" => w.revlog = device[d].revlog /\ z.revlog = server.revlog
        /\ s.phase = "changes" =>
              /\ Halfway(w, z, Since(z.rows, n), Objects)
              /\ HalfwayReviews(w, z, Since(z.revlog, n), DOMAIN w.revlog)
        /\ s.phase = "chunk" =>
              /\ Halfway(w, z, Awaited.cards, Cards)
              /\ HalfwayReviews(w, z, Awaited.revlog, DOMAIN w.revlog)
        /\ s.phase = "apply chunk" =>
              Halfway(w, z, {}, s.ids.cards) /\ HalfwayReviews(w, z, {}, s.ids.revlog)
        /\ s.phase \in {"sanity", "finish"} =>
              Halfway(w, z, {}, {}) /\ HalfwayReviews(w, z, {}, {})
        /\ s.phase # "graves" => Gathered(w, z, device[d], server)
        /\ s.phase \notin {"graves", "changes"} => w.conf = z.conf
RowsWorked(d) == Working(d) => Exchanged(d)

RowsInv ==
    /\ RowsHeld /\ RowsServed
    /\ \A d \in Clients : RowsOf(d) /\ DatedWork(d) /\ RowsWorked(d)

LEMMA HalfwayMeets ==
    ASSUME NEW w, NEW z, Halfway(w, z, {}, {}), HalfwayReviews(w, z, {}, {})
    PROVE  /\ DOMAIN w.rows = DOMAIN z.rows /\ DOMAIN w.revlog = DOMAIN z.revlog
           /\ NoPending(w.rows) /\ NoPending(w.revlog)
           /\ \A o \in DOMAIN w.rows : /\ z.rows[o].edit >= w.rows[o].edit
                                       /\ w.rows[o].edit >= z.rows[o].edit
  BY DEF Halfway, HalfwayReviews, NoPending

LEMMA NothingPendingIs ==
    ASSUME NEW col, NoPending(col.rows), NoPending(col.graves), NoPending(col.revlog)
    PROVE  NothingPending(col)
  BY DEF NothingPending, NoPending, Since, IsPending

\* The check of the two sides passes.
LEMMA SaneWhenChecked ==
    ASSUME Shape, Numbers, GravesInv, RowsInv, NEW c \in Clients, syncing[c].phase = "sanity",
           InSession(c)
    PROVE  IsSane(c)
  <1> DEFINE w == syncing[c].work  z == session.work
  <1>1. Working(c) /\ session # Nobody /\ syncing[c] # Idle
    BY AgreedIs DEF Works
  <1>2. Halfway(w, z, {}, {}) /\ HalfwayReviews(w, z, {}, {})
    BY <1>1 DEF RowsInv, RowsWorked, Exchanged
  <1>3. NoPending(w.graves) /\ NoPending(z.graves) /\ NoPending(z.rows) /\ NoPending(z.revlog)
    BY <1>1 DEF GravesInv, GravesWorked, GravesServed, RowsInv, RowsServed
  <1> HIDE DEF w, z
  <1>4. DOMAIN w.rows = DOMAIN z.rows /\ DOMAIN w.revlog = DOMAIN z.revlog
        /\ NoPending(w.rows) /\ NoPending(w.revlog)
    BY <1>2, HalfwayMeets
  <1>5. NothingPending(w) /\ NothingPending(z)
    BY <1>3, <1>4, NothingPendingIs
  <1>6. Counts(w) = Counts(z)
    BY <1>4 DEF Counts
  <1> QED
    BY <1>5, <1>6 DEF IsSane, w, z

\* What was on the server is on it, when it takes a copy that has renewed it.
LEMMA KeptSent ==
    ASSUME NEW T \in Nat, NEW x, NEW s, NEW z, SentRows(x, s), Kept(s, z),
           DOMAIN s.graves \subseteq DOMAIN z.graves,
           IsRows(x.rows, T), IsRows(s.rows, T), IsRows(z.rows, T)
    PROVE  SentRows(x, z)
  <1>1. /\ \A o \in DOMAIN x.rows : x.rows[o].edit \in Nat
        /\ \A o \in DOMAIN s.rows : s.rows[o].edit \in Nat
        /\ \A o \in DOMAIN z.rows : z.rows[o].edit \in Nat
    BY EditsAreNumbers
  <1> QED
    BY <1>1 DEF SentRows, Kept, AsNewIn

LEMMA RenewedKnown ==
    ASSUME NEW s, NEW z, NEW n \in Nat, NEW m \in Nat, m <= n, Renewed(s, z, n), NEW x
    PROVE  /\ KnownRows(x, s, m) => KnownRows(x, z, m)
           /\ KnownReviews(x, s, m) => KnownReviews(x, z, m)
  <1>1. ASSUME KnownRows(x, s, m) PROVE KnownRows(x, z, m)
    BY <1>1 DEF Renewed, KnownRows, AsNewIn
  <1>2. ASSUME KnownReviews(x, s, m) PROVE KnownReviews(x, z, m)
    BY <1>2 DEF Renewed, KnownReviews, Grown
  <1> QED
    BY <1>1, <1>2

LEMMA SelfKnown ==
    ASSUME NEW T \in Nat, NEW x, IsRows(x.rows, T), NEW n
    PROVE  SentRows(x, x) /\ KnownRows(x, x, n) /\ KnownReviews(x, x, n) /\ Kept(x, x)
  <1>1. \A o \in DOMAIN x.rows : x.rows[o].edit \in Nat
    BY EditsAreNumbers
  <1> QED
    BY <1>1 DEF SentRows, KnownRows, KnownReviews, AsNewIn, Kept

\* A request of c's sync leaves what is committed, and the other clients, as
\* they are.
LEMMA RequestRows ==
    ASSUME Shape, RowsInv, NEW c \in Clients, OnlySync(c), session'.key = c,
           Dated(session'.work.rows), NoPending(session'.work.rows), NoPending(session'.work.revlog),
           Renewed(server, session'.work, server.usn),
           Dated(syncing'[c].work.rows),
           Exchanged(c)'
    PROVE  RowsInv'
  <1>1. /\ RowsHeld /\ RowsServed
        /\ \A d \in Clients : RowsOf(d) /\ DatedWork(d) /\ RowsWorked(d)
    BY DEF RowsInv
  <1>2. RowsHeld' /\ RowsServed'
    BY <1>1 DEF OnlySync, RowsHeld, RowsServed
  <1>3. ASSUME NEW d \in Clients PROVE RowsOf(d)' /\ DatedWork(d)' /\ RowsWorked(d)'
    <2>1. RowsOf(d)'
      BY <1>1 DEF OnlySync, RowsOf
    <2>2. DatedWork(d)'
      BY <1>1 DEF OnlySync, DatedWork
    <2>3. RowsWorked(d)'
      BY WorkingAlone DEF RowsWorked
    <2> QED BY <2>1, <2>2, <2>3
  <1> QED
    BY <1>2, <1>3 DEF RowsInv

\* What the numbers of a table tell.
LEMMA TypedUsns ==
    ASSUME NEW T \in Nat, NEW col, Typed(col, T)
    PROVE  /\ \A o \in DOMAIN col.rows : col.rows[o].usn \in Usns /\ col.rows[o].edit \in Nat
           /\ \A o \in DOMAIN col.graves : col.graves[o].usn \in Usns
           /\ \A e \in DOMAIN col.revlog : col.revlog[e].usn \in Usns
           /\ DOMAIN col.rows \subseteq Objects
           /\ IsRows(col.rows, T)
  BY DEF Typed, IsRows, IsTombs

LEMMA ReviewsStart ==
    ASSUME NEW d, NEW s, NEW w, NEW z, NEW n \in Nat, w.revlog = d.revlog, z.revlog = s.revlog,
           SentReviews(d, s), KnownReviews(d, s, n), NoPending(s.revlog),
           \A e \in DOMAIN s.revlog : s.revlog[e].usn \in Usns
    PROVE  HalfwayReviews(w, z, Since(z.revlog, n), DOMAIN w.revlog)
  <1>1. Since(z.revlog, n) = {e \in DOMAIN s.revlog : s.revlog[e].usn >= n}
    BY SinceIs
  <1>2. \A e \in DOMAIN s.revlog \ Since(z.revlog, n) : e \in DOMAIN w.revlog
    BY <1>1 DEF KnownReviews, Usns, NoPending
  <1> QED
    BY <1>2 DEF HalfwayReviews, SentReviews

\* Once the deletions are exchanged, the exchange of rows begins.
LEMMA ExchangeBegins ==
    ASSUME NEW T \in Nat, NEW d, NEW s, NEW w, NEW z, Typed(d, T), Typed(s, T),
           Disjoint(d), Disjoint(s), NoPending(s.graves), NoPending(s.rows), NoPending(s.revlog),
           SentGraves(d, s), KnownGraves(d, s, d.usn), SentRows(d, s), KnownRows(d, s, d.usn),
           SentReviews(d, s), KnownReviews(d, s, d.usn),
           NEW m, m.rows = d.rows, m.revlog = d.revlog, NEW remote, NEW local, NEW usn,
           remote = {o \in DOMAIN s.graves : s.graves[o].usn >= d.usn},
           local = {o \in DOMAIN d.graves : d.graves[o].usn = Pending},
           Buried(w, m, remote, usn),
           DOMAIN z.rows = DOMAIN s.rows \ local, \A o \in DOMAIN z.rows : z.rows[o] = s.rows[o],
           local \subseteq DOMAIN z.graves, z.revlog = s.revlog
    PROVE  /\ Halfway(w, z, Since(z.rows, d.usn), Objects)
           /\ HalfwayReviews(w, z, Since(z.revlog, d.usn), DOMAIN w.revlog)
           /\ Gathered(w, z, d, s)
           /\ Kept(s, z)
  <1>1. d.usn \in Nat
    BY DEF Typed
  <1>2. /\ \A o \in DOMAIN s.rows : s.rows[o].usn \in Usns /\ s.rows[o].edit \in Nat
        /\ \A o \in DOMAIN s.graves : s.graves[o].usn \in Usns
        /\ \A e \in DOMAIN s.revlog : s.revlog[e].usn \in Usns
        /\ \A o \in DOMAIN d.rows : d.rows[o].edit \in Nat
        /\ DOMAIN d.rows \subseteq Objects
    BY TypedUsns
  <1>3. /\ DOMAIN w.rows = DOMAIN d.rows \ remote /\ \A o \in DOMAIN w.rows : w.rows[o] = d.rows[o]
        /\ DOMAIN z.rows = DOMAIN s.rows \ local /\ \A o \in DOMAIN z.rows : z.rows[o] = s.rows[o]
        /\ remote \subseteq DOMAIN w.graves /\ local \subseteq DOMAIN z.graves
        /\ w.revlog = d.revlog /\ z.revlog = s.revlog
    BY DEF Buried
  <1>4. /\ Halfway(w, z, Since(z.rows, d.usn), Objects)
        /\ Kept(d, w) /\ Kept(s, z) /\ FromOneOf(w, d, s) /\ FromOneOf(z, d, s)
    BY <1>1, <1>2, <1>3, HalfwayStarts
  <1>5. HalfwayReviews(w, z, Since(z.revlog, d.usn), DOMAIN w.revlog)
    BY <1>1, <1>2, <1>3, ReviewsStart
  <1> QED
    BY <1>3, <1>4, <1>5 DEF Gathered

LEMMA BuriedRows ==
    ASSUME NEW r, NEW col, NEW keys, NEW usn, Buried(r, col, keys, usn)
    PROVE  /\ Dated(col.rows) => Dated(r.rows)
           /\ NoPending(col.rows) => NoPending(r.rows)
           /\ r.revlog = col.revlog
  BY DEF Buried, Dated, NoPending

LEMMA RenewedBuried ==
    ASSUME NEW z, NEW s, NEW keys, NEW usn, Buried(z, s, keys, usn), Kept(s, z), NEW n
    PROVE  Renewed(s, z, n)
  BY DEF Buried, Renewed, Grown

\* What c and the server have, when their sync begins or goes on.
LEMMA AgreedRows ==
    ASSUME Shape, Numbers, ReviewsInv, GravesInv, RowsInv, NEW c \in Clients,
           device[c].scm = server.scm
    PROVE  /\ Typed(device[c], now) /\ Typed(server, now) /\ now \in Nat
           /\ device[c].usn \in Nat /\ server.usn \in Nat
           /\ Disjoint(device[c]) /\ Disjoint(server)
           /\ NoPending(server.graves) /\ NoPending(server.rows) /\ NoPending(server.revlog)
           /\ SentGraves(device[c], server) /\ KnownGraves(device[c], server, device[c].usn)
           /\ SentRows(device[c], server) /\ KnownRows(device[c], server, device[c].usn)
           /\ SentReviews(device[c], server) /\ KnownReviews(device[c], server, device[c].usn)
           /\ Dated(device[c].rows) /\ Dated(server.rows)
  <1>1. /\ Typed(device[c], now) /\ Typed(server, now) /\ now \in Nat
        /\ device[c].usn \in Nat /\ server.usn \in Nat
    BY DEF Shape, Typed
  <1>2. /\ Disjoint(device[c]) /\ Disjoint(server) /\ NoPending(server.graves)
        /\ SentGraves(device[c], server) /\ KnownGraves(device[c], server, device[c].usn)
    BY DEF GravesInv, GravesHeld, GravesOf
  <1>3. /\ NoPending(server.rows) /\ NoPending(server.revlog)
        /\ SentRows(device[c], server) /\ KnownRows(device[c], server, device[c].usn)
        /\ KnownReviews(device[c], server, device[c].usn)
        /\ Dated(device[c].rows) /\ Dated(server.rows)
    BY DEF RowsInv, RowsHeld, RowsOf
  <1>4. SentReviews(device[c], server)
    BY DEF ReviewsInv, ReviewsSent
  <1> QED
    BY <1>1, <1>2, <1>3, <1>4

LEMMA StartRows ==
    ASSUME Shape, Numbers, ReviewsInv, GravesInv, RowsInv, NEW c \in Clients, StartSync(c)
    PROVE  RowsInv'
  <1> DEFINE s == syncing[c]  next == syncing'[c]  m == Marked(s.work, s.server_usn)
             d == device[c]
  <1>1. /\ OnlySync(c) /\ s.phase = "start"
        /\ session' = [key |-> c, server_usn |-> server.usn, client_usn |-> device[c].usn,
                       client_is_newer |-> s.newer, ids |-> <<>>, work |-> server]
        /\ MarkedSent(m, s.work)
        /\ \/ next.phase = "graves" /\ next.work = m
           \/ /\ next.phase = "changes" /\ Local(s.work) = {}
              /\ Buried(next.work, m, Remote(c), s.server_usn)
    BY StartSyncIs
  <1>2. session'.key = c /\ session'.work = server /\ session'.client_usn = d.usn
    BY <1>1
  <1>3. s.work = d /\ d.scm = server.scm /\ s.server_usn = server.usn
    BY <1>1 DEF Numbers, Compared
  <1>4. server' = server /\ device' = device
    BY <1>1 DEF OnlySync
  <1> HIDE DEF m
  <1>5. m.rows = d.rows /\ m.revlog = d.revlog
    BY <1>1, <1>3 DEF MarkedSent
  <1>6. /\ Typed(d, now) /\ Typed(server, now) /\ now \in Nat /\ d.usn \in Nat
        /\ Disjoint(d) /\ Disjoint(server)
        /\ NoPending(server.graves) /\ NoPending(server.rows) /\ NoPending(server.revlog)
        /\ SentGraves(d, server) /\ KnownGraves(d, server, d.usn)
        /\ SentRows(d, server) /\ KnownRows(d, server, d.usn)
        /\ SentReviews(d, server) /\ KnownReviews(d, server, d.usn)
        /\ Dated(d.rows) /\ Dated(server.rows)
    BY <1>3, AgreedRows
  <1>7. Kept(server, server)
    BY <1>6, TypedUsns, SelfKnown
  <1>8. Renewed(server, session'.work, server.usn)
    BY <1>2, <1>7 DEF Renewed, Grown
  <1>9. Dated(next.work.rows)
    <2>1. CASE next.work = m
      BY <2>1, <1>5, <1>6
    <2>2. CASE Buried(next.work, m, Remote(c), s.server_usn)
      BY <2>2, <1>5, <1>6, BuriedRows
    <2> QED BY <1>1, <2>1, <2>2
  <1>10. Exchanged(c)'
    <2>1. CASE next.phase = "graves" /\ next.work = m
      <3>1. next.work.revlog = device'[c].revlog /\ session'.work.revlog = server'.revlog
        BY <2>1, <1>2, <1>4, <1>5
      <3> QED BY <2>1, <3>1 DEF Exchanged
    <2>2. CASE next.phase = "changes" /\ Local(s.work) = {}
               /\ Buried(next.work, m, Remote(c), s.server_usn)
      <3> DEFINE w == next.work  remote == Remote(c)
      <3>1. DOMAIN server.rows = DOMAIN server.rows \ {} /\ {} \subseteq DOMAIN server.graves
        OBVIOUS
      <3>2. remote = {o \in DOMAIN server.graves : server.graves[o].usn >= d.usn}
            /\ {} = {o \in DOMAIN d.graves : d.graves[o].usn = Pending}
        BY <2>2, <1>3 DEF Remote, Local
      <3>3. Buried(w, m, remote, s.server_usn)
        BY <2>2
      <3> HIDE DEF w, d, remote
      <3>4. /\ Halfway(w, server, Since(server.rows, d.usn), Objects)
            /\ HalfwayReviews(w, server, Since(server.revlog, d.usn), DOMAIN w.revlog)
            /\ Gathered(w, server, d, server)
        BY <1>5, <1>6, <3>1, <3>2, <3>3, ExchangeBegins
      <3> QED BY <1>2, <1>4, <2>2, <3>4 DEF Exchanged, w, d
    <2> QED BY <1>1, <2>1, <2>2
  <1> QED
    BY <1>1, <1>2, <1>6, <1>8, <1>9, <1>10, RequestRows

LEMMA GravesRows ==
    ASSUME Shape, Numbers, ReviewsInv, GravesInv, RowsInv, NEW c \in Clients, SendGraves(c)
    PROVE  RowsInv'
  <1> DEFINE s == syncing[c]  d == device[c]  w == syncing'[c].work  z == session'.work
             l == s.local  r == s.remote  usn == s.server_usn  n == session.server_usn
  <1>1. /\ OnlySync(c) /\ InSession(c) /\ s.phase = "graves" /\ syncing'[c].phase = "changes"
        /\ Buried(w, s.work, r, usn) /\ Buried(z, session.work, l, n)
        /\ SameSession
    BY SendGravesIs
  <1>2. /\ Working(c) /\ session.key = c /\ session # Nobody /\ syncing[c] # Idle
        /\ d.scm = server.scm /\ session.client_usn = d.usn
    BY <1>1, AgreedIs DEF Works
  <1>3. /\ BeforeGraves(c) /\ s.work.revlog = d.revlog /\ session.work.revlog = server.revlog
        /\ Dated(session.work.rows) /\ NoPending(session.work.rows)
        /\ NoPending(session.work.revlog)
        /\ Dated(s.work.rows)
    BY <1>1, <1>2 DEF GravesInv, GravesWorked, RowsInv, RowsWorked, Exchanged, RowsServed, DatedWork
  <1>4. server' = server /\ device' = device
    BY <1>1 DEF OnlySync
  <1>5. /\ Typed(d, now) /\ Typed(server, now) /\ now \in Nat /\ d.usn \in Nat
        /\ Disjoint(d) /\ Disjoint(server)
        /\ NoPending(server.graves) /\ NoPending(server.rows) /\ NoPending(server.revlog)
        /\ SentGraves(d, server) /\ KnownGraves(d, server, d.usn)
        /\ SentRows(d, server) /\ KnownRows(d, server, d.usn)
        /\ SentReviews(d, server) /\ KnownReviews(d, server, d.usn)
    BY <1>2, AgreedRows
  <1>6. /\ s.work.rows = d.rows /\ session.work.rows = server.rows
        /\ session.work.graves = server.graves
        /\ r = {o \in DOMAIN server.graves : server.graves[o].usn >= d.usn}
        /\ l = {o \in DOMAIN d.graves : d.graves[o].usn = Pending}
    BY <1>3 DEF BeforeGraves, Remote, Local
  <1> DEFINE m == s.work
  <1>8. Buried(w, m, r, usn) /\ m.rows = d.rows /\ m.revlog = d.revlog
    BY <1>1, <1>3, <1>6
  <1>9. DOMAIN z.rows = DOMAIN server.rows \ l /\ (\A o \in DOMAIN z.rows : z.rows[o] = server.rows[o])
        /\ l \subseteq DOMAIN z.graves /\ z.revlog = server.revlog
    BY <1>1, <1>3, <1>6 DEF Buried
  <1> HIDE DEF d, w, z, l, r, usn, n, m
  <1>10. /\ Halfway(w, z, Since(z.rows, d.usn), Objects)
         /\ HalfwayReviews(w, z, Since(z.revlog, d.usn), DOMAIN w.revlog)
         /\ Gathered(w, z, d, server)
         /\ Kept(server, z)
    BY <1>5, <1>6, <1>8, <1>9, ExchangeBegins
  <1>11. Dated(z.rows) /\ NoPending(z.rows) /\ NoPending(z.revlog)
    BY <1>1, <1>3, BuriedRows DEF z, l, n
  <1>12. Dated(w.rows)
    BY <1>1, <1>3, BuriedRows DEF w, r, usn
  <1>13. Renewed(server, z, server.usn)
    BY <1>9, <1>10 DEF Renewed, Grown
  <1>14. Exchanged(c)'
    BY <1>1, <1>2, <1>4, <1>10 DEF Exchanged, SameSession, w, z, d
  <1>15. session'.key = c
    BY <1>1, <1>2 DEF SameSession
  <1> QED
    BY <1>1, <1>11, <1>12, <1>13, <1>14, <1>15, RequestRows DEF w, z

\* The client's side, and the server's, of what a request leaves.
LEMMA ChangesRows ==
    ASSUME Shape, Numbers, ReviewsInv, GravesInv, RowsInv, NEW c \in Clients, SendChanges(c)
    PROVE  RowsInv'
  <1> DEFINE s == syncing[c]  d == device[c]  w == s.work  z == session.work
             ww == syncing'[c].work  zz == session'.work  n == session.client_usn
             usn == s.server_usn
  <1>1. /\ OnlySync(c) /\ InSession(c) /\ s.phase = "changes" /\ syncing'[c].phase = "chunk"
        /\ SameSession /\ session'.ids = session.ids
        /\ Typed(ww, now) /\ Typed(zz, now)
        /\ ww.revlog = w.revlog /\ zz.revlog = z.revlog /\ ww.conf = zz.conf
    BY SendChangesIs
  <1>2. /\ Working(c) /\ session.key = c /\ session # Nobody /\ syncing[c] # Idle
        /\ d.scm = server.scm /\ n = d.usn /\ usn = server.usn /\ server.usn \in Nat /\ n \in Nat
        /\ Typed(w, now) /\ Typed(z, now) /\ Typed(server, now) /\ Typed(d, now) /\ now \in Nat
    BY <1>1, AgreedIs DEF Works, Shape
  <1>3. /\ Halfway(w, z, Since(z.rows, n), Objects)
        /\ HalfwayReviews(w, z, Since(z.revlog, n), DOMAIN w.revlog)
        /\ Gathered(w, z, d, server)
        /\ Dated(z.rows) /\ NoPending(z.rows) /\ NoPending(z.revlog) /\ Dated(w.rows)
        /\ Renewed(server, z, server.usn)
    BY <1>1, <1>2 DEF RowsInv, RowsWorked, Exchanged, RowsServed, DatedWork
  <1>4. session.ids = <<>>
    BY <1>1 DEF Shape, IdsKnown
  <1>5. server' = server /\ device' = device
    BY <1>1 DEF OnlySync
  <1>6. \E marked, sent, got :
          /\ Typed(marked, now)
          /\ MarkedRows(marked.rows, w.rows, LocalDecks(w), usn)
          /\ marked.graves = w.graves
          /\ DOMAIN sent = LocalDecks(w)
          /\ \A o \in LocalDecks(w) : sent[o] = marked.rows[o]
          /\ DOMAIN got = RemoteDecks(z, n)
          /\ \A o \in RemoteDecks(z, n) : got[o] = z.rows[o]
          /\ IsRows(sent, now) /\ IsRows(got, now)
          /\ TookRows(zz, z, sent, NewerDecks(z, sent))
          /\ TookRows(ww, marked, got, NewerDecks(marked, got))
    BY SendChangesIs
  <1> HIDE DEF d, w, z, ww, zz, n, usn
  <1>7. PICK marked, sent, got :
          /\ Typed(marked, now)
          /\ MarkedRows(marked.rows, w.rows, LocalDecks(w), usn)
          /\ marked.graves = w.graves
          /\ DOMAIN sent = LocalDecks(w)
          /\ \A o \in LocalDecks(w) : sent[o] = marked.rows[o]
          /\ DOMAIN got = RemoteDecks(z, n)
          /\ \A o \in RemoteDecks(z, n) : got[o] = z.rows[o]
          /\ IsRows(sent, now) /\ IsRows(got, now)
          /\ TookRows(zz, z, sent, NewerDecks(z, sent))
          /\ TookRows(ww, marked, got, NewerDecks(marked, got))
    BY <1>6
  <1>8. /\ IsRows(w.rows, now) /\ IsRows(z.rows, now) /\ IsRows(ww.rows, now) /\ IsRows(zz.rows, now)
        /\ IsRows(marked.rows, now) /\ IsRows(d.rows, now) /\ IsRows(server.rows, now)
    BY <1>1, <1>2, <1>7 DEF Typed
  <1>9. /\ LocalDecks(w) \subseteq DOMAIN w.rows
        /\ RemoteDecks(z, n) \subseteq DOMAIN z.rows
        /\ DOMAIN marked.rows = DOMAIN w.rows
        /\ \A o \in LocalDecks(w) : /\ marked.rows[o].usn = usn
                                    /\ marked.rows[o].edit = w.rows[o].edit
    BY <1>7 DEF LocalDecks, RemoteDecks, MarkedRows
  <1>10. /\ Dated(marked.rows) /\ Kept(d, marked) /\ FromOneOf(marked, d, server)
    BY <1>3, <1>7, <1>9, MarkedKept DEF Gathered
  <1>11. Dated(sent) /\ Dated(got)
    BY <1>3, <1>7, <1>9, <1>10 DEF Dated
  <1>12. Upgraded(zz, z, sent) /\ Upgraded(ww, marked, got)
    BY <1>2, <1>3, <1>7, <1>8, <1>10, <1>11, MergeUpgrades
  <1>13. Halfway(ww, zz, ChunkableIds(zz, n).cards, Cards)
    BY <1>2, <1>3, <1>7, <1>8, <1>12, HalfwayDecks
  <1>14. HalfwayReviews(ww, zz, ChunkableIds(zz, n).revlog, DOMAIN ww.revlog)
    BY <1>1, <1>3 DEF ChunkableIds, HalfwayReviews
  <1>15. Dated(zz.rows) /\ Dated(ww.rows)
    BY <1>3, <1>10, <1>11, <1>12, UpgradedDated
  <1>16. \A o \in DOMAIN sent : sent[o].usn = server.usn /\ sent[o].usn # Pending
    BY <1>2, <1>7, <1>9 DEF Pending
  <1>17. NoPending(zz.rows) /\ NoPending(zz.revlog)
    BY <1>1, <1>3, <1>12, <1>16, UpgradedPending
  <1>18. Renewed(server, zz, server.usn)
    <2>1. Grown(server.revlog, zz.revlog, server.usn)
      BY <1>1, <1>3 DEF Renewed
    <2> QED BY <1>2, <1>3, <1>8, <1>12, <1>16, <2>1, RenewedUpgrade
  <1>19. Gathered(ww, zz, d, server)
    <2>1. Kept(d, ww)
      BY <1>2, <1>8, <1>10, <1>12, UpgradedKept
    <2>2. \A o \in DOMAIN got : o \in DOMAIN z.rows /\ got[o].edit = z.rows[o].edit
      BY <1>7, <1>9
    <2>3. FromOneOf(ww, d, server)
      BY <1>3, <1>10, <1>12, <2>2, UpgradedFrom DEF Gathered
    <2>4. \A o \in DOMAIN sent : o \in DOMAIN w.rows /\ sent[o].edit = w.rows[o].edit
      BY <1>7, <1>9
    <2>5. FromOneOf(zz, d, server)
      BY <1>3, <1>12, <2>4, UpgradedFrom DEF Gathered
    <2> QED BY <1>1, <1>3, <2>1, <2>3, <2>5 DEF Gathered
  <1>20. Exchanged(c)'
    <2>1. Awaited' = ChunkableIds(zz, n)
      BY <1>1, <1>4 DEF Awaited, SameSession, zz, n
    <2> QED BY <1>1, <1>5, <1>13, <1>14, <1>19, <2>1 DEF Exchanged, ww, zz, d
  <1> QED
    BY <1>1, <1>2, <1>15, <1>17, <1>18, <1>20, RequestRows DEF SameSession, ww, zz

LEMMA RestIs ==
    ASSUME NEW ids, NEW part
    PROVE  /\ Rest(ids, part).cards = ids.cards \ part.cards
           /\ Rest(ids, part).revlog = ids.revlog \ part.revlog
  BY DEF Rest

LEMMA FetchRows ==
    ASSUME Shape, Numbers, ReviewsInv, GravesInv, RowsInv, NEW c \in Clients, FetchChunk(c)
    PROVE  RowsInv'
  <1> DEFINE s == syncing[c]  next == syncing'[c]  d == device[c]  w == s.work  z == session.work
             ww == next.work  a == Awaited  part == TakeChunk(a).part
             chunk == Fetch(z, part)
  <1>1. /\ OnlySync(c) /\ InSession(c) /\ s.phase = "chunk"
        /\ SameSession /\ session'.work = z
        /\ part.cards \subseteq a.cards /\ part.revlog \subseteq a.revlog
        /\ Typed(ww, now) /\ DOMAIN chunk.cards = part.cards
        /\ \A o \in part.cards : chunk.cards[o] = z.rows[o]
        /\ DOMAIN chunk.revlog = part.revlog
        /\ \A e \in part.revlog : chunk.revlog[e] = z.revlog[e]
        /\ TookRows(ww, w, chunk.cards, NewerCards(w, chunk.cards, Pending))
        /\ TookReviews(ww, w, chunk.revlog)
        /\ ww.conf = w.conf
    BY FetchChunkIs
  <1>24. session'.ids = <<Rest(a, part)>>
    BY FetchChunkIs
  <1>25. \/ next.phase = "chunk"
         \/ next.phase = "apply chunk" /\ next.ids = ChunkableIds(ww, Pending) /\ part = a
    BY FetchChunkIs
  <1>2. /\ Working(c) /\ session.key = c /\ session # Nobody /\ syncing[c] # Idle
        /\ Typed(w, now) /\ Typed(z, now) /\ Typed(server, now) /\ Typed(d, now) /\ now \in Nat
    BY <1>1, AgreedIs DEF Works, Shape
  <1>3. /\ Halfway(w, z, a.cards, Cards)
        /\ HalfwayReviews(w, z, a.revlog, DOMAIN w.revlog)
        /\ Gathered(w, z, d, server) /\ w.conf = z.conf
        /\ Dated(z.rows) /\ NoPending(z.rows) /\ NoPending(z.revlog) /\ Dated(w.rows)
        /\ Renewed(server, z, server.usn)
    BY <1>1, <1>2 DEF RowsInv, RowsWorked, Exchanged, RowsServed, DatedWork
  <1>4. IdsIn(a, z)
    BY <1>1, AwaitedIn
  <1>5. server' = server /\ device' = device
    BY <1>1 DEF OnlySync
  <1>6. part.cards \subseteq DOMAIN z.rows /\ part.revlog \subseteq DOMAIN z.revlog
    BY <1>1, <1>4 DEF IdsIn
  <1>7. IsRows(chunk.cards, now)
    BY <1>2, <1>6, FetchIs
  <1> HIDE DEF d, w, z, ww, a, part, chunk
  <1>8. /\ IsRows(w.rows, now) /\ IsRows(z.rows, now) /\ IsRows(ww.rows, now)
        /\ IsRows(d.rows, now) /\ IsRows(server.rows, now)
    BY <1>1, <1>2 DEF Typed
  <1>9. Dated(chunk.cards)
    BY <1>1, <1>3, <1>6 DEF Dated
  <1>10. \A o \in DOMAIN w.rows \cap DOMAIN chunk.cards :
           IsPending(w.rows[o].usn, Pending) \/ w.rows[o].edit <= chunk.cards[o].edit
    <2> SUFFICES ASSUME NEW o \in DOMAIN w.rows \cap DOMAIN chunk.cards, w.rows[o].usn # Pending
                 PROVE  w.rows[o].edit <= chunk.cards[o].edit
      BY DEF IsPending
    <2>1. z.rows[o].edit >= w.rows[o].edit /\ o \in DOMAIN z.rows /\ chunk.cards[o] = z.rows[o]
      BY <1>1, <1>3, <1>6 DEF Halfway
    <2>2. z.rows[o].edit \in Nat /\ w.rows[o].edit \in Nat
      BY <1>2, <1>8, <2>1, EditsAreNumbers
    <2> QED BY <2>1, <2>2
  <1>11. Upgraded(ww, w, chunk.cards)
    BY <1>1, <1>2, <1>3, <1>7, <1>8, <1>9, <1>10, ChunkUpgrades
  <1>12. Halfway(ww, z, a.cards \ part.cards, Cards)
    <2> DEFINE keys == part.cards  cards == chunk.cards
    <2>1. keys \subseteq DOMAIN z.rows /\ DOMAIN cards = keys
          /\ (\A o \in keys : cards[o] = z.rows[o]) /\ Upgraded(ww, w, cards)
          /\ Halfway(w, z, a.cards, Cards) /\ NoPending(z.rows)
          /\ now \in Nat /\ IsRows(w.rows, now) /\ IsRows(z.rows, now) /\ IsRows(ww.rows, now)
      BY <1>1, <1>2, <1>3, <1>6, <1>8, <1>11
    <2> HIDE DEF keys, cards
    <2>2. Halfway(ww, z, a.cards \ keys, Cards)
      BY <2>1, HalfwayFetched
    <2> QED BY <2>2 DEF keys
  <1>13. HalfwayReviews(ww, z, a.revlog \ part.revlog, DOMAIN ww.revlog)
    <2>1. HalfwayReviews(ww, z, a.revlog \ part.revlog, DOMAIN w.revlog)
      BY <1>1, <1>3, <1>6, ReviewsFetched
    <2>2. (a.revlog \ part.revlog) \cap DOMAIN z.revlog \subseteq a.revlog \ part.revlog
      OBVIOUS
    <2>3. \A e \in DOMAIN ww.revlog : ww.revlog[e].usn = Pending /\ e \in DOMAIN w.revlog
                                        => e \in DOMAIN ww.revlog
      OBVIOUS
    <2> QED BY <2>1, <2>2, <2>3, ReviewsMore
  <1>14. Dated(ww.rows)
    BY <1>3, <1>9, <1>11, UpgradedDated
  <1>15. Gathered(ww, z, d, server)
    <2>1. Kept(d, ww)
      BY <1>2, <1>3, <1>8, <1>11, UpgradedKept DEF Gathered
    <2>2. \A o \in DOMAIN chunk.cards : o \in DOMAIN z.rows /\ chunk.cards[o].edit = z.rows[o].edit
      BY <1>1, <1>6
    <2>3. FromOneOf(ww, d, server)
      BY <1>3, <1>11, <2>2, UpgradedFrom DEF Gathered
    <2>4. DOMAIN ww.revlog = DOMAIN w.revlog \cup part.revlog
      BY <1>1 DEF TookReviews
    <2> QED BY <1>3, <1>6, <2>1, <2>3, <2>4 DEF Gathered
  <1>16. Exchanged(c)'
    <2>1. CASE next.phase = "chunk"
      <3>1. Awaited' = Rest(a, part)
        <4> DEFINE x == Rest(a, part)
        <4>1. session'.ids = <<x>>
          BY <1>24
        <4> HIDE DEF x
        <4>2. <<x>> # <<>> /\ <<x>>[1] = x
          OBVIOUS
        <4> QED BY <4>1, <4>2 DEF Awaited, x
      <3>2. Awaited'.cards = a.cards \ part.cards /\ Awaited'.revlog = a.revlog \ part.revlog
        BY <3>1, RestIs
      <3> QED BY <1>1, <1>3, <1>5, <1>12, <1>13, <1>15, <2>1, <3>2 DEF Exchanged, ww, z, d, w
    <2>2. CASE next.phase = "apply chunk" /\ next.ids = ChunkableIds(ww, Pending) /\ part = a
      <3> DEFINE ids == ChunkableIds(ww, Pending)
      <3>1. /\ \A o \in DOMAIN ww.rows : ww.rows[o].usn = Pending /\ o \in Cards => o \in ids.cards
            /\ \A e \in DOMAIN ww.revlog : ww.revlog[e].usn = Pending => e \in ids.revlog
        BY DEF ChunkableIds, Since, Only, IsPending
      <3>2. next.ids = ids
        BY <2>2
      <3> HIDE DEF ids
      <3>3. a.cards \ part.cards = {} /\ a.revlog \ part.revlog = {}
        BY <2>2
      <3>4. Halfway(ww, z, {}, ids.cards)
        BY <1>12, <3>1, <3>3, HalfwayMore
      <3>5. HalfwayReviews(ww, z, {}, ids.revlog)
        BY <1>13, <3>1, <3>3, ReviewsMore
      <3> QED BY <1>1, <1>3, <1>5, <1>15, <2>2, <3>2, <3>4, <3>5 DEF Exchanged, ww, z, d, w
    <2> QED BY <1>25, <2>1, <2>2
  <1> QED
    BY <1>1, <1>2, <1>3, <1>14, <1>16, RequestRows DEF SameSession, ww, z

LEMMA SendRows ==
    ASSUME Shape, Numbers, ReviewsInv, GravesInv, RowsInv, NEW c \in Clients, SendChunk(c)
    PROVE  RowsInv'
  <1> DEFINE s == syncing[c]  next == syncing'[c]  d == device[c]  w == s.work  z == session.work
             ww == next.work  zz == session'.work  ids == s.ids  part == TakeChunk(ids).part
             usn == s.server_usn  n == session.client_usn
  <1>1. /\ OnlySync(c) /\ InSession(c) /\ s.phase = "apply chunk" /\ SameSession
        /\ part.cards \subseteq ids.cards /\ part.revlog \subseteq ids.revlog
        /\ IdsIn(ids, w)
        /\ Typed(ww, now) /\ Typed(zz, now)
        /\ MarkedRows(ww.rows, w.rows, part.cards, usn)
        /\ MarkedTombs(ww.revlog, w.revlog, part.revlog, usn)
        /\ ww.graves = w.graves /\ ww.conf = w.conf /\ zz.conf = z.conf
        /\ \/ next.phase = "sanity" /\ part = ids
           \/ next.phase = "apply chunk" /\ next.ids = Rest(ids, part)
    BY SendChunkIs
  <1>2. /\ Working(c) /\ session.key = c /\ session # Nobody /\ syncing[c] # Idle
        /\ usn = server.usn /\ server.usn \in Nat /\ n \in Nat /\ n = d.usn
        /\ Typed(w, now) /\ Typed(z, now) /\ Typed(server, now) /\ Typed(d, now) /\ now \in Nat
    BY <1>1, AgreedIs DEF Works, Shape
  <1>3. /\ Halfway(w, z, {}, ids.cards) /\ HalfwayReviews(w, z, {}, ids.revlog)
        /\ Gathered(w, z, d, server) /\ w.conf = z.conf
        /\ Dated(z.rows) /\ NoPending(z.rows) /\ NoPending(z.revlog) /\ Dated(w.rows)
        /\ Renewed(server, z, server.usn)
    BY <1>1, <1>2 DEF RowsInv, RowsWorked, Exchanged, RowsServed, DatedWork
  <1>4. server' = server /\ device' = device
    BY <1>1 DEF OnlySync
  <1>5. \E sent :
          /\ IsRows(sent.cards, now) /\ DOMAIN sent.cards = part.cards
          /\ \A o \in part.cards : sent.cards[o] = ww.rows[o]
          /\ DOMAIN sent.revlog = part.revlog
          /\ \A e \in part.revlog : sent.revlog[e] = ww.revlog[e]
          /\ TookRows(zz, z, sent.cards, NewerCards(z, sent.cards, n))
          /\ TookReviews(zz, z, sent.revlog)
    BY SendChunkIs
  <1> HIDE DEF d, w, z, ww, zz, ids, part, usn, n
  <1>6. PICK sent :
          /\ IsRows(sent.cards, now) /\ DOMAIN sent.cards = part.cards
          /\ \A o \in part.cards : sent.cards[o] = ww.rows[o]
          /\ DOMAIN sent.revlog = part.revlog
          /\ \A e \in part.revlog : sent.revlog[e] = ww.revlog[e]
          /\ TookRows(zz, z, sent.cards, NewerCards(z, sent.cards, n))
          /\ TookReviews(zz, z, sent.revlog)
    BY <1>5
  <1>7. part.cards \subseteq DOMAIN w.rows /\ part.revlog \subseteq DOMAIN w.revlog
    BY <1>1 DEF IdsIn
  <1>8. /\ IsRows(w.rows, now) /\ IsRows(z.rows, now) /\ IsRows(ww.rows, now) /\ IsRows(zz.rows, now)
        /\ IsRows(d.rows, now) /\ IsRows(server.rows, now)
    BY <1>1, <1>2 DEF Typed
  <1>9. /\ DOMAIN ww.rows = DOMAIN w.rows
        /\ \A o \in part.cards : ww.rows[o].usn = usn /\ ww.rows[o].edit = w.rows[o].edit
        /\ DOMAIN ww.revlog = DOMAIN w.revlog
        /\ \A e \in part.revlog : ww.revlog[e].usn = usn
    BY <1>1 DEF MarkedRows, MarkedTombs
  <1>10. Dated(ww.rows) /\ Kept(d, ww) /\ FromOneOf(ww, d, server)
    BY <1>1, <1>3, <1>7, MarkedKept DEF Gathered
  <1>11. Dated(sent.cards)
    BY <1>6, <1>7, <1>9, <1>10 DEF Dated
  <1>12. \A o \in DOMAIN z.rows \cap DOMAIN sent.cards :
           IsPending(z.rows[o].usn, n) \/ z.rows[o].edit <= sent.cards[o].edit
    <2> SUFFICES ASSUME NEW o \in DOMAIN z.rows \cap DOMAIN sent.cards
                 PROVE  z.rows[o].edit <= sent.cards[o].edit
      OBVIOUS
    <2>1. o \in DOMAIN w.rows /\ w.rows[o].edit >= z.rows[o].edit /\ sent.cards[o].edit = w.rows[o].edit
      BY <1>3, <1>6, <1>7, <1>9 DEF Halfway
    <2>2. z.rows[o].edit \in Nat /\ w.rows[o].edit \in Nat
      BY <1>2, <1>8, <2>1, EditsAreNumbers
    <2> QED BY <2>1, <2>2
  <1>13. Upgraded(zz, z, sent.cards)
    BY <1>2, <1>3, <1>6, <1>8, <1>11, <1>12, ChunkUpgrades
  <1>14. Halfway(ww, zz, {}, ids.cards \ part.cards)
    BY <1>1, <1>2, <1>3, <1>6, <1>7, <1>8, <1>13, HalfwaySent
  <1>15. HalfwayReviews(ww, zz, {}, ids.revlog \ part.revlog)
    <2>1. usn # Pending
      BY <1>2 DEF Pending
    <2> QED BY <1>1, <1>3, <1>6, <1>7, <2>1, ReviewsSentOn
  <1>16. Dated(zz.rows)
    BY <1>3, <1>11, <1>13, UpgradedDated
  <1>17. \A o \in DOMAIN sent.cards : sent.cards[o].usn = server.usn /\ sent.cards[o].usn # Pending
    BY <1>2, <1>6, <1>9 DEF Pending
  <1>18. NoPending(zz.rows)
    BY <1>3, <1>13, <1>17, UpgradedPending
  <1>19. \A e \in DOMAIN sent.revlog : sent.revlog[e].usn = server.usn /\ sent.revlog[e].usn # Pending
    BY <1>2, <1>6, <1>9 DEF Pending
  <1>20. NoPending(zz.revlog)
    BY <1>3, <1>6, <1>19 DEF TookReviews, NoPending
  <1>21. Renewed(server, zz, server.usn)
    <2>1. Grown(server.revlog, zz.revlog, server.usn)
      BY <1>3, <1>6, <1>19 DEF Renewed, Grown, TookReviews
    <2> QED BY <1>2, <1>3, <1>8, <1>13, <1>17, <2>1, RenewedUpgrade
  <1>22. Gathered(ww, zz, d, server)
    <2>1. \A o \in DOMAIN sent.cards : o \in DOMAIN w.rows /\ sent.cards[o].edit = w.rows[o].edit
      BY <1>6, <1>7, <1>9
    <2>2. FromOneOf(zz, d, server)
      BY <1>3, <1>13, <2>1, UpgradedFrom DEF Gathered
    <2>3. DOMAIN zz.revlog = DOMAIN z.revlog \cup part.revlog
      BY <1>6 DEF TookReviews
    <2> QED BY <1>3, <1>7, <1>9, <1>10, <2>2, <2>3 DEF Gathered
  <1>23. Exchanged(c)'
    <2>1. CASE next.phase = "sanity" /\ part = ids
      <3>1. ids.cards \ part.cards = {} /\ ids.revlog \ part.revlog = {}
        BY <2>1
      <3> QED BY <1>1, <1>3, <1>4, <1>14, <1>15, <1>22, <2>1, <3>1 DEF Exchanged, ww, zz, d
    <2>2. CASE next.phase = "apply chunk" /\ next.ids = Rest(ids, part)
      <3>1. next.ids.cards = ids.cards \ part.cards /\ next.ids.revlog = ids.revlog \ part.revlog
        <4> DEFINE x == next.ids
        <4>1. x = Rest(ids, part)
          BY <2>2
        <4> HIDE DEF x
        <4>2. x.cards = ids.cards \ part.cards /\ x.revlog = ids.revlog \ part.revlog
          BY <4>1, RestIs
        <4> QED BY <4>2 DEF x
      <3> QED BY <1>1, <1>3, <1>4, <1>14, <1>15, <1>22, <2>2, <3>1 DEF Exchanged, ww, zz, d
    <2> QED BY <1>1, <2>1, <2>2
  <1> QED
    BY <1>1, <1>2, <1>10, <1>16, <1>18, <1>20, <1>21, <1>23, RequestRows DEF SameSession, ww, zz

\* A user's edit: what is new is newer than all the server has.
LEMMA EditRows ==
    ASSUME MsPerSec = 1, NEW T \in Nat \ {0}, NEW t \in Nat, t = T + 1, NEW x, NEW r, NEW y,
           IsRows(x.rows, T), IsRows(y.rows, T), EditedAt(r, x, t)
    PROVE  /\ Dated(x.rows) => Dated(r.rows)
           /\ SentRows(x, y) => SentRows(r, y)
           /\ \A n : KnownRows(x, y, n) => KnownRows(r, y, n)
           /\ \A n : KnownReviews(x, y, n) => KnownReviews(r, y, n)
  <1>1. /\ \A o \in DOMAIN x.rows : x.rows[o].edit \in Nat
        /\ \A o \in DOMAIN y.rows : y.rows[o].edit \in 1..T
    BY EditsAreNumbers
  <1>2. NewRow(t).mtime = t /\ NewRow(t).edit = t /\ NewRow(t).usn = Pending /\ t # 1
    BY NewRowIs
  <1>3. /\ \A o \in DOMAIN r.rows :
             (o \in DOMAIN x.rows /\ r.rows[o] = x.rows[o]) \/ r.rows[o] = NewRow(t)
        /\ DOMAIN x.rows \subseteq DOMAIN r.rows \cup DOMAIN r.graves
        /\ DOMAIN x.graves \subseteq DOMAIN r.graves
        /\ DOMAIN x.revlog \subseteq DOMAIN r.revlog
    BY DEF EditedAt
  <1>4. Dated(x.rows) => Dated(r.rows)
    BY <1>2, <1>3 DEF Dated
  <1>5. SentRows(x, y) => SentRows(r, y)
    BY <1>2, <1>3 DEF SentRows, AsNewIn
  <1>6. ASSUME NEW n, KnownRows(x, y, n), NEW o \in DOMAIN y.rows, y.rows[o].usn < n
        PROVE  AsNewIn(r, y, o)
    <2>1. o \in DOMAIN x.graves \/ (o \in DOMAIN x.rows /\ x.rows[o].edit >= y.rows[o].edit)
      BY <1>6 DEF KnownRows, AsNewIn
    <2>2. CASE o \in DOMAIN x.graves
      BY <2>2, <1>3 DEF AsNewIn
    <2>3. CASE o \in DOMAIN x.rows /\ x.rows[o].edit >= y.rows[o].edit
      <3>1. o \in DOMAIN r.rows => r.rows[o].edit \in {x.rows[o].edit, t}
        BY <1>2, <1>3
      <3>2. o \in DOMAIN r.rows => r.rows[o].edit >= y.rows[o].edit
        BY <1>1, <2>3, <3>1
      <3> QED BY <1>3, <2>3, <3>2 DEF AsNewIn
    <2> QED BY <2>1, <2>2, <2>3
  <1>7. \A n : KnownRows(x, y, n) => KnownRows(r, y, n)
    BY <1>6 DEF KnownRows
  <1>8. \A n : KnownReviews(x, y, n) => KnownReviews(r, y, n)
    BY <1>3 DEF KnownReviews
  <1> QED
    BY <1>4, <1>5, <1>7, <1>8

LEMMA EditedRows ==
    ASSUME Shape, RowsInv, MsPerSec = 1, NEW c \in Clients, Edited(c)
    PROVE  RowsInv'
  <1>0. now \in Nat \ {0} /\ server.scm \in 1..now /\ \A d \in Clients : device[d].scm \in 1..now
    BY Stamped DEF Shape
  <1>1. /\ RowsHeld /\ RowsServed
        /\ \A d \in Clients : RowsOf(d) /\ DatedWork(d) /\ RowsWorked(d)
    BY DEF RowsInv
  <1>2. RowsHeld' /\ RowsServed'
    BY <1>1 DEF Edited, RowsHeld, RowsServed
  <1>3. ASSUME NEW d \in Clients PROVE RowsOf(d)' /\ DatedWork(d)' /\ RowsWorked(d)'
    <2>1. CASE d # c
      <3>1. device'[d] = device[d] /\ server' = server /\ syncing' = syncing /\ session' = session
        BY <2>1 DEF Edited
      <3>2. RowsOf(d)'
        BY <1>1, <3>1 DEF RowsOf
      <3>3. DatedWork(d)' /\ RowsWorked(d)'
        BY <1>1, <3>1 DEF DatedWork, RowsWorked, Working, InSession, Exchanged, Awaited
      <3> QED BY <3>2, <3>3
    <2>2. CASE d = c
      <3> DEFINE x == device[c]  r == device'[c]  n == x.usn
      <3>1. /\ IsRows(x.rows, now) /\ IsRows(server.rows, now)
            /\ EditedAt(r, x, now + 1) /\ server' = server
            /\ r.usn = n /\ r.scm \in {x.scm, now + 1}
        BY DEF Shape, Typed, Edited, EditedAt
      <3>2. Dated(x.rows)
        BY <1>1 DEF RowsOf
      <3>3. /\ Dated(r.rows)
            /\ SentRows(x, server) => SentRows(r, server)
            /\ KnownRows(x, server, n) => KnownRows(r, server, n)
            /\ KnownReviews(x, server, n) => KnownReviews(r, server, n)
        <4> DEFINE t == now + 1
        <4>1. now \in Nat \ {0} /\ t \in Nat /\ t = now + 1 /\ IsRows(x.rows, now)
              /\ IsRows(server.rows, now) /\ EditedAt(r, x, t)
          BY <1>0, <3>1
        <4> HIDE DEF x, r, n, t
        <4> QED BY <3>2, <4>1, EditRows
      <3>4. ASSUME r.scm = server.scm
            PROVE  SentRows(r, server) /\ KnownRows(r, server, n) /\ KnownReviews(r, server, n)
        <4>1. x.scm = server.scm
          BY <1>0, <3>1, <3>4
        <4>2. SentRows(x, server) /\ KnownRows(x, server, n) /\ KnownReviews(x, server, n)
          BY <1>1, <4>1 DEF RowsOf
        <4> HIDE DEF x, r, n
        <4> QED BY <3>3, <4>2
      <3>5. RowsOf(c)'
        BY <3>1, <3>3, <3>4 DEF RowsOf
      <3>6. DatedWork(c)' /\ RowsWorked(c)'
        BY IdleWorks DEF Edited, DatedWork, RowsWorked, Working
      <3> QED BY <2>2, <3>5, <3>6
    <2> QED BY <2>1, <2>2
  <1> QED
    BY <1>2, <1>3 DEF RowsInv

LEMMA EndRows ==
    ASSUME Shape, Numbers, GravesInv, RowsInv, NEW c \in Clients,
           Ends(c), EndsWell(c) \/ EndsBadly(c)
    PROVE  RowsInv'
  <1> DEFINE z == session.work  w == syncing[c].work
  <1>0. /\ \A d \in Clients : Behind(d) /\ Typed(device[d], now) /\ device[d].usn \in Nat
        /\ now \in Nat /\ server.usn \in Nat
    BY DEF Shape, Numbers, Typed
  <1>1. /\ RowsHeld /\ RowsServed
        /\ \A d \in Clients : RowsOf(d) /\ DatedWork(d) /\ RowsWorked(d)
    BY DEF RowsInv
  <1>2. /\ InSession(c) /\ syncing[c].phase = "finish" /\ session' = Nobody
        /\ server'.scm = z.scm /\ server'.rows = z.rows /\ server'.graves = z.graves
        /\ server'.revlog = z.revlog
        /\ DOMAIN syncing' = Clients /\ syncing'[c] = Idle
        /\ \A d \in Clients \ {c} : syncing'[d] = syncing[d]
        /\ \A d \in Clients \ {c} : device'[d] = device[d]
    BY DEF Ends, Ended
  <1>3. /\ Working(c) /\ session # Nobody /\ z.scm = server.scm /\ syncing[c] # Idle
        /\ Typed(w, now) /\ Typed(z, now) /\ Typed(server, now)
    BY <1>2, AgreedIs DEF Works
  <1>4. /\ Halfway(w, z, {}, {}) /\ HalfwayReviews(w, z, {}, {})
        /\ Dated(z.rows) /\ NoPending(z.rows) /\ NoPending(z.revlog) /\ Dated(w.rows)
        /\ Renewed(server, z, server.usn)
    BY <1>1, <1>2, <1>3 DEF RowsWorked, Exchanged, RowsServed, DatedWork
  <1>5. DOMAIN server.graves \subseteq DOMAIN z.graves
    BY <1>3 DEF GravesInv, GravesServed, Grown
  <1> HIDE DEF w, z
  <1>6. RowsHeld' /\ RowsServed'
    BY <1>2, <1>4 DEF RowsHeld, RowsServed
  <1>7. ASSUME NEW d \in Clients PROVE RowsOf(d)' /\ DatedWork(d)' /\ RowsWorked(d)'
    <2>1. CASE device'[d] = device[d]
      <3> DEFINE x == device[d]  n == x.usn
      <3>1. ASSUME x.scm = server.scm
            PROVE  SentRows(x, z) /\ KnownRows(x, z, n) /\ KnownReviews(x, z, n)
        <4>1. SentRows(x, server) /\ KnownRows(x, server, n) /\ KnownReviews(x, server, n)
              /\ n <= server.usn /\ n \in Nat
          BY <1>0, <1>1, <3>1 DEF RowsOf, Behind
        <4>2. IsRows(x.rows, now) /\ IsRows(server.rows, now) /\ IsRows(z.rows, now)
          BY <1>0, <1>3 DEF Typed
        <4> HIDE DEF x, n
        <4>3. SentRows(x, z)
          BY <1>0, <1>4, <1>5, <4>1, <4>2, KeptSent DEF Renewed
        <4>4. KnownRows(x, z, n) /\ KnownReviews(x, z, n)
          BY <1>0, <1>4, <4>1, RenewedKnown
        <4> QED BY <4>3, <4>4
      <3>2. SentRows(x, z) => SentRows(x, server')
        BY <1>2 DEF SentRows, AsNewIn
      <3>3. KnownRows(x, z, n) => KnownRows(x, server', n)
        BY <1>2 DEF KnownRows, AsNewIn
      <3>4. KnownReviews(x, z, n) => KnownReviews(x, server', n)
        BY <1>2 DEF KnownReviews
      <3>5. Dated(x.rows)
        BY <1>1 DEF RowsOf
      <3>6. RowsOf(d)'
        BY <1>2, <1>3, <2>1, <3>1, <3>2, <3>3, <3>4, <3>5 DEF RowsOf
      <3> QED BY <1>1, <1>2, <3>6, IdleWorks DEF DatedWork, RowsWorked, Working, InSession
    <2>2. CASE d = c /\ EndsWell(c)
      <3> DEFINE r == device'[c]
      <3>1. r.rows = w.rows /\ r.graves = w.graves /\ r.revlog = w.revlog
        BY <2>2 DEF EndsWell, Ended, w
      <3> HIDE DEF r
      <3>2. Dated(r.rows)
        BY <1>4, <3>1
      <3>3. SentRows(r, server')
        BY <1>2, <1>4, <3>1 DEF Halfway, SentRows, AsNewIn
      <3>4. KnownRows(r, server', r.usn)
        BY <1>2, <1>4, <3>1 DEF Halfway, KnownRows, AsNewIn
      <3>5. KnownReviews(r, server', r.usn)
        BY <1>2, <1>4, <3>1 DEF HalfwayReviews, KnownReviews
      <3>6. RowsOf(c)'
        BY <3>2, <3>3, <3>4, <3>5 DEF RowsOf, r
      <3> QED BY <1>2, <2>2, <3>6, IdleWorks DEF DatedWork, RowsWorked, Working, InSession
    <2> QED BY <1>2, <2>1, <2>2 DEF EndsBadly
  <1> QED
    BY <1>6, <1>7 DEF RowsInv

LEMMA UploadRows ==
    ASSUME Shape, RowsInv, NEW c \in Clients, Uploads(c)
    PROVE  RowsInv'
  <1>0. now \in Nat \ {0} /\ server.scm \in 1..now /\ \A d \in Clients : device[d].scm \in 1..now
    BY Stamped DEF Shape
  <1>1. /\ RowsHeld /\ RowsServed
        /\ \A d \in Clients : RowsOf(d) /\ DatedWork(d) /\ RowsWorked(d)
    BY DEF RowsInv
  <1> DEFINE r == device'[c]
  <1>2. /\ Uploaded(r, device[c], now + 1) /\ r.scm = now + 1 /\ Typed(r, now + 1)
        /\ syncing[c] = Idle /\ syncing' = syncing
        /\ \A d \in Clients \ {c} : device'[d] = device[d]
        /\ \/ server' = r /\ session' = Nobody
           \/ server' = server /\ session' = session
    BY DEF Uploads, Uploaded
  <1>3. Dated(r.rows) /\ NoPending(r.rows) /\ NoPending(r.revlog)
    BY <1>1, <1>2 DEF RowsOf, Dated, Uploaded, NoPending
  <1>4. SentRows(r, r) /\ KnownRows(r, r, r.usn) /\ KnownReviews(r, r, r.usn)
    <2>1. IsRows(r.rows, now + 1) /\ now + 1 \in Nat
      BY <1>0, <1>2 DEF Typed
    <2> HIDE DEF r
    <2> QED BY <2>1, SelfKnown
  <1> HIDE DEF r
  <1>5. RowsHeld' /\ RowsServed'
    BY <1>1, <1>2, <1>3 DEF RowsHeld, RowsServed
  <1>6. ASSUME NEW d \in Clients PROVE RowsOf(d)' /\ DatedWork(d)' /\ RowsWorked(d)'
    <2>1. RowsOf(d)'
      <3>1. CASE d = c
        BY <1>0, <1>2, <1>3, <1>4, <3>1 DEF RowsOf, r
      <3>2. CASE d # c
        BY <1>0, <1>1, <1>2, <3>2 DEF RowsOf
      <3> QED BY <3>1, <3>2
    <2>2. DatedWork(d)'
      BY <1>1, <1>2 DEF DatedWork
    <2>3. RowsWorked(d)'
      <3>1. CASE d = c
        BY <1>2, <3>1, IdleWorks DEF RowsWorked, Working
      <3>2. CASE d # c /\ session' = Nobody
        BY <3>2 DEF RowsWorked, Working, InSession
      <3>3. CASE d # c /\ server' = server /\ session' = session
        <4>1. device'[d] = device[d] /\ syncing' = syncing
          BY <1>2, <3>3
        <4> QED BY <1>1, <3>3, <4>1 DEF RowsWorked, Working, InSession, Exchanged, Awaited
      <3> QED BY <1>2, <3>1, <3>2, <3>3
    <2> QED BY <2>1, <2>2, <2>3
  <1> QED
    BY <1>5, <1>6 DEF RowsInv

LEMMA DownloadRows ==
    ASSUME Shape, RowsInv, NEW c \in Clients, Downloads(c)
    PROVE  RowsInv'
  <1>1. /\ RowsHeld /\ RowsServed
        /\ \A d \in Clients : RowsOf(d) /\ DatedWork(d) /\ RowsWorked(d)
    BY DEF RowsInv
  <1>2. /\ server'.scm = server.scm /\ server'.graves = server.graves /\ server'.rows = server.rows
        /\ server'.revlog = server.revlog
        /\ device'[c] = server' /\ session' = Nobody /\ syncing' = syncing
        /\ \A d \in Clients \ {c} : device'[d] = device[d]
    BY DEF Downloads, Ended
  <1>3. SentRows(server, server) /\ \A n : KnownRows(server, server, n) /\ KnownReviews(server, server, n)
    BY SelfKnown DEF Shape, Typed
  <1>4. RowsHeld' /\ RowsServed'
    BY <1>1, <1>2 DEF RowsHeld, RowsServed
  <1>5. ASSUME NEW x, NEW n
        PROVE  /\ SentRows(x, server) => SentRows(x, server')
               /\ KnownRows(x, server, n) => KnownRows(x, server', n)
               /\ KnownReviews(x, server, n) => KnownReviews(x, server', n)
    BY <1>2 DEF SentRows, KnownRows, KnownReviews, AsNewIn
  <1>6. ASSUME NEW d \in Clients PROVE RowsOf(d)' /\ DatedWork(d)' /\ RowsWorked(d)'
    <2>1. CASE d = c
      <3>1. SentRows(server', server') /\ KnownRows(server', server', server'.usn)
            /\ KnownReviews(server', server', server'.usn)
        BY <1>2, <1>3 DEF SentRows, KnownRows, KnownReviews, AsNewIn
      <3>2. RowsOf(c)'
        BY <1>1, <1>2, <3>1 DEF RowsOf, RowsHeld
      <3> QED BY <1>1, <1>2, <2>1, <3>2 DEF DatedWork, RowsWorked, Working, InSession
    <2>2. CASE d # c
      <3>1. RowsOf(d)'
        BY <1>1, <1>2, <1>5, <2>2 DEF RowsOf
      <3> QED BY <1>1, <1>2, <3>1 DEF DatedWork, RowsWorked, Working, InSession
    <2> QED BY <2>1, <2>2
  <1> QED
    BY <1>4, <1>6 DEF RowsInv

LEMMA StepRows ==
    ASSUME Shape, Numbers, ReviewsInv, GravesInv, RowsInv, MsPerSec = 1,
           NEW c \in Clients, Steps(c)
    PROVE  RowsInv'
  <1>0. /\ RowsHeld /\ RowsServed
        /\ \A d \in Clients : RowsOf(d) /\ DatedWork(d) /\ RowsWorked(d)
    BY DEF RowsInv
  <1>1. CASE Drops
    <2>1. RowsHeld' /\ RowsServed'
      BY <1>1, <1>0 DEF Drops, RowsHeld, RowsServed
    <2>2. ASSUME NEW d \in Clients PROVE RowsOf(d)' /\ DatedWork(d)' /\ RowsWorked(d)'
      <3>1. RowsOf(d)' /\ DatedWork(d)'
        BY <1>1, <1>0 DEF Drops, RowsOf, DatedWork
      <3>2. RowsWorked(d)'
        <4>1. CASE syncing'[d] = Idle \/ session' = Nobody
          BY <4>1, IdleWorks DEF RowsWorked, Working, InSession
        <4>2. CASE syncing'[d] = syncing[d] /\ session' = session
          BY <1>1, <1>0, <4>2 DEF Drops, RowsWorked, Working, InSession, Exchanged, Awaited
        <4> QED BY <1>1, <4>1, <4>2 DEF Drops
      <3> QED BY <3>1, <3>2
    <2> QED BY <2>1, <2>2 DEF RowsInv
  <1>2. CASE Begins(c)
    <2>1. RowsHeld' /\ RowsServed'
      BY <1>2, <1>0 DEF Begins, RowsHeld, RowsServed
    <2>2. ASSUME NEW d \in Clients PROVE RowsOf(d)' /\ DatedWork(d)' /\ RowsWorked(d)'
      BY <1>2, <1>0 DEF Begins, RowsOf, DatedWork, RowsWorked, Working, InSession
    <2> QED BY <2>1, <2>2 DEF RowsInv
  <1>3. CASE Checks(c)
    <2>1. /\ OnlySync(c) /\ InSession(c) /\ syncing[c].phase = "sanity" /\ syncing'[c].phase = "finish"
          /\ session' = session /\ syncing'[c].work = syncing[c].work
      BY <1>3 DEF Checks
    <2>2. Working(c) /\ session.key = c /\ session # Nobody /\ syncing[c] # Idle
      BY <2>1, AgreedIs DEF Works
    <2>3. /\ Halfway(syncing[c].work, session.work, {}, {})
          /\ HalfwayReviews(syncing[c].work, session.work, {}, {})
          /\ Gathered(syncing[c].work, session.work, device[c], server)
          /\ syncing[c].work.conf = session.work.conf
      BY <1>0, <2>1, <2>2 DEF RowsWorked, Exchanged
    <2>4. Exchanged(c)'
      BY <2>1, <2>3 DEF OnlySync, Exchanged
    <2> QED BY <1>0, <2>1, <2>2, <2>4, RequestRows DEF RowsServed, DatedWork
  <1>4. CASE CheckFails(c)
    BY <1>4, SaneWhenChecked DEF CheckFails
  <1> QED
    BY <1>1, <1>2, <1>3, <1>4, EditedRows, StartRows, GravesRows, ChangesRows, FetchRows, SendRows,
       EndRows, UploadRows, DownloadRows DEF Steps

LEMMA RowsInit == Init => RowsInv
  <1> SUFFICES ASSUME Init PROVE RowsInv
    OBVIOUS
  <1>1. /\ server = StartCollection /\ session = Nobody
        /\ \A d \in Clients : device[d] = server /\ syncing[d] = Idle
    BY DEF Init
  <1>2. /\ DOMAIN StartCollection.revlog = {}
        /\ \A o \in DOMAIN StartCollection.rows :
             StartCollection.rows[o] = [mtime |-> 0, edit |-> 1, usn |-> 0]
    BY DEF StartCollection, Nothing
  <1>3. RowsHeld
    BY <1>1, <1>2 DEF RowsHeld, Dated, NoPending, Pending
  <1>4. \A o \in DOMAIN server.rows : server.rows[o].edit >= server.rows[o].edit
    BY <1>1, <1>2
  <1>5. ASSUME NEW d \in Clients PROVE RowsOf(d)
    BY <1>1, <1>2, <1>3, <1>4 DEF RowsOf, RowsHeld, SentRows, KnownRows, KnownReviews, AsNewIn
  <1> QED
    BY <1>1, <1>3, <1>5 DEF RowsInv, RowsServed, DatedWork, RowsWorked, Working, InSession

LEMMA RowsKept ==
    ASSUME Shape, Numbers, ReviewsInv, GravesInv, RowsInv, MsPerSec = 1, [Next]_vars
    PROVE  RowsInv'
  <1>1. CASE Clients = {}
    BY <1>1, NextIs DEF Drops, RowsInv, RowsHeld, RowsServed
  <1>2. CASE Drops /\ Clients # {}
    <2>1. PICK c \in Clients : TRUE
      BY <1>2
    <2> QED BY <1>2, <2>1, StepRows DEF Steps
  <1>3. CASE \E c \in Clients : Steps(c)
    BY <1>3, StepRows
  <1> QED
    BY <1>1, <1>2, <1>3, NextIs

-----------------------------------------------------------------------------
(* What sync promises, as long as nothing overtakes and clocks are fine.    *)

Merging == Shape /\ Numbers /\ ReviewsInv /\ GravesInv /\ RowsInv

LEMMA AlwaysMerging ==
    ASSUME "overtaken" \notin Faults, MsPerSec = 1
    PROVE  Spec => []Merging
  <1>1. Init => Merging
    BY ShapeInit, NumbersInit, ReviewsInit, GravesInit, RowsInit DEF Merging
  <1>2. Merging /\ [Next]_vars => Merging'
    BY ShapeKept, NumbersKept, ReviewsInvKept, GravesKept, RowsKept DEF Merging
  <1> QED
    BY <1>1, <1>2, PTL DEF Spec

\* A version or a deletion that a client regards as sent is on the server, or a
\* newer one is, whatever requests are lost and whoever restarts (chunks.rs,
\* changes.rs and graves.rs clear the pending mark before the server commits).
THEOREM SentStaysOnServer ==
    ASSUME "overtaken" \notin Faults, MsPerSec = 1
    PROVE  Spec => []SentIsKept
  <1>1. Merging => SentIsKept
    <2> SUFFICES ASSUME Merging, NEW c \in Clients, NEW o \in Objects, device[c].scm = server.scm
                 PROVE  /\ o \in DOMAIN device[c].rows /\ device[c].rows[o].usn # Pending =>
                             AsNewIn(server, device[c], o)
                        /\ o \in DOMAIN device[c].graves /\ device[c].graves[o].usn # Pending =>
                             o \in DOMAIN server.graves
      BY DEF SentIsKept, AsNewIn
    <2>1. SentRows(device[c], server) /\ SentGraves(device[c], server)
      BY DEF Merging, RowsInv, RowsOf, GravesInv, GravesOf
    <2> QED BY <2>1 DEF SentRows, SentGraves
  <1> QED
    BY <1>1, AlwaysMerging, PTL

\* What a client lacks of the server's copy has a number that its next sync asks
\* for, so nothing is passed over (client_usn, start.rs; pending_object_clause).
THEOREM NextSyncAsksForTheRest ==
    ASSUME "overtaken" \notin Faults, MsPerSec = 1
    PROVE  Spec => []WillBeSent
  <1>1. Merging => WillBeSent
    <2> SUFFICES ASSUME Merging, NEW c \in Clients, device[c].scm = server.scm
                 PROVE  /\ KnownRows(device[c], server, device[c].usn)
                        /\ KnownGraves(device[c], server, device[c].usn)
                        /\ KnownReviews(device[c], server, device[c].usn)
      BY DEF WillBeSent, KnownRows, KnownGraves, KnownReviews, AsNewIn
    <2> QED BY DEF Merging, RowsInv, RowsOf, GravesInv, GravesOf
  <1> QED
    BY <1>1, AlwaysMerging, PTL

\* When the two sides compare their counts they find them equal and nothing left
\* pending, so no client is forced into a one-way sync (sanity.rs).
THEOREM SanityChecksPass ==
    ASSUME "overtaken" \notin Faults, MsPerSec = 1
    PROVE  Spec => []SanityHolds
  <1>1. Merging => SanityHolds
    BY SaneWhenChecked DEF Merging, SanityHolds
  <1> QED
    BY <1>1, AlwaysMerging, PTL

\* Two copies with the same content.
LEMMA SameContent ==
    ASSUME NEW x, NEW y, DOMAIN x.rows = DOMAIN y.rows,
           \A o \in DOMAIN x.rows : x.rows[o].edit = y.rows[o].edit,
           DOMAIN x.revlog = DOMAIN y.revlog, x.conf = y.conf
    PROVE  Content(x) = Content(y)
  BY DEF Content

\* A sync that ends well leaves the same content on both sides.
LEMMA EndsAlike ==
    ASSUME Shape, Numbers, GravesInv, RowsInv, NEW c \in Clients, Ends(c), EndsWell(c)
    PROVE  Content(device[c]') = Content(server')
  <1> DEFINE z == session.work  w == syncing[c].work  x == device'[c]  y == server'
  <1>1. /\ InSession(c) /\ syncing[c].phase = "finish"
        /\ y.rows = z.rows /\ y.revlog = z.revlog /\ y.conf = z.conf
        /\ x.rows = w.rows /\ x.revlog = w.revlog /\ x.conf = w.conf
    BY DEF Ends, EndsWell, Ended
  <1>2. Working(c) /\ Typed(w, now) /\ Typed(z, now) /\ now \in Nat
    BY <1>1, AgreedIs DEF Works, Shape
  <1>3. Halfway(w, z, {}, {}) /\ HalfwayReviews(w, z, {}, {}) /\ w.conf = z.conf
    BY <1>1, <1>2 DEF RowsInv, RowsWorked, Exchanged
  <1> HIDE DEF w, z
  <1>4. IsRows(w.rows, now) /\ IsRows(z.rows, now)
    BY <1>2 DEF Typed
  <1>5. /\ DOMAIN w.rows = DOMAIN z.rows /\ DOMAIN w.revlog = DOMAIN z.revlog
        /\ \A o \in DOMAIN w.rows : z.rows[o].edit >= w.rows[o].edit /\ w.rows[o].edit >= z.rows[o].edit
    BY <1>3, HalfwayMeets
  <1>6. /\ \A o \in DOMAIN w.rows : w.rows[o].edit \in Nat
        /\ \A o \in DOMAIN z.rows : z.rows[o].edit \in Nat
    BY <1>2, <1>4, EditsAreNumbers
  <1>7. \A o \in DOMAIN w.rows : w.rows[o].edit = z.rows[o].edit
    BY <1>5, <1>6
  <1> HIDE DEF x, y
  <1>8. Content(x) = Content(y)
    BY <1>1, <1>3, <1>5, <1>7, SameContent
  <1> QED
    BY <1>8 DEF x, y

\* A client whose sync ends well holds what the server holds: the same objects in
\* the same versions, the same reviews and the same configuration (finish.rs).
THEOREM SyncsEndAlike ==
    ASSUME "overtaken" \notin Faults, MsPerSec = 1
    PROVE  Spec => SyncedAlike
  <1>1. ASSUME Merging, [Next]_vars
        PROVE  [\A c \in Clients : Finish(c) => Content(device[c]') = Content(server')]_vars
    <2> SUFFICES ASSUME NEW c \in Clients, Finish(c)
                 PROVE  Content(device[c]') = Content(server')
      OBVIOUS
    <2>1. Ends(c) /\ EndsWell(c)
      BY <1>1, FinishIs DEF Merging
    <2> QED BY <1>1, <2>1, EndsAlike DEF Merging
  <1> QED
    BY <1>1, AlwaysMerging, PTL DEF Spec, SyncedAlike

-----------------------------------------------------------------------------
(* The modification time tells copies apart.                                *)

ModsTellOf(d) == device[d].mod = server.mod => Content(device[d]) = Content(server)
ModsTell == \A d \in Clients : ModsTellOf(d)

LEMMA NextIsNew ==
    ASSUME NEW t \in Nat, NEW m \in 1..t
    PROVE  m # t + 1
  OBVIOUS

LEMMA OthersModsTell ==
    ASSUME NEW d \in Clients, device'[d].mod # server'.mod
    PROVE  ModsTellOf(d)'
  BY DEF ModsTellOf

LEMMA SameModsTell ==
    ASSUME NEW d \in Clients, ModsTellOf(d), device'[d] = device[d], server' = server
    PROVE  ModsTellOf(d)'
  BY DEF ModsTellOf

LEMMA EqualModsTell ==
    ASSUME NEW d \in Clients, device'[d] = server'
    PROVE  ModsTellOf(d)'
  BY DEF ModsTellOf

LEMMA StepMods ==
    ASSUME Merging, ModsTell, "crash in finish" \notin Faults, NEW c \in Clients, Steps(c)
    PROVE  ModsTell'
  <1>0. /\ now \in Nat /\ server.mod \in 1..now
        /\ \A d \in Clients : device[d].mod \in 1..now
    BY Stamped DEF Merging
  <1>a. server.mod # now + 1 /\ \A d \in Clients : device[d].mod # now + 1
    BY <1>0, NextIsNew
  <1>b. \A d \in Clients : ModsTellOf(d)
    BY DEF ModsTell
  <1>1. CASE UNCHANGED <<device, server>>
    BY <1>1 DEF ModsTell, ModsTellOf
  <1>2. CASE Edited(c)
    <2>1. server' = server /\ device'[c].mod = now + 1 /\ \A d \in Clients \ {c} : device'[d] = device[d]
      BY <1>2 DEF Edited, EditedAt
    <2>2. ASSUME NEW d \in Clients PROVE ModsTellOf(d)'
      <3>1. CASE d = c
        <4>1. device'[d].mod # server'.mod
          BY <1>a, <2>1, <3>1
        <4> QED BY <4>1, OthersModsTell
      <3>2. CASE d # c
        BY <1>b, <2>1, <3>2, SameModsTell
      <3> QED BY <3>1, <3>2
    <2> QED BY <2>2 DEF ModsTell
  <1>3. CASE CheckFails(c)
    BY <1>3, SaneWhenChecked DEF CheckFails, Merging
  <1>4. CASE Ends(c) /\ (EndsWell(c) \/ EndsBadly(c))
    <2>1. server'.mod = now + 1 /\ \A d \in Clients \ {c} : device'[d] = device[d]
      BY <1>4 DEF Ends
    <2>2. ASSUME NEW d \in Clients PROVE ModsTellOf(d)'
      <3>1. CASE device'[d] = device[d]
        <4>1. device'[d].mod # server'.mod
          BY <1>a, <2>1, <3>1
        <4> QED BY <4>1, OthersModsTell
      <3>2. CASE d = c /\ EndsWell(c)
        BY <1>4, <3>2, EndsAlike DEF Merging, ModsTellOf
      <3> QED BY <1>4, <2>1, <3>1, <3>2 DEF EndsBadly
    <2> QED BY <2>2 DEF ModsTell
  <1>5. CASE Uploads(c)
    <2>1. /\ device'[c].mod = now + 1 /\ \A d \in Clients \ {c} : device'[d] = device[d]
          /\ server' = device'[c] \/ server' = server
      BY <1>5 DEF Uploads, Uploaded
    <2>2. ASSUME NEW d \in Clients PROVE ModsTellOf(d)'
      <3>1. CASE d = c /\ server' = device'[c]
        BY <3>1, EqualModsTell
      <3>2. CASE d # c /\ server' = server
        BY <1>b, <2>1, <3>2, SameModsTell
      <3>3. CASE \/ d = c /\ server' = server
                 \/ d # c /\ server' = device'[c]
        <4>1. device'[d].mod # server'.mod
          BY <1>a, <2>1, <3>3
        <4> QED BY <4>1, OthersModsTell
      <3> QED BY <2>1, <3>1, <3>2, <3>3
    <2> QED BY <2>2 DEF ModsTell
  <1>6. CASE Downloads(c)
    <2>1. /\ device'[c] = server' /\ server'.mod = now + 1
          /\ \A d \in Clients \ {c} : device'[d] = device[d]
      BY <1>6 DEF Downloads, Ended
    <2>2. ASSUME NEW d \in Clients PROVE ModsTellOf(d)'
      <3>1. CASE d = c
        BY <2>1, <3>1, EqualModsTell
      <3>2. CASE d # c
        <4>1. device'[d].mod # server'.mod
          BY <1>a, <2>1, <3>2
        <4> QED BY <4>1, OthersModsTell
      <3> QED BY <3>1, <3>2
    <2> QED BY <2>2 DEF ModsTell
  <1>7. CASE Drops \/ Begins(c) \/ Checks(c)
    BY <1>1, <1>7 DEF Drops, Begins, Checks, OnlySync
  <1>8. CASE StartSync(c) \/ SendGraves(c) \/ SendChanges(c) \/ FetchChunk(c) \/ SendChunk(c)
    BY <1>1, <1>8 DEF StartSync, SendGraves, SendChanges, FetchChunk, SendChunk
  <1> QED
    BY <1>2, <1>3, <1>4, <1>5, <1>6, <1>7, <1>8 DEF Steps

\* A client whose modification time is the server's holds what the server holds,
\* so telling it that there is nothing to sync is right (meta.rs), as long as the
\* server does not stop between its commit and its set_modified_time.
THEOREM NothingToSyncIsTrue ==
    ASSUME "overtaken" \notin Faults, "crash in finish" \notin Faults, MsPerSec = 1
    PROVE  Spec => []NoChangesIsTrue
  <1>1. Init => ModsTell
    BY DEF Init, ModsTell, ModsTellOf
  <1>2. Merging /\ ModsTell /\ [Next]_vars => ModsTell'
    <2> SUFFICES ASSUME Merging, ModsTell, [Next]_vars PROVE ModsTell'
      OBVIOUS
    <2>1. Drops \/ \E c \in Clients : Steps(c)
      BY NextIs DEF Merging
    <2>2. CASE Drops
      BY <2>2 DEF Drops, ModsTell, ModsTellOf
    <2> QED BY <2>1, <2>2, StepMods
  <1>3. ModsTell => NoChangesIsTrue
    BY DEF ModsTell, ModsTellOf, NoChangesIsTrue
  <1> QED
    BY <1>1, <1>2, <1>3, AlwaysMerging, PTL DEF Spec

-----------------------------------------------------------------------------
(* The clock, and the moments at which something can be edited.  Every tick *)
(* is an edit's or that of a sync, which has been begun and ticks once.     *)

Active == {c \in Clients : syncing[c] # Idle}
Told == {c \in Clients : offered[c] # {}}

Paced ==
    /\ edits \in 0..MaxEdits /\ syncs \in 0..MaxSyncs
    /\ IsFiniteSet(Active) /\ IsFiniteSet(Told)
    /\ now + Cardinality(Active) + Cardinality(Told) <= 1 + edits + syncs

Stamps == 1..(1 + MaxEdits + 2 * MaxSyncs)

\* A set that gains at most one member, or loses one.
LEMMA SetGains ==
    ASSUME NEW S, IsFiniteSet(S), NEW c, NEW R, R \subseteq S \cup {c}
    PROVE  /\ IsFiniteSet(R) /\ Cardinality(R) \in Nat /\ Cardinality(S) \in Nat
           /\ Cardinality(R) <= Cardinality(S) + 1
           /\ R \subseteq S => Cardinality(R) <= Cardinality(S)
           /\ R \subseteq S \ {c} /\ c \in S => Cardinality(R) <= Cardinality(S) - 1
  <1>1. IsFiniteSet(S \cup {c}) /\ Cardinality(S \cup {c}) <= Cardinality(S) + 1 /\ Cardinality(S) \in Nat
    BY FS_AddElement, FS_CardinalityType
  <1>2. IsFiniteSet(R) /\ Cardinality(R) <= Cardinality(S \cup {c}) /\ Cardinality(R) \in Nat
    BY <1>1, FS_Subset, FS_CardinalityType
  <1>3. R \subseteq S => Cardinality(R) <= Cardinality(S)
    BY FS_Subset
  <1>4. ASSUME R \subseteq S \ {c}, c \in S PROVE Cardinality(R) <= Cardinality(S) - 1
    <2>1. IsFiniteSet(S \ {c}) /\ Cardinality(S \ {c}) = Cardinality(S) - 1
      BY <1>4, FS_RemoveElement
    <2> QED BY <1>4, <2>1, FS_Subset
  <1>5. Cardinality(S \cup {c}) \in Nat
    BY <1>1, FS_CardinalityType
  <1> QED
    BY <1>1, <1>2, <1>3, <1>4, <1>5

\* What a step may do to the clock and to what has been begun.
Ticks(c) ==
    \/ /\ edits < MaxEdits /\ edits' = edits + 1 /\ syncs' = syncs /\ now' = now + 1
       /\ Active' \subseteq Active /\ Told' \subseteq Told
    \/ /\ syncs < MaxSyncs /\ syncs' = syncs + 1 /\ edits' = edits /\ now' = now
       /\ \/ Active' \subseteq Active \cup {c} /\ Told' \subseteq Told
          \/ Active' \subseteq Active /\ Told' \subseteq Told \cup {c}
    \/ /\ syncs' = syncs /\ edits' = edits /\ now' = now
       /\ Active' \subseteq Active /\ Told' \subseteq Told
    \/ /\ syncs' = syncs /\ edits' = edits /\ now' = now + 1
       /\ \/ c \in Active /\ Active' \subseteq Active \ {c} /\ Told' \subseteq Told
          \/ c \in Told /\ Active' \subseteq Active /\ Told' \subseteq Told \ {c}

LEMMA PacedTicks ==
    ASSUME Paced, NEW c, Ticks(c), now \in Nat
    PROVE  Paced'
  <1> DEFINE A == Cardinality(Active)  T == Cardinality(Told)
             AA == Cardinality(Active')  TT == Cardinality(Told')
  <1>1. MaxEdits \in Nat /\ MaxSyncs \in Nat
    BY SyncAssumption
  <1>2. Active' \subseteq Active \cup {c} /\ Told' \subseteq Told \cup {c}
    BY DEF Ticks
  <1>3. /\ IsFiniteSet(Active') /\ A \in Nat /\ AA \in Nat /\ AA <= A + 1
        /\ Active' \subseteq Active => AA <= A
        /\ Active' \subseteq Active \ {c} /\ c \in Active => AA <= A - 1
    BY <1>2, SetGains DEF Paced
  <1>4. /\ IsFiniteSet(Told') /\ T \in Nat /\ TT \in Nat /\ TT <= T + 1
        /\ Told' \subseteq Told => TT <= T
        /\ Told' \subseteq Told \ {c} /\ c \in Told => TT <= T - 1
    BY <1>2, SetGains DEF Paced
  <1>5. edits \in 0..MaxEdits /\ syncs \in 0..MaxSyncs /\ now + A + T <= 1 + edits + syncs
    BY DEF Paced
  <1> HIDE DEF A, T, AA, TT
  <1>6. edits' \in 0..MaxEdits /\ syncs' \in 0..MaxSyncs
    BY <1>1, <1>5 DEF Ticks
  <1>7. now' + AA + TT <= 1 + edits' + syncs'
    <2>1. CASE edits' = edits + 1 /\ syncs' = syncs /\ now' = now + 1 /\ AA <= A /\ TT <= T
      BY <1>3, <1>4, <1>5, <2>1
    <2>2. CASE edits' = edits /\ syncs' = syncs + 1 /\ now' = now /\ AA <= A + 1 /\ TT <= T
      BY <1>3, <1>4, <1>5, <2>2
    <2>3. CASE edits' = edits /\ syncs' = syncs + 1 /\ now' = now /\ AA <= A /\ TT <= T + 1
      BY <1>3, <1>4, <1>5, <2>3
    <2>4. CASE edits' = edits /\ syncs' = syncs /\ now' = now /\ AA <= A /\ TT <= T
      BY <1>3, <1>4, <1>5, <2>4
    <2>5. CASE edits' = edits /\ syncs' = syncs /\ now' = now + 1 /\ AA <= A - 1 /\ TT <= T
      BY <1>3, <1>4, <1>5, <2>5
    <2>6. CASE edits' = edits /\ syncs' = syncs /\ now' = now + 1 /\ AA <= A /\ TT <= T - 1
      BY <1>3, <1>4, <1>5, <2>6
    <2> QED BY <1>3, <1>4, <2>1, <2>2, <2>3, <2>4, <2>5, <2>6 DEF Ticks
  <1> QED
    BY <1>3, <1>4, <1>6, <1>7 DEF Paced, AA, TT

LEMMA PacedInit == Init => Paced
  <1> SUFFICES ASSUME Init PROVE Paced
    OBVIOUS
  <1>1. Active = {} /\ Told = {}
    BY DEF Init, Active, Told
  <1>2. IsFiniteSet({}) /\ Cardinality({}) = 0
    BY FS_EmptySet
  <1>3. MaxEdits \in Nat /\ MaxSyncs \in Nat /\ now = 1 /\ edits = 0 /\ syncs = 0
    BY SyncAssumption DEF Init
  <1> QED
    BY <1>1, <1>2, <1>3 DEF Paced

LEMMA PacedKept ==
    ASSUME Shape, Paced, [Next]_vars
    PROVE  Paced'
  <1>0. DOMAIN syncing = Clients /\ offered \in [Clients -> SUBSET {"upload", "download"}] /\ now \in Nat
    BY DEF Shape
  <1>1. CASE UNCHANGED vars \/ ServerRestarts
    <2>1. UNCHANGED <<now, edits, syncs, syncing, offered>>
      BY <1>1 DEF vars, ServerRestarts
    <2>2. Active' = Active /\ Told' = Told
      BY <2>1 DEF Active, Told
    <2> QED BY <2>1, <2>2 DEF Paced
  <1>2. ASSUME NEW c \in Clients, Users(c) \/ Meta(c) \/ Proceeds(c) \/ Abort(c)
                                  \/ FullUpload(c) \/ FullDownload(c) \/ Fails(c)
        PROVE  Ticks(c)
    <2>1. CASE Users(c)
      <3>1. edits < MaxEdits /\ edits' = edits + 1 /\ now' = now + 1
            /\ UNCHANGED <<syncs, syncing, offered>>
        BY <2>1 DEF Users, Edit, Add, Delete, Review, Configure, ForceOneWay, Changes
      <3> QED BY <3>1 DEF Ticks, Active, Told
    <2>2. CASE Meta(c)
      <3>1. syncs < MaxSyncs /\ syncs' = syncs + 1 /\ now' = now /\ edits' = edits
        BY <2>2 DEF Meta
      <3>2. \/ /\ \A d \in Clients \ {c} : syncing'[d] = syncing[d]
               /\ offered' = [offered EXCEPT ![c] = {}]
            \/ /\ syncing' = syncing
               /\ \A d \in Clients \ {c} : offered'[d] = offered[d]
        BY <1>0, <2>2 DEF Meta
      <3>3. \/ Active' \subseteq Active \cup {c} /\ Told' \subseteq Told
            \/ Active' \subseteq Active /\ Told' \subseteq Told \cup {c}
        BY <1>0, <3>2 DEF Active, Told
      <3> QED BY <3>1, <3>3 DEF Ticks
    <2>3. CASE StartSync(c) \/ SendGraves(c) \/ SendChanges(c) \/ FetchChunk(c) \/ SendChunk(c)
               \/ SanityCheck(c)
      <3>1. /\ UNCHANGED <<now, edits, syncs, offered>>
            /\ syncing[c].phase \in {"start", "graves", "changes", "chunk", "apply chunk", "sanity"}
        BY <2>3 DEF StartSync, SendGraves, SendChanges, FetchChunk, SendChunk, SanityCheck
      <3>2. syncing[c] # Idle
        <4>1. syncing[c].phase \in Works \cup {"start"}
          BY <3>1 DEF Works
        <4> QED BY <4>1, IdleWorks
      <3>3. ASSUME NEW d \in Clients \ {c} PROVE syncing'[d] = syncing[d]
        <4>1. CASE StartSync(c) \/ SendGraves(c) \/ SendChanges(c) \/ FetchChunk(c) \/ SendChunk(c)
          <5>1. OnlySync(c)
            <6>1. CASE StartSync(c)
              BY <6>1, StartSyncIs
            <6>2. CASE SendGraves(c)
              BY <6>2, SendGravesIs
            <6>3. CASE SendChanges(c)
              BY <6>3, SendChangesIs
            <6>4. CASE FetchChunk(c)
              BY <6>4, FetchChunkIs
            <6>5. CASE SendChunk(c)
              BY <6>5, SendChunkIs
            <6> QED BY <4>1, <6>1, <6>2, <6>3, <6>4, <6>5
          <5> QED BY <5>1 DEF OnlySync
        <4>2. CASE SanityCheck(c)
          BY <1>0, <4>2 DEF SanityCheck
        <4> QED BY <2>3, <4>1, <4>2
      <3> QED BY <3>1, <3>2, <3>3 DEF Ticks, Active, Told
    <2>4. CASE Refused(c) \/ Abort(c) \/ SyncFails(c) \/ AbortLost(c) \/ CrashInFinish(c)
      <3>1. UNCHANGED <<now, edits, syncs, offered>>
            /\ (syncing' = syncing \/ syncing' = [syncing EXCEPT ![c] = Idle])
        BY <2>4 DEF Refused, Abort, SyncFails, AbortLost, CrashInFinish, GivesUp
      <3> QED BY <1>0, <3>1 DEF Ticks, Active, Told
    <2>5. CASE SanityCheckFails(c) \/ Finish(c) \/ FinishLost(c)
      <3>1. now' = now + 1 /\ UNCHANGED <<edits, syncs, offered>>
            /\ syncing[c] # Idle /\ syncing' = [syncing EXCEPT ![c] = Idle]
        BY <2>5 DEF SanityCheckFails, Finish, FinishLost, GivesUp, Idle
      <3>2. c \in Active /\ Active' \subseteq Active \ {c} /\ Told' = Told
        BY <1>0, <3>1 DEF Active, Told
      <3> QED BY <3>1, <3>2 DEF Ticks
    <2>6. CASE FullUpload(c) \/ FullDownload(c) \/ UploadFails(c)
      <3>1. now' = now + 1 /\ UNCHANGED <<edits, syncs, syncing>>
            /\ offered[c] # {} /\ offered' = [offered EXCEPT ![c] = {}]
        BY <2>6 DEF FullUpload, FullDownload, UploadFails
      <3>2. c \in Told /\ Told' \subseteq Told \ {c} /\ Active' = Active
        BY <1>0, <3>1 DEF Active, Told
      <3> QED BY <3>1, <3>2 DEF Ticks
    <2> QED
      BY <1>2, <2>1, <2>2, <2>3, <2>4, <2>5, <2>6 DEF Proceeds, Fails
  <1> QED
    BY <1>0, <1>1, <1>2, PacedTicks DEF Next

\* So what is edited next is edited at one of the moments there are.
LEMMA NextStamp ==
    ASSUME Shape, Paced, edits < MaxEdits
    PROVE  now + 1 \in Stamps
  <1>1. MaxEdits \in Nat /\ MaxSyncs \in Nat /\ now \in Nat
    BY SyncAssumption DEF Shape
  <1>2. Cardinality(Active) \in Nat /\ Cardinality(Told) \in Nat
    BY FS_CardinalityType DEF Paced
  <1> QED
    BY <1>1, <1>2 DEF Paced, Stamps

-----------------------------------------------------------------------------
(* The steps of the protocol are those of LastWriterWins: copies, seen from *)
(* outside.                                                                 *)

\* What a copy says of an object.
LEMMA VersionTyped ==
    ASSUME NEW T \in Nat, NEW col, Typed(col, T), NEW o
    PROVE  /\ VersionIn(col, o) \in {0, -1} \cup 1..T
           /\ o \in DOMAIN col.rows => VersionIn(col, o) = col.rows[o].edit /\ VersionIn(col, o) > 0
           /\ o \notin DOMAIN col.rows => VersionIn(col, o) = IF o \in DOMAIN col.graves THEN -1 ELSE 0
  <1>1. \A k \in DOMAIN col.rows : col.rows[k].edit \in 1..T
    BY DEF Typed, IsRows
  <1> QED
    BY <1>1 DEF VersionIn

LEMMA SameCopy ==
    ASSUME NEW x, NEW y, DOMAIN y.rows = DOMAIN x.rows, DOMAIN y.graves = DOMAIN x.graves,
           DOMAIN y.revlog = DOMAIN x.revlog, \A o \in DOMAIN x.rows : y.rows[o].edit = x.rows[o].edit
    PROVE  CopyOf(y) = CopyOf(x)
  <1>1. \A o \in Objects : VersionIn(y, o) = VersionIn(x, o)
    BY DEF VersionIn
  <1> QED
    BY <1>1 DEF CopyOf

\* One object has another version.
LEMMA CopyEdited ==
    ASSUME NEW x, NEW y, NEW o \in Objects, NEW v, VersionIn(y, o) = v,
           \A p \in Objects \ {o} : VersionIn(y, p) = VersionIn(x, p),
           DOMAIN y.revlog = DOMAIN x.revlog
    PROVE  CopyOf(y) = [CopyOf(x) EXCEPT !.version[o] = v]
  <1> DEFINE f == [p \in Objects |-> VersionIn(x, p)]
             g == [p \in Objects |-> VersionIn(y, p)]
  <1>1. g = [f EXCEPT ![o] = v]
    OBVIOUS
  <1>2. CopyOf(x) = [version |-> f, reviews |-> DOMAIN x.revlog]
        /\ CopyOf(y) = [version |-> g, reviews |-> DOMAIN y.revlog]
    BY DEF CopyOf
  <1> HIDE DEF f, g
  <1> QED
    BY <1>1, <1>2

LEMMA CopyReviewed ==
    ASSUME NEW x, NEW y, NEW o \in Objects, NEW v, VersionIn(y, o) = v,
           \A p \in Objects \ {o} : VersionIn(y, p) = VersionIn(x, p),
           DOMAIN y.revlog = DOMAIN x.revlog \cup {v}
    PROVE  CopyOf(y) = [version |-> [CopyOf(x).version EXCEPT ![o] = v],
                        reviews |-> CopyOf(x).reviews \cup {v}]
  <1> DEFINE f == [p \in Objects |-> VersionIn(x, p)]
             g == [p \in Objects |-> VersionIn(y, p)]
  <1>1. g = [f EXCEPT ![o] = v]
    OBVIOUS
  <1>2. CopyOf(x) = [version |-> f, reviews |-> DOMAIN x.revlog]
        /\ CopyOf(y) = [version |-> g, reviews |-> DOMAIN y.revlog]
    BY DEF CopyOf
  <1> HIDE DEF f, g
  <1> QED
    BY <1>1, <1>2

\* A finished sync has joined what the two sides had.
LEMMA CopyJoined ==
    ASSUME NEW T \in Nat, NEW x, NEW y, NEW z, Typed(x, T), Typed(y, T), Typed(z, T),
           Disjoint(x), Disjoint(y), Disjoint(z),
           DOMAIN z.graves = DOMAIN x.graves \cup DOMAIN y.graves,
           Kept(x, z), Kept(y, z), FromOneOf(z, x, y),
           DOMAIN z.revlog = DOMAIN x.revlog \cup DOMAIN y.revlog
    PROVE  CopyOf(z) = Promise!Join(CopyOf(x), CopyOf(y))
  <1>1. ASSUME NEW o \in Objects
        PROVE  VersionIn(z, o) = Promise!Newer(VersionIn(x, o), VersionIn(y, o))
    <2> DEFINE u == VersionIn(x, o)  v == VersionIn(y, o)  m == VersionIn(z, o)
    <2>1. /\ u \in Int /\ u >= -1 /\ v \in Int /\ v >= -1 /\ m \in Int
          /\ o \in DOMAIN x.rows => u = x.rows[o].edit /\ u > 0
          /\ o \notin DOMAIN x.rows => u = IF o \in DOMAIN x.graves THEN -1 ELSE 0
          /\ o \in DOMAIN y.rows => v = y.rows[o].edit /\ v > 0
          /\ o \notin DOMAIN y.rows => v = IF o \in DOMAIN y.graves THEN -1 ELSE 0
          /\ o \in DOMAIN z.rows => m = z.rows[o].edit /\ m > 0
          /\ o \notin DOMAIN z.rows => m = IF o \in DOMAIN z.graves THEN -1 ELSE 0
      BY VersionTyped
    <2> HIDE DEF u, v, m
    <2>2. CASE o \in DOMAIN z.graves
      <3>1. o \notin DOMAIN z.rows /\ m = -1
        BY <2>1, <2>2 DEF Disjoint
      <3>2. u = -1 \/ v = -1
        <4>1. CASE o \in DOMAIN x.graves
          BY <2>1, <4>1 DEF Disjoint
        <4>2. CASE o \in DOMAIN y.graves
          BY <2>1, <4>2 DEF Disjoint
        <4> QED BY <2>2, <4>1, <4>2
      <3>3. Promise!Newer(u, v) = -1
        BY <2>1, <3>2 DEF Promise!Newer, Promise!AsNew, Promise!Deleted
      <3> QED BY <3>1, <3>3 DEF u, v, m
    <2>3. CASE o \notin DOMAIN z.graves
      <3>1. o \notin DOMAIN x.graves /\ o \notin DOMAIN y.graves
        BY <2>3
      <3>2. (o \in DOMAIN x.rows => o \in DOMAIN z.rows /\ m >= u)
            /\ (o \in DOMAIN y.rows => o \in DOMAIN z.rows /\ m >= v)
        BY <2>1, <2>3 DEF Kept, AsNewIn
      <3>3. o \in DOMAIN z.rows => (o \in DOMAIN x.rows /\ m = u) \/ (o \in DOMAIN y.rows /\ m = v)
        BY <2>1 DEF FromOneOf
      <3>4. m = IF u >= v THEN u ELSE v
        <4>1. CASE o \in DOMAIN z.rows
          <5>1. u >= 0 /\ v >= 0 /\ m >= u /\ m >= v /\ (m = u \/ m = v)
            BY <2>1, <3>1, <3>2, <3>3, <4>1
          <5> QED BY <2>1, <5>1
        <4>2. CASE o \notin DOMAIN z.rows
          <5>1. u = 0 /\ v = 0 /\ m = 0
            BY <2>1, <2>3, <3>1, <3>2, <4>2
          <5> QED BY <5>1
        <4> QED BY <4>1, <4>2
      <3>5. u >= 0 /\ v >= 0
        BY <2>1, <3>1
      <3>6. Promise!Newer(u, v) = IF u >= v THEN u ELSE v
        BY <2>1, <3>5 DEF Promise!Newer, Promise!AsNew, Promise!Deleted
      <3> QED BY <3>4, <3>6 DEF u, v, m
    <2> QED BY <2>2, <2>3
  <1> DEFINE f == [p \in Objects |-> VersionIn(x, p)]
             g == [p \in Objects |-> VersionIn(y, p)]
  <1>2. CopyOf(x).version = f /\ CopyOf(y).version = g
        /\ CopyOf(x).reviews = DOMAIN x.revlog /\ CopyOf(y).reviews = DOMAIN y.revlog
    BY DEF CopyOf
  <1>3. \A o \in Objects : f[o] = VersionIn(x, o) /\ g[o] = VersionIn(y, o)
    OBVIOUS
  <1> HIDE DEF f, g
  <1>4. [o \in Objects |-> VersionIn(z, o)] = [o \in Objects |-> Promise!Newer(f[o], g[o])]
    BY <1>1, <1>3
  <1> QED
    BY <1>2, <1>4 DEF CopyOf, Promise!Join

\* An upload forgets deletions.
LEMMA CopyUploaded ==
    ASSUME NEW T \in Nat, NEW x, NEW r, NEW t, Typed(x, T), Uploaded(r, x, t)
    PROVE  CopyOf(r) = Promise!Forget(CopyOf(x))
  <1>1. ASSUME NEW o \in Objects
        PROVE  VersionIn(r, o) = IF VersionIn(x, o) = Promise!Deleted THEN Promise!Unknown ELSE VersionIn(x, o)
    <2>1. /\ o \in DOMAIN x.rows => VersionIn(x, o) = x.rows[o].edit /\ VersionIn(x, o) > 0
          /\ o \notin DOMAIN x.rows => VersionIn(x, o) = IF o \in DOMAIN x.graves THEN -1 ELSE 0
      BY VersionTyped
    <2>2. VersionIn(r, o) = IF o \in DOMAIN x.rows THEN x.rows[o].edit ELSE 0
      BY DEF Uploaded, VersionIn
    <2> QED BY <2>1, <2>2 DEF Promise!Deleted, Promise!Unknown
  <1> DEFINE f == [p \in Objects |-> VersionIn(x, p)]
             g == [o \in Objects |-> IF f[o] = Promise!Deleted THEN Promise!Unknown ELSE f[o]]
  <1>2. CopyOf(x) = [version |-> f, reviews |-> DOMAIN x.revlog]
    BY DEF CopyOf
  <1>3. [o \in Objects |-> VersionIn(r, o)] = g
    BY <1>1
  <1>4. CopyOf(r) = [version |-> g, reviews |-> DOMAIN x.revlog]
    BY <1>3 DEF CopyOf, Uploaded
  <1> HIDE DEF f
  <1>5. Promise!Forget(CopyOf(x)) = [version |-> g, reviews |-> DOMAIN x.revlog]
    BY <1>2 DEF Promise!Forget
  <1> QED
    BY <1>4, <1>5

Held == [c \in Clients |-> CopyOf(device[c])]

LEMMA HeldIs ==
    ASSUME NEW c \in Clients, \A d \in Clients \ {c} : device'[d] = device[d]
    PROVE  /\ Held[c] = CopyOf(device[c])
           /\ Held' = [Held EXCEPT ![c] = CopyOf(device'[c])]
  BY DEF Held

LEMMA HeldSame ==
    ASSUME \A d \in Clients : CopyOf(device'[d]) = CopyOf(device[d])
    PROVE  Held' = Held
  BY DEF Held

LEMMA ToldIs ==
    ASSUME NEW c \in Clients, \A d \in Clients \ {c} : offered'[d] = offered[d]
    PROVE  /\ Told' \in {Told \cup {c}, Told \ {c}}
           /\ offered'[c] = {} => Told' = Told \ {c}
  BY DEF Told

\* Nothing of it is seen.
LEMMA Unseen ==
    ASSUME \A d \in Clients : CopyOf(device'[d]) = CopyOf(device[d]),
           CopyOf(server') = CopyOf(server), offered' = offered
    PROVE  UNCHANGED Promise!vars
  <1>1. Held' = Held
    BY HeldSame
  <1>2. Told' = Told
    BY DEF Told
  <1> QED
    BY <1>1, <1>2 DEF Promise!vars, Held, Told

\* A user's edit, of one object.
LEMMA EditSeen ==
    ASSUME NEW c \in Clients, NEW o \in Objects, NEW v \in Stamps \cup {-1},
           Promise!AsNew(v, VersionIn(device[c], o)),
           CopyOf(device'[c]) = [CopyOf(device[c]) EXCEPT !.version[o] = v],
           \A d \in Clients \ {c} : device'[d] = device[d], UNCHANGED <<server, offered>>
    PROVE  Promise!Next
  <1>1. Held[c] = CopyOf(device[c]) /\ Held' = [Held EXCEPT ![c] = CopyOf(device'[c])]
    BY HeldIs
  <1>2. Held' = [Held EXCEPT ![c].version[o] = v]
    BY <1>1
  <1>3. Held[c].version[o] = VersionIn(device[c], o)
    BY <1>1 DEF CopyOf
  <1>4. \E p \in Objects, w \in Stamps \cup {-1} :
          Promise!AsNew(w, Held[c].version[p]) /\ Held' = [Held EXCEPT ![c].version[p] = w]
    BY <1>2, <1>3
  <1>5. Promise!Edit(c)
    BY <1>4 DEF Promise!Edit, Promise!Deleted, Held, Told, Stamps
  <1> QED
    BY <1>5 DEF Promise!Next

LEMMA ReviewSeen ==
    ASSUME NEW c \in Clients, NEW o \in Objects, NEW v \in Stamps,
           Promise!AsNew(v, VersionIn(device[c], o)),
           CopyOf(device'[c]) = [version |-> [CopyOf(device[c]).version EXCEPT ![o] = v],
                                 reviews |-> CopyOf(device[c]).reviews \cup {v}],
           \A d \in Clients \ {c} : device'[d] = device[d], UNCHANGED <<server, offered>>
    PROVE  Promise!Next
  <1>1. Held[c] = CopyOf(device[c]) /\ Held' = [Held EXCEPT ![c] = CopyOf(device'[c])]
    BY HeldIs
  <1>2. Held' = [Held EXCEPT ![c] = [version |-> [@.version EXCEPT ![o] = v],
                                      reviews |-> @.reviews \cup {v}]]
    BY <1>1
  <1>3. Held[c].version[o] = VersionIn(device[c], o)
    BY <1>1 DEF CopyOf
  <1>4. \E p \in Objects, w \in Stamps :
          /\ Promise!AsNew(w, Held[c].version[p])
          /\ Held' = [Held EXCEPT ![c] = [version |-> [@.version EXCEPT ![p] = w],
                                          reviews |-> @.reviews \cup {w}]]
    BY <1>2, <1>3
  <1>5. Promise!Review(c)
    BY <1>4 DEF Promise!Review, Held, Told, Stamps
  <1> QED
    BY <1>5 DEF Promise!Next

\* What an edit does to one object and what it leaves.
LEMMA UserSeen ==
    ASSUME Shape, Paced, GravesInv, NEW c \in Clients, Users(c)
    PROVE  [Promise!Next]_(Promise!vars)
  <1> DEFINE x == device[c]  y == device'[c]  t == now + 1
  <1>1. now \in Nat /\ Typed(x, now) /\ Disjoint(x) /\ DOMAIN x = Fields
    BY DEF Shape, GravesInv, GravesOf, Typed
  <1>2. ASSUME NEW o \in Objects
        PROVE  Promise!AsNew(t, VersionIn(x, o)) \/ VersionIn(x, o) = -1
    <2>1. VersionIn(x, o) \in {0, -1} \cup 1..now
      BY <1>1, VersionTyped
    <2> QED BY <1>1, <2>1 DEF Promise!AsNew, Promise!Deleted
  <1>3. ASSUME NEW col, Changes(c, col), DOMAIN col = Fields
        PROVE  /\ y.rows = col.rows /\ y.graves = col.graves /\ y.revlog = col.revlog
               /\ \A d \in Clients \ {c} : device'[d] = device[d]
               /\ UNCHANGED <<server, offered>> /\ t \in Stamps
    <2>1. y = [col EXCEPT !.mod = now'] /\ edits < MaxEdits /\ UNCHANGED <<server, offered>>
          /\ \A d \in Clients \ {c} : device'[d] = device[d]
      BY <1>3, ChangesIs DEF Changes
    <2> QED BY <1>3, <2>1, NextStamp DEF Fields
  <1>n. NewRow(t).edit = t
    BY DEF NewRow
  <1>4. ASSUME NEW o \in Objects, Edit(c, o)
        PROVE  Promise!Next
    <2> DEFINE rows == [x.rows EXCEPT ![o] = NewRow(t)]
               col == [x EXCEPT !.rows = rows]
    <2>1. o \in DOMAIN x.rows /\ Changes(c, col)
      BY <1>4 DEF Edit
    <2>2. DOMAIN col = Fields /\ col.rows = rows /\ col.graves = x.graves /\ col.revlog = x.revlog
      BY <1>1 DEF Fields
    <2>3. DOMAIN rows = DOMAIN x.rows /\ rows[o].edit = t /\ \A p \in DOMAIN rows \ {o} : rows[p] = x.rows[p]
      BY <1>n, <2>1
    <2> HIDE DEF rows, col
    <2>4. /\ y.rows = rows /\ y.graves = x.graves /\ y.revlog = x.revlog
          /\ \A d \in Clients \ {c} : device'[d] = device[d]
          /\ UNCHANGED <<server, offered>> /\ t \in Stamps
      BY <1>3, <2>1, <2>2
    <2>5. VersionIn(y, o) = t /\ \A p \in Objects \ {o} : VersionIn(y, p) = VersionIn(x, p)
      BY <2>1, <2>3, <2>4 DEF VersionIn
    <2>6. CopyOf(y) = [CopyOf(x) EXCEPT !.version[o] = t]
      <3>1. DOMAIN y.revlog = DOMAIN x.revlog
        BY <2>4
      <3> HIDE DEF x, y, t
      <3> QED BY <2>5, <3>1, CopyEdited
    <2>7. Promise!AsNew(t, VersionIn(x, o))
      <3>1. VersionIn(x, o) # -1
        BY <1>1, <2>1, VersionTyped
      <3> QED BY <1>2, <3>1
    <2> QED BY <2>4, <2>6, <2>7, EditSeen
  <1>5. ASSUME NEW o \in Objects, Add(c, o)
        PROVE  Promise!Next
    <2> DEFINE rows == Over(Just(o, NewRow(t)), x.rows)
               col == [x EXCEPT !.rows = rows]
    <2>1. o \notin DOMAIN x.rows /\ o \notin DOMAIN x.graves /\ Changes(c, col)
      BY <1>5 DEF Add
    <2>2. DOMAIN col = Fields /\ col.rows = rows /\ col.graves = x.graves /\ col.revlog = x.revlog
      BY <1>1 DEF Fields
    <2>3. DOMAIN rows = DOMAIN x.rows \cup {o} /\ rows[o].edit = t
          /\ \A p \in DOMAIN rows \ {o} : rows[p] = x.rows[p]
      BY <1>n DEF Over, Just
    <2> HIDE DEF rows, col
    <2>4. /\ y.rows = rows /\ y.graves = x.graves /\ y.revlog = x.revlog
          /\ \A d \in Clients \ {c} : device'[d] = device[d]
          /\ UNCHANGED <<server, offered>> /\ t \in Stamps
      BY <1>3, <2>1, <2>2
    <2>5. VersionIn(y, o) = t /\ \A p \in Objects \ {o} : VersionIn(y, p) = VersionIn(x, p)
      BY <2>1, <2>3, <2>4 DEF VersionIn
    <2>6. CopyOf(y) = [CopyOf(x) EXCEPT !.version[o] = t]
      <3>1. DOMAIN y.revlog = DOMAIN x.revlog
        BY <2>4
      <3> HIDE DEF x, y, t
      <3> QED BY <2>5, <3>1, CopyEdited
    <2>7. Promise!AsNew(t, VersionIn(x, o))
      <3>1. VersionIn(x, o) # -1
        BY <2>1 DEF VersionIn
      <3> QED BY <1>2, <3>1
    <2> QED BY <2>4, <2>6, <2>7, EditSeen
  <1>6. ASSUME NEW o \in Objects, Delete(c, o)
        PROVE  Promise!Next
    <2> DEFINE rows == Without(x.rows, {o})
               graves == Over(x.graves, Just(o, [usn |-> Pending]))
               col == [x EXCEPT !.rows = rows, !.graves = graves]
    <2>1. Changes(c, col)
      BY <1>6 DEF Delete
    <2>2. DOMAIN col = Fields /\ col.rows = rows /\ col.graves = graves /\ col.revlog = x.revlog
      BY <1>1 DEF Fields
    <2>3. DOMAIN rows = DOMAIN x.rows \ {o} /\ (\A p \in DOMAIN rows : rows[p] = x.rows[p])
          /\ DOMAIN graves = DOMAIN x.graves \cup {o}
      BY DEF Over, Just, Without, Only
    <2> HIDE DEF rows, graves, col
    <2>4. /\ y.rows = rows /\ y.graves = graves /\ y.revlog = x.revlog
          /\ \A d \in Clients \ {c} : device'[d] = device[d]
          /\ UNCHANGED <<server, offered>>
      BY <1>3, <2>1, <2>2
    <2>5. VersionIn(y, o) = -1 /\ \A p \in Objects \ {o} : VersionIn(y, p) = VersionIn(x, p)
      BY <2>3, <2>4 DEF VersionIn
    <2>6. CopyOf(y) = [CopyOf(x) EXCEPT !.version[o] = -1]
      <3>1. DOMAIN y.revlog = DOMAIN x.revlog
        BY <2>4
      <3> HIDE DEF x, y, t
      <3> QED BY <2>5, <3>1, CopyEdited
    <2>7. Promise!AsNew(-1, VersionIn(x, o))
      BY DEF Promise!AsNew, Promise!Deleted
    <2> QED BY <2>4, <2>6, <2>7, EditSeen
  <1>7. ASSUME NEW o \in Cards, Review(c, o)
        PROVE  Promise!Next
    <2> DEFINE rows == [x.rows EXCEPT ![o] = NewRow(t)]
               revlog == Over(Just(t, [usn |-> Pending]), x.revlog)
               col == [x EXCEPT !.rows = rows, !.revlog = revlog]
    <2>1. o \in DOMAIN x.rows /\ Changes(c, col) /\ o \in Objects
      BY <1>7 DEF Review, Objects
    <2>2. DOMAIN col = Fields /\ col.rows = rows /\ col.graves = x.graves /\ col.revlog = revlog
      BY <1>1 DEF Fields
    <2>3. DOMAIN rows = DOMAIN x.rows /\ rows[o].edit = t /\ \A p \in DOMAIN rows \ {o} : rows[p] = x.rows[p]
      BY <1>n, <2>1
    <2>4. DOMAIN revlog = DOMAIN x.revlog \cup {t}
      BY DEF Over, Just
    <2> HIDE DEF rows, revlog, col
    <2>5. /\ y.rows = rows /\ y.graves = x.graves /\ y.revlog = revlog
          /\ \A d \in Clients \ {c} : device'[d] = device[d]
          /\ UNCHANGED <<server, offered>> /\ t \in Stamps
      BY <1>3, <2>1, <2>2
    <2>6. VersionIn(y, o) = t /\ \A p \in Objects \ {o} : VersionIn(y, p) = VersionIn(x, p)
      BY <2>1, <2>3, <2>5 DEF VersionIn
    <2>7. CopyOf(y) = [version |-> [CopyOf(x).version EXCEPT ![o] = t], reviews |-> CopyOf(x).reviews \cup {t}]
      <3> HIDE DEF x, y, t
      <3> QED BY <2>1, <2>4, <2>5, <2>6, CopyReviewed
    <2>8. Promise!AsNew(t, VersionIn(x, o))
      <3>1. VersionIn(x, o) # -1
        BY <1>1, <2>1, VersionTyped
      <3> QED BY <1>2, <2>1, <3>1
    <2> QED BY <2>1, <2>5, <2>7, <2>8, ReviewSeen
  <1>8. CASE Configure(c) \/ ForceOneWay(c)
    <2>1. PICK col : /\ Changes(c, col)
                     /\ \/ col = [x EXCEPT !.conf = t]
                        \/ col = [x EXCEPT !.scm = t]
      BY <1>8 DEF Configure, ForceOneWay
    <2>2. DOMAIN col = Fields /\ col.rows = x.rows /\ col.graves = x.graves /\ col.revlog = x.revlog
      BY <1>1, <2>1 DEF Fields
    <2>3. /\ y.rows = x.rows /\ y.graves = x.graves /\ y.revlog = x.revlog
          /\ \A d \in Clients \ {c} : device'[d] = device[d]
          /\ UNCHANGED <<server, offered>>
      BY <1>3, <2>1, <2>2
    <2>4. CopyOf(y) = CopyOf(x)
      BY <2>3, SameCopy
    <2> QED BY <2>3, <2>4, Unseen
  <1> QED
    BY <1>4, <1>5, <1>6, <1>7, <1>8 DEF Users

\* The comparison tells the device which way its next sync may go.
LEMMA MetaSeen ==
    ASSUME NEW c \in Clients, Meta(c), Shape
    PROVE  Promise!Next
  <1>1. UNCHANGED <<device, server>> /\ \A d \in Clients \ {c} : offered'[d] = offered[d]
    BY DEF Meta, Shape
  <1>2. Held' = Held
    BY <1>1, HeldSame
  <1>3. Told' \in {Told \cup {c}, Told \ {c}}
    BY <1>1, ToldIs
  <1>4. Promise!Tell(c)
    BY <1>1, <1>2, <1>3 DEF Promise!Tell, Held, Told
  <1> QED
    BY <1>4 DEF Promise!Next

\* The server commits what both sides had, and the client what the server has.
LEMMA EndSeen ==
    ASSUME Merging, NEW c \in Clients, Ends(c), EndsWell(c) \/ EndsBadly(c)
    PROVE  Promise!Next
  <1> DEFINE x == device[c]  y == server  z == session.work  w == syncing[c].work
  <1>0. Shape /\ Numbers /\ GravesInv /\ RowsInv
    BY DEF Merging
  <1>1. /\ InSession(c) /\ syncing[c].phase = "finish" /\ UNCHANGED offered
        /\ server'.rows = z.rows /\ server'.graves = z.graves /\ server'.revlog = z.revlog
        /\ \A d \in Clients \ {c} : device'[d] = device[d]
    BY DEF Ends, Ended
  <1>2. /\ Working(c) /\ session # Nobody /\ syncing[c] # Idle /\ now \in Nat
        /\ Typed(x, now) /\ Typed(y, now) /\ Typed(z, now) /\ Typed(w, now)
    BY <1>0, <1>1, AgreedIs DEF Works, Shape
  <1>3. /\ DOMAIN w.graves = DOMAIN x.graves \cup DOMAIN y.graves
        /\ DOMAIN z.graves = DOMAIN w.graves
        /\ Disjoint(x) /\ Disjoint(y) /\ Disjoint(z)
    BY <1>0, <1>1, <1>2 DEF GravesInv, GravesWorked, AfterGraves, GravesOf, GravesHeld, GravesServed
  <1>4. /\ Halfway(w, z, {}, {}) /\ HalfwayReviews(w, z, {}, {}) /\ Gathered(w, z, x, y)
        /\ Renewed(y, z, y.usn)
    BY <1>0, <1>1, <1>2 DEF RowsInv, RowsWorked, Exchanged, RowsServed
  <1> HIDE DEF x, y, z, w
  <1>5. IsRows(w.rows, now) /\ IsRows(z.rows, now) /\ IsRows(x.rows, now)
    BY <1>2 DEF Typed
  <1>6. /\ DOMAIN w.rows = DOMAIN z.rows /\ DOMAIN w.revlog = DOMAIN z.revlog
        /\ \A o \in DOMAIN w.rows : z.rows[o].edit >= w.rows[o].edit /\ w.rows[o].edit >= z.rows[o].edit
    BY <1>4, HalfwayMeets
  <1>7. /\ \A o \in DOMAIN w.rows : w.rows[o].edit \in Nat
        /\ \A o \in DOMAIN z.rows : z.rows[o].edit \in Nat
        /\ \A o \in DOMAIN x.rows : x.rows[o].edit \in Nat
    BY <1>2, <1>5, EditsAreNumbers
  <1>8. \A o \in DOMAIN w.rows : z.rows[o].edit = w.rows[o].edit
    BY <1>6, <1>7
  <1>9. Kept(x, z)
    <2>1. Kept(x, w)
      BY <1>4 DEF Gathered
    <2> QED BY <2>1, <1>3, <1>6, <1>8 DEF Kept, AsNewIn
  <1>10. Kept(y, z) /\ FromOneOf(z, x, y)
    BY <1>4 DEF Renewed, Gathered
  <1>11. DOMAIN z.revlog = DOMAIN x.revlog \cup DOMAIN y.revlog
    BY <1>4, <1>6 DEF Renewed, Grown, Gathered
  <1>12. DOMAIN z.graves = DOMAIN x.graves \cup DOMAIN y.graves
    BY <1>3
  <1>13. CopyOf(z) = Promise!Join(CopyOf(x), CopyOf(y))
    BY <1>2, <1>3, <1>9, <1>10, <1>11, <1>12, CopyJoined
  <1>14. CopyOf(w) = CopyOf(z)
    BY <1>3, <1>6, <1>8, SameCopy
  <1>15. CopyOf(server') = CopyOf(z)
    <2> DEFINE v == server'
    <2>1. v.rows = z.rows /\ v.graves = z.graves /\ v.revlog = z.revlog
      BY <1>1 DEF z
    <2> HIDE DEF v
    <2>2. CopyOf(v) = CopyOf(z)
      BY <2>1, SameCopy
    <2> QED BY <2>2 DEF v
  <1>16. Held[c] = CopyOf(x) /\ Held' = [Held EXCEPT ![c] = CopyOf(device'[c])]
    BY <1>1, HeldIs DEF x
  <1>17. CopyOf(server') = Promise!Join(Held[c], CopyOf(server)) /\ Told' = Told
    BY <1>1, <1>13, <1>15, <1>16 DEF y, Told
  <1>18. CASE EndsWell(c)
    <2> DEFINE v == device'[c]
    <2>1. v.rows = w.rows /\ v.graves = w.graves /\ v.revlog = w.revlog
      BY <1>18 DEF EndsWell, Ended, w
    <2> HIDE DEF v
    <2>2. CopyOf(v) = CopyOf(w)
      BY <2>1, SameCopy
    <2>3. Held' = [Held EXCEPT ![c] = CopyOf(server')]
      BY <1>14, <1>15, <1>16, <2>2 DEF v
    <2>4. Promise!Sync(c)
      BY <1>17, <2>3 DEF Promise!Sync, Held, Told
    <2> QED BY <2>4 DEF Promise!Next
  <1>19. CASE EndsBadly(c)
    <2>1. Held' = Held
      BY <1>19, HeldSame DEF EndsBadly
    <2>2. Promise!HalfSync(c)
      BY <1>17, <2>1 DEF Promise!HalfSync, Held, Told
    <2> QED BY <2>2 DEF Promise!Next
  <1> QED
    BY <1>18, <1>19

LEMMA UploadSeen ==
    ASSUME Shape, NEW c \in Clients, Uploads(c)
    PROVE  Promise!Next
  <1>1. /\ Uploaded(device'[c], device[c], now') /\ "upload" \in offered[c]
        /\ \A d \in Clients \ {c} : device'[d] = device[d]
        /\ offered' = [offered EXCEPT ![c] = {}]
        /\ server' = device'[c] \/ server' = server
    BY DEF Uploads
  <1>2. Typed(device[c], now) /\ now \in Nat /\ DOMAIN offered = Clients
    BY DEF Shape
  <1>3. CopyOf(device'[c]) = Promise!Forget(CopyOf(device[c]))
    <2> DEFINE x == device[c]  r == device'[c]  t == now'
    <2>1. Typed(x, now) /\ Uploaded(r, x, t)
      BY <1>1, <1>2
    <2> HIDE DEF x, r, t
    <2>2. CopyOf(r) = Promise!Forget(CopyOf(x))
      BY <1>2, <2>1, CopyUploaded
    <2> QED BY <2>2 DEF x, r
  <1>4. Held[c] = CopyOf(device[c]) /\ Held' = [Held EXCEPT ![c] = CopyOf(device'[c])]
    BY <1>1, HeldIs
  <1>5. Held' = [Held EXCEPT ![c] = Promise!Forget(@)]
    BY <1>3, <1>4
  <1>6. Held'[c] = CopyOf(device'[c])
    BY DEF Held
  <1>7. CopyOf(server') \in {Held'[c], CopyOf(server)}
    BY <1>1, <1>6
  <1>8. c \in Told /\ Told' = Told \ {c}
    BY <1>1, <1>2, ToldIs DEF Told
  <1>9. Promise!Upload(c)
    BY <1>5, <1>7, <1>8 DEF Promise!Upload, Held, Told
  <1> QED
    BY <1>9 DEF Promise!Next

LEMMA DownloadSeen ==
    ASSUME Shape, NEW c \in Clients, Downloads(c)
    PROVE  Promise!Next
  <1>1. /\ Ended(server', server, server.usn + 1, now') /\ "download" \in offered[c]
        /\ device'[c] = server'
        /\ \A d \in Clients \ {c} : device'[d] = device[d]
        /\ offered' = [offered EXCEPT ![c] = {}]
    BY DEF Downloads
  <1>2. DOMAIN offered = Clients
    BY DEF Shape
  <1>3. CopyOf(server') = CopyOf(server)
    BY <1>1, SameCopy DEF Ended
  <1>4. Held' = [Held EXCEPT ![c] = CopyOf(device'[c])]
    BY <1>1, HeldIs
  <1>5. Held' = [Held EXCEPT ![c] = CopyOf(server)]
    BY <1>1, <1>3, <1>4
  <1>6. c \in Told /\ Told' = Told \ {c}
    BY <1>1, <1>2, ToldIs DEF Told
  <1>7. Promise!Download(c)
    BY <1>3, <1>5, <1>6 DEF Promise!Download, Held, Told
  <1> QED
    BY <1>7 DEF Promise!Next

\* What only moves a sync on, or ends it without a commit, is not seen.
LEMMA NextSeen ==
    ASSUME Merging, Paced, [Next]_vars
    PROVE  [Promise!Next]_(Promise!vars)
  <1>0. Shape /\ Numbers /\ GravesInv /\ RowsInv
    BY DEF Merging
  <1>1. CASE UNCHANGED <<device, server, offered>>
    BY <1>1, Unseen
  <1>2. ASSUME NEW c \in Clients, Users(c) \/ Meta(c) \/ Proceeds(c) \/ Abort(c)
                                  \/ FullUpload(c) \/ FullDownload(c) \/ Fails(c)
        PROVE  [Promise!Next]_(Promise!vars)
    <2>1. CASE Users(c)
      BY <1>0, <2>1, UserSeen
    <2>2. CASE Meta(c)
      BY <1>0, <2>2, MetaSeen
    <2>3. CASE StartSync(c) \/ SendGraves(c) \/ SendChanges(c) \/ FetchChunk(c) \/ SendChunk(c)
               \/ SanityCheck(c)
      BY <1>1, <2>3 DEF StartSync, SendGraves, SendChanges, FetchChunk, SendChunk, SanityCheck
    <2>4. CASE SanityCheckFails(c)
      BY <1>0, <2>4, SaneWhenChecked DEF SanityCheckFails
    <2>5. CASE Finish(c)
      BY <1>0, <2>5, FinishIs, EndSeen
    <2>6. CASE Refused(c) \/ Abort(c) \/ SyncFails(c) \/ AbortLost(c)
      BY <1>1, <2>6 DEF Refused, Abort, SyncFails, AbortLost
    <2>7. CASE FullUpload(c) \/ UploadFails(c)
      BY <1>0, <2>7, UploadsIs, UploadSeen
    <2>8. CASE FullDownload(c)
      BY <1>0, <2>8, FullDownloadIs, DownloadSeen
    <2>9. CASE FinishLost(c)
      BY <1>0, <2>9, FinishLostIs, EndSeen
    <2>10. CASE CrashInFinish(c)
      BY <1>0, <2>10, CrashInFinishIs, EndSeen
    <2> QED
      BY <1>2, <2>1, <2>2, <2>3, <2>4, <2>5, <2>6, <2>7, <2>8, <2>9, <2>10 DEF Proceeds, Fails
  <1> QED
    BY <1>1, <1>2 DEF Next, ServerRestarts, vars

LEMMA InitSeen == Init => Promise!Init
  <1> SUFFICES ASSUME Init PROVE Promise!Init
    OBVIOUS
  <1>1. server = StartCollection /\ \A c \in Clients : device[c] = server /\ offered[c] = {}
    BY DEF Init
  <1>2. MaxEdits \in Nat /\ MaxSyncs \in Nat
    BY SyncAssumption
  <1>3. /\ \A o \in DOMAIN StartCollection.rows : StartCollection.rows[o].edit = 1
        /\ DOMAIN StartCollection.graves = {} /\ DOMAIN StartCollection.revlog = {}
    BY DEF StartCollection, Nothing
  <1>4. \A o \in Objects : VersionIn(StartCollection, o) \in {0, 1}
    BY <1>3 DEF VersionIn
  <1>5. 1 \in Stamps
    BY <1>2 DEF Stamps
  <1>6. CopyOf(StartCollection) \in Promise!Copies
    BY <1>3, <1>4, <1>5 DEF CopyOf, Promise!Copies, Promise!Versions, Promise!Unknown, Stamps
  <1>7. Held = [c \in Clients |-> CopyOf(server)] /\ Told = {}
    BY <1>1 DEF Held, Told
  <1> QED
    BY <1>1, <1>6, <1>7 DEF Promise!Init, Held, Told

\* The protocol keeps what synchronisation promises (LastWriterWins), whatever
\* requests and answers are lost and wherever either side stops: only the end of
\* a sync and one-way syncs that were offered change what the others hold, and
\* the end of a sync joins the two copies (start.rs to finish.rs).
THEOREM SyncKeepsItsPromise ==
    ASSUME "overtaken" \notin Faults, MsPerSec = 1
    PROVE  Spec => IsLastWriterWins
  <1>1. Init => Paced
    BY PacedInit
  <1>2. Merging /\ Paced /\ [Next]_vars => Paced'
    BY PacedKept DEF Merging
  <1>3. Merging /\ Paced /\ [Next]_vars => [Promise!Next]_(Promise!vars)
    BY NextSeen
  <1> QED
    BY <1>1, <1>2, <1>3, InitSeen, AlwaysMerging, PTL DEF Spec, IsLastWriterWins, Promise!Spec

=============================================================================
