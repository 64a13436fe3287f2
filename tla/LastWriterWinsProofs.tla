------------------------ MODULE LastWriterWinsProofs ------------------------
(* Proofs about LastWriterWins, for any devices, objects and stamps.        *)
EXTENDS LastWriterWins, TLAPS

\* Versions are ordered: of two, one is as new as the other, and the relation
\* is transitive and antisymmetric.
LEMMA VersionsAreOrdered ==
    ASSUME Stamps \subseteq Nat \ {0},
           NEW u \in Versions, NEW v \in Versions, NEW w \in Versions
    PROVE  /\ AsNew(u, u)
           /\ AsNew(u, v) \/ AsNew(v, u)
           /\ AsNew(u, v) /\ AsNew(v, w) => AsNew(u, w)
           /\ AsNew(u, v) /\ AsNew(v, u) => u = v
  BY DEF Versions, AsNew, Unknown, Deleted

LEMMA NewerIsAVersion ==
    ASSUME NEW v \in Versions, NEW w \in Versions
    PROVE  Newer(v, w) \in Versions
  BY DEF Newer

\* The join of two copies is a copy that covers both.
LEMMA JoinCovers ==
    ASSUME Stamps \subseteq Nat \ {0},
           NEW x \in Copies, NEW y \in Copies
    PROVE  Join(x, y) \in Copies /\ Covers(Join(x, y), x) /\ Covers(Join(x, y), y)
<1>1. Join(x, y) \in Copies
  BY NewerIsAVersion DEF Join, Copies
<1>2. ASSUME NEW o \in Objects
      PROVE  /\ AsNew(Newer(x.version[o], y.version[o]), x.version[o])
             /\ AsNew(Newer(x.version[o], y.version[o]), y.version[o])
  <2>1. x.version[o] \in Versions /\ y.version[o] \in Versions
    BY DEF Copies
  <2> QED BY <2>1, VersionsAreOrdered DEF Newer
<1> QED BY <1>1, <1>2 DEF Join, Covers

\* Nothing smaller does: the join takes from each copy only what it must.
LEMMA JoinIsLeast ==
    ASSUME NEW x \in Copies, NEW y \in Copies, NEW z \in Copies,
           Covers(z, x), Covers(z, y)
    PROVE  Covers(z, Join(x, y))
  BY DEF Covers, Join, Newer, Copies

\* The order of the two copies does not matter, so neither does which device
\* syncs first.
THEOREM JoinCommutes ==
    ASSUME Stamps \subseteq Nat \ {0},
           NEW x \in Copies, NEW y \in Copies
    PROVE  Join(x, y) = Join(y, x)
<1>1. ASSUME NEW o \in Objects
      PROVE  Newer(x.version[o], y.version[o]) = Newer(y.version[o], x.version[o])
  <2>1. x.version[o] \in Versions /\ y.version[o] \in Versions
    BY DEF Copies
  <2> QED BY <2>1, VersionsAreOrdered DEF Newer
<1> QED BY <1>1 DEF Join

LEMMA ForgetIsACopy ==
    ASSUME NEW x \in Copies
    PROVE  Forget(x) \in Copies
  BY DEF Forget, Copies, Versions, Unknown

\* Every copy keeps its shape.
THEOREM TypeCorrect ==
    ASSUME Stamps \subseteq Nat \ {0}
    PROVE  Spec => []TypeOK
<1>1. Init => TypeOK
  BY DEF Init, TypeOK
<1>2. TypeOK /\ [Next]_vars => TypeOK'
  <2> SUFFICES ASSUME TypeOK, [Next]_vars PROVE TypeOK'
    OBVIOUS
  <2> USE DEF TypeOK
  <2>1. ASSUME NEW d \in Devices, Edit(d) PROVE TypeOK'
    <3>1. PICK o \in Objects, v \in Stamps \cup {Deleted} :
            held' = [held EXCEPT ![d].version[o] = v]
      BY <2>1 DEF Edit
    <3>2. [held[d].version EXCEPT ![o] = v] \in [Objects -> Versions]
      BY DEF Copies, Versions
    <3>3. held' = [held EXCEPT ![d] = [held[d] EXCEPT !.version = [@ EXCEPT ![o] = v]]]
      BY <3>1
    <3>4. [held[d] EXCEPT !.version = [@ EXCEPT ![o] = v]] \in Copies
      BY <3>2 DEF Copies
    <3>5. held' \in [Devices -> Copies]
      BY <3>3, <3>4
    <3> QED BY <2>1, <3>5 DEF Edit
  <2>2. ASSUME NEW d \in Devices, Review(d) PROVE TypeOK'
    <3>1. PICK o \in Objects, t \in Stamps :
            held' = [held EXCEPT ![d] = [version |-> [@.version EXCEPT ![o] = t],
                                         reviews |-> @.reviews \cup {t}]]
      BY <2>2 DEF Review
    <3>2. [held[d].version EXCEPT ![o] = t] \in [Objects -> Versions]
      BY DEF Copies, Versions
    <3>3. held[d].reviews \cup {t} \in SUBSET Stamps
      BY DEF Copies
    <3>4. held'[d] \in Copies /\ \A e \in Devices : e # d => held'[e] = held[e]
      BY <3>1, <3>2, <3>3 DEF Copies
    <3>5. held' \in [Devices -> Copies]
      BY <3>1, <3>4
    <3> QED BY <2>2, <3>5 DEF Review
  <2>3. ASSUME NEW d \in Devices, Sync(d) PROVE TypeOK'
    BY <2>3, JoinCovers DEF Sync
  <2>4. ASSUME NEW d \in Devices, HalfSync(d) PROVE TypeOK'
    BY <2>4, JoinCovers DEF HalfSync
  <2>5. ASSUME NEW d \in Devices, Tell(d) PROVE TypeOK'
    BY <2>5 DEF Tell
  <2>6. ASSUME NEW d \in Devices, Upload(d) PROVE TypeOK'
    BY <2>6, ForgetIsACopy DEF Upload
  <2>7. ASSUME NEW d \in Devices, Download(d) PROVE TypeOK'
    BY <2>7 DEF Download
  <2>8. CASE UNCHANGED vars
    BY <2>8 DEF vars
  <2> QED BY <2>1, <2>2, <2>3, <2>4, <2>5, <2>6, <2>7, <2>8 DEF Next
<1> QED BY <1>1, <1>2, PTL DEF Spec

LEMMA CoversItself ==
    ASSUME Stamps \subseteq Nat \ {0},
           NEW x \in Copies
    PROVE  Covers(x, x)
  BY VersionsAreOrdered DEF Covers, Copies

\* Outside one-way syncs no version gives way to an older one and no review
\* goes, whatever the order of edits and syncs.
THEOREM NothingIsLost ==
    ASSUME Stamps \subseteq Nat \ {0}
    PROVE  Spec => NothingGoesBack
<1> DEFINE Step == (\A d \in Devices : ~Upload(d) /\ ~Download(d))
                     => /\ Covers(kept', kept)
                        /\ \A d \in Devices : Covers(held'[d], held[d])
<1>1. TypeOK /\ TypeOK' /\ [Next]_vars => [Step]_vars
  <2> SUFFICES ASSUME TypeOK, TypeOK', Next,
                      \A d \in Devices : ~Upload(d) /\ ~Download(d)
               PROVE  /\ Covers(kept', kept)
                      /\ \A e \in Devices : Covers(held'[e], held[e])
    OBVIOUS
  <2>a. /\ kept \in Copies /\ \A e \in Devices : held[e] \in Copies
        /\ kept' \in Copies /\ \A e \in Devices : held'[e] \in Copies
    BY DEF TypeOK
  <2>1. ASSUME NEW d \in Devices, Edit(d)
        PROVE  Covers(kept', kept) /\ \A e \in Devices : Covers(held'[e], held[e])
    <3>1. PICK o \in Objects, v \in Stamps \cup {Deleted} :
            /\ AsNew(v, held[d].version[o])
            /\ held' = [held EXCEPT ![d].version[o] = v]
      BY <2>1 DEF Edit
    <3>2. kept' = kept
      BY <2>1 DEF Edit
    <3>3. ASSUME NEW e \in Devices, e # d PROVE held'[e] = held[e]
      BY <3>1, <3>3 DEF TypeOK
    <3>4. /\ held'[d].reviews = held[d].reviews
          /\ \A p \in Objects : held'[d].version[p] = IF p = o THEN v ELSE held[d].version[p]
      BY <3>1, <2>a DEF TypeOK, Copies
    <3>5. Covers(held'[d], held[d])
      BY <3>1, <3>4, <2>a, VersionsAreOrdered DEF Covers, Copies
    <3> QED BY <3>2, <3>3, <3>5, <2>a, CoversItself
  <2>2. ASSUME NEW d \in Devices, Review(d)
        PROVE  Covers(kept', kept) /\ \A e \in Devices : Covers(held'[e], held[e])
    <3>1. PICK o \in Objects, t \in Stamps :
            /\ AsNew(t, held[d].version[o])
            /\ held' = [held EXCEPT ![d] = [version |-> [@.version EXCEPT ![o] = t],
                                             reviews |-> @.reviews \cup {t}]]
      BY <2>2 DEF Review
    <3>2. kept' = kept
      BY <2>2 DEF Review
    <3>3. ASSUME NEW e \in Devices, e # d PROVE held'[e] = held[e]
      BY <3>1, <3>3 DEF TypeOK
    <3>4. /\ held'[d].reviews = held[d].reviews \cup {t}
          /\ \A p \in Objects : held'[d].version[p] = IF p = o THEN t ELSE held[d].version[p]
      BY <3>1, <2>a DEF TypeOK, Copies
    <3>5. \A p \in Objects : held[d].version[p] \in Versions
      BY <2>a DEF Copies
    <3>6. Covers(held'[d], held[d])
      BY <3>1, <3>4, <3>5, VersionsAreOrdered DEF Covers
    <3> QED BY <3>2, <3>3, <3>6, <2>a, CoversItself
  <2>3. ASSUME NEW d \in Devices, Sync(d)
        PROVE  Covers(kept', kept) /\ \A e \in Devices : Covers(held'[e], held[e])
    <3>1. kept' = Join(held[d], kept) /\ held' = [held EXCEPT ![d] = kept']
      BY <2>3 DEF Sync
    <3>2. Covers(kept', kept) /\ Covers(kept', held[d])
      BY <3>1, <2>a, JoinCovers
    <3>3. held'[d] = kept' /\ \A e \in Devices : e # d => held'[e] = held[e]
      BY <3>1 DEF TypeOK
    <3> QED BY <3>2, <3>3, <2>a, CoversItself
  <2>4. ASSUME NEW d \in Devices, HalfSync(d)
        PROVE  Covers(kept', kept) /\ \A e \in Devices : Covers(held'[e], held[e])
    <3>1. kept' = Join(held[d], kept) /\ held' = held
      BY <2>4 DEF HalfSync
    <3> QED BY <3>1, <2>a, JoinCovers, CoversItself
  <2>5. ASSUME NEW d \in Devices, Tell(d)
        PROVE  Covers(kept', kept) /\ \A e \in Devices : Covers(held'[e], held[e])
    BY <2>5, <2>a, CoversItself DEF Tell
  <2> QED BY <2>1, <2>2, <2>3, <2>4, <2>5 DEF Next
<1> QED BY <1>1, TypeCorrect, PTL DEF Spec, NothingGoesBack
=============================================================================
