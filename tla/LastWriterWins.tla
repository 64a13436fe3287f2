--------------------------- MODULE LastWriterWins ---------------------------
(***************************************************************************)
(* What synchronisation promises, without its protocol.  Every device and  *)
(* the server hold a version of each object and a set of reviews.  An      *)
(* ordinary sync joins the two copies: object by object the newer version  *)
(* stays, a deletion beats every version, and reviews are united.  A copy  *)
(* replaces another only in a one-way sync, which a device must have been  *)
(* told about first.                                                       *)
(***************************************************************************)
EXTENDS Integers

CONSTANTS Devices, Objects,
          Stamps      \* the moments at which something can be edited, from 1

Unknown == 0
Deleted == -1
Versions == {Unknown, Deleted} \cup Stamps

Copies == [version : [Objects -> Versions], reviews : SUBSET Stamps]

VARIABLES held,      \* [Devices -> Copies]
          kept,      \* what the server holds
          told       \* devices that were told to sync in one direction

vars == <<held, kept, told>>

TypeOK == /\ held \in [Devices -> Copies]
          /\ kept \in Copies
          /\ told \subseteq Devices

\* v is at least as new as w
AsNew(v, w) == v = Deleted \/ (w # Deleted /\ v >= w)

Newer(v, w) == IF AsNew(v, w) THEN v ELSE w

Join(x, y) ==
    [version |-> [o \in Objects |-> Newer(x.version[o], y.version[o])],
     reviews |-> x.reviews \cup y.reviews]

\* An upload forgets which objects were deleted.
Forget(x) ==
    [x EXCEPT !.version = [o \in Objects |-> IF @[o] = Deleted THEN Unknown ELSE @[o]]]

Init == /\ kept \in Copies
        /\ held = [d \in Devices |-> kept]
        /\ told = {}

\* The user adds, edits or deletes an object on a device.
Edit(d) ==
    /\ \E o \in Objects, v \in Stamps \cup {Deleted} :
         /\ AsNew(v, held[d].version[o])
         /\ held' = [held EXCEPT ![d].version[o] = v]
    /\ UNCHANGED <<kept, told>>

\* A review leaves an entry and changes the card.
Review(d) ==
    /\ \E o \in Objects, s \in Stamps :
         /\ AsNew(s, held[d].version[o])
         /\ held' = [held EXCEPT ![d] = [version |-> [@.version EXCEPT ![o] = s],
                                          reviews |-> @.reviews \cup {s}]]
    /\ UNCHANGED <<kept, told>>

Sync(d) ==
    /\ kept' = Join(held[d], kept)
    /\ held' = [held EXCEPT ![d] = kept']
    /\ UNCHANGED told

\* A sync whose end the device does not learn of.
HalfSync(d) ==
    /\ kept' = Join(held[d], kept)
    /\ UNCHANGED <<held, told>>

\* The device learns whether its next sync must be in one direction.
Tell(d) ==
    /\ told' \in {told \cup {d}, told \ {d}}
    /\ UNCHANGED <<held, kept>>

Upload(d) ==
    /\ d \in told
    /\ held' = [held EXCEPT ![d] = Forget(@)]
    /\ kept' \in {held'[d], kept}             \* the upload may not arrive
    /\ told' = told \ {d}

Download(d) ==
    /\ d \in told
    /\ held' = [held EXCEPT ![d] = kept]
    /\ told' = told \ {d}
    /\ UNCHANGED kept

Next == \E d \in Devices : \/ Edit(d) \/ Review(d) \/ Sync(d)
                           \/ HalfSync(d) \/ Tell(d) \/ Upload(d) \/ Download(d)

Spec == Init /\ [][Next]_vars

-----------------------------------------------------------------------------
(* What this promises.                                                      *)

\* x lacks nothing that y has
Covers(x, y) == /\ \A o \in Objects : AsNew(x.version[o], y.version[o])
                /\ y.reviews \subseteq x.reviews

\* No version gives way to an older one and no review goes, on the server or
\* on a device, but in a one-way sync.
NothingGoesBack ==
    [][(\A d \in Devices : ~Upload(d) /\ ~Download(d))
         => /\ Covers(kept', kept)
            /\ \A d \in Devices : Covers(held'[d], held[d])]_vars
=============================================================================
