--------------------------- MODULE MCCollectionSync ---------------------------
\* Small instances of CollectionSync.
EXTENDS CollectionSync, TLC

CONSTANTS phone, desktop, k, l, d

TwoClients == {phone, desktop}
OneCard == {k}
TwoCards == {k, l}
OneDeck == {d}
None == {}
CardAndDeck == {k, d}

LostOnly == {"lost", "schema"}
Overtaken == {"overtaken"}
OvertakenOrCrash == {"overtaken", "crash in finish"}

Swap == Permutations(TwoClients)
=============================================================================
