------------------------------ MODULE MCMediaSync ------------------------------
\* Small instances of MediaSync.
EXTENDS MediaSync, TLC

CONSTANTS phone, desktop, x, y, a, b

TwoClients == {phone, desktop}
TwoNames == {x, y}
TwoContents == {a, b}

Swap == Permutations(TwoClients)
=============================================================================
