---------------------------- MODULE MCUndoManager ----------------------------
\* Small instances of UndoManager.
EXTENDS UndoManager

CONSTANTS n1, n2, d1

OneNote == {n1}
TwoNotes == {n1, n2}
OneDeck == {d1}
None == {}

AllValues == {"a", "b"}

Editing == {"Merge"}
Outside == {"SkipUndo", "Proxy"}
=============================================================================
