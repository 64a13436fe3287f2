----------------------------- MODULE MCCardStates -----------------------------
\* A small instance of CardStates.
EXTENDS CardStates, TLC

CONSTANTS front, back, default, other, cram

TwoCards == {front, back}
TwoHomes == {default, other}
OneCram == {cram}
TwoPositions == 1..2
OneDay == {5}
OneTime == {1700000001}

\* The user's burying differs from the scheduler's in who may end it only.
SuspendOrBury == {"Suspended", "SchedBuried"}

Swap == Permutations(TwoCards)
=============================================================================
