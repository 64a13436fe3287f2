----------------------------- MODULE MCBackend -----------------------------
(* Constants of the runs of Backend.                                        *)
EXTENDS Backend, TLC

CONSTANTS c1, c2

TwoCallers == {c1, c2}
=============================================================================
