---------------------------- MODULE MCFixedWindow ----------------------------
(***************************************************************************)
(* A small instance of FixedWindow for TLC.                                 *)
(***************************************************************************)
EXTENDS FixedWindow, TLC

CONSTANTS k1, k2, c1, c2

TwoKeys    == {k1, k2}
TwoCallers == {c1, c2}

\* Keys and callers are interchangeable in every property.
Interchangeable == Permutations(TwoKeys) \cup Permutations(TwoCallers)
=============================================================================
