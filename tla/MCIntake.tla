------------------------------ MODULE MCIntake ------------------------------
(***************************************************************************)
(* A small instance of Intake for TLC.                                      *)
(***************************************************************************)
EXTENDS Intake, TLC

CONSTANTS v1, v2, f1, f2, a1

OneAddress == [v \in Visitors |-> a1]

\* Callers behind one address are interchangeable, and so are forms.
Interchangeable == Permutations(Visitors) \cup Permutations(Forms)

\* Forms and keys share no state but the callers, so a behaviour that has
\* both is not explored further.
Apart == \/ \A f \in Forms : form[f].state = "none"
         \/ \A k \in Keys : key[k].state = "none"
=============================================================================
