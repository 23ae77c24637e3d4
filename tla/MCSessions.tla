----------------------------- MODULE MCSessions -----------------------------
(***************************************************************************)
(* A small instance of Sessions for TLC.                                    *)
(***************************************************************************)
EXTENDS Sessions

CONSTANTS t1, t2, t3, m1, c1, c2

ThreeTokens == {t1, t2, t3}
OneMember   == {m1}
TwoRequests == {c1, c2}
=============================================================================
