------------------------------- MODULE MCTeam -------------------------------
(***************************************************************************)
(* Small instances of Team for TLC.                                         *)
(***************************************************************************)
EXTENDS Team, TLC

CONSTANTS p1, p2, p3, i1, i2, c1, c2

ThreePeople == {p1, p2, p3}
TwoInvites == {i1, i2}
TwoRequests == {c1, c2}
EmployeesOnly == {"employee"}

\* The catalogue's shape, small: a limit that a second member reaches, and one more.
SmallPlans == "free" :> 2 @@ "pro" :> 3

\* A founder alone who invites; a grown team whose roles change and members leave.
Founder == p1 :> "owner" @@ p2 :> None @@ p3 :> None
Grown == p1 :> "owner" @@ p2 :> "owner" @@ p3 :> "admin"
Pair == p1 :> "owner" @@ p2 :> "employee" @@ p3 :> None

Growth == [plan |-> "free", member |-> Founder, kinds |-> {"join", "revoke"}]
Moves  == [plan |-> "pro", member |-> Grown, kinds |-> {"role", "removal"}]
Turnover == [plan |-> "free", member |-> Pair, kinds |-> {"join", "removal", "plan"}]

Interchangeable == Permutations(TwoRequests)

AllStarts == {Growth, Moves, Turnover}
OnlyMoves == {Moves}
=============================================================================
