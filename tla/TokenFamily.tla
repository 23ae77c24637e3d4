----------------------------- MODULE TokenFamily -----------------------------
(***************************************************************************)
(* What refresh tokens promise, with rows, locks and transactions left out. *)
(* The tokens born of one login form a chain, owned by one membership, of    *)
(* which at most one can be exchanged; an exchange retires the token         *)
(* presented, and a chain that has ended never comes back.  A revocation     *)
(* orders the end of a family, of a membership's families or of all, and     *)
(* when it is answered those it found alive have ended, but for a family     *)
(* exchanged in the meantime: the successor is out of its reach.            *)
(***************************************************************************)
EXTENDS FiniteSets

CONSTANTS Tokens, Members,
          Callers,      \* those who exchange tokens and order revocations
          None

VARIABLES born,     \* tokens issued so far
          owner,    \* owner[f]: membership of the family begun by f
          live,     \* live[f]: its tokens that can be exchanged
          order,    \* order[c]: revocation of caller c, under way or done
          due       \* due[c]: families it has still to end

familyVars == <<born, owner, live, order, due>>

NoOrder == [kind |-> "none",  of |-> None]
Ended   == [kind |-> "ended", of |-> None]

Orders == {[kind |-> "all", of |-> None]}
             \cup [kind : {"member"}, of : Members] \cup [kind : {"family"}, of : Tokens]

\* The living families an order is about.
Reach(o) == {f \in Tokens :
                /\ live[f] # {}
                /\ \/ o.kind = "all"
                   \/ o.kind = "member" /\ owner[f] = o.of
                   \/ o.kind = "family" /\ f = o.of}

Emptied(S) == [f \in Tokens |-> IF f \in S THEN {} ELSE live[f]]

WithoutDue(S) == [c \in Callers |-> due[c] \ S]

Init ==
    /\ born = {}
    /\ owner = [f \in Tokens |-> None]
    /\ live = [f \in Tokens |-> {}]
    /\ order = [c \in Callers |-> NoOrder]
    /\ due = [c \in Callers |-> {}]

\* A login: a revocation under way does not reach the new family.
Begin(f, m) ==
    /\ f \notin born
    /\ born' = born \cup {f}
    /\ owner' = [owner EXCEPT ![f] = m]
    /\ live' = [live EXCEPT ![f] = {f}]
    /\ UNCHANGED <<order, due>>

Exchange(f, t, new) ==
    /\ live[f] = {t}
    /\ new \notin born
    /\ born' = born \cup {new}
    /\ live' = [live EXCEPT ![f] = {new}]
    /\ due' = WithoutDue({f})
    /\ UNCHANGED <<owner, order>>

\* A detected reuse, a role that lost the dashboard, a reset, a removal.
Ask(c, o) ==
    /\ order[c] \notin Orders
    /\ order' = [order EXCEPT ![c] = o]
    /\ due' = [due EXCEPT ![c] = Reach(o)]
    /\ UNCHANGED <<born, owner, live>>

\* Answered: what was due has ended, for every other revocation as well.
End(c) ==
    /\ order[c] \in Orders
    /\ live' = Emptied(due[c])
    /\ due' = WithoutDue(due[c])
    /\ order' = [order EXCEPT ![c] = Ended]
    /\ UNCHANGED <<born, owner>>

\* A revocation fails and changes nothing, or its caller turns to something else.
Drop(c) ==
    /\ order' = [order EXCEPT ![c] = NoOrder]
    /\ due' = [due EXCEPT ![c] = {}]
    /\ UNCHANGED <<born, owner, live>>

\* A logout.
Close(f) ==
    /\ live' = Emptied({f})
    /\ due' = WithoutDue({f})
    /\ UNCHANGED <<born, owner, order>>

Next ==
    \/ \E f \in Tokens : (\E m \in Members : Begin(f, m)) \/ Close(f)
    \/ \E f, t, new \in Tokens : Exchange(f, t, new)
    \/ \E c \in Callers : End(c) \/ Drop(c) \/ \E o \in Orders : Ask(c, o)

Spec == Init /\ [][Next]_familyVars
=============================================================================
