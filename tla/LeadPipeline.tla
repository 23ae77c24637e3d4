---------------------------- MODULE LeadPipeline ----------------------------
(***************************************************************************)
(* What the product promises about the life of a lead, as if every request  *)
(* ran alone: a lead enters as new, moves along the funnel one stage at a   *)
(* time or leaves it, becomes a customer only when won, and from then on    *)
(* its status is final.                                                     *)
(***************************************************************************)
EXTENDS Naturals

CONSTANT Leads

VARIABLES stage,        \* absent, or a status
          converted,    \* leads a customer was made from
          removed       \* leads soft-deleted

pipelineVars == <<stage, converted, removed>>

Funnel == <<"new", "contacted", "qualified", "proposal", "won">>

OnFunnel == {Funnel[i] : i \in 1..5}
Closed   == {"unqualified", "spam"}
Statuses == OnFunnel \cup Closed \cup {"lost"}

\* A lead may move: one stage forward or back, out of the funnel
\* from any open status, back in from lost, and never to new.
MayMove(from, to) ==
    /\ from \in OnFunnel \cup {"lost"} /\ to \in Statuses \ {"new"}
    /\ \/ to \in Closed \cup {"lost"}
       \/ from = "lost"
       \/ \E i \in 1..4 : {from, to} = {Funnel[i], Funnel[i + 1]}

Init ==
    /\ stage = [l \in Leads |-> "absent"]
    /\ converted = {}
    /\ removed = {}

Enter(l) ==
    /\ stage[l] = "absent"
    /\ stage' = [stage EXCEPT ![l] = "new"]
    /\ UNCHANGED <<converted, removed>>

Move(l, to) ==
    /\ l \notin converted \cup removed
    /\ MayMove(stage[l], to)
    /\ stage' = [stage EXCEPT ![l] = to]
    /\ UNCHANGED <<converted, removed>>

Convert(l) ==
    /\ l \notin converted \cup removed
    /\ stage[l] = "won"
    /\ converted' = converted \cup {l}
    /\ UNCHANGED <<stage, removed>>

Remove(l) ==
    /\ stage[l] # "absent" /\ l \notin removed
    /\ removed' = removed \cup {l}
    /\ UNCHANGED <<stage, converted>>

Next == \E l \in Leads :
    \/ Enter(l) \/ Convert(l) \/ Remove(l)
    \/ \E to \in Statuses : Move(l, to)

Spec == Init /\ [][Next]_pipelineVars
=============================================================================
