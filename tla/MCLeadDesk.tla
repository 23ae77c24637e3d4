----------------------------- MODULE MCLeadDesk -----------------------------
(***************************************************************************)
(* Instances of LeadDesk for TLC.                                           *)
(***************************************************************************)
EXTENDS LeadDesk, TLC

CONSTANTS c1, c2, c3, owner, worker

MCRole == owner :> "owner" @@ worker :> "employee"

\* All clients are the owner's, or the second is its employee's.
Owners         == [c \in Clients |-> owner]
OwnerAndWorker == [c \in Clients |-> IF c = c2 THEN worker ELSE owner]

StatusKinds == {"create", "status", "convert", "delete"}
AssignKinds == {"create", "assign", "edit", "status", "deactivate"}
CreateKinds == {"create", "delete"}

\* Sound where all clients act for one member.
ClientSymmetry == Permutations(Clients)
LeadSymmetry   == Permutations(Leads)
BothSymmetries == ClientSymmetry \cup LeadSymmetry
=============================================================================
