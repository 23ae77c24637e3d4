-------------------------------- MODULE Team --------------------------------
(***************************************************************************)
(* The people of one organization: registration, invitations, roles and      *)
(* removals (internal/auth, internal/invitation, internal/membership) under  *)
(* the seat limit of its plan (internal/subscription).  Each read that        *)
(* decides something is a step of its own; only the writes are transactions. *)
(***************************************************************************)
EXTENDS Integers, FiniteSets

CONSTANTS People,       \* persons, by the e-mail address they use
          Invites,      \* invitations that may come to exist
          Requests,     \* requests under way
          Seats,        \* plan -> Limits.Seats, Unlimited being none
          Paid,         \* the plan a test checkout buys
          Starts,       \* team and plan at the start, and the kinds of request made (bound)
          Offered,      \* roles people are invited to (bound); an owner never is
          MaxRoleChanges, \* bound: changes of a role in one behaviour
          None

\* A manager may do here what an employee may: nothing.
Roles == {"owner", "admin", "employee"}
Kinds == {"join", "revoke", "plan", "role", "removal"}
Unlimited == 0

Invitations == [email : People, role : Offered, accepted : BOOLEAN,
                revoked : BOOLEAN, expired : BOOLEAN, shut : BOOLEAN]

ASSUME TeamAssumption ==
    /\ IsFiniteSet(People) /\ IsFiniteSet(Invites)
    /\ IsFiniteSet(Requests) /\ Requests # {}
    /\ DOMAIN Seats # {} /\ \A p \in DOMAIN Seats : Seats[p] \in Nat
    /\ \A s \in Starts : /\ s.member \in [People -> Roles \cup {None}]
                         /\ \E a \in People : s.member[a] = "owner"
                         /\ s.kinds \subseteq Kinds /\ s.plan \in DOMAIN Seats
                         \* the history starts within the limit
                         /\ \/ Seats[s.plan] = Unlimited
                            \/ Cardinality({a \in People : s.member[a] # None}) <= Seats[s.plan]
    /\ Offered \subseteq Roles \ {"owner"}
    /\ MaxRoleChanges \in Nat
    /\ None \notin People \cup Invites \cup Requests \cup Roles \cup Invitations

VARIABLES account,      \* users: none, unverified or verified
          member,       \* role of the active membership, or None
          held,         \* roles that an unexpired access token of a person may name
          invite,       \* invitations
          plan,         \* subscriptions.plan_code of the active subscription
          pc, req,      \* requests: next statement, and what they hold in memory
          kinds,        \* bound: the kinds of request in this behaviour
          changes,      \* bound: changes of a role so far
          ceiling,      \* history: the largest seat limit in force so far
          joined,       \* history: who became a member since the start
          torn,         \* history: acceptances between a request's two counts
          stale         \* history: a write was decided on a row that had changed

peopleVars  == <<account, member, held, joined, torn>>
inviteVars  == <<invite>>
planVars    == <<plan, ceiling>>
boundVars   == <<kinds, changes>>
requestVars == <<pc, req>>
vars == <<peopleVars, inviteVars, planVars, boundVars, requestVars, stale>>

Stages == {"idle", "pending", "invite", "acceptNew", "acceptOld", "role", "count", "remove"}

NoRequest == [by |-> None, as |-> None, target |-> None, seen |-> None, want |-> None,
              used |-> 0, owners |-> 0, invite |-> None]

TypeOK ==
    /\ account \in [People -> {"none", "unverified", "verified"}]
    /\ member \in [People -> Roles \cup {None}]
    /\ \A a \in People : member[a] # None => account[a] # "none" /\ member[a] \in held[a]
    /\ held \in [People -> SUBSET Roles]
    /\ invite \in [Invites -> Invitations \cup {None}]
    /\ plan \in DOMAIN Seats /\ ceiling \in Nat
    /\ pc \in [Requests -> Stages]
    /\ req \in [Requests ->
                   [by : People \cup {None}, as : Roles \cup {None},
                    target : People \cup {None}, seen : Roles \cup {None},
                    want : Roles \cup {None}, used : Nat, owners : Nat,
                    invite : Invites \cup {None}]]
    /\ kinds \subseteq Kinds /\ changes \in 0..MaxRoleChanges
    /\ joined \subseteq People /\ torn \in Nat /\ stale \in BOOLEAN

Init ==
    \E s \in Starts :
        /\ member = s.member /\ kinds = s.kinds /\ plan = s.plan
        /\ ceiling = Seats[s.plan]
        /\ account = [a \in People |-> IF s.member[a] = None THEN "none" ELSE "verified"]
        /\ held = [a \in People |-> {s.member[a]} \ {None}]
        /\ invite = [i \in Invites |-> None]
        /\ pc = [c \in Requests |-> "idle"]
        /\ req = [c \in Requests |-> NoRequest]
        /\ changes = 0 /\ joined = {} /\ torn = 0 /\ stale = FALSE

-----------------------------------------------------------------------------
Members == {a \in People : member[a] # None}
Owners == {a \in People : member[a] = "owner"}
Sent == {i \in Invites : invite[i] # None}
Fresh == CHOOSE i \in Invites : invite[i] = None

\* uq_invitations_org_email_pending: an expired one is pending still.
Open == {i \in Sent : ~invite[i].accepted /\ ~invite[i].revoked}

\* CountPendingSeats: what could still turn into a membership.
Pending == {i \in Open : ~invite[i].expired}

\* Mutant: an invitation is looked up whether or not it was revoked.
ActionableAnyway(i) == i \in Sent /\ ~invite[i].accepted /\ ~invite[i].expired

Actionable(i) == i \in Pending

\* Mutant: the limit itself still fits.
AllowsOneMore(limit, used) == limit = Unlimited \/ used <= limit

Allows(limit, used) == limit = Unlimited \/ used < limit

\* membership.update_role, membership.deactivate, invitation.create and revoke.
MayManage(r) == r \in {"owner", "admin"}

Started(c, a, r) == pc[c] = "idle" /\ r \in held[a]

Proceed(c, stage, r) == pc' = [pc EXCEPT ![c] = stage] /\ req' = [req EXCEPT ![c] = r]

Done(c) == Proceed(c, "idle", NoRequest)

\* The start of a request by person a whose token names role r.
Asked(a, r) == [NoRequest EXCEPT !.by = a, !.as = r]

-----------------------------------------------------------------------------
(***************************************************************************)
(* Accounts.  An address registers an organization of its own; the           *)
(* verification link is mailed again on request for as long as it is needed. *)
(***************************************************************************)
Register(e) ==
    /\ "join" \in kinds
    /\ account[e] = "none"
    /\ account' = [account EXCEPT ![e] = "unverified"]
    /\ UNCHANGED <<member, held, joined, torn, inviteVars, planVars, boundVars, requestVars, stale>>

VerifyEmail(e) ==
    /\ account[e] = "unverified"
    /\ account' = [account EXCEPT ![e] = "verified"]
    /\ UNCHANGED <<member, held, joined, torn, inviteVars, planVars, boundVars, requestVars, stale>>

-----------------------------------------------------------------------------
(***************************************************************************)
(* Inviting: members are counted, then pending invitations, then the plan is *)
(* asked, then the row is inserted.                                         *)
(***************************************************************************)
\* Mutant: the role asked for is not looked at.
AnyInvitable(role) == TRUE

Invitable(role) == role \in Offered

CountMembers(c, a, r, e, role) ==
    /\ "join" \in kinds
    /\ Started(c, a, r) /\ MayManage(r)
    /\ Invitable(role)
    /\ Proceed(c, "pending", [NoRequest EXCEPT !.target = e, !.want = role,
                                               !.used = Cardinality(Members)])
    /\ UNCHANGED <<peopleVars, inviteVars, planVars, boundVars, stale>>

CountPending(c) ==
    /\ pc[c] = "pending"
    /\ IF Allows(Seats[plan], req[c].used + Cardinality(Pending))
       THEN Proceed(c, "invite", [req[c] EXCEPT !.used = 0])
       ELSE Done(c)
    /\ UNCHANGED <<peopleVars, inviteVars, planVars, boundVars, stale>>

CreateInvitation(c) ==
    /\ pc[c] = "invite"
    /\ IF \E i \in Open : invite[i].email = req[c].target
       THEN UNCHANGED invite
       ELSE /\ Sent # Invites     \* bound
            /\ invite' = [invite EXCEPT ![Fresh] =
                             [email |-> req[c].target, role |-> req[c].want,
                              accepted |-> FALSE, revoked |-> FALSE,
                              expired |-> FALSE, shut |-> FALSE]]
    /\ Done(c)
    /\ UNCHANGED <<peopleVars, planVars, boundVars, stale>>

Expire(i) ==
    /\ i \in Pending
    /\ invite' = [invite EXCEPT ![i].expired = TRUE]
    /\ UNCHANGED <<peopleVars, planVars, boundVars, requestVars, stale>>

\* MarkRevoked has no guard: an accepted invitation is marked too.
Revoke(i, a, r) ==
    /\ "revoke" \in kinds
    /\ r \in held[a] /\ MayManage(r)
    /\ i \in Sent /\ ~invite[i].revoked
    /\ invite' = [invite EXCEPT ![i].revoked = TRUE,
                     ![i].shut = ~invite[i].accepted /\ \A c \in Requests : req[c].invite # i]
    /\ UNCHANGED <<peopleVars, planVars, boundVars, requestVars, stale>>

-----------------------------------------------------------------------------
(***************************************************************************)
(* Accepting: the invitation and the account are read, then one transaction  *)
(* writes.  With an account, only its signed-in holder may accept.           *)
(***************************************************************************)
FindInvitation(c, i) ==
    /\ pc[c] = "idle"
    /\ Actionable(i)
    /\ LET e == invite[i].email
       IN  /\ account[e] # "unverified"
           /\ Proceed(c, IF account[e] = "none" THEN "acceptNew" ELSE "acceptOld",
                      [NoRequest EXCEPT !.target = e, !.want = invite[i].role, !.invite = i])
    /\ UNCHANGED <<peopleVars, inviteVars, planVars, boundVars, stale>>

\* Mutant: the invitation is marked although the account could not be created.
AcceptedAnyway(c, fits) == invite' = [invite EXCEPT ![req[c].invite].accepted = TRUE]

MarkAccepted(c, fits) ==
    invite' = IF fits THEN [invite EXCEPT ![req[c].invite].accepted = TRUE] ELSE invite

\* The unique index, on users.email or on the active membership, decides.
Accept(c) ==
    /\ pc[c] \in {"acceptNew", "acceptOld"}
    /\ LET e == req[c].target
           fits == IF pc[c] = "acceptNew" THEN account[e] = "none" ELSE member[e] = None
       IN  /\ MarkAccepted(c, fits)
           /\ IF fits
              THEN /\ account' = [account EXCEPT ![e] = "verified"]
                   /\ member' = [member EXCEPT ![e] = req[c].want]
                   /\ held' = [held EXCEPT ![e] = @ \cup {req[c].want}]
                   /\ joined' = joined \cup {e}
                   /\ torn' = IF \E d \in Requests : pc[d] = "pending" THEN torn + 1 ELSE torn
              ELSE UNCHANGED peopleVars
    /\ Done(c)
    /\ UNCHANGED <<planVars, boundVars, stale>>

-----------------------------------------------------------------------------
(***************************************************************************)
(* Roles and removals: the target's role is read, the rules are applied to    *)
(* it and to the role the token names, and the write comes after.            *)
(***************************************************************************)

\* Mutant: nobody is kept from changing their own role.
NotOneselfForgotten(a, t) == TRUE

NotOneself(a, t) == a # t

\* An admin touches no owner and makes none.
WithinRank(r, seen, want) == r = "admin" => "owner" \notin {seen, want}

ReadForRole(c, a, r, t, want) ==
    /\ "role" \in kinds /\ changes < MaxRoleChanges
    /\ Started(c, a, r) /\ MayManage(r)
    /\ NotOneself(a, t)
    /\ member[t] # None /\ WithinRank(r, member[t], want)
    /\ Proceed(c, "role", [Asked(a, r) EXCEPT !.target = t, !.seen = member[t], !.want = want])
    /\ UNCHANGED <<peopleVars, inviteVars, planVars, boundVars, stale>>

\* What the request was decided on still holds.
Current(c) ==
    /\ member[req[c].by] = req[c].as
    /\ member[req[c].target] = req[c].seen
    /\ req[c].owners # 0 => req[c].owners = Cardinality(Owners)

UpdateRole(c) ==
    /\ pc[c] = "role"
    /\ changes < MaxRoleChanges
    /\ LET t == req[c].target
       IN  IF member[t] = None
           THEN UNCHANGED <<member, held, changes, stale>>
           ELSE /\ member' = [member EXCEPT ![t] = req[c].want]
                /\ held' = [held EXCEPT ![t] = @ \cup {req[c].want}]
                /\ changes' = changes + 1
                /\ stale' = (stale \/ ~Current(c))
    /\ Done(c)
    /\ UNCHANGED <<account, joined, torn, inviteVars, planVars, kinds>>

\* Only an owner who leaves is asked how many owners there are.
ReadForRemoval(c, a, r, t) ==
    /\ "removal" \in kinds
    /\ Started(c, a, r) /\ MayManage(r)
    /\ member[t] # None /\ WithinRank(r, member[t], None)
    /\ Proceed(c, IF a = t /\ member[t] = "owner" THEN "count" ELSE "remove",
               [Asked(a, r) EXCEPT !.target = t, !.seen = member[t]])
    /\ UNCHANGED <<peopleVars, inviteVars, planVars, boundVars, stale>>

CountOwners(c) ==
    /\ pc[c] = "count"
    /\ IF Cardinality(Owners) <= 1
       THEN Done(c)
       ELSE Proceed(c, "remove", [req[c] EXCEPT !.owners = Cardinality(Owners)])
    /\ UNCHANGED <<peopleVars, inviteVars, planVars, boundVars, stale>>

\* The open leads and the sessions of the member are LeadDesk's and Sessions'.
Deactivate(c) ==
    /\ pc[c] = "remove"
    /\ LET t == req[c].target
       IN  IF member[t] = None
           THEN UNCHANGED <<member, stale>>
           ELSE /\ member' = [member EXCEPT ![t] = None]
                /\ stale' = (stale \/ ~Current(c))
    /\ Done(c)
    /\ UNCHANGED <<account, held, joined, torn, inviteVars, planVars, boundVars>>

-----------------------------------------------------------------------------
\* subscriptions.plan_code; what the audit log then says of the change is left out.
ChangePlan(p) ==
    /\ "plan" \in kinds /\ p # plan
    /\ plan' = p
    /\ ceiling' = IF Unlimited \in {ceiling, Seats[p]} THEN Unlimited
                  ELSE IF Seats[p] > ceiling THEN Seats[p] ELSE ceiling
    /\ UNCHANGED <<peopleVars, inviteVars, boundVars, requestVars, stale>>

\* A request whose statement fails ends there.
Fail(c) ==
    /\ pc[c] # "idle"
    /\ Done(c)
    /\ UNCHANGED <<peopleVars, inviteVars, planVars, boundVars, stale>>

\* The endpoints.
PostRegister == \E e \in People : Register(e)
PostVerifyEmail == \E e \in People : VerifyEmail(e)
PostInvitation(c) == \E a, e \in People, r, role \in Roles : CountMembers(c, a, r, e, role)
PostAccept(c) == \E i \in Invites : FindInvitation(c, i)
DeleteInvitation == \E i \in Invites, a \in People, r \in Roles : Revoke(i, a, r)
PatchRole(c) == \E a, t \in People, r, want \in Roles : ReadForRole(c, a, r, t, want)
DeleteMember(c) == \E a, t \in People, r \in Roles : ReadForRemoval(c, a, r, t)

\* The operator's token opens every plan, the owner's test checkout only Pro.
OperatorSetsPlan == \E p \in DOMAIN Seats : ChangePlan(p)
TestCheckout ==
    \E a \in People : "owner" \in held[a] /\ \E p \in DOMAIN Seats \cap {Paid} : ChangePlan(p)

Arrive(c) == PostInvitation(c) \/ PostAccept(c) \/ PatchRole(c) \/ DeleteMember(c)

Step(c) ==
    \/ CountPending(c) \/ CreateInvitation(c) \/ Accept(c)
    \/ UpdateRole(c) \/ CountOwners(c) \/ Deactivate(c) \/ Fail(c)

Next ==
    \/ PostRegister \/ PostVerifyEmail
    \/ DeleteInvitation \/ \E i \in Invites : Expire(i)
    \/ OperatorSetsPlan \/ TestCheckout
    \/ \E c \in Requests : Arrive(c) \/ Step(c)

Spec == Init /\ [][Next]_vars

-----------------------------------------------------------------------------
(***************************************************************************)
(* Properties.                                                              *)
(***************************************************************************)

(***************************************************************************)
(* Seats are counted in two statements before the invitation is inserted,    *)
(* and an acceptance under way survives a revocation or expiry.  Members and  *)
(* invitations that can become members together pass the limit by less than   *)
(* the number of requests under way at once, plus the acceptances that fell   *)
(* between the two counts of a request and were therefore counted in neither. *)
(***************************************************************************)
SeatsBounded ==
    ceiling # Unlimited =>
        Cardinality(Members) + Cardinality(Pending)
            <= ceiling + (Cardinality(Requests) - 1) + torn

(***************************************************************************)
(* An organization is left without an owner only by a write that was decided *)
(* on rows or an access token no longer true: the rules on one's own role,   *)
(* on admins and on the last owner who leaves are enough by themselves.      *)
(***************************************************************************)
OwnerUnlessStale == stale \/ Owners # {}

(***************************************************************************)
(* An invitation revoked while nobody is accepting it is never accepted.      *)
(***************************************************************************)
RevokedStaysOut == \A i \in Sent : invite[i].shut => ~invite[i].accepted

(***************************************************************************)
(* An invitation counts as accepted exactly when it made its addressee a      *)
(* member: an acceptance that loses the address to a registration, or finds   *)
(* the person a member already, leaves the invitation as it was.              *)
(***************************************************************************)
AcceptedMeansJoined ==
    joined = {invite[i].email : i \in {j \in Sent : invite[j].accepted}}

(***************************************************************************)
(* The owner who leaves is not the last one: what the comment on              *)
(* CountActiveOwners says of Deactivate.                                     *)
(***************************************************************************)
LastOwnerStays ==
    [][\A c \in Requests :
          pc[c] = "remove" /\ req[c].by = req[c].target /\ req[c].seen = "owner"
          /\ member[req[c].target] = "owner" /\ member'[req[c].target] = None
             => Owners' # {}]_vars
=============================================================================
