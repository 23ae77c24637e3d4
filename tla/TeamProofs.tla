----------------------------- MODULE TeamProofs -----------------------------
(***************************************************************************)
(* Theorems about Team, for every number of people, invitations and          *)
(* requests, and every catalogue of plans.                                   *)
(***************************************************************************)
EXTENDS Team, FiniteSetTheorems, TLAPS

Managers == {"owner", "admin"}

\* What a request relies on between its statements.
Relies(c) ==
    /\ pc[c] \in {"pending", "invite"} => req[c].target \in People /\ req[c].want \in Offered
    /\ pc[c] \in {"acceptNew", "acceptOld"} => req[c].invite # None
    /\ pc[c] = "role" => /\ req[c].by \in People /\ req[c].target \in People
                         /\ req[c].by # req[c].target
                         /\ req[c].as \in Managers /\ req[c].want \in Roles
                         /\ req[c].as = "admin" => req[c].seen # "owner"
    /\ pc[c] = "count" => /\ req[c].by \in People /\ req[c].target \in People
                          /\ req[c].as = "owner"
    /\ pc[c] = "remove" => /\ req[c].by \in People /\ req[c].target \in People
                           /\ req[c].as \in Managers
                           /\ req[c].as = "admin" => req[c].seen # "owner"
                           /\ req[c].by = req[c].target /\ req[c].seen = "owner"
                                => req[c].owners > 1

\* An acceptance under way has an invitation that was not closed before it began.
Holds(c) ==
    req[c].invite # None =>
        /\ req[c].invite \in Sent
        /\ req[c].target = invite[req[c].invite].email
        /\ req[c].want \in Roles
        /\ ~invite[req[c].invite].shut

Staged == \A c \in Requests : Relies(c) /\ Holds(c)

ShutForGood == \A i \in Sent : invite[i].shut => invite[i].revoked /\ ~invite[i].accepted

IInv == TypeOK /\ Staged /\ ShutForGood /\ AcceptedMeansJoined /\ OwnerUnlessStale

Memory == [by : People \cup {None}, as : Roles \cup {None},
           target : People \cup {None}, seen : Roles \cup {None},
           want : Roles \cup {None}, used : Nat, owners : Nat,
           invite : Invites \cup {None}]

Unwritten == UNCHANGED <<peopleVars, inviteVars, stale>>

-----------------------------------------------------------------------------

LEMMA InvitationOrNone == None \notin Invitations /\ None \notin Invites /\ None \notin Roles
BY TeamAssumption

LEMMA Counts ==
    ASSUME TypeOK
    PROVE  /\ Cardinality(Members) \in Nat /\ Cardinality(Pending) \in Nat
           /\ Cardinality(Owners) \in Nat
<1>1. IsFiniteSet(Members) /\ IsFiniteSet(Owners)
  BY TeamAssumption, FS_Subset DEF Members, Owners
<1>2. IsFiniteSet(Pending)
  <2>1. Pending \subseteq Invites
    BY DEF Pending, Open, Sent
  <2> QED BY <2>1, TeamAssumption, FS_Subset
<1> QED BY <1>1, <1>2, FS_CardinalityType

\* A team that one owner leaves and that has no owner then had only that one.
LEMMA LastOfMany ==
    ASSUME NEW t, Owners \subseteq {t}
    PROVE  ~(Cardinality(Owners) > 1)
<1>1. Owners = {} \/ Owners = {t}
  OBVIOUS
<1>2. Cardinality({}) = 0
  BY FS_EmptySet
<1>3. Cardinality({t}) = 1
  BY FS_Singleton
<1> QED BY <1>1, <1>2, <1>3

-----------------------------------------------------------------------------
(* Steps that only move a request on. *)

LEMMA MovingOn ==
    ASSUME IInv, Unwritten, UNCHANGED <<planVars, boundVars>>,
           NEW c \in Requests, NEW s \in Stages, NEW r \in Memory, Proceed(c, s, r),
           Relies(c)', Holds(c)'
    PROVE  IInv'
<1>1. TypeOK'
  BY DEF IInv, TypeOK, Memory, Proceed, Unwritten, peopleVars, inviteVars, planVars, boundVars
<1>2. ASSUME NEW d \in Requests \ {c} PROVE Relies(d)' /\ Holds(d)'
  <2>1. pc'[d] = pc[d] /\ req'[d] = req[d] /\ Relies(d) /\ Holds(d)
    BY DEF IInv, TypeOK, Staged, Proceed
  <2> QED BY <2>1 DEF Relies, Holds, Sent, Unwritten, inviteVars
<1>3. Staged'
  BY <1>2 DEF Staged
<1>4. (ShutForGood /\ AcceptedMeansJoined /\ OwnerUnlessStale)'
  BY DEF IInv, ShutForGood, AcceptedMeansJoined, OwnerUnlessStale, Sent, Owners,
         Unwritten, peopleVars, inviteVars
<1> QED BY <1>1, <1>3, <1>4 DEF IInv

LEMMA NoRequestFits ==
    /\ NoRequest \in Memory /\ NoRequest.invite = None /\ "idle" \in Stages
    /\ NoRequest.owners = 0 /\ NoRequest.used = 0
BY DEF NoRequest, Memory, Stages

LEMMA EndingKeeps ==
    ASSUME IInv, NEW c \in Requests, Done(c), Unwritten, UNCHANGED <<planVars, boundVars>>
    PROVE  IInv'
<1>1. pc'[c] = "idle" /\ req'[c] = NoRequest
  BY DEF IInv, TypeOK, Done, Proceed
<1>2. Relies(c)' /\ Holds(c)'
  BY <1>1, NoRequestFits DEF Relies, Holds
<1> QED BY <1>2, NoRequestFits, MovingOn DEF Done

LEMMA CountMembersKeeps ==
    ASSUME IInv, NEW c \in Requests, NEW a \in People, NEW r \in Roles, NEW e \in People,
           NEW role \in Roles, CountMembers(c, a, r, e, role)
    PROVE  IInv'
<1> DEFINE q == [NoRequest EXCEPT !.target = e, !.want = role, !.used = Cardinality(Members)]
<1>1. q \in Memory /\ q.target = e /\ q.want = role /\ q.invite = None
  BY Counts DEF IInv, NoRequest, Memory
<1>2. role \in Offered /\ Proceed(c, "pending", q) /\ Unwritten /\ UNCHANGED <<planVars, boundVars>>
  BY DEF CountMembers, Invitable, Unwritten
<1> HIDE DEF q
<1>3. pc'[c] = "pending" /\ req'[c] = q
  BY <1>2 DEF Proceed, IInv, TypeOK
<1>4. Relies(c)' /\ Holds(c)'
  BY <1>1, <1>2, <1>3 DEF Relies, Holds
<1> QED BY <1>1, <1>2, <1>4, MovingOn DEF Stages

LEMMA CountPendingKeeps ==
    ASSUME IInv, NEW c \in Requests, CountPending(c)
    PROVE  IInv'
<1>1. CASE Done(c)
  BY <1>1, EndingKeeps DEF CountPending, Unwritten
<1>2. CASE ~Done(c)
  <2> DEFINE q == [req[c] EXCEPT !.used = 0]
  <2>1. pc[c] = "pending" /\ Proceed(c, "invite", q) /\ Unwritten /\ UNCHANGED <<planVars, boundVars>>
    BY <1>2 DEF CountPending, Unwritten
  <2>2. /\ q \in Memory /\ q.target = req[c].target /\ q.want = req[c].want
        /\ q.invite = req[c].invite
    BY DEF IInv, TypeOK, Memory
  <2> HIDE DEF q
  <2>3. pc'[c] = "invite" /\ req'[c] = q /\ Relies(c) /\ Holds(c)
    BY <2>1 DEF Proceed, IInv, TypeOK, Staged
  <2>4. Relies(c)' /\ Holds(c)'
    BY <2>1, <2>2, <2>3 DEF Relies, Holds, Sent, Unwritten, inviteVars
  <2> QED BY <2>1, <2>2, <2>4, MovingOn DEF Stages
<1> QED BY <1>1, <1>2

LEMMA FindKeeps ==
    ASSUME IInv, NEW c \in Requests, NEW i \in Invites, FindInvitation(c, i)
    PROVE  IInv'
<1> DEFINE e == invite[i].email
           s == IF account[e] = "none" THEN "acceptNew" ELSE "acceptOld"
           q == [NoRequest EXCEPT !.target = e, !.want = invite[i].role, !.invite = i]
<1>1. i \in Sent /\ ~invite[i].revoked /\ invite[i] \in Invitations
  BY TeamAssumption DEF FindInvitation, Actionable, Pending, Open, Sent, IInv, TypeOK
<1>2. invite[i].role \in Roles /\ e \in People
  BY <1>1, TeamAssumption DEF Invitations
<1>3. q \in Memory /\ q.target = e /\ q.want = invite[i].role /\ q.invite = i
  BY <1>2 DEF NoRequest, Memory
<1>4. Proceed(c, s, q) /\ Unwritten /\ UNCHANGED <<planVars, boundVars>>
  BY DEF FindInvitation, Unwritten
<1>5. s \in Stages /\ s \in {"acceptNew", "acceptOld"}
  BY DEF Stages
<1> HIDE DEF q, s
<1>6. pc'[c] = s /\ req'[c] = q /\ invite' = invite
  BY <1>4 DEF Proceed, IInv, TypeOK, Unwritten, inviteVars
<1>7. ~invite[i].shut /\ i # None
  BY <1>1, TeamAssumption DEF IInv, ShutForGood
<1>8. Relies(c)'
  BY <1>3, <1>5, <1>6, <1>7 DEF Relies
<1>9. Holds(c)'
  BY <1>1, <1>2, <1>3, <1>6, <1>7 DEF Holds, Sent
<1> QED BY <1>3, <1>4, <1>5, <1>8, <1>9, MovingOn

LEMMA ReadForRoleKeeps ==
    ASSUME IInv, NEW c \in Requests, NEW a \in People, NEW r \in Roles, NEW t \in People,
           NEW want \in Roles, ReadForRole(c, a, r, t, want)
    PROVE  IInv'
<1> DEFINE q == [Asked(a, r) EXCEPT !.target = t, !.seen = member[t], !.want = want]
<1>1. /\ q \in Memory /\ q.by = a /\ q.as = r /\ q.target = t /\ q.seen = member[t]
      /\ q.want = want /\ q.invite = None
  BY DEF IInv, TypeOK, NoRequest, Asked, Memory
<1>2. /\ Proceed(c, "role", q) /\ Unwritten /\ UNCHANGED <<planVars, boundVars>>
      /\ a # t /\ r \in Managers /\ (r = "admin" => member[t] # "owner")
  BY DEF ReadForRole, Unwritten, NotOneself, MayManage, Managers, WithinRank
<1> HIDE DEF q
<1>3. pc'[c] = "role" /\ req'[c] = q
  BY <1>2 DEF Proceed, IInv, TypeOK
<1>4. Relies(c)' /\ Holds(c)'
  BY <1>1, <1>2, <1>3 DEF Relies, Holds
<1> QED BY <1>1, <1>2, <1>4, MovingOn DEF Stages

LEMMA ReadForRemovalKeeps ==
    ASSUME IInv, NEW c \in Requests, NEW a \in People, NEW r \in Roles, NEW t \in People,
           ReadForRemoval(c, a, r, t)
    PROVE  IInv'
<1> DEFINE q == [Asked(a, r) EXCEPT !.target = t, !.seen = member[t]]
           s == IF a = t /\ member[t] = "owner" THEN "count" ELSE "remove"
<1>1. /\ q \in Memory /\ q.by = a /\ q.as = r /\ q.target = t /\ q.seen = member[t]
      /\ q.invite = None
  BY DEF IInv, TypeOK, NoRequest, Asked, Memory
<1>2. /\ Proceed(c, s, q) /\ Unwritten /\ UNCHANGED <<planVars, boundVars>>
      /\ r \in Managers /\ (r = "admin" => member[t] # "owner")
  BY DEF ReadForRemoval, Unwritten, MayManage, Managers, WithinRank
<1> HIDE DEF q
<1>3. pc'[c] = s /\ req'[c] = q
  BY <1>2 DEF Proceed, IInv, TypeOK
<1>4. Relies(c)' /\ Holds(c)'
  BY <1>1, <1>2, <1>3 DEF Relies, Holds, Managers
<1> QED BY <1>1, <1>2, <1>4, MovingOn DEF Stages

LEMMA CountOwnersKeeps ==
    ASSUME IInv, NEW c \in Requests, CountOwners(c)
    PROVE  IInv'
<1>1. CASE Cardinality(Owners) <= 1
  BY <1>1, EndingKeeps DEF CountOwners, Unwritten
<1>2. CASE ~(Cardinality(Owners) <= 1)
  <2> DEFINE n == Cardinality(Owners)
             q == [req[c] EXCEPT !.owners = n]
  <2>1. pc[c] = "count" /\ Proceed(c, "remove", q) /\ Unwritten /\ UNCHANGED <<planVars, boundVars>>
    BY <1>2 DEF CountOwners, Unwritten
  <2>2. n \in Nat /\ n > 1
    BY <1>2, Counts DEF IInv
  <2> HIDE DEF n
  <2>3. /\ q \in Memory /\ q.target = req[c].target /\ q.by = req[c].by /\ q.as = req[c].as
        /\ q.seen = req[c].seen /\ q.owners = n /\ q.invite = req[c].invite /\ q.want = req[c].want
    BY <2>2 DEF IInv, TypeOK, Memory
  <2> HIDE DEF q
  <2>4. pc'[c] = "remove" /\ req'[c] = q /\ Relies(c) /\ Holds(c)
    BY <2>1 DEF Proceed, IInv, TypeOK, Staged
  <2>5. Relies(c)' /\ Holds(c)'
    BY <2>1, <2>2, <2>3, <2>4 DEF Relies, Holds, Sent, Unwritten, inviteVars, Managers
  <2> QED BY <2>1, <2>3, <2>5, MovingOn DEF Stages
<1> QED BY <1>1, <1>2

-----------------------------------------------------------------------------
(* Steps that write. *)

\* Requests other than c keep what they rely on, which invitations stand in.
LEMMA OthersStay ==
    ASSUME IInv, NEW c \in Requests, Done(c),
           \A i \in Sent : /\ invite'[i] # None /\ invite'[i].email = invite[i].email
                           /\ invite'[i].shut = invite[i].shut,
           invite' \in [Invites -> Invitations \cup {None}]
    PROVE  Staged'
<1>1. pc'[c] = "idle" /\ req'[c] = NoRequest
  BY DEF IInv, TypeOK, Done, Proceed
<1>2. Relies(c)' /\ Holds(c)'
  BY <1>1, NoRequestFits DEF Relies, Holds
<1>3. ASSUME NEW d \in Requests \ {c} PROVE Relies(d)' /\ Holds(d)'
  <2>1. pc'[d] = pc[d] /\ req'[d] = req[d] /\ Relies(d) /\ Holds(d)
    BY DEF IInv, TypeOK, Staged, Done, Proceed
  <2> QED BY <2>1 DEF Relies, Holds, Sent
<1> QED BY <1>2, <1>3 DEF Staged

LEMMA DoneTyped ==
    ASSUME IInv, NEW c \in Requests, Done(c)
    PROVE  /\ pc' \in [Requests -> Stages]
           /\ req' \in [Requests -> Memory]
BY NoRequestFits DEF IInv, TypeOK, Memory, Done, Proceed

LEMMA AccountKeeps ==
    ASSUME IInv, NEW e \in People, Register(e) \/ VerifyEmail(e)
    PROVE  IInv'
<1>1. /\ account' = [account EXCEPT ![e] = "unverified"] \/ account' = [account EXCEPT ![e] = "verified"]
      /\ UNCHANGED <<member, held, joined, torn, inviteVars, planVars, boundVars, requestVars, stale>>
  BY DEF Register, VerifyEmail
<1>2. TypeOK'
  BY <1>1 DEF IInv, TypeOK, inviteVars, planVars, boundVars, requestVars
<1>3. Staged'
  BY <1>1 DEF IInv, Staged, Relies, Holds, Sent, inviteVars, requestVars
<1> QED BY <1>1, <1>2, <1>3 DEF IInv, ShutForGood, AcceptedMeansJoined, OwnerUnlessStale,
      Sent, Owners, inviteVars

LEMMA CreateKeeps ==
    ASSUME IInv, NEW c \in Requests, CreateInvitation(c)
    PROVE  IInv'
<1>1. /\ pc[c] = "invite" /\ Done(c)
      /\ UNCHANGED <<peopleVars, planVars, boundVars, stale>>
  BY DEF CreateInvitation
<1>2. CASE UNCHANGED invite
  BY <1>1, <1>2, EndingKeeps DEF Unwritten, inviteVars
<1>3. CASE ~UNCHANGED invite
  <2>1. PICK n \in Invites : invite[n] = None /\ n = Fresh
    <3>1. \E i \in Invites : invite[i] = None
      BY <1>3 DEF CreateInvitation, Sent
    <3> QED BY <3>1 DEF Fresh
  <2>2. req[c].target \in People /\ req[c].want \in Offered
    BY <1>1 DEF IInv, Staged, Relies
  <2>3. PICK new \in Invitations :
            /\ invite' = [invite EXCEPT ![n] = new]
            /\ ~new.accepted /\ ~new.shut
    <3> DEFINE new == [email |-> req[c].target, role |-> req[c].want,
                       accepted |-> FALSE, revoked |-> FALSE,
                       expired |-> FALSE, shut |-> FALSE]
    <3>1. new \in Invitations /\ ~new.accepted /\ ~new.shut
      BY <2>2 DEF Invitations
    <3>2. invite' = [invite EXCEPT ![n] = new]
      BY <1>3, <2>1 DEF CreateInvitation
    <3> QED BY <3>1, <3>2
  <2>4. None \notin Invitations
    BY InvitationOrNone
  <2>5. /\ Sent' = Sent \cup {n} /\ n \notin Sent
        /\ \A i \in Sent : invite'[i] = invite[i] /\ invite[i] # None
        /\ invite'[n] = new
        /\ invite' \in [Invites -> Invitations \cup {None}]
    BY <2>1, <2>3, <2>4 DEF IInv, TypeOK, Sent
  <2>6. TypeOK'
    BY <1>1, <2>5, DoneTyped DEF IInv, TypeOK, Memory, peopleVars, planVars, boundVars
  <2>7. Staged'
    BY <1>1, <2>5, OthersStay
  <2>8. ShutForGood'
    BY <2>3, <2>5 DEF IInv, ShutForGood
  <2>9. AcceptedMeansJoined'
    BY <1>1, <2>3, <2>5 DEF IInv, AcceptedMeansJoined, peopleVars
  <2>10. OwnerUnlessStale'
    BY <1>1 DEF IInv, OwnerUnlessStale, Owners, peopleVars
  <2> QED BY <2>6, <2>7, <2>8, <2>9, <2>10 DEF IInv
<1> QED BY <1>2, <1>3

\* A step that writes one invitation and no more, its address and acceptance apart.
LEMMA InvitationSteps ==
    ASSUME IInv, NEW i \in Sent, NEW new \in Invitations,
           invite' = [invite EXCEPT ![i] = new], new.email = invite[i].email,
           new.accepted = invite[i].accepted,
           new.shut => new.revoked /\ ~new.accepted,
           new.shut => invite[i].shut \/ \A c \in Requests : req[c].invite # i,
           UNCHANGED <<peopleVars, planVars, boundVars, requestVars, stale>>
    PROVE  IInv'
<1>1. /\ invite' \in [Invites -> Invitations \cup {None}] /\ Sent' = Sent
      /\ \A j \in Sent \ {i} : invite'[j] = invite[j]
      /\ invite'[i] = new /\ i \in Invites
  BY InvitationOrNone DEF IInv, TypeOK, Sent
<1>2. TypeOK'
  BY <1>1 DEF IInv, TypeOK, peopleVars, planVars, boundVars, requestVars
<1>3. ASSUME NEW c \in Requests PROVE Relies(c)' /\ Holds(c)'
  <2>1. Relies(c) /\ Holds(c)
    BY DEF IInv, Staged
  <2> QED BY <1>1, <2>1 DEF Relies, Holds, requestVars
<1>4. ShutForGood'
  BY <1>1 DEF IInv, ShutForGood
<1>5. AcceptedMeansJoined'
  BY <1>1 DEF IInv, AcceptedMeansJoined, peopleVars
<1>6. OwnerUnlessStale'
  BY DEF IInv, OwnerUnlessStale, Owners, peopleVars
<1> QED BY <1>2, <1>3, <1>4, <1>5, <1>6 DEF IInv, Staged

LEMMA ExpireKeeps ==
    ASSUME IInv, NEW i \in Invites, Expire(i)
    PROVE  IInv'
<1> DEFINE new == [invite[i] EXCEPT !.expired = TRUE]
<1>1. i \in Sent /\ invite[i] \in Invitations
  BY DEF Expire, Pending, Open, Sent, IInv, TypeOK
<1>2. /\ new \in Invitations /\ new.email = invite[i].email
      /\ new.accepted = invite[i].accepted /\ new.shut = invite[i].shut
      /\ new.revoked = invite[i].revoked
  BY <1>1 DEF Invitations
<1>3. invite' = [invite EXCEPT ![i] = new] /\ UNCHANGED <<peopleVars, planVars, boundVars, requestVars, stale>>
  BY DEF Expire
<1>4. new.shut => new.revoked /\ ~new.accepted
  BY <1>1, <1>2 DEF IInv, ShutForGood
<1> HIDE DEF new
<1> QED BY <1>1, <1>2, <1>3, <1>4, InvitationSteps

LEMMA RevokeKeeps ==
    ASSUME IInv, NEW i \in Invites, NEW a \in People, NEW r \in Roles, Revoke(i, a, r)
    PROVE  IInv'
<1> DEFINE sh == ~invite[i].accepted /\ \A c \in Requests : req[c].invite # i
           new == [invite[i] EXCEPT !.revoked = TRUE, !.shut = sh]
<1>1. i \in Sent /\ invite[i] \in Invitations
  BY DEF Revoke, Sent, IInv, TypeOK
<1>2. sh \in BOOLEAN
  OBVIOUS
<1>3. invite' = [invite EXCEPT ![i] = new] /\ UNCHANGED <<peopleVars, planVars, boundVars, requestVars, stale>>
  BY DEF Revoke
<1>4. sh => ~invite[i].accepted /\ \A c \in Requests : req[c].invite # i
  OBVIOUS
<1> HIDE DEF sh
<1>5. /\ new \in Invitations /\ new.email = invite[i].email
      /\ new.accepted = invite[i].accepted /\ new.shut = sh /\ new.revoked
  BY <1>1, <1>2 DEF Invitations
<1> HIDE DEF new
<1> QED BY <1>1, <1>3, <1>4, <1>5, InvitationSteps

LEMMA AcceptKeeps ==
    ASSUME IInv, NEW c \in Requests, Accept(c)
    PROVE  IInv'
<1> DEFINE fits == IF pc[c] = "acceptNew" THEN account[req[c].target] = "none"
                   ELSE member[req[c].target] = None
<1>1. /\ pc[c] \in {"acceptNew", "acceptOld"} /\ Done(c)
      /\ UNCHANGED <<planVars, boundVars, stale>>
  BY DEF Accept
<1>2. CASE ~fits
  BY <1>1, <1>2, EndingKeeps DEF Accept, MarkAccepted, Unwritten, inviteVars
<1>3. CASE fits
  <2>1. PICK i \in Sent : i = req[c].invite
    BY <1>1 DEF IInv, Staged, Relies, Holds
  <2>2. PICK e \in People : e = invite[i].email /\ e = req[c].target
    BY <1>1, <2>1 DEF IInv, TypeOK, Staged, Relies, Holds, Sent, Invitations
  <2>3. PICK want \in Roles : want = req[c].want
    BY <1>1, <2>1 DEF IInv, Staged, Relies, Holds
  <2>4. invite[i] \in Invitations /\ ~invite[i].shut /\ i \in Invites
    BY <1>1, <2>1 DEF IInv, TypeOK, Staged, Relies, Holds, Sent
  <2>5. PICK new \in Invitations :
            /\ new = [invite[i] EXCEPT !.accepted = TRUE]
            /\ new.email = e /\ new.accepted /\ ~new.shut /\ new.revoked = invite[i].revoked
    <3> DEFINE n == [invite[i] EXCEPT !.accepted = TRUE]
    <3>1. /\ n \in Invitations /\ n.email = invite[i].email /\ n.accepted
          /\ n.shut = invite[i].shut /\ n.revoked = invite[i].revoked
      BY <2>4 DEF Invitations
    <3> HIDE DEF n
    <3>2. n = [invite[i] EXCEPT !.accepted = TRUE]
      BY DEF n
    <3> QED BY <2>2, <2>4, <3>1, <3>2
  <2>6. /\ invite' = [invite EXCEPT ![i] = new]
        /\ account' = [account EXCEPT ![e] = "verified"]
        /\ member' = [member EXCEPT ![e] = want]
        /\ held' = [held EXCEPT ![e] = @ \cup {want}]
        /\ joined' = joined \cup {e}
        /\ torn' \in {torn, torn + 1}
    BY <1>3, <2>1, <2>2, <2>3, <2>5 DEF Accept, MarkAccepted
  <2>7. /\ invite' \in [Invites -> Invitations \cup {None}] /\ Sent' = Sent
        /\ \A j \in Sent \ {i} : invite'[j] = invite[j]
        /\ invite'[i] = new /\ new # None
    BY <2>4, <2>6, InvitationOrNone DEF IInv, TypeOK, Sent
  <2>8. TypeOK'
    <3>1. /\ account' \in [People -> {"none", "unverified", "verified"}]
          /\ member' \in [People -> Roles \cup {None}] /\ held' \in [People -> SUBSET Roles]
          /\ joined' \subseteq People /\ torn' \in Nat
      BY <2>6 DEF IInv, TypeOK
    <3>2. \A a \in People : member'[a] # None => account'[a] # "none" /\ member'[a] \in held'[a]
      BY <2>6 DEF IInv, TypeOK
    <3> QED BY <1>1, <2>7, <3>1, <3>2, DoneTyped DEF IInv, TypeOK, Memory, planVars, boundVars
  <2>9. Staged'
    <3>1. \A j \in Sent : /\ invite'[j] # None /\ invite'[j].email = invite[j].email
                          /\ invite'[j].shut = invite[j].shut
      <4>1. new.shut = invite[i].shut
        BY <2>4, <2>5 DEF Invitations
      <4> QED BY <2>2, <2>5, <2>7, <4>1 DEF Sent
    <3> QED BY <1>1, <2>7, <3>1, OthersStay
  <2>10. ShutForGood'
    BY <2>5, <2>7 DEF IInv, ShutForGood
  <2>11. AcceptedMeansJoined'
    <3> DEFINE Before == {j \in Sent : invite[j].accepted}
               After == {j \in Sent : invite'[j].accepted}
    <3>1. After = Before \cup {i}
      BY <2>5, <2>7
    <3>2. \A j \in Sent : invite'[j].email = invite[j].email
      BY <2>2, <2>5, <2>7
    <3>3. joined = {invite[j].email : j \in Before}
      BY DEF IInv, AcceptedMeansJoined
    <3>4. \A x : x \in joined \cup {e} <=> \E j \in Before \cup {i} : x = invite[j].email
      BY <2>2, <3>3
    <3>5. Before \cup {i} \subseteq Sent
      OBVIOUS
    <3> HIDE DEF Before
    <3>6. joined \cup {e} = {invite'[j].email : j \in Before \cup {i}}
      BY <3>2, <3>4, <3>5
    <3> QED BY <2>6, <2>7, <3>1, <3>6 DEF AcceptedMeansJoined
  <2>12. OwnerUnlessStale'
    <3>1. member[e] = None
      BY <1>1, <1>3, <2>2 DEF IInv, TypeOK
    <3> QED BY <1>1, <2>6, <3>1, InvitationOrNone DEF IInv, TypeOK, OwnerUnlessStale, Owners, Roles
  <2> QED BY <2>8, <2>9, <2>10, <2>11, <2>12 DEF IInv
<1> QED BY <1>2, <1>3

\* What a request that has finished leaves of the rest of the invariant.
LEMMA MemberSteps ==
    ASSUME IInv, NEW c \in Requests, Done(c), UNCHANGED <<account, joined, torn, inviteVars, planVars, kinds>>,
           member' \in [People -> Roles \cup {None}], held' \in [People -> SUBSET Roles],
           \A a \in People : member'[a] # None => member[a] # None /\ member'[a] \in held'[a],
           changes' \in 0..MaxRoleChanges, stale' \in BOOLEAN, OwnerUnlessStale'
    PROVE  IInv'
<1>1. TypeOK'
  BY DoneTyped DEF IInv, TypeOK, Memory, inviteVars, planVars
<1>2. Staged'
  BY OthersStay DEF IInv, TypeOK, Sent, inviteVars
<1> QED BY <1>1, <1>2 DEF IInv, ShutForGood, AcceptedMeansJoined, Sent, inviteVars

LEMMA UpdateRoleKeeps ==
    ASSUME IInv, NEW c \in Requests, UpdateRole(c)
    PROVE  IInv'
<1>1. /\ pc[c] = "role" /\ Done(c) /\ changes < MaxRoleChanges
      /\ UNCHANGED <<account, joined, torn, inviteVars, planVars, kinds>>
  BY DEF UpdateRole
<1>2. PICK t \in People, by \in People, want \in Roles, as \in Managers :
          /\ t = req[c].target /\ by = req[c].by /\ want = req[c].want /\ as = req[c].as
          /\ by # t /\ (as = "admin" => req[c].seen # "owner")
  BY <1>1 DEF IInv, Staged, Relies
<1>3. CASE member[t] = None
  <2>1. UNCHANGED <<member, held, changes, stale>>
    BY <1>2, <1>3 DEF UpdateRole
  <2> QED BY <1>1, <2>1, EndingKeeps DEF Unwritten, peopleVars, boundVars
<1>4. CASE member[t] # None
  <2>1. /\ member' = [member EXCEPT ![t] = want]
        /\ held' = [held EXCEPT ![t] = @ \cup {want}]
        /\ changes' = changes + 1
        /\ stale' = (stale \/ ~Current(c))
    BY <1>2, <1>4 DEF UpdateRole
  <2>2. /\ member' \in [People -> Roles \cup {None}] /\ held' \in [People -> SUBSET Roles]
        /\ \A a \in People : member'[a] # None => member[a] # None /\ member'[a] \in held'[a]
    BY <1>4, <2>1 DEF IInv, TypeOK
  <2>3. changes' \in 0..MaxRoleChanges /\ stale' \in BOOLEAN
    BY <1>1, <2>1, TeamAssumption DEF IInv, TypeOK
  <2>4. OwnerUnlessStale'
    <3>1. CASE stale'
      BY <3>1 DEF OwnerUnlessStale
    <3>2. CASE ~stale'
      <4>1. /\ member[by] = as /\ member[t] = req[c].seen
            /\ Owners # {}
        BY <1>2, <2>1, <3>2 DEF Current, IInv, OwnerUnlessStale
      <4>2. PICK o \in People : member[o] = "owner" /\ o # t
        BY <1>2, <4>1 DEF Owners, Managers
      <4>3. member'[o] = "owner"
        BY <2>1, <4>2 DEF IInv, TypeOK
      <4> QED BY <4>3 DEF OwnerUnlessStale, Owners
    <3> QED BY <3>1, <3>2
  <2> QED BY <1>1, <2>2, <2>3, <2>4, MemberSteps
<1> QED BY <1>3, <1>4

LEMMA DeactivateKeeps ==
    ASSUME IInv, NEW c \in Requests, Deactivate(c)
    PROVE  IInv'
<1>1. /\ pc[c] = "remove" /\ Done(c)
      /\ UNCHANGED <<account, held, joined, torn, inviteVars, planVars, boundVars>>
  BY DEF Deactivate
<1>2. PICK t \in People, by \in People, as \in Managers :
          /\ t = req[c].target /\ by = req[c].by /\ as = req[c].as
          /\ (as = "admin" => req[c].seen # "owner")
          /\ (by = t /\ req[c].seen = "owner" => req[c].owners > 1)
  BY <1>1 DEF IInv, Staged, Relies
<1>3. CASE member[t] = None
  <2>1. UNCHANGED <<member, stale>>
    BY <1>2, <1>3 DEF Deactivate
  <2> QED BY <1>1, <2>1, EndingKeeps DEF Unwritten, peopleVars
<1>4. CASE member[t] # None
  <2>1. member' = [member EXCEPT ![t] = None] /\ stale' = (stale \/ ~Current(c))
    BY <1>2, <1>4 DEF Deactivate
  <2>2. /\ member' \in [People -> Roles \cup {None}] /\ held' \in [People -> SUBSET Roles]
        /\ \A a \in People : member'[a] # None => member[a] # None /\ member'[a] \in held'[a]
    BY <1>1, <2>1 DEF IInv, TypeOK
  <2>3. changes' \in 0..MaxRoleChanges /\ stale' \in BOOLEAN
    BY <1>1, <2>1 DEF IInv, TypeOK, boundVars
  <2>4. OwnerUnlessStale'
    <3>1. CASE stale'
      BY <3>1 DEF OwnerUnlessStale
    <3>2. CASE ~stale'
      <4>1. /\ member[by] = as /\ member[t] = req[c].seen
            /\ req[c].owners # 0 => req[c].owners = Cardinality(Owners)
            /\ Owners # {}
        BY <1>2, <2>1, <3>2 DEF Current, IInv, OwnerUnlessStale
      <4>2. PICK o \in People : member[o] = "owner" /\ o # t
        <5>1. CASE by # t \/ req[c].seen # "owner"
          BY <1>2, <4>1, <5>1 DEF Owners, Managers
        <5>2. CASE by = t /\ req[c].seen = "owner"
          <6>1. Cardinality(Owners) > 1
            BY <1>2, <4>1, <5>2
          <6> QED BY <6>1, LastOfMany DEF Owners
        <5> QED BY <5>1, <5>2
      <4>3. member'[o] = "owner"
        BY <2>1, <4>2 DEF IInv, TypeOK
      <4> QED BY <4>3 DEF OwnerUnlessStale, Owners
    <3> QED BY <3>1, <3>2
  <2> QED BY <1>1, <2>2, <2>3, <2>4, MemberSteps DEF boundVars
<1> QED BY <1>3, <1>4

LEMMA ChangePlanKeeps ==
    ASSUME IInv, NEW p \in DOMAIN Seats, ChangePlan(p)
    PROVE  IInv'
<1>1. UNCHANGED <<peopleVars, inviteVars, boundVars, requestVars, stale>> /\ plan' = p
  BY DEF ChangePlan
<1>2. ceiling' \in Nat
  BY TeamAssumption DEF ChangePlan, Unlimited, IInv, TypeOK
<1>3. TypeOK'
  BY <1>1, <1>2 DEF IInv, TypeOK, peopleVars, inviteVars, boundVars, requestVars
<1>4. Staged'
  BY <1>1 DEF IInv, Staged, Relies, Holds, Sent, inviteVars, requestVars
<1> QED BY <1>1, <1>3, <1>4 DEF IInv, ShutForGood, AcceptedMeansJoined, OwnerUnlessStale,
      Sent, Owners, peopleVars, inviteVars

-----------------------------------------------------------------------------

LEMMA InitIInv == Init => IInv
<1> SUFFICES ASSUME Init PROVE IInv
  OBVIOUS
<1>1. PICK s \in Starts :
          /\ member = s.member /\ kinds = s.kinds /\ plan = s.plan
          /\ ceiling = Seats[s.plan]
          /\ account = [a \in People |-> IF s.member[a] = None THEN "none" ELSE "verified"]
          /\ held = [a \in People |-> {s.member[a]} \ {None}]
          /\ invite = [i \in Invites |-> None]
          /\ pc = [c \in Requests |-> "idle"]
          /\ req = [c \in Requests |-> NoRequest]
          /\ changes = 0 /\ joined = {} /\ torn = 0 /\ stale = FALSE
  BY DEF Init
<1>2. /\ s.member \in [People -> Roles \cup {None}]
      /\ \E a \in People : s.member[a] = "owner"
      /\ s.kinds \subseteq Kinds /\ s.plan \in DOMAIN Seats
      /\ \A p \in DOMAIN Seats : Seats[p] \in Nat
      /\ MaxRoleChanges \in Nat
  BY TeamAssumption
<1>3. TypeOK
  <2>1. req \in [Requests -> Memory] /\ pc \in [Requests -> Stages]
    BY <1>1, NoRequestFits
  <2>2. held \in [People -> SUBSET Roles]
    BY <1>1, <1>2
  <2>3. \A a \in People : member[a] # None => account[a] # "none" /\ member[a] \in held[a]
    BY <1>1, <1>2
  <2>4. ceiling \in Nat /\ plan \in DOMAIN Seats /\ changes \in 0..MaxRoleChanges
    BY <1>1, <1>2
  <2>5. account \in [People -> {"none", "unverified", "verified"}] /\ member \in [People -> Roles \cup {None}]
    BY <1>1, <1>2
  <2> QED BY <1>1, <1>2, <2>1, <2>2, <2>3, <2>4, <2>5 DEF TypeOK, Memory
<1>4. Sent = {}
  BY <1>1 DEF Sent
<1>5. Staged
  BY <1>1, NoRequestFits DEF Staged, Relies, Holds
<1>6. AcceptedMeansJoined
  BY <1>1, <1>4 DEF AcceptedMeansJoined
<1> QED BY <1>1, <1>2, <1>3, <1>4, <1>5, <1>6 DEF IInv, ShutForGood, OwnerUnlessStale, Owners

LEMMA NextIInv == IInv /\ [Next]_vars => IInv'
<1> SUFFICES ASSUME IInv, [Next]_vars PROVE IInv'
  OBVIOUS
<1>1. CASE PostRegister \/ PostVerifyEmail
  BY <1>1, AccountKeeps DEF PostRegister, PostVerifyEmail
<1>2. CASE DeleteInvitation
  BY <1>2, RevokeKeeps DEF DeleteInvitation
<1>3. CASE \E i \in Invites : Expire(i)
  BY <1>3, ExpireKeeps
<1>4. CASE OperatorSetsPlan \/ TestCheckout
  BY <1>4, ChangePlanKeeps DEF OperatorSetsPlan, TestCheckout
<1>5. ASSUME NEW c \in Requests, Arrive(c) PROVE IInv'
  <2>1. CASE PostInvitation(c)
    BY <2>1, CountMembersKeeps DEF PostInvitation
  <2>2. CASE PostAccept(c)
    BY <2>2, FindKeeps DEF PostAccept
  <2>3. CASE PatchRole(c)
    BY <2>3, ReadForRoleKeeps DEF PatchRole
  <2>4. CASE DeleteMember(c)
    BY <2>4, ReadForRemovalKeeps DEF DeleteMember
  <2> QED BY <1>5, <2>1, <2>2, <2>3, <2>4 DEF Arrive
<1>6. ASSUME NEW c \in Requests, Step(c) PROVE IInv'
  <2>1. CASE Fail(c)
    BY <2>1, EndingKeeps DEF Fail, Unwritten
  <2> QED BY <1>6, <2>1, CountPendingKeeps, CreateKeeps, AcceptKeeps, UpdateRoleKeeps,
        CountOwnersKeeps, DeactivateKeeps DEF Step
<1>7. CASE UNCHANGED vars
  <2>1. TypeOK'
    BY <1>7 DEF IInv, TypeOK, vars, peopleVars, inviteVars, planVars, boundVars, requestVars
  <2>2. Staged'
    BY <1>7 DEF IInv, Staged, Relies, Holds, Sent, vars, inviteVars, requestVars
  <2> QED BY <1>7, <2>1, <2>2 DEF IInv, ShutForGood, AcceptedMeansJoined, OwnerUnlessStale,
        Sent, Owners, vars, peopleVars, inviteVars
<1> QED BY <1>1, <1>2, <1>3, <1>4, <1>5, <1>6, <1>7 DEF Next

LEMMA AlwaysIInv == Spec => []IInv
BY InitIInv, NextIInv, PTL DEF Spec

(***************************************************************************)
(* Accounts, members, invitations, the plan and the requests keep their       *)
(* types, and a member has an account and a token for the role.               *)
(***************************************************************************)
THEOREM TypeCorrect == Spec => []TypeOK
BY AlwaysIInv, PTL DEF IInv

(***************************************************************************)
(* The rules on one's own role, on admins and on the last owner who leaves    *)
(* keep an owner in every team, unless a write was decided on what was no     *)
(* longer true.                                                              *)
(***************************************************************************)
THEOREM OwnersStay == Spec => []OwnerUnlessStale
BY AlwaysIInv, PTL DEF IInv

(***************************************************************************)
(* An invitation revoked while nobody is accepting it is never accepted.      *)
(***************************************************************************)
THEOREM RevokedIsFinal == Spec => []RevokedStaysOut
<1>1. IInv => RevokedStaysOut
  BY DEF IInv, ShutForGood, RevokedStaysOut
<1> QED BY <1>1, AlwaysIInv, PTL

(***************************************************************************)
(* Accepted invitations and members who joined are the same people.           *)
(***************************************************************************)
THEOREM AcceptedJoined == Spec => []AcceptedMeansJoined
BY AlwaysIInv, PTL DEF IInv

-----------------------------------------------------------------------------
(* Seats.  A seat is taken by a member, by an invitation that may still become *)
(* one, by a request that passed the limit and has yet to insert, and by a     *)
(* person whose acceptance outlived the invitation.                            *)

Granted == {c \in Requests : pc[c] = "invite"}

\* Acceptances that would still make a member, of an invitation that counts no more.
Outliving == {c \in Requests : /\ pc[c] \in {"acceptNew", "acceptOld"}
                               /\ member[req[c].target] = None
                               /\ req[c].invite \notin Pending}

Late == {req[c].target : c \in Outliving}

Taken == Cardinality(Members) + Cardinality(Pending) + Cardinality(Granted) + Cardinality(Late)

\* One request passes the limit on its own; every other may add one to it.
WithinReach == Taken <= ceiling + (Cardinality(Requests) - 1) + torn

CeilingHolds == Seats[plan] # Unlimited /\ Seats[plan] <= ceiling

\* Members that a request has not counted joined between its two counts.
CountedOrTorn ==
    \A c \in Requests : pc[c] = "pending" => Cardinality(Members) <= req[c].used + torn

SeatInv == (ceiling # Unlimited => WithinReach /\ CeilingHolds) /\ CountedOrTorn

\* The sets that are counted are finite, and no two requests share one entry.
LEMMA SeatSets ==
    ASSUME TypeOK
    PROVE  /\ IsFiniteSet(Members) /\ IsFiniteSet(Pending)
           /\ IsFiniteSet(Granted) /\ IsFiniteSet(Late)
           /\ Cardinality(Members) \in Nat /\ Cardinality(Pending) \in Nat
           /\ Cardinality(Granted) \in Nat /\ Cardinality(Late) \in Nat
           /\ Cardinality(Requests) \in Nat \ {0}
           /\ Cardinality(Granted) + Cardinality(Late) <= Cardinality(Requests)
<1>1. IsFiniteSet(Members) /\ IsFiniteSet(Pending)
  <2>1. Members \subseteq People /\ Pending \subseteq Invites
    BY DEF Members, Pending, Open, Sent
  <2> QED BY <2>1, TeamAssumption, FS_Subset
<1>2. /\ Granted \subseteq Requests /\ Outliving \subseteq Requests
      /\ IsFiniteSet(Granted) /\ IsFiniteSet(Outliving) /\ IsFiniteSet(Granted \cup Outliving)
  <2>1. /\ Granted \subseteq Requests /\ Outliving \subseteq Requests
        /\ Granted \cup Outliving \subseteq Requests
    BY DEF Granted, Outliving
  <2> QED BY <2>1, TeamAssumption, FS_Subset
<1>3. IsFiniteSet(Late) /\ Cardinality(Late) <= Cardinality(Outliving)
  <2> DEFINE f == [c \in Outliving |-> req[c].target]
  <2>1. f \in Surjection(Outliving, Late)
    BY DEF Surjection, Late
  <2> HIDE DEF f
  <2> QED BY <1>2, <2>1, FS_Surjection
<1>4. Cardinality(Granted) + Cardinality(Outliving) <= Cardinality(Requests)
  <2>1. Granted \cap Outliving = {}
    BY DEF Granted, Outliving
  <2>2. Cardinality(Granted \cup Outliving) = Cardinality(Granted) + Cardinality(Outliving) - 0
    BY <1>2, <2>1, FS_Union, FS_EmptySet
  <2>3. Cardinality(Granted \cup Outliving) <= Cardinality(Requests)
    BY <1>2, TeamAssumption, FS_Subset
  <2>4. Cardinality(Granted) \in Nat /\ Cardinality(Outliving) \in Nat
    BY <1>2, FS_CardinalityType
  <2> QED BY <2>2, <2>3, <2>4
<1>5. Cardinality(Requests) \in Nat \ {0}
  BY TeamAssumption, FS_CardinalityType, FS_EmptySet
<1>6. /\ Cardinality(Members) \in Nat /\ Cardinality(Pending) \in Nat
      /\ Cardinality(Granted) \in Nat /\ Cardinality(Late) \in Nat
      /\ Cardinality(Outliving) \in Nat
  BY <1>1, <1>2, <1>3, FS_CardinalityType
<1> QED BY <1>1, <1>2, <1>3, <1>4, <1>5, <1>6

\* A finite set grows by at most one entry when one may be added, and loses one it had.
LEMMA OneMore ==
    ASSUME NEW S, NEW T, NEW x, IsFiniteSet(S), T \subseteq S \cup {x}
    PROVE  IsFiniteSet(T) /\ Cardinality(T) <= Cardinality(S) + 1
<1>1. /\ IsFiniteSet(S \cup {x}) /\ Cardinality(S \cup {x}) <= Cardinality(S) + 1
      /\ Cardinality(S) \in Nat
  BY FS_AddElement, FS_CardinalityType
<1>2. IsFiniteSet(T) /\ Cardinality(T) <= Cardinality(S \cup {x}) /\ Cardinality(T) \in Nat
  BY <1>1, FS_Subset, FS_CardinalityType
<1>3. Cardinality(S \cup {x}) \in Nat
  BY <1>1, FS_CardinalityType
<1> QED BY <1>1, <1>2, <1>3

\* A set that loses an entry it had is smaller by one at least.
LEMMA OneLess ==
    ASSUME NEW S, NEW T, NEW x \in S, IsFiniteSet(S), T \subseteq S \ {x}
    PROVE  IsFiniteSet(T) /\ Cardinality(T) <= Cardinality(S) - 1
<1>1. /\ IsFiniteSet(S \ {x}) /\ Cardinality(S \ {x}) = Cardinality(S) - 1
      /\ Cardinality(S) \in Nat
  BY FS_RemoveElement, FS_CardinalityType
<1>2. IsFiniteSet(T) /\ Cardinality(T) <= Cardinality(S \ {x})
  BY <1>1, FS_Subset
<1> QED BY <1>1, <1>2

\* Seats taken are counted by a number, before a step and after it.
LEMMA SeatsCounted == TypeOK => Taken \in Nat
BY SeatSets DEF Taken

\* The same after a step.
LEMMA SeatsCountedNext == TypeOK' => (Taken \in Nat)'
BY SeatsCounted, PTL

\* Requests that passed the limit and late acceptances are no more than the requests.
LEMMA Room ==
    TypeOK => /\ Cardinality(Granted) \in Nat /\ Cardinality(Late) \in Nat
              /\ Cardinality(Granted) + Cardinality(Late) <= Cardinality(Requests)
BY SeatSets

\* The same after a step.
LEMMA RoomNext ==
    TypeOK' => (/\ Cardinality(Granted) \in Nat /\ Cardinality(Late) \in Nat
                /\ Cardinality(Granted) + Cardinality(Late) <= Cardinality(Requests))'
BY Room, PTL

\* A step that takes no further seat, counts no fewer torn acceptances than
\* members it adds, and leaves the plan alone keeps the bound.
LEMMA NothingTaken ==
    ASSUME IInv, TypeOK', SeatInv, UNCHANGED planVars, torn' >= torn, Taken' <= Taken,
           \A c \in Requests : pc'[c] = "pending" =>
               Cardinality(Members)' <= req'[c].used + torn'
    PROVE  SeatInv'
<1>1. torn \in Nat /\ torn' \in Nat /\ ceiling \in Nat
  BY DEF IInv, TypeOK
<1>2. Taken \in Nat /\ Taken' \in Nat /\ Cardinality(Requests) \in Nat
  BY SeatsCounted, SeatsCountedNext, SeatSets DEF IInv
<1>3. CountedOrTorn'
  BY DEF CountedOrTorn
<1>4. ceiling' = ceiling /\ plan' = plan
  BY DEF planVars
<1> QED BY <1>1, <1>2, <1>3, <1>4 DEF SeatInv, WithinReach, CeilingHolds

\* Whom an acceptance under way is about.
LEMMA Addressee ==
    ASSUME IInv, NEW c \in Requests, pc[c] \in {"acceptNew", "acceptOld"}
    PROVE  /\ req[c].invite \in Sent /\ invite[req[c].invite] \in Invitations
           /\ req[c].target \in People /\ req[c].target = invite[req[c].invite].email
BY DEF IInv, TypeOK, Staged, Relies, Holds, Sent, Invitations

\* A request that moves on without taking a seat, or ends.
LEMMA MovingTakesNone ==
    ASSUME IInv, IInv', SeatInv, UNCHANGED <<planVars, torn, invite>>, NEW c \in Requests,
           \A d \in Requests \ {c} : pc'[d] = pc[d] /\ req'[d] = req[d],
           pc'[c] # "invite",
           pc'[c] \in {"acceptNew", "acceptOld"} => req'[c].invite \in Pending,
           pc'[c] = "pending" => req'[c].used = Cardinality(Members),
           \A a \in People : member'[a] = None <=> member[a] = None
    PROVE  SeatInv'
<1>1. Members' = Members /\ Pending' = Pending
  BY DEF Members, Pending, Open, Sent
<1>2. Granted' \subseteq Granted
  BY DEF Granted
<1>3. Outliving' \subseteq Outliving \ {c}
  <2> SUFFICES ASSUME NEW d \in Outliving' PROVE d \in Outliving \ {c}
    OBVIOUS
  <2>1. /\ d \in Requests /\ pc'[d] \in {"acceptNew", "acceptOld"}
        /\ member'[req'[d].target] = None /\ req'[d].invite \notin Pending
    BY <1>1 DEF Outliving
  <2>2. d # c /\ pc'[d] = pc[d] /\ req'[d] = req[d]
    BY <2>1
  <2>3. member[req[d].target] = None
    BY <2>1, <2>2, Addressee
  <2> QED BY <2>1, <2>2, <2>3 DEF Outliving
<1>4. Late' \subseteq Late
  BY <1>3 DEF Late, Outliving
<1>5. Cardinality(Granted') <= Cardinality(Granted) /\ Cardinality(Late') <= Cardinality(Late)
  BY <1>2, <1>4, SeatSets, FS_Subset DEF IInv
<1>6. /\ Cardinality(Members) \in Nat /\ Cardinality(Pending) \in Nat /\ torn \in Nat
      /\ Cardinality(Granted) \in Nat /\ Cardinality(Late) \in Nat
      /\ Cardinality(Granted') \in Nat /\ Cardinality(Late') \in Nat
  <2>1. IsFiniteSet(Granted') /\ IsFiniteSet(Late')
    BY <1>2, <1>4, SeatSets, FS_Subset DEF IInv
  <2> QED BY <2>1, SeatSets, FS_CardinalityType DEF IInv, TypeOK
<1>7. Taken' <= Taken
  BY <1>1, <1>5, <1>6 DEF Taken
<1>8. ASSUME NEW d \in Requests, pc'[d] = "pending"
      PROVE  Cardinality(Members') <= req'[d].used + torn'
  <2>1. CASE d = c
    BY <1>1, <1>6, <1>8, <2>1
  <2>2. CASE d # c
    BY <1>1, <1>8, <2>2 DEF SeatInv, CountedOrTorn
  <2> QED BY <2>1, <2>2
<1> QED BY <1>6, <1>7, <1>8, NothingTaken DEF IInv

\* A request that ends takes no seat, as long as nobody becomes a member or leaves.
LEMMA EndingTakesNone ==
    ASSUME IInv, IInv', SeatInv, UNCHANGED <<planVars, torn, invite>>, NEW c \in Requests,
           Done(c), \A a \in People : member'[a] = None <=> member[a] = None
    PROVE  SeatInv'
<1>1. pc'[c] = "idle" /\ \A d \in Requests \ {c} : pc'[d] = pc[d] /\ req'[d] = req[d]
  BY DEF IInv, TypeOK, Done, Proceed
<1> QED BY <1>1, MovingTakesNone

\* No request takes a seat by arriving: the invitation an acceptance finds is still counted.
LEMMA ArriveTakesNone ==
    ASSUME IInv, IInv', SeatInv, NEW c \in Requests, Arrive(c)
    PROVE  SeatInv'
<1>1. CASE PostInvitation(c)
  <2>1. PICK a \in People, e \in People, r \in Roles, role \in Roles : CountMembers(c, a, r, e, role)
    BY <1>1 DEF PostInvitation
  <2> DEFINE q == [NoRequest EXCEPT !.target = e, !.want = role, !.used = Cardinality(Members)]
  <2>2. q.used = Cardinality(Members)
    BY DEF NoRequest
  <2>3. Proceed(c, "pending", q) /\ UNCHANGED <<peopleVars, inviteVars, planVars>>
    BY <2>1 DEF CountMembers
  <2> HIDE DEF q
  <2>4. /\ pc'[c] = "pending" /\ req'[c] = q
        /\ \A d \in Requests \ {c} : pc'[d] = pc[d] /\ req'[d] = req[d]
    BY <2>3 DEF IInv, TypeOK, Proceed
  <2> QED BY <2>2, <2>3, <2>4, MovingTakesNone DEF peopleVars, inviteVars
<1>2. CASE PostAccept(c)
  <2>1. PICK i \in Invites : FindInvitation(c, i)
    BY <1>2 DEF PostAccept
  <2> DEFINE q == [NoRequest EXCEPT !.target = invite[i].email, !.want = invite[i].role, !.invite = i]
             s == IF account[invite[i].email] = "none" THEN "acceptNew" ELSE "acceptOld"
  <2>2. q.invite = i
    BY DEF NoRequest
  <2>3. /\ Proceed(c, s, q) /\ UNCHANGED <<peopleVars, inviteVars, planVars>>
        /\ i \in Pending
    BY <2>1 DEF FindInvitation, Actionable
  <2> HIDE DEF q
  <2>4. /\ pc'[c] = s /\ req'[c] = q
        /\ \A d \in Requests \ {c} : pc'[d] = pc[d] /\ req'[d] = req[d]
    BY <2>3 DEF IInv, TypeOK, Proceed
  <2> QED BY <2>2, <2>3, <2>4, MovingTakesNone DEF peopleVars, inviteVars
<1>3. CASE PatchRole(c) \/ DeleteMember(c)
  <2>1. PICK s \in {"role", "count", "remove"} :
            \E q : Proceed(c, s, q) /\ UNCHANGED <<peopleVars, inviteVars, planVars>>
    BY <1>3 DEF PatchRole, DeleteMember, ReadForRole, ReadForRemoval
  <2>2. /\ pc'[c] = s
        /\ \A d \in Requests \ {c} : pc'[d] = pc[d] /\ req'[d] = req[d]
    BY <2>1 DEF IInv, TypeOK, Proceed
  <2> QED BY <2>1, <2>2, MovingTakesNone DEF peopleVars, inviteVars
<1> QED BY <1>1, <1>2, <1>3 DEF Arrive

\* The one step that takes a seat of its own: the limit is asked, and what is
\* taken besides is bounded by the requests there are.
LEMMA CountPendingReaches ==
    ASSUME IInv, IInv', SeatInv, NEW c \in Requests, CountPending(c)
    PROVE  SeatInv'
<1>1. /\ pc[c] = "pending" /\ UNCHANGED <<peopleVars, inviteVars, planVars, boundVars, stale>>
  BY DEF CountPending
<1>2. CASE Done(c)
  BY <1>1, <1>2, EndingTakesNone DEF peopleVars, inviteVars
<1>3. CASE ~Done(c)
  <2> DEFINE q == [req[c] EXCEPT !.used = 0]
  <2>1. Proceed(c, "invite", q) /\ Allows(Seats[plan], req[c].used + Cardinality(Pending))
    BY <1>3 DEF CountPending
  <2> HIDE DEF q
  <2>2. /\ pc'[c] = "invite"
        /\ \A d \in Requests \ {c} : pc'[d] = pc[d] /\ req'[d] = req[d]
    BY <2>1 DEF IInv, TypeOK, Proceed
  <2>3. /\ Members' = Members /\ Pending' = Pending /\ torn' = torn
        /\ ceiling' = ceiling /\ plan' = plan
    BY <1>1 DEF Members, Pending, Open, Sent, peopleVars, inviteVars, planVars
  <2>4. /\ torn \in Nat /\ ceiling \in Nat /\ req[c].used \in Nat /\ Seats[plan] \in Nat
        /\ Cardinality(Members) \in Nat /\ Cardinality(Pending) \in Nat
        /\ Cardinality(Requests) \in Nat
    BY TeamAssumption, SeatSets DEF IInv, TypeOK
  <2>5. ASSUME ceiling # Unlimited PROVE (WithinReach /\ CeilingHolds)'
    <3>1. Seats[plan] # Unlimited /\ Seats[plan] <= ceiling
      BY <2>5 DEF SeatInv, CeilingHolds
    <3>2. Cardinality(Members) <= req[c].used + torn
      BY <1>1 DEF SeatInv, CountedOrTorn
    <3>3. Cardinality(Members) + Cardinality(Pending) <= ceiling - 1 + torn
      BY <2>1, <2>4, <3>1, <3>2 DEF Allows
    <3>4. /\ Cardinality(Granted') \in Nat /\ Cardinality(Late') \in Nat
          /\ Cardinality(Granted') + Cardinality(Late') <= Cardinality(Requests)
      BY RoomNext DEF IInv
    <3>5. Taken' = Cardinality(Members) + Cardinality(Pending) + Cardinality(Granted') + Cardinality(Late')
      BY <2>3 DEF Taken
    <3>6. WithinReach'
      BY <2>3, <2>4, <3>3, <3>4, <3>5 DEF WithinReach
    <3> QED BY <2>3, <3>1, <3>6 DEF CeilingHolds
  <2>6. CountedOrTorn'
    BY <2>2, <2>3 DEF SeatInv, CountedOrTorn
  <2> QED BY <2>3, <2>5, <2>6 DEF SeatInv
<1> QED BY <1>2, <1>3

\* The seat of a request that passed the limit becomes the seat of its invitation.
LEMMA CreateReaches ==
    ASSUME IInv, IInv', SeatInv, NEW c \in Requests, CreateInvitation(c)
    PROVE  SeatInv'
<1>1. /\ pc[c] = "invite" /\ Done(c)
      /\ UNCHANGED <<peopleVars, planVars, boundVars, stale>>
  BY DEF CreateInvitation
<1>2. CASE UNCHANGED invite
  BY <1>1, <1>2, EndingTakesNone DEF peopleVars
<1>3. CASE ~UNCHANGED invite
  <2>1. PICK n \in Invites : invite[n] = None /\ n = Fresh
    <3>1. \E i \in Invites : invite[i] = None
      BY <1>3 DEF CreateInvitation, Sent
    <3> QED BY <3>1 DEF Fresh
  <2>2. \A i \in Invites \ {n} : invite'[i] = invite[i]
    BY <1>3, <2>1 DEF CreateInvitation, IInv, TypeOK
  <2>3. /\ pc'[c] = "idle" /\ \A d \in Requests \ {c} : pc'[d] = pc[d] /\ req'[d] = req[d]
        /\ Members' = Members /\ member' = member /\ torn' = torn
    BY <1>1 DEF IInv, TypeOK, Done, Proceed, Members, peopleVars
  <2>4. Pending \subseteq Pending' /\ Pending' \subseteq Pending \cup {n}
    BY <2>1, <2>2 DEF Pending, Open, Sent
  <2>5. Granted' \subseteq Granted \ {c} /\ c \in Granted
    BY <1>1, <2>3 DEF Granted
  <2>6. Late' \subseteq Late
    <3>1. ASSUME NEW d \in Outliving' PROVE d \in Outliving /\ req'[d] = req[d]
      <4>1. d \in Requests /\ pc'[d] \in {"acceptNew", "acceptOld"}
            /\ member'[req'[d].target] = None /\ req'[d].invite \notin Pending'
        BY DEF Outliving
      <4>2. d # c
        BY <2>3, <4>1
      <4> QED BY <2>3, <2>4, <4>1, <4>2 DEF Outliving
    <3> QED BY <3>1 DEF Late
  <2>7. /\ IsFiniteSet(Pending') /\ Cardinality(Pending') <= Cardinality(Pending) + 1
        /\ IsFiniteSet(Granted') /\ Cardinality(Granted') <= Cardinality(Granted) - 1
        /\ IsFiniteSet(Late') /\ Cardinality(Late') <= Cardinality(Late)
    <3>1. IsFiniteSet(Pending') /\ Cardinality(Pending') <= Cardinality(Pending) + 1
      BY <2>4, SeatSets, OneMore DEF IInv
    <3>2. IsFiniteSet(Granted') /\ Cardinality(Granted') <= Cardinality(Granted) - 1
      BY <2>5, SeatSets, OneLess DEF IInv
    <3>3. IsFiniteSet(Late') /\ Cardinality(Late') <= Cardinality(Late)
      BY <2>6, SeatSets, FS_Subset DEF IInv
    <3> QED BY <3>1, <3>2, <3>3
  <2>8. Taken' <= Taken
    <3>1. /\ Cardinality(Pending') \in Nat /\ Cardinality(Granted') \in Nat
          /\ Cardinality(Late') \in Nat
      BY <2>7, FS_CardinalityType
    <3>2. /\ Cardinality(Members) \in Nat /\ Cardinality(Pending) \in Nat
          /\ Cardinality(Granted) \in Nat /\ Cardinality(Late) \in Nat
      BY SeatSets DEF IInv
    <3> QED BY <2>3, <2>7, <3>1, <3>2 DEF Taken
  <2>9. \A d \in Requests : pc'[d] = "pending" => Cardinality(Members)' <= req'[d].used + torn'
    BY <2>3 DEF SeatInv, CountedOrTorn
  <2>10. torn' >= torn
    BY <2>3 DEF IInv, TypeOK
  <2> QED BY <1>1, <2>8, <2>9, <2>10, NothingTaken DEF IInv
<1> QED BY <1>2, <1>3

\* An invitation that is closed frees a seat, which the one person who may be
\* accepting it can still take.
LEMMA ClosingReaches ==
    ASSUME IInv, IInv', SeatInv, NEW i \in Sent, UNCHANGED <<peopleVars, planVars, requestVars>>,
           \A j \in Invites \ {i} : invite'[j] = invite[j],
           Pending' \subseteq Pending, i \notin Pending'
    PROVE  SeatInv'
<1>1. /\ Members' = Members /\ member' = member /\ torn' = torn
      /\ pc' = pc /\ req' = req /\ Granted' = Granted
  BY DEF Members, Granted, peopleVars, requestVars
<1>2. i \in Invites /\ Pending \ {i} \subseteq Pending'
  BY DEF Pending, Open, Sent
<1>3. ASSUME NEW d \in Outliving', d \notin Outliving
      PROVE  req[d].target = invite[i].email /\ i \in Pending
  <2>1. /\ d \in Requests /\ pc[d] \in {"acceptNew", "acceptOld"}
        /\ member[req[d].target] = None /\ req[d].invite \notin Pending'
    BY <1>1, <1>3 DEF Outliving
  <2>2. req[d].invite \in Pending
    BY <1>3, <2>1 DEF Outliving
  <2>3. req[d].invite = i
    BY <1>2, <2>1, <2>2
  <2> QED BY <2>1, <2>2, <2>3, Addressee
<1>4. Late' = {req[d].target : d \in Outliving'}
  BY <1>1 DEF Late
<1>5. /\ IsFiniteSet(Pending') /\ IsFiniteSet(Late')
      /\ Cardinality(Pending') + Cardinality(Late') <= Cardinality(Pending) + Cardinality(Late)
  <2>1. CASE i \in Pending
    <3>1. Late' \subseteq Late \cup {invite[i].email}
      BY <1>3, <1>4 DEF Late
    <3>2. IsFiniteSet(Late') /\ Cardinality(Late') <= Cardinality(Late) + 1
      BY <3>1, SeatSets, OneMore DEF IInv
    <3>3. IsFiniteSet(Pending') /\ Cardinality(Pending') <= Cardinality(Pending) - 1
      BY <2>1, SeatSets, OneLess DEF IInv
    <3>4. /\ Cardinality(Pending') \in Nat /\ Cardinality(Late') \in Nat
          /\ Cardinality(Pending) \in Nat /\ Cardinality(Late) \in Nat
      BY <3>2, <3>3, SeatSets, FS_CardinalityType DEF IInv
    <3> QED BY <3>2, <3>3, <3>4
  <2>2. CASE i \notin Pending
    <3>1. Late' \subseteq Late /\ Pending' = Pending
      BY <1>2, <1>3, <1>4, <2>2 DEF Late
    <3>2. IsFiniteSet(Late') /\ Cardinality(Late') <= Cardinality(Late)
      BY <3>1, SeatSets, FS_Subset DEF IInv
    <3>3. /\ Cardinality(Late') \in Nat /\ IsFiniteSet(Pending)
          /\ Cardinality(Pending) \in Nat /\ Cardinality(Late) \in Nat
      BY <3>2, SeatSets, FS_CardinalityType DEF IInv
    <3> QED BY <3>1, <3>2, <3>3
  <2> QED BY <2>1, <2>2
<1>6. Taken' <= Taken
  <2>1. /\ Cardinality(Members) \in Nat /\ Cardinality(Pending) \in Nat
        /\ Cardinality(Granted) \in Nat /\ Cardinality(Late) \in Nat
        /\ Cardinality(Pending') \in Nat /\ Cardinality(Late') \in Nat
    BY <1>5, SeatSets, FS_CardinalityType DEF IInv
  <2> QED BY <1>1, <1>5, <2>1 DEF Taken
<1>7. \A d \in Requests : pc'[d] = "pending" => Cardinality(Members)' <= req'[d].used + torn'
  BY <1>1 DEF SeatInv, CountedOrTorn
<1>8. torn' >= torn
  BY <1>1 DEF IInv, TypeOK
<1> QED BY <1>6, <1>7, <1>8, NothingTaken DEF IInv

\* Expiry closes a pending invitation.
LEMMA ExpireReaches ==
    ASSUME IInv, IInv', SeatInv, NEW i \in Invites, Expire(i)
    PROVE  SeatInv'
<1>1. i \in Pending /\ invite[i] \in Invitations /\ i \in Sent
  BY DEF Expire, Pending, Open, Sent, IInv, TypeOK
<1>2. /\ invite' = [invite EXCEPT ![i].expired = TRUE]
      /\ UNCHANGED <<peopleVars, planVars, requestVars>>
  BY DEF Expire
<1>3. /\ \A j \in Invites \ {i} : invite'[j] = invite[j]
      /\ invite'[i].expired
  BY <1>1, <1>2 DEF IInv, TypeOK, Invitations
<1>4. Pending' \subseteq Pending /\ i \notin Pending'
  BY <1>3 DEF Pending, Open, Sent
<1> QED BY <1>1, <1>2, <1>3, <1>4, ClosingReaches

\* So does a revocation, unless it was closed before.
LEMMA RevokeReaches ==
    ASSUME IInv, IInv', SeatInv, NEW i \in Invites, NEW a \in People, NEW r \in Roles,
           Revoke(i, a, r)
    PROVE  SeatInv'
<1> DEFINE sh == ~invite[i].accepted /\ \A c \in Requests : req[c].invite # i
<1>1. invite[i] \in Invitations /\ i \in Sent
  BY DEF Revoke, Sent, IInv, TypeOK
<1>2. /\ invite' = [invite EXCEPT ![i].revoked = TRUE, ![i].shut = sh]
      /\ UNCHANGED <<peopleVars, planVars, requestVars>>
  BY DEF Revoke
<1> HIDE DEF sh
<1>3. /\ \A j \in Invites \ {i} : invite'[j] = invite[j]
      /\ invite'[i].revoked
  BY <1>1, <1>2 DEF IInv, TypeOK, Invitations
<1>4. Pending' \subseteq Pending /\ i \notin Pending'
  BY <1>3 DEF Pending, Open, Sent
<1> QED BY <1>1, <1>2, <1>3, <1>4, ClosingReaches

\* An acceptance turns the seat of its invitation, or its own late one, into a
\* member; a request between its two counts makes it a torn one.
LEMMA AcceptReaches ==
    ASSUME IInv, IInv', SeatInv, NEW c \in Requests, Accept(c)
    PROVE  SeatInv'
<1> DEFINE e == req[c].target
           i == req[c].invite
           fits == IF pc[c] = "acceptNew" THEN account[e] = "none" ELSE member[e] = None
<1>1. /\ pc[c] \in {"acceptNew", "acceptOld"} /\ Done(c) /\ UNCHANGED planVars
      /\ pc'[c] = "idle" /\ \A d \in Requests \ {c} : pc'[d] = pc[d] /\ req'[d] = req[d]
  BY DEF Accept, Done, Proceed, IInv, TypeOK
<1>2. CASE ~fits
  BY <1>1, <1>2, EndingTakesNone DEF Accept, MarkAccepted, peopleVars
<1>3. CASE fits
  <2>1. /\ invite' = [invite EXCEPT ![i].accepted = TRUE]
        /\ member' = [member EXCEPT ![e] = req[c].want]
        /\ torn' = IF \E d \in Requests : pc[d] = "pending" THEN torn + 1 ELSE torn
    BY <1>3 DEF Accept, MarkAccepted
  <2>2. /\ i \in Sent /\ invite[i] \in Invitations /\ e \in People /\ e = invite[i].email
        /\ i \in Invites /\ member[e] = None
    <3>1. i \in Sent /\ invite[i] \in Invitations /\ e \in People /\ e = invite[i].email
      BY <1>1, Addressee
    <3>2. member[e] = None
      BY <1>1, <1>3, <3>1 DEF IInv, TypeOK
    <3> QED BY <3>1, <3>2 DEF Sent
  <2>3. /\ \A j \in Invites \ {i} : invite'[j] = invite[j]
        /\ invite'[i].accepted
    BY <2>1, <2>2 DEF IInv, TypeOK, Invitations
  <2>4. Pending' = Pending \ {i}
    BY <2>3 DEF Pending, Open, Sent
  <2>5. Members' \subseteq Members \cup {e} /\ \A a \in People \ {e} : member'[a] = member[a]
    BY <2>1, <2>2 DEF Members, IInv, TypeOK
  <2>6. req[c].want # None
    BY <1>1, <2>2, InvitationOrNone DEF IInv, Staged, Relies, Holds
  <2>7. member'[e] # None
    BY <2>1, <2>2, <2>6 DEF IInv, TypeOK
  <2>8. ASSUME NEW d \in Outliving'
        PROVE  d \in Outliving /\ req'[d] = req[d] /\ req[d].target # e
    <3>1. /\ d \in Requests /\ pc'[d] \in {"acceptNew", "acceptOld"}
          /\ member'[req'[d].target] = None /\ req'[d].invite \notin Pending'
      BY DEF Outliving
    <3>2. /\ d # c /\ pc[d] \in {"acceptNew", "acceptOld"} /\ req'[d] = req[d]
          /\ req[d].target # e
      BY <1>1, <2>7, <3>1
    <3>3. /\ req[d].target \in People /\ req[d].target = invite[req[d].invite].email
      BY <3>1, <3>2, Addressee
    <3>4. req[d].invite # i
      BY <2>2, <3>2, <3>3
    <3> QED BY <2>4, <2>5, <3>1, <3>2, <3>3, <3>4 DEF Outliving
  <2>9. Late' \subseteq Late \ {e}
    BY <2>8 DEF Late
  <2>10. i \in Pending \/ e \in Late
    BY <1>1, <2>2 DEF Late, Outliving
  <2>11. Granted' \subseteq Granted
    BY <1>1 DEF Granted
  <2>12. /\ IsFiniteSet(Members') /\ Cardinality(Members') <= Cardinality(Members) + 1
         /\ IsFiniteSet(Granted') /\ Cardinality(Granted') <= Cardinality(Granted)
         /\ IsFiniteSet(Pending') /\ IsFiniteSet(Late')
    <3>1. /\ IsFiniteSet(Members) /\ IsFiniteSet(Pending)
          /\ IsFiniteSet(Granted) /\ IsFiniteSet(Late)
      BY SeatSets DEF IInv
    <3>2. IsFiniteSet(Members') /\ Cardinality(Members') <= Cardinality(Members) + 1
      BY <2>5, <3>1, OneMore
    <3>3. IsFiniteSet(Granted') /\ Cardinality(Granted') <= Cardinality(Granted)
      BY <2>11, <3>1, FS_Subset
    <3>4. Pending' \subseteq Pending /\ Late' \subseteq Late
      BY <2>4, <2>9
    <3> QED BY <3>1, <3>2, <3>3, <3>4, FS_Subset
  <2>13. /\ Cardinality(Members) \in Nat /\ Cardinality(Pending) \in Nat
         /\ Cardinality(Granted) \in Nat /\ Cardinality(Late) \in Nat
         /\ Cardinality(Members') \in Nat /\ Cardinality(Granted') \in Nat
         /\ Cardinality(Pending') \in Nat /\ Cardinality(Late') \in Nat
    BY <2>12, SeatSets, FS_CardinalityType DEF IInv
  <2>14. Cardinality(Pending') <= Cardinality(Pending) /\ Cardinality(Late') <= Cardinality(Late)
    BY <2>4, <2>9, SeatSets, FS_Subset DEF IInv
  <2>15. Cardinality(Pending') + Cardinality(Late') <= Cardinality(Pending) + Cardinality(Late) - 1
    <3>1. CASE i \in Pending
      <4>1. Cardinality(Pending') <= Cardinality(Pending) - 1
        BY <2>4, <3>1, SeatSets, OneLess DEF IInv
      <4> QED BY <2>13, <2>14, <4>1
    <3>2. CASE e \in Late
      <4>1. Cardinality(Late') <= Cardinality(Late) - 1
        BY <2>9, <3>2, SeatSets, OneLess DEF IInv
      <4> QED BY <2>13, <2>14, <4>1
    <3> QED BY <2>10, <3>1, <3>2
  <2>16. Taken' <= Taken
    BY <2>12, <2>13, <2>15 DEF Taken
  <2>17. torn \in Nat /\ torn' >= torn
    BY <2>1 DEF IInv, TypeOK
  <2>18. ASSUME NEW d \in Requests, pc'[d] = "pending"
         PROVE  Cardinality(Members') <= req'[d].used + torn'
    <3>1. d # c /\ pc[d] = "pending" /\ req'[d] = req[d]
      BY <1>1, <2>18
    <3>2. Cardinality(Members) <= req[d].used + torn /\ req[d].used \in Nat
      BY <3>1 DEF SeatInv, CountedOrTorn, IInv, TypeOK
    <3>3. torn' = torn + 1
      BY <2>1, <3>1
    <3> QED BY <2>12, <2>13, <2>17, <3>1, <3>2, <3>3
  <2> QED BY <1>1, <2>16, <2>17, <2>18, NothingTaken DEF IInv
<1> QED BY <1>2, <1>3

\* Whoever has a role changed had one before and has one after.
LEMMA UpdateRoleReaches ==
    ASSUME IInv, IInv', SeatInv, NEW c \in Requests, UpdateRole(c)
    PROVE  SeatInv'
<1>1. /\ pc[c] = "role" /\ Done(c) /\ UNCHANGED <<planVars, torn, invite>>
  BY DEF UpdateRole, inviteVars
<1>2. PICK t \in People, want \in Roles : t = req[c].target /\ want = req[c].want
  BY <1>1 DEF IInv, Staged, Relies
<1>3. \A a \in People : member'[a] = None <=> member[a] = None
  BY <1>2, InvitationOrNone DEF UpdateRole, IInv, TypeOK
<1> QED BY <1>1, <1>3, EndingTakesNone

\* A seat is given up, which one late acceptance can take again.
LEMMA DeactivateReaches ==
    ASSUME IInv, IInv', SeatInv, NEW c \in Requests, Deactivate(c)
    PROVE  SeatInv'
<1>1. /\ pc[c] = "remove" /\ Done(c) /\ UNCHANGED <<planVars, torn, invite>>
      /\ pc'[c] = "idle" /\ \A d \in Requests \ {c} : pc'[d] = pc[d] /\ req'[d] = req[d]
  BY DEF Deactivate, inviteVars, Done, Proceed, IInv, TypeOK
<1>2. PICK t \in People : t = req[c].target
  BY <1>1 DEF IInv, Staged, Relies
<1>3. CASE member[t] = None
  BY <1>1, <1>2, <1>3, EndingTakesNone DEF Deactivate
<1>4. CASE member[t] # None
  <2>1. member' = [member EXCEPT ![t] = None]
    BY <1>2, <1>4 DEF Deactivate
  <2>2. \A a \in People \ {t} : member'[a] = member[a]
    BY <2>1 DEF IInv, TypeOK
  <2>3. /\ Members' \subseteq Members \ {t} /\ t \in Members
        /\ Pending' = Pending /\ Granted' \subseteq Granted
    BY <1>1, <1>4, <2>1, <2>2 DEF IInv, TypeOK, Members, Pending, Open, Sent, Granted
  <2>4. ASSUME NEW d \in Outliving'
        PROVE  req'[d] = req[d] /\ (req[d].target = t \/ d \in Outliving)
    <3>1. /\ d \in Requests /\ pc'[d] \in {"acceptNew", "acceptOld"}
          /\ member'[req'[d].target] = None /\ req'[d].invite \notin Pending
      BY <2>3 DEF Outliving
    <3>2. /\ pc[d] \in {"acceptNew", "acceptOld"} /\ req'[d] = req[d]
      BY <1>1, <3>1
    <3>3. req[d].target \in People
      BY <3>1, <3>2, Addressee
    <3> QED BY <2>2, <3>1, <3>2, <3>3 DEF Outliving
  <2>5. Late' \subseteq Late \cup {t}
    BY <2>4 DEF Late
  <2>6. /\ IsFiniteSet(Members) /\ IsFiniteSet(Late) /\ IsFiniteSet(Granted)
    BY SeatSets DEF IInv
  <2>7. IsFiniteSet(Members') /\ Cardinality(Members') <= Cardinality(Members) - 1
    BY <2>3, <2>6, OneLess
  <2>8. IsFiniteSet(Late') /\ Cardinality(Late') <= Cardinality(Late) + 1
    BY <2>5, <2>6, OneMore
  <2>9. IsFiniteSet(Granted') /\ Cardinality(Granted') <= Cardinality(Granted)
    BY <2>3, <2>6, FS_Subset
  <2>10. /\ Cardinality(Members) \in Nat /\ Cardinality(Pending) \in Nat
         /\ Cardinality(Granted) \in Nat /\ Cardinality(Late) \in Nat
         /\ Cardinality(Members') \in Nat /\ Cardinality(Granted') \in Nat
         /\ Cardinality(Late') \in Nat
    BY <2>7, <2>8, <2>9, SeatSets, FS_CardinalityType DEF IInv
  <2>11. Taken' <= Taken
    BY <2>3, <2>7, <2>8, <2>9, <2>10 DEF Taken
  <2>12. torn \in Nat /\ torn' >= torn
    BY <1>1 DEF IInv, TypeOK
  <2>13. ASSUME NEW d \in Requests, pc'[d] = "pending"
         PROVE  Cardinality(Members') <= req'[d].used + torn'
    <3>1. pc[d] = "pending" /\ req'[d] = req[d]
      BY <1>1, <2>13
    <3>2. Cardinality(Members) <= req[d].used + torn /\ req[d].used \in Nat
      BY <3>1 DEF SeatInv, CountedOrTorn, IInv, TypeOK
    <3> QED BY <1>1, <2>7, <2>10, <2>12, <3>1, <3>2
  <2> QED BY <1>1, <2>11, <2>12, <2>13, NothingTaken DEF IInv
<1> QED BY <1>3, <1>4

\* The largest limit so far only rises, or is none from then on.
LEMMA ChangePlanReaches ==
    ASSUME IInv, IInv', SeatInv, NEW p \in DOMAIN Seats, ChangePlan(p)
    PROVE  SeatInv'
<1>1. /\ UNCHANGED <<peopleVars, inviteVars, requestVars>> /\ plan' = p
      /\ ceiling' = IF Unlimited \in {ceiling, Seats[p]} THEN Unlimited
                    ELSE IF Seats[p] > ceiling THEN Seats[p] ELSE ceiling
  BY DEF ChangePlan
<1>2. /\ Members' = Members /\ Pending' = Pending /\ Granted' = Granted /\ Late' = Late
      /\ torn' = torn
  BY <1>1 DEF Members, Pending, Open, Sent, Granted, Late, Outliving,
              peopleVars, inviteVars, requestVars
<1>3. Taken' = Taken /\ Taken \in Nat /\ Cardinality(Requests) \in Nat
  BY <1>2, SeatsCounted, SeatSets DEF Taken, IInv
<1>4. /\ ceiling \in Nat /\ torn \in Nat /\ Seats[p] \in Nat
  BY TeamAssumption DEF IInv, TypeOK
<1>5. ASSUME ceiling' # Unlimited PROVE (WithinReach /\ CeilingHolds)'
  <2>1. ceiling # Unlimited /\ Seats[p] # Unlimited /\ ceiling <= ceiling' /\ Seats[p] <= ceiling'
        /\ ceiling' \in Nat
    BY <1>1, <1>4, <1>5
  <2>2. WithinReach
    BY <2>1 DEF SeatInv
  <2> QED BY <1>1, <1>2, <1>3, <1>4, <2>1, <2>2 DEF WithinReach, CeilingHolds
<1>6. CountedOrTorn'
  BY <1>1, <1>2 DEF SeatInv, CountedOrTorn, requestVars
<1> QED BY <1>5, <1>6 DEF SeatInv

\* A team starts within the limit of its plan.
LEMMA InitSeats == Init => SeatInv
<1> SUFFICES ASSUME Init PROVE SeatInv
  OBVIOUS
<1>1. TypeOK
  BY InitIInv DEF IInv
<1>2. PICK s \in Starts :
          /\ member = s.member /\ plan = s.plan /\ ceiling = Seats[s.plan]
          /\ invite = [i \in Invites |-> None]
          /\ pc = [c \in Requests |-> "idle"] /\ torn = 0
  BY DEF Init
<1>3. /\ Pending = {} /\ Granted = {} /\ Outliving = {}
      /\ \A c \in Requests : pc[c] # "pending"
  BY <1>2 DEF Pending, Open, Sent, Granted, Outliving
<1>4. Cardinality(Pending) = 0 /\ Cardinality(Granted) = 0 /\ Cardinality(Late) = 0
  BY <1>3, FS_EmptySet DEF Late
<1>5. /\ Seats[s.plan] = Unlimited \/ Cardinality(Members) <= Seats[s.plan]
      /\ Seats[s.plan] \in Nat
  BY <1>2, TeamAssumption DEF Members
<1>6. Cardinality(Members) \in Nat /\ Cardinality(Requests) \in Nat \ {0}
  BY <1>1, SeatSets
<1>7. ASSUME ceiling # Unlimited PROVE WithinReach /\ CeilingHolds
  BY <1>2, <1>4, <1>5, <1>6, <1>7 DEF WithinReach, CeilingHolds, Taken
<1> QED BY <1>3, <1>7 DEF SeatInv, CountedOrTorn

\* Every step of Team keeps the bound.
LEMMA NextSeats == IInv /\ IInv' /\ SeatInv /\ [Next]_vars => SeatInv'
<1> SUFFICES ASSUME IInv, IInv', SeatInv, [Next]_vars PROVE SeatInv'
  OBVIOUS
<1>1. CASE PostRegister \/ PostVerifyEmail \/ UNCHANGED vars
  <2>1. UNCHANGED <<member, torn, inviteVars, planVars, requestVars>>
    BY <1>1 DEF PostRegister, PostVerifyEmail, Register, VerifyEmail, vars, peopleVars
  <2>2. /\ Members' = Members /\ Pending' = Pending /\ Granted' = Granted /\ Late' = Late
    BY <2>1 DEF Members, Pending, Open, Sent, Granted, Late, Outliving, inviteVars, requestVars
  <2> QED BY <2>1, <2>2 DEF SeatInv, WithinReach, CeilingHolds, CountedOrTorn, Taken,
             planVars, requestVars
<1>2. CASE DeleteInvitation
  BY <1>2, RevokeReaches DEF DeleteInvitation
<1>3. CASE \E i \in Invites : Expire(i)
  BY <1>3, ExpireReaches
<1>4. CASE OperatorSetsPlan \/ TestCheckout
  BY <1>4, ChangePlanReaches DEF OperatorSetsPlan, TestCheckout
<1>5. CASE \E c \in Requests : Arrive(c)
  BY <1>5, ArriveTakesNone
<1>6. ASSUME NEW c \in Requests, Step(c) PROVE SeatInv'
  <2>1. CASE Fail(c)
    BY <2>1, EndingTakesNone DEF Fail, peopleVars, inviteVars
  <2>2. CASE CountOwners(c)
    <3>1. PICK s \in {"idle", "remove"} :
              \E q : Proceed(c, s, q) /\ UNCHANGED <<peopleVars, inviteVars, planVars>>
      BY <2>2 DEF CountOwners, Done
    <3>2. /\ pc'[c] = s
          /\ \A d \in Requests \ {c} : pc'[d] = pc[d] /\ req'[d] = req[d]
      BY <3>1 DEF IInv, TypeOK, Proceed
    <3> QED BY <3>1, <3>2, MovingTakesNone DEF peopleVars, inviteVars
  <2> QED BY <1>6, <2>1, <2>2, CountPendingReaches, CreateReaches, AcceptReaches,
        UpdateRoleReaches, DeactivateReaches DEF Step
<1> QED BY <1>1, <1>2, <1>3, <1>4, <1>5, <1>6 DEF Next

(***************************************************************************)
(* However requests overlap, members and open invitations pass the largest    *)
(* seat limit so far by less than the number of requests, plus the            *)
(* acceptances that fell between the two counts of a request.                 *)
(***************************************************************************)
THEOREM SeatsHold == Spec => []SeatsBounded
<1>1. IInv /\ SeatInv => SeatsBounded
  <2> SUFFICES ASSUME IInv, SeatInv, ceiling # Unlimited
               PROVE  Cardinality(Members) + Cardinality(Pending)
                          <= ceiling + (Cardinality(Requests) - 1) + torn
    BY DEF SeatsBounded
  <2> QED BY SeatSets DEF SeatInv, WithinReach, Taken, IInv, TypeOK
<1>2. Spec => []SeatInv
  BY InitSeats, NextSeats, AlwaysIInv, PTL DEF Spec
<1> QED BY <1>1, <1>2, AlwaysIInv, PTL
=============================================================================
