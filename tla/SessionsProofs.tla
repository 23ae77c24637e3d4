--------------------------- MODULE SessionsProofs ---------------------------
(***************************************************************************)
(* Theorems about Sessions, for every number of tokens, memberships and      *)
(* requests: races of refreshes, logouts, resets, removals and failures       *)
(* neither fork a family of tokens nor revive one, and a revocation misses    *)
(* only what a login or an exchange committed while it was under way.         *)
(***************************************************************************)
EXTENDS Sessions, TLAPS

\* What a request relies on between its statements.
Relies(c) ==
    /\ pc[c] = "chosen" => req[c].member \in Members /\ req[c].client \in ClientKinds
    /\ pc[c] = "rotate" => /\ req[c].token \in Issued
                           /\ lockedBy[req[c].token] = c
                           /\ Live(req[c].token)
                           /\ ~tok[req[c].token].late
    /\ pc[c] = "revoke" => /\ req[c].held \subseteq Issued
                           /\ req[c].why # "none"
                           /\ req[c].why = "removal" => req[c].member \in Members
                           /\ req[c].why \in {"reuse", "role"} => req[c].token \in Issued
    /\ pc[c] # "revoke" => req[c].held = {}
    /\ pc[c] # "idle" => ~req[c].ended

Memory == [member : Members \cup {None}, client : ClientKinds \cup {None},
           token : Tokens \cup {None}, held : SUBSET Tokens,
           why : {"none", "reuse", "role", "reset", "removal"}, ended : BOOLEAN]

Staged == \A c \in Requests : Relies(c)

\* A family is named by its first token and stays with one membership.
Rooted ==
    \A t \in Issued :
        LET f == tok[t].family
        IN  f \in Issued /\ tok[f].family = f /\ tok[f].member = tok[t].member

OneLive == \A t, u \in Issued : Live(t) /\ Live(u) /\ tok[t].family = tok[u].family => t = u

\* A membership is never restored, so what came too late stays too late.
LateGone == \A t \in Issued : tok[t].late => ~active[tok[t].member] /\ tok[t].next = None

IInv == TypeOK /\ Staged /\ Rooted /\ OneLive /\ LateGone

-----------------------------------------------------------------------------

LEMMA RowOrNone == /\ None \notin Tokens /\ None \notin Members
                   /\ None \notin Requests /\ None \notin Rows
BY SessionAssumption

\* The identifier of a new row is a new one.
LEMMA FreshIsNew ==
    ASSUME Tokens # Issued
    PROVE  Fresh \in Tokens /\ ~Exists(Fresh)
<1>1. \E t \in Tokens : ~Exists(t)
  BY DEF Issued
<1> QED BY <1>1 DEF Fresh

LEMMA IssuedRows ==
    ASSUME TypeOK
    PROVE  /\ \A t \in Issued : t \in Tokens /\ tok[t] \in Rows
           /\ \A t \in Tokens : t \in Issued <=> tok[t] # None
BY RowOrNone DEF TypeOK, Issued, Exists

\* The row of a new token, and that nothing else about tokens is new.
LEMMA RowOfNew ==
    ASSUME TypeOK, NEW m \in Members, NEW f \in Tokens, NEW k \in ClientKinds
    PROVE  /\ NewRow(m, f, k) \in Rows
           /\ NewRow(m, f, k).member = m /\ NewRow(m, f, k).family = f
           /\ ~NewRow(m, f, k).revoked /\ NewRow(m, f, k).next = None
           /\ NewRow(m, f, k).late = ~active[m]
BY DEF NewRow, Rows, TypeOK

-----------------------------------------------------------------------------
(* Steps that write no row of refresh_tokens. *)

\* A step that writes no token and removes nobody keeps everything but the stages.
LEMMA RowsUntouched ==
    ASSUME IInv, UNCHANGED <<tok, active>>, TypeOK', Staged'
    PROVE  IInv'
BY DEF IInv, Rooted, OneLive, LateGone, Issued, Exists, Live

LEMMA ChooseKeeps ==
    ASSUME IInv, NEW c \in Requests, NEW k \in ClientKinds, NEW m \in Members,
           ChooseMembership(c, k, m)
    PROVE  IInv'
<1>1. TypeOK'
  <2>1. [NoRequest EXCEPT !.member = m, !.client = k] \in Memory
    BY DEF NoRequest, Memory
  <2> QED BY <2>1 DEF IInv, TypeOK, Memory, Stages, ChooseMembership, rowVars, memberVars
<1>2. Staged'
  BY DEF IInv, TypeOK, Staged, Relies, ChooseMembership, rowVars, memberVars, Issued, Exists, Live,
         NoRequest
<1> QED BY <1>1, <1>2, RowsUntouched DEF ChooseMembership, rowVars, memberVars

LEMMA RevokingKeeps ==
    ASSUME IInv, NEW c \in Requests, NEW w \in {"reuse", "role", "reset", "removal"},
           NEW m \in Members \cup {None}, NEW p \in Issued \cup {None}, NEW S \in SUBSET Issued,
           w = "removal" => m \in Members, w \in {"reuse", "role"} => p \in Issued,
           StartRevoking(c, w, m, p, S), UNCHANGED <<tok, memberVars>>,
           \/ UNCHANGED lockedBy
           \/ \E t \in Tokens : TakeLock(c, t)
    PROVE  IInv'
<1> DEFINE r == [NoRequest EXCEPT !.why = w, !.member = m, !.token = p, !.held = S]
<1>0. /\ r \in Memory /\ r.why = w /\ r.member = m /\ r.token = p /\ r.held = S /\ ~r.ended
  BY DEF Memory, NoRequest, Issued
<1>1. /\ pc' = [pc EXCEPT ![c] = "revoke"] /\ req' = [req EXCEPT ![c] = r]
      /\ tok' = tok /\ Issued' = Issued /\ \A t : Live(t)' = Live(t)
  BY DEF StartRevoking, Issued, Exists, Live
<1> HIDE DEF r
<1>2. TypeOK'
  <2>1. lockedBy' \in [Tokens -> Requests \cup {None}]
    BY DEF IInv, TypeOK, TakeLock
  <2> QED BY <1>0, <1>1, <2>1 DEF IInv, TypeOK, Memory, Stages, memberVars
<1>3. /\ req'[c] = r /\ pc'[c] = "revoke"
      /\ \A d \in Requests \ {c} : pc'[d] = pc[d] /\ req'[d] = req[d]
  BY <1>1 DEF IInv, TypeOK
<1>4. Relies(c)'
  BY <1>0, <1>1, <1>3 DEF Relies
<1>5. ASSUME NEW d \in Requests \ {c} PROVE Relies(d)'
  <2>1. pc[d] = "rotate" => lockedBy'[req[d].token] = d
    BY RowOrNone DEF IInv, TypeOK, Staged, Relies, TakeLock, Free, Issued
  <2>2. d \in Requests /\ pc'[d] = pc[d] /\ req'[d] = req[d] /\ Relies(d)
    BY <1>3 DEF IInv, Staged
  <2> QED BY <1>1, <2>1, <2>2 DEF Relies
<1>6. Staged'
  BY <1>4, <1>5 DEF Staged
<1> QED BY <1>2, <1>6, RowsUntouched DEF memberVars

LEMMA AcceptKeeps ==
    ASSUME IInv, NEW c \in Requests, NEW t \in Tokens, Accept(c, t)
    PROVE  IInv'
<1> DEFINE r == [NoRequest EXCEPT !.token = t]
<1>0. r \in Memory /\ r.token = t /\ r.held = {} /\ ~r.ended
  BY DEF Memory, NoRequest
<1>2. ~tok[t].late /\ Live(t) /\ t \in Issued
  BY DEF IInv, LateGone, Accept, MemberFound, Spent, Live, Issued
<1>3. /\ pc' = [pc EXCEPT ![c] = "rotate"] /\ req' = [req EXCEPT ![c] = r]
      /\ lockedBy' = [lockedBy EXCEPT ![t] = c] /\ lockedBy[t] \in {None, c}
      /\ tok' = tok /\ Issued' = Issued /\ \A u : Live(u)' = Live(u)
  BY DEF Accept, TakeLock, Free, Issued, Exists, Live
<1> HIDE DEF r
<1>1. TypeOK'
  <2>1. req' \in [Requests -> Memory] /\ pc' \in [Requests -> Stages]
    BY <1>0, <1>3 DEF IInv, TypeOK, Memory, Stages
  <2>2. lockedBy' \in [Tokens -> Requests \cup {None}]
    BY <1>3 DEF IInv, TypeOK
  <2>3. UNCHANGED <<tok, active, role>>
    BY DEF Accept, memberVars
  <2> QED BY <2>1, <2>2, <2>3 DEF IInv, TypeOK, Memory
<1>4. Relies(c)'
  BY <1>0, <1>2, <1>3 DEF IInv, TypeOK, Relies
<1>5. ASSUME NEW d \in Requests \ {c} PROVE Relies(d)'
  <2>1. pc'[d] = pc[d] /\ req'[d] = req[d]
    BY <1>3 DEF IInv, TypeOK
  <2>2. pc[d] = "rotate" => lockedBy'[req[d].token] = d
    BY <1>3, RowOrNone DEF IInv, TypeOK, Staged, Relies, Issued
  <2> QED BY <1>3, <2>1, <2>2 DEF IInv, Staged, Relies
<1>6. Staged'
  BY <1>4, <1>5 DEF Staged
<1> QED BY <1>1, <1>6, RowsUntouched DEF Accept, memberVars

\* Giving locks back disturbs only what their holder relied on.
LEMMA RollingBackKeeps ==
    ASSUME IInv, NEW c \in Requests, RollBack(c)
    PROVE  IInv'
<1>1. TypeOK'
  BY DEF IInv, TypeOK, Stages, RollBack, Unlocked, Done, NoRequest, memberVars
<1>2. Staged'
  BY DEF IInv, TypeOK, Staged, Relies, RollBack, Unlocked, Done, NoRequest, memberVars, Issued,
         Exists, Live
<1> QED BY <1>1, <1>2, RowsUntouched DEF RollBack, memberVars

LEMMA RoleKeeps ==
    ASSUME IInv, NEW m \in Members, NEW r \in Roles, UpdateRole(m, r)
    PROVE  IInv'
<1>1. TypeOK'
  BY DEF IInv, TypeOK, UpdateRole, rowVars, requestVars
<1>2. Staged'
  BY DEF IInv, Staged, Relies, UpdateRole, rowVars, requestVars, Issued, Exists, Live
<1> QED BY <1>1, <1>2, RowsUntouched DEF UpdateRole, rowVars

-----------------------------------------------------------------------------
(* Steps that write rows. *)

LEMMA IssueKeeps ==
    ASSUME IInv, NEW c \in Requests, IssueSession(c)
    PROVE  IInv'
<1> DEFINE m == req[c].member
           k == req[c].client
           r == NewRow(m, Fresh, k)
<1>1. m \in Members /\ k \in ClientKinds
  BY DEF IInv, Staged, Relies, IssueSession
<1>2. Fresh \in Tokens /\ ~Exists(Fresh)
  BY FreshIsNew DEF IssueSession
<1>3. /\ r \in Rows /\ r.member = m /\ r.family = Fresh
      /\ ~r.revoked /\ r.next = None /\ r.late = ~active[m]
  BY <1>1, <1>2, RowOfNew DEF IInv
<1>4. /\ tok' = [tok EXCEPT ![Fresh] = r]
      /\ lockedBy' = lockedBy /\ active' = active /\ role' = role
      /\ pc' = [pc EXCEPT ![c] = "idle"] /\ req' = [req EXCEPT ![c] = NoRequest]
  BY DEF IssueSession, Done, memberVars
<1> HIDE DEF m, k, r
<1> DEFINE n == Fresh
<1>5. n \in Tokens /\ tok[n] = None /\ tok' = [tok EXCEPT ![n] = r] /\ r.family = n
  BY <1>2, <1>3, <1>4 DEF Exists
<1> HIDE DEF n
<1>6. /\ Issued' = Issued \cup {n} /\ n \notin Issued
      /\ \A t \in Issued : t \in Tokens /\ tok'[t] = tok[t] /\ tok[t] \in Rows
      /\ tok'[n] = r
  BY <1>3, <1>5, RowOrNone DEF IInv, TypeOK, Issued, Exists
<1>7. TypeOK'
  BY <1>3, <1>4, <1>5 DEF IInv, TypeOK, Stages, NoRequest
<1>8. Staged'
  <2>1. Relies(c)'
    BY <1>4 DEF IInv, TypeOK, Relies, NoRequest
  <2>2. ASSUME NEW d \in Requests \ {c} PROVE Relies(d)'
    <3>1. pc'[d] = pc[d] /\ req'[d] = req[d] /\ Relies(d)
      BY <1>4 DEF IInv, TypeOK, Staged
    <3> QED BY <1>4, <1>6, <3>1 DEF Relies, Live, Exists
  <2> QED BY <2>1, <2>2 DEF Staged
<1>9. Rooted' /\ OneLive'
  BY <1>3, <1>5, <1>6 DEF IInv, Rooted, OneLive, Live, Exists
<1>10. LateGone'
  BY <1>3, <1>4, <1>5, <1>6 DEF IInv, LateGone
<1> QED BY <1>7, <1>8, <1>9, <1>10 DEF IInv

LEMMA RotateKeeps ==
    ASSUME IInv, NEW c \in Requests, Rotate(c)
    PROVE  IInv'
<1> DEFINE t == req[c].token
           n == Fresh
           r == NewRow(tok[t].member, tok[t].family, tok[t].client)
<1>1. t \in Issued /\ t \in Tokens /\ lockedBy[t] = c /\ Live(t) /\ ~tok[t].late /\ tok[t] \in Rows
  BY IssuedRows DEF IInv, Staged, Relies, Rotate
<1>2. n \in Tokens /\ ~Exists(n)
  BY FreshIsNew DEF Rotate
<1>3. /\ r \in Rows /\ r.member = tok[t].member /\ r.family = tok[t].family
      /\ ~r.revoked /\ r.next = None /\ r.late = ~active[tok[t].member]
  BY <1>1, RowOfNew DEF IInv, Rows
<1>4. /\ tok' = [tok EXCEPT ![t].next = n, ![n] = r]
      /\ lockedBy' = Unlocked(c) /\ active' = active /\ role' = role
      /\ pc' = [pc EXCEPT ![c] = "idle"] /\ req' = [req EXCEPT ![c] = NoRequest]
  BY DEF Rotate, Done, memberVars
<1> HIDE DEF n, t, r
<1>5. n # t /\ tok[n] = None /\ n \notin Issued
  BY <1>1, <1>2 DEF Issued, Exists
<1>6. /\ tok' \in [Tokens -> Rows \cup {None}]
      /\ tok'[n] = r
      /\ tok'[t] = [tok[t] EXCEPT !.next = n]
      /\ \A u \in Tokens \ {t, n} : tok'[u] = tok[u]
  BY <1>1, <1>2, <1>3, <1>4, <1>5 DEF IInv, TypeOK, Rows
<1>7. /\ Issued' = Issued \cup {n}
      /\ \A u \in Issued : u \in Tokens /\ tok[u] \in Rows
      /\ \A u \in Issued \ {t} : tok'[u] = tok[u]
  BY <1>1, <1>2, <1>3, <1>5, <1>6, RowOrNone DEF IInv, TypeOK, Issued, Exists, Rows
<1>8. /\ tok'[t].next = n /\ n # None
      /\ tok'[t].family = tok[t].family /\ tok'[t].member = tok[t].member
      /\ tok'[t].late = tok[t].late
  BY <1>1, <1>2, <1>6, RowOrNone DEF Rows
<1>9. TypeOK'
  BY <1>4, <1>6 DEF IInv, TypeOK, Stages, NoRequest, Unlocked
<1>10. \A d \in Requests : d # c /\ pc[d] = "rotate" => req[d].token \in Issued \ {t}
  BY <1>1 DEF IInv, Staged, Relies
<1>11. Staged'
  <2>1. Relies(c)'
    BY <1>4 DEF IInv, TypeOK, Relies, NoRequest
  <2>2. ASSUME NEW d \in Requests \ {c} PROVE Relies(d)'
    <3>1. pc'[d] = pc[d] /\ req'[d] = req[d] /\ Relies(d)
      BY <1>4 DEF IInv, TypeOK, Staged
    <3>2. \A u \in Tokens : lockedBy[u] = d => lockedBy'[u] = d
      BY <1>4 DEF Unlocked
    <3> QED BY <1>7, <1>10, <3>1, <3>2 DEF Relies, Live, Exists
  <2> QED BY <2>1, <2>2 DEF Staged
<1>12. Rooted' /\ LateGone'
  <2>0. \A u \in Issued : tok'[u].family = tok[u].family /\ tok'[u].member = tok[u].member
    BY <1>7, <1>8
  <2>a. tok'[n].family = tok[t].family /\ tok'[n].member = tok[t].member
    BY <1>3, <1>6
  <2>1. Rooted'
    BY <1>1, <1>7, <2>0, <2>a DEF IInv, Rooted
  <2>2. \A u \in Issued : tok'[u].late = tok[u].late /\ tok'[u].member = tok[u].member
    BY <1>7, <1>8
  <2>3. \A u \in Issued \ {t} : tok'[u].next = tok[u].next
    BY <1>7
  <2>4. ASSUME NEW u \in Issued', tok'[u].late
        PROVE  ~active'[tok'[u].member] /\ tok'[u].next = None
    <3>1. CASE u = n
      BY <1>3, <1>4, <1>6, <2>4, <3>1
    <3>2. CASE u \in Issued
      <4>1. tok[u].late /\ u # t
        BY <1>1, <2>2, <2>4, <3>2
      <4> QED BY <1>4, <2>2, <2>3, <3>2, <4>1 DEF IInv, LateGone
    <3> QED BY <1>7, <3>1, <3>2
  <2> QED BY <2>1, <2>4 DEF LateGone
<1>13. \A u \in Issued : tok[u].family = tok[t].family => ~Live(u)'
  BY <1>1, <1>7, <1>8 DEF IInv, OneLive, Live, Exists
<1>14. OneLive'
  BY <1>1, <1>3, <1>6, <1>7, <1>8, <1>13 DEF IInv, OneLive, Live, Exists
<1> QED BY <1>9, <1>11, <1>12, <1>14 DEF IInv

\* What a revocation of the rows S leaves.
LEMMA RevokedRows ==
    ASSUME TypeOK, NEW S \in SUBSET Issued, tok' = Revoke(S)
    PROVE  /\ tok' \in [Tokens -> Rows \cup {None}]
           /\ Issued' = Issued
           /\ \A u \in Issued \ S : tok'[u] = tok[u]
           /\ \A u \in S : tok'[u] = [tok[u] EXCEPT !.revoked = TRUE]
           /\ \A u \in Issued : /\ tok'[u].family = tok[u].family
                                /\ tok'[u].member = tok[u].member
                                /\ tok'[u].late = tok[u].late
                                /\ tok'[u].next = tok[u].next
           /\ \A u \in S : tok'[u].revoked
<1>1. \A u \in Issued : u \in Tokens /\ tok[u] \in Rows /\ tok[u] # None
  BY IssuedRows
<1>2. \A u \in Tokens : tok'[u] = IF u \in S THEN [tok[u] EXCEPT !.revoked = TRUE] ELSE tok[u]
  BY DEF Revoke
<1>3. \A u \in S : /\ [tok[u] EXCEPT !.revoked = TRUE] \in Rows
                   /\ tok'[u] = [tok[u] EXCEPT !.revoked = TRUE]
  BY <1>1, <1>2 DEF Rows
<1>4. tok' \in [Tokens -> Rows \cup {None}]
  BY <1>2, <1>3 DEF Revoke, TypeOK
<1>5. \A u \in S : /\ tok'[u].family = tok[u].family /\ tok'[u].member = tok[u].member
                   /\ tok'[u].late = tok[u].late /\ tok'[u].next = tok[u].next
                   /\ tok'[u].revoked
  BY <1>1, <1>3 DEF Rows
<1>6. \A u \in Issued \ S : tok'[u] = tok[u]
  BY <1>1, <1>2
<1>7. Issued' = Issued
  <2>1. \A u \in Tokens : tok'[u] # None <=> tok[u] # None
    BY <1>1, <1>2, <1>3, RowOrNone
  <2> QED BY <2>1 DEF Issued, Exists
<1> QED BY <1>3, <1>4, <1>5, <1>6, <1>7

LEMMA RevocationKeeps ==
    ASSUME IInv, NEW S \in SUBSET Issued, tok' = Revoke(S), TypeOK', Staged',
           \A m \in Members : active'[m] => active[m]
    PROVE  IInv'
<1>1. /\ Issued' = Issued
      /\ \A u \in Issued : /\ tok'[u].family = tok[u].family
                           /\ tok'[u].member = tok[u].member
                           /\ tok'[u].late = tok[u].late
                           /\ tok'[u].next = tok[u].next
                           /\ ~tok'[u].revoked => ~tok[u].revoked
                           /\ tok[u].member \in Members
  <2>1. \A u \in Issued : tok[u].member \in Members
    BY IssuedRows DEF IInv, Rows
  <2> QED BY <2>1, RevokedRows DEF IInv
<1>2. Rooted'
  BY <1>1 DEF IInv, Rooted
<1>3. \A u \in Issued : Live(u)' => Live(u)
  BY <1>1 DEF Live, Issued
<1>4. OneLive'
  BY <1>1, <1>3 DEF IInv, OneLive
<1>5. LateGone'
  BY <1>1 DEF IInv, LateGone
<1> QED BY <1>2, <1>4, <1>5 DEF IInv

LEMMA LogoutRevokes ==
    ASSUME TypeOK, NEW t \in Tokens, Logout(t)
    PROVE  t \in Issued /\ tok' = Revoke({t})
<1>1. t \in Issued /\ tok' = [tok EXCEPT ![t].revoked = TRUE]
  BY DEF Logout, RevokeOne, Issued
<1>2. [tok EXCEPT ![t].revoked = TRUE]
          = [u \in Tokens |-> IF u \in {t} THEN [tok[u] EXCEPT !.revoked = TRUE] ELSE tok[u]]
  BY DEF TypeOK
<1> QED BY <1>1, <1>2 DEF Revoke

LEMMA LogoutKeeps ==
    ASSUME IInv, NEW t \in Tokens, Logout(t)
    PROVE  IInv'
<1>1. t \in Issued /\ tok' = Revoke({t})
  BY LogoutRevokes DEF IInv
<1>2. UNCHANGED <<lockedBy, active, role, pc, req>> /\ lockedBy[t] = None
  BY DEF Logout, memberVars, requestVars
<1>3. /\ tok' \in [Tokens -> Rows \cup {None}] /\ Issued' = Issued
      /\ \A u \in Issued \ {t} : tok'[u] = tok[u]
  BY <1>1, RevokedRows DEF IInv
<1>4. TypeOK'
  BY <1>2, <1>3 DEF IInv, TypeOK
<1>5. Staged'
  <2> SUFFICES ASSUME NEW d \in Requests PROVE Relies(d)'
    BY DEF Staged
  <2>1. Relies(d)
    BY DEF IInv, Staged
  <2>2. pc[d] = "rotate" => req[d].token \in Issued \ {t}
    BY <1>2, <2>1, RowOrNone DEF Relies
  <2> QED BY <1>2, <1>3, <2>1, <2>2 DEF Relies, Live, Exists
<1> QED BY <1>1, <1>2, <1>4, <1>5, RevocationKeeps

LEMMA FinishKeeps ==
    ASSUME IInv, NEW c \in Requests, FinishRevoking(c)
    PROVE  IInv'
<1> DEFINE S == req[c].held
<1>1. S \subseteq Issued /\ Free(c, S) /\ tok' = Revoke(S)
  BY DEF IInv, Staged, Relies, FinishRevoking
<1>2. /\ lockedBy' = Unlocked(c) /\ role' = role
      /\ pc' = [pc EXCEPT ![c] = "idle"]
      /\ req' = [req EXCEPT ![c] = [NoRequest EXCEPT !.ended = TRUE]]
      /\ active' = active \/ active' = [active EXCEPT ![req[c].member] = FALSE]
  BY DEF FinishRevoking
<1> HIDE DEF S
<1>3. /\ tok' \in [Tokens -> Rows \cup {None}] /\ Issued' = Issued
      /\ \A u \in Issued \ S : tok'[u] = tok[u]
  BY <1>1, RevokedRows DEF IInv
<1>4. active' \in [Members -> BOOLEAN] /\ \A m \in Members : active'[m] => active[m]
  BY <1>2 DEF IInv, TypeOK
<1>5. TypeOK'
  BY <1>2, <1>3, <1>4 DEF IInv, TypeOK, Stages, NoRequest, Unlocked
<1>6. Staged'
  <2>1. Relies(c)'
    BY <1>2 DEF IInv, TypeOK, Relies, NoRequest
  <2>2. ASSUME NEW d \in Requests \ {c} PROVE Relies(d)'
    <3>1. pc'[d] = pc[d] /\ req'[d] = req[d] /\ Relies(d)
      BY <1>2 DEF IInv, TypeOK, Staged
    <3>2. pc[d] = "rotate" => req[d].token \in Issued \ S
      BY <1>1, <3>1, RowOrNone DEF Relies, Free
    <3>3. \A u \in Tokens : lockedBy[u] = d => lockedBy'[u] = d
      BY <1>2 DEF Unlocked
    <3>4. \A u \in Issued : u \in Tokens
      BY DEF Issued
    <3> QED BY <1>3, <3>1, <3>2, <3>3, <3>4 DEF Relies, Live, Exists
  <2> QED BY <2>1, <2>2 DEF Staged
<1> QED BY <1>1, <1>4, <1>5, <1>6, RevocationKeeps

-----------------------------------------------------------------------------

LEMMA InitIInv == Init => IInv
<1> SUFFICES ASSUME Init PROVE IInv
  OBVIOUS
<1>1. Issued = {}
  BY DEF Init, Issued, Exists
<1>2. TypeOK
  BY DEF Init, TypeOK, Stages, NoRequest, Roles
<1> QED BY <1>1, <1>2 DEF Init, IInv, Staged, Relies, Rooted, OneLive, LateGone, NoRequest

LEMMA NextIInv == IInv /\ [Next]_vars => IInv'
<1> SUFFICES ASSUME IInv, [Next]_vars PROVE IInv'
  OBVIOUS
<1>1. ASSUME NEW t \in Tokens, Logout(t) PROVE IInv'
  BY <1>1, LogoutKeeps
<1>2. ASSUME NEW m \in Members, NEW r \in Roles, UpdateRole(m, r) PROVE IInv'
  BY <1>2, RoleKeeps
<1>3. ASSUME NEW c \in Requests, Progress(c) PROVE IInv'
  BY <1>3, IssueKeeps, RotateKeeps, FinishKeeps DEF Progress
<1>4. ASSUME NEW c \in Requests, PostLogin(c) PROVE IInv'
  BY <1>4, ChooseKeeps DEF PostLogin
<1>5. ASSUME NEW c \in Requests, NEW t \in Tokens,
             Reused(c, t) \/ RoleRefused(c, t) \/ Accept(c, t)
      PROVE  IInv'
  <2> DEFINE F == FamilyOf(t) \cap Unrevoked
  <2>1. F \in SUBSET Issued
    BY DEF Unrevoked
  <2>0. Exists(t) => t \in Issued
    BY DEF Issued
  <2>2. CASE Reused(c, t)
    BY <2>0, <2>1, <2>2, RevokingKeeps DEF Reused
  <2>3. CASE RoleRefused(c, t)
    BY <2>0, <2>1, <2>3, RevokingKeeps DEF RoleRefused
  <2>4. CASE Accept(c, t)
    BY <2>4, AcceptKeeps
  <2> QED BY <1>5, <2>2, <2>3, <2>4
<1>6. ASSUME NEW c \in Requests, ResetPassword(c) PROVE IInv'
  <2>1. Unrevoked \in SUBSET Issued
    BY DEF Unrevoked
  <2> QED BY <1>6, <2>1, RevokingKeeps DEF ResetPassword, rowVars
<1>7. ASSUME NEW c \in Requests, NEW m \in Members, Deactivate(c, m) PROVE IInv'
  <2>1. {t \in Unrevoked : tok[t].member = m} \in SUBSET Issued
    BY DEF Unrevoked
  <2> QED BY <1>7, <2>1, RevokingKeeps DEF Deactivate, rowVars
<1>8. ASSUME NEW c \in Requests, RollBack(c) PROVE IInv'
  BY <1>8, RollingBackKeeps
<1>9. CASE UNCHANGED vars
  <2>1. TypeOK' /\ Staged'
    BY <1>9 DEF vars, rowVars, memberVars, requestVars, IInv, TypeOK, Staged, Relies, Issued, Exists, Live
  <2> QED BY <1>9, <2>1, RowsUntouched DEF vars, rowVars, memberVars
<1> QED BY <1>1, <1>2, <1>3, <1>4, <1>5, <1>6, <1>7, <1>8, <1>9
       DEF Next, PostLogout, Arrive, PostRefresh, PostReset, Fail, DeadlockVictim

LEMMA AlwaysIInv == Spec => []IInv
BY InitIInv, NextIInv, PTL DEF Spec

(***************************************************************************)
(* Rows, locks, memberships and requests keep their types.                   *)
(***************************************************************************)
THEOREM TypeCorrect == Spec => []TypeOK
BY AlwaysIInv, PTL DEF IInv

(***************************************************************************)
(* A token inserted after its membership was removed is never exchanged.     *)
(***************************************************************************)
THEOREM LateTokensDead == Spec => []LateTokensAreDead
<1>1. IInv => LateTokensAreDead
  BY DEF IInv, LateGone, LateTokensAreDead
<1> QED BY <1>1, AlwaysIInv, PTL

-----------------------------------------------------------------------------
(* The refinement of TokenFamily. *)

\* The tokens of a family agree on the family and on the membership, so only
\* what becomes of the living ones matters to it.
LEMMA SameFamilies ==
    ASSUME IInv, Issued' = Issued,
           \A t \in Issued : tok'[t].family = tok[t].family /\ tok'[t].member = tok[t].member
    PROVE  \A f \in Tokens : OwnerOf(f)' = OwnerOf(f)
<1>1. \A f \in Tokens : f \in Issued <=> Exists(f)
  BY DEF Issued
<1>2. \A f \in Tokens : f \in Issued' <=> Exists(f)'
  BY DEF Issued
<1> QED BY <1>1, <1>2 DEF OwnerOf

\* The order of a request that keeps its stage and its memory.
LEMMA SameOrder ==
    ASSUME IInv, NEW d \in Requests, pc'[d] = pc[d], req'[d] = req[d],
           \A t \in Issued : tok'[t].family = tok[t].family
    PROVE  OrderOf(d)' = OrderOf(d)
<1>1. pc[d] = "revoke" /\ req[d].why \notin {"reset", "removal"} => req[d].token \in Issued
  <2>1. req[d].why \in {"none", "reuse", "role", "reset", "removal"}
    BY DEF IInv, TypeOK
  <2> QED BY <2>1 DEF IInv, Staged, Relies
<1> QED BY <1>1 DEF OrderOf

\* A request orders nothing but while it revokes, and only then knows rows.
LEMMA OrderTypes ==
    ASSUME IInv, NEW c \in Requests
    PROVE  /\ pc[c] = "revoke" => OrderOf(c) \in Family!Orders
           /\ pc[c] # "revoke" => OrderOf(c) \notin Family!Orders /\ req[c].held = {}
           /\ pc[c] \notin {"idle", "revoke"} => OrderOf(c) = Family!NoOrder
<1>1. req[c].why \in {"none", "reuse", "role", "reset", "removal"} /\ Relies(c)
  BY DEF IInv, TypeOK, Staged
<1>2. \A t \in Issued : tok[t].family \in Tokens
  BY IssuedRows DEF IInv, Rows
<1>3. ASSUME pc[c] = "revoke" PROVE OrderOf(c) \in Family!Orders
  BY <1>1, <1>2, <1>3 DEF Relies, OrderOf, Family!Orders
<1>4. ASSUME pc[c] # "revoke"
      PROVE  OrderOf(c) \notin Family!Orders /\ req[c].held = {}
  BY <1>1, <1>4 DEF Relies, OrderOf, Family!Orders
<1>5. ASSUME pc[c] \notin {"idle", "revoke"} PROVE OrderOf(c) = Family!NoOrder
  BY <1>1, <1>5 DEF Relies, OrderOf, Family!NoOrder
<1> QED BY <1>3, <1>4, <1>5

\* The rows and the requests are as they were.
LEMMA FamiliesUntouched ==
    ASSUME UNCHANGED <<tok, pc, req>>
    PROVE  UNCHANGED Family!familyVars
BY DEF Family!familyVars, Issued, Exists, Live, OwnerOf, LiveIn, OrderOf, Ending

\* No row is written and one request moves: the families stay as they are.
LEMMA OneMoves ==
    ASSUME IInv, NEW c \in Requests, NEW r, NEW s, UNCHANGED tok,
           pc' = [pc EXCEPT ![c] = s], req' = [req EXCEPT ![c] = r]
    PROVE  /\ Issued' = Issued
           /\ \A f \in Tokens : OwnerOf(f)' = OwnerOf(f) /\ LiveIn(f)' = LiveIn(f)
           /\ pc'[c] = s /\ req'[c] = r
           /\ \A d \in Requests \ {c} : OrderOf(d)' = OrderOf(d) /\ Ending(d)' = Ending(d)
<1>1. Issued' = Issued /\ \A t : Live(t)' = Live(t)
  BY DEF Issued, Exists, Live
<1>2. pc'[c] = s /\ req'[c] = r /\ \A d \in Requests \ {c} : pc'[d] = pc[d] /\ req'[d] = req[d]
  BY DEF IInv, TypeOK
<1>3. \A d \in Requests \ {c} : OrderOf(d)' = OrderOf(d)
  BY <1>2, SameOrder
<1>4. \A f : OwnerOf(f)' = OwnerOf(f) /\ LiveIn(f)' = LiveIn(f)
  BY <1>1 DEF OwnerOf, LiveIn, Exists
<1>5. \A d \in Requests \ {c} : Ending(d)' = Ending(d)
  BY <1>1, <1>2 DEF Ending
<1> QED BY <1>1, <1>2, <1>3, <1>4, <1>5

\* A request that starts something else, or fails, orders nothing.
LEMMA OthersDrop ==
    ASSUME IInv, NEW c \in Requests, NEW r, NEW s, UNCHANGED tok,
           pc' = [pc EXCEPT ![c] = s], req' = [req EXCEPT ![c] = r],
           s # "revoke", ~r.ended, r.held = {}
    PROVE  Family!Next
<1>0. pc'[c] = s /\ req'[c] = r
  BY DEF IInv, TypeOK
<1>1. OrderOf(c)' = Family!NoOrder /\ Ending(c)' = {}
  BY <1>0 DEF OrderOf, Ending, Family!NoOrder
<1>2. \A d \in Requests : OrderOf(d)' = IF d = c THEN Family!NoOrder ELSE OrderOf(d)
  BY <1>1, OneMoves
<1>3. \A d \in Requests : Ending(d)' = IF d = c THEN {} ELSE Ending(d)
  BY <1>1, OneMoves
<1>4. /\ Issued' = Issued
      /\ \A f \in Tokens : OwnerOf(f)' = OwnerOf(f) /\ LiveIn(f)' = LiveIn(f)
  BY OneMoves
<1>5. Family!Drop(c)
  BY <1>2, <1>3, <1>4 DEF Family!Drop
<1> QED BY <1>5 DEF Family!Next

\* The families whose living token is among the rows of S.
Rowed(S) == {f \in Tokens : \E t \in S : Live(t) /\ tok[t].family = f}

\* The rows a revocation finds are those of the families it is to end.
LEMMA RevocationsAsk ==
    ASSUME IInv, NEW c \in Requests, pc[c] # "revoke", UNCHANGED tok,
           NEW w, NEW m, NEW p, NEW S \in SUBSET Issued, StartRevoking(c, w, m, p, S),
           NEW o \in Family!Orders, OrderOf(c)' = o, Rowed(S) = Family!Reach(o)
    PROVE  Family!Next
<1> DEFINE r == [NoRequest EXCEPT !.why = w, !.member = m, !.token = p, !.held = S]
<1>1. pc' = [pc EXCEPT ![c] = "revoke"] /\ req' = [req EXCEPT ![c] = r] /\ r.held = S
  BY DEF StartRevoking, NoRequest
<1> HIDE DEF r
<1>2. \A d \in Requests : OrderOf(d)' = IF d = c THEN o ELSE OrderOf(d)
  BY <1>1, OneMoves
<1>a. Ending(c)' = Family!Reach(o)
  <2>1. req'[c].held = S /\ \A t : Live(t)' = Live(t)
    BY <1>1 DEF IInv, TypeOK, Live, Exists
  <2> QED BY <2>1 DEF Ending, Rowed
<1>3. \A d \in Requests : Ending(d)' = IF d = c THEN Family!Reach(o) ELSE Ending(d)
  BY <1>1, <1>a, OneMoves
<1>4. OrderOf(c) \notin Family!Orders
  BY OrderTypes
<1>5. /\ Issued' = Issued
      /\ \A f \in Tokens : OwnerOf(f)' = OwnerOf(f) /\ LiveIn(f)' = LiveIn(f)
  BY <1>1, OneMoves
<1>6. Family!Ask(c, o)
  BY <1>2, <1>3, <1>4, <1>5 DEF Family!Ask
<1> QED BY <1>6 DEF Family!Next

\* All of the user's families, a membership's, or one.
LEMMA ReachOfRows ==
    ASSUME IInv
    PROVE  /\ Rowed(Unrevoked) = Family!Reach([kind |-> "all", of |-> None])
           /\ \A m \in Members : Rowed({t \in Unrevoked : tok[t].member = m})
                                   = Family!Reach([kind |-> "member", of |-> m])
           /\ \A t \in Issued : Rowed(FamilyOf(t) \cap Unrevoked)
                                   = Family!Reach([kind |-> "family", of |-> tok[t].family])
<1>1. \A t \in Issued : Live(t) => t \in Unrevoked /\ tok[t].family \in Tokens
  BY IssuedRows DEF IInv, Live, Unrevoked, Rows
<1>2. \A t \in Unrevoked : t \in Issued
  BY DEF Unrevoked
<1>3. \A f \in Tokens : LiveIn(f) # {} <=> \E t \in Issued : Live(t) /\ tok[t].family = f
  BY DEF LiveIn
<1>4. \A f \in Tokens : \A t \in Issued : tok[t].family = f => OwnerOf(f) = tok[t].member
  BY DEF IInv, Rooted, OwnerOf, Issued
<1>5. Rowed(Unrevoked) = Family!Reach([kind |-> "all", of |-> None])
  BY <1>1, <1>2, <1>3 DEF Rowed, Family!Reach
<1>6. ASSUME NEW m \in Members
      PROVE  Rowed({t \in Unrevoked : tok[t].member = m})
               = Family!Reach([kind |-> "member", of |-> m])
  <2> DEFINE S == {t \in Unrevoked : tok[t].member = m}
             o == [kind |-> "member", of |-> m]
  <2>1. Family!Reach(o) = {f \in Tokens : LiveIn(f) # {} /\ OwnerOf(f) = m}
    BY DEF Family!Reach
  <2>2. ASSUME NEW f \in Rowed(S) PROVE f \in Family!Reach(o)
    BY <1>2, <1>3, <1>4, <2>1 DEF Rowed
  <2>3. ASSUME NEW f \in Family!Reach(o) PROVE f \in Rowed(S)
    <3>1. f \in Tokens /\ LiveIn(f) # {} /\ OwnerOf(f) = m
      BY <2>1
    <3>2. PICK t \in Issued : Live(t) /\ tok[t].family = f
      BY <1>3, <3>1
    <3> QED BY <1>1, <1>4, <3>1, <3>2 DEF Rowed
  <2> QED BY <2>2, <2>3
<1>7. ASSUME NEW t \in Issued
      PROVE  Rowed(FamilyOf(t) \cap Unrevoked)
               = Family!Reach([kind |-> "family", of |-> tok[t].family])
  BY <1>1, <1>2, <1>3 DEF Rowed, Family!Reach, FamilyOf
<1> QED BY <1>5, <1>6, <1>7

LEMMA ReuseAsks ==
    ASSUME IInv, NEW c \in Requests, NEW t \in Tokens, Reused(c, t) \/ RoleRefused(c, t)
    PROVE  Family!Next
<1>1. PICK w \in {"reuse", "role"} : StartRevoking(c, w, None, t, FamilyOf(t) \cap Unrevoked)
  BY DEF Reused, RoleRefused
<1>2. t \in Issued /\ pc[c] = "idle" /\ UNCHANGED tok
  BY DEF Reused, RoleRefused, Issued
<1>3. pc'[c] = "revoke" /\ req'[c].why = w /\ req'[c].token = t
  BY <1>1 DEF StartRevoking, NoRequest, IInv, TypeOK
<1> DEFINE o == [kind |-> "family", of |-> tok[t].family]
<1>4. o \in Family!Orders
  BY <1>2, IssuedRows DEF IInv, Rows, Family!Orders
<1>5. OrderOf(c)' = o
  BY <1>2, <1>3 DEF OrderOf
<1>6. Rowed(FamilyOf(t) \cap Unrevoked) = Family!Reach(o)
  BY <1>2, ReachOfRows
<1>7. FamilyOf(t) \cap Unrevoked \in SUBSET Issued
  BY DEF Unrevoked
<1> HIDE DEF o
<1> QED BY <1>1, <1>2, <1>4, <1>5, <1>6, <1>7, RevocationsAsk

LEMMA ResetAsks ==
    ASSUME IInv, NEW c \in Requests, ResetPassword(c)
    PROVE  Family!Next
<1> DEFINE o == [kind |-> "all", of |-> None]
<1>1. pc[c] = "idle" /\ UNCHANGED tok /\ StartRevoking(c, "reset", None, None, Unrevoked)
  BY DEF ResetPassword, rowVars
<1>2. pc'[c] = "revoke" /\ req'[c].why = "reset"
  BY <1>1 DEF StartRevoking, NoRequest, IInv, TypeOK
<1>3. o \in Family!Orders /\ OrderOf(c)' = o
  BY <1>2 DEF Family!Orders, OrderOf
<1>4. Rowed(Unrevoked) = Family!Reach(o) /\ Unrevoked \in SUBSET Issued
  BY ReachOfRows DEF Unrevoked
<1> HIDE DEF o
<1> QED BY <1>1, <1>3, <1>4, RevocationsAsk

LEMMA RemovalAsks ==
    ASSUME IInv, NEW c \in Requests, NEW m \in Members, Deactivate(c, m)
    PROVE  Family!Next
<1> DEFINE o == [kind |-> "member", of |-> m]
           S == {t \in Unrevoked : tok[t].member = m}
<1>1. pc[c] = "idle" /\ UNCHANGED tok /\ StartRevoking(c, "removal", m, None, S)
  BY DEF Deactivate, rowVars
<1>2. pc'[c] = "revoke" /\ req'[c].why = "removal" /\ req'[c].member = m
  BY <1>1 DEF StartRevoking, NoRequest, IInv, TypeOK
<1>3. o \in Family!Orders /\ OrderOf(c)' = o
  BY <1>2 DEF Family!Orders, OrderOf
<1>4. Rowed(S) = Family!Reach(o) /\ S \in SUBSET Issued
  BY ReachOfRows DEF Unrevoked
<1> HIDE DEF o, S
<1> QED BY <1>1, <1>3, <1>4, RevocationsAsk

\* A request that inserts a token orders nothing before or after.
LEMMA InsertersOrderNothing ==
    ASSUME IInv, NEW c \in Requests, pc[c] \in {"chosen", "rotate"}, Done(c),
           \A t \in Issued : tok'[t].family = tok[t].family
    PROVE  /\ \A d \in Requests : OrderOf(d)' = OrderOf(d)
           /\ Ending(c) = {} /\ Ending(c)' = {}
           /\ \A d \in Requests \ {c} : req'[d] = req[d]
           /\ \A d \in Requests : req[d].held \subseteq Issued
<1>1. /\ pc'[c] = "idle" /\ req'[c] = NoRequest
      /\ \A d \in Requests \ {c} : pc'[d] = pc[d] /\ req'[d] = req[d]
  BY DEF Done, IInv, TypeOK
<1>2. OrderOf(c)' = Family!NoOrder
  BY <1>1 DEF OrderOf, NoRequest, Family!NoOrder
<1>3. OrderOf(c) = Family!NoOrder /\ req[c].held = {}
  BY OrderTypes
<1>4. \A d \in Requests \ {c} : OrderOf(d)' = OrderOf(d)
  BY <1>1, SameOrder
<1>5. Ending(c) = {} /\ Ending(c)' = {}
  BY <1>1, <1>3 DEF Ending, NoRequest
<1>6. \A d \in Requests : req[d].held \subseteq Issued
  BY DEF IInv, Staged, Relies
<1> QED BY <1>1, <1>2, <1>3, <1>4, <1>5, <1>6

LEMMA IssueBegins ==
    ASSUME IInv, NEW c \in Requests, IssueSession(c)
    PROVE  Family!Next
<1> DEFINE m == req[c].member
           k == req[c].client
<1>1. m \in Members /\ k \in ClientKinds
  BY DEF IInv, Staged, Relies, IssueSession
<1>2. PICK n \in Tokens : n = Fresh /\ ~Exists(n)
  BY FreshIsNew DEF IssueSession
<1>3. PICK r \in Rows : /\ tok' = [tok EXCEPT ![n] = r]
                        /\ r.family = n /\ r.member = m /\ ~r.revoked /\ r.next = None
  <2>1. /\ NewRow(m, n, k) \in Rows /\ NewRow(m, n, k).family = n /\ NewRow(m, n, k).member = m
        /\ ~NewRow(m, n, k).revoked /\ NewRow(m, n, k).next = None
    BY <1>1, RowOfNew DEF IInv
  <2>2. tok' = [tok EXCEPT ![n] = NewRow(m, n, k)]
    BY <1>2 DEF IssueSession
  <2> QED BY <2>1, <2>2
<1> HIDE DEF m, k
<1>4. /\ Issued' = Issued \cup {n} /\ n \notin Issued
      /\ \A t \in Issued : tok'[t] = tok[t]
      /\ \A t \in Tokens \ {n} : tok'[t] = tok[t]
      /\ tok'[n] = r /\ r # None
  BY <1>2, <1>3, RowOrNone DEF IInv, TypeOK, Issued, Exists
<1>5. \A t \in Issued : Live(t)' = Live(t) /\ tok[t].family # n
  BY <1>4 DEF IInv, Rooted, Live, Exists
<1>6. Live(n)'
  BY <1>3, <1>4 DEF Live, Exists
<1>7. \A f \in Tokens : LiveIn(f)' = IF f = n THEN {n} ELSE LiveIn(f)
  BY <1>3, <1>4, <1>5, <1>6 DEF LiveIn
<1>8. \A f \in Tokens : OwnerOf(f)' = IF f = n THEN m ELSE OwnerOf(f)
  BY <1>3, <1>4 DEF OwnerOf, Exists
<1>9. \A d \in Requests : OrderOf(d)' = OrderOf(d) /\ Ending(d)' = Ending(d)
  <2>1. pc[c] = "chosen" /\ Done(c)
    BY DEF IssueSession
  <2>2. /\ \A d \in Requests : OrderOf(d)' = OrderOf(d)
        /\ Ending(c) = {} /\ Ending(c)' = {}
        /\ \A d \in Requests \ {c} : req'[d] = req[d]
        /\ \A d \in Requests : req[d].held \subseteq Issued
    BY <1>4, <2>1, InsertersOrderNothing
  <2>3. \A d \in Requests \ {c} : Ending(d)' = Ending(d)
    BY <1>4, <1>5, <2>2 DEF Ending
  <2> QED BY <2>2, <2>3
<1>10. Family!Begin(n, m)
  BY <1>4, <1>7, <1>8, <1>9 DEF Family!Begin
<1> QED BY <1>1, <1>10 DEF Family!Next, m

LEMMA RotateExchanges ==
    ASSUME IInv, NEW c \in Requests, Rotate(c)
    PROVE  Family!Next
<1>1. PICK t \in Issued : t = req[c].token /\ t \in Tokens /\ Live(t) /\ tok[t] \in Rows
  BY IssuedRows DEF IInv, Staged, Relies, Rotate
<1>2. PICK n \in Tokens : n = Fresh /\ ~Exists(n) /\ n \notin Issued
  BY FreshIsNew DEF Rotate, Issued
<1>3. PICK f \in Tokens : f = tok[t].family
  BY <1>1 DEF Rows
<1>4. PICK r \in Rows : /\ tok' = [tok EXCEPT ![t].next = n, ![n] = r]
                        /\ r.family = f /\ ~r.revoked /\ r.next = None
  <2> DEFINE m == tok[t].member
             k == tok[t].client
  <2>1. m \in Members /\ k \in ClientKinds
    BY <1>1 DEF Rows
  <2>2. /\ NewRow(m, f, k) \in Rows /\ NewRow(m, f, k).family = f
        /\ ~NewRow(m, f, k).revoked /\ NewRow(m, f, k).next = None
    BY <2>1, RowOfNew DEF IInv
  <2>3. tok' = [tok EXCEPT ![t].next = n, ![n] = NewRow(m, f, k)]
    BY <1>1, <1>2, <1>3 DEF Rotate
  <2> QED BY <2>2, <2>3
<1>5. /\ tok'[n] = r /\ r # None
      /\ tok'[t] = [tok[t] EXCEPT !.next = n]
      /\ \A u \in Tokens \ {t, n} : tok'[u] = tok[u]
  BY <1>1, <1>2, <1>4, RowOrNone DEF IInv, TypeOK, Rows
<1>6. /\ n # None /\ tok'[t].next = n /\ tok'[t].family = f /\ tok'[t] # None
      /\ tok'[t].member = tok[t].member
  BY <1>1, <1>2, <1>3, <1>5, RowOrNone DEF Rows
<1>7. /\ Issued' = Issued \cup {n}
      /\ \A u \in Issued \ {t} : tok'[u] = tok[u]
  BY <1>1, <1>2, <1>5, <1>6 DEF Issued, Exists
<1>8. ~Live(t)' /\ Live(n)'
  BY <1>4, <1>5, <1>6 DEF Live, Exists
<1>9. \A u \in Issued \ {t} : Live(u)' = Live(u)
  BY <1>7 DEF Live, Exists
<1>10. LiveIn(f) = {t}
  BY <1>1, <1>3 DEF IInv, OneLive, LiveIn
<1>11. \A g \in Tokens : LiveIn(g)' = IF g = f THEN {n} ELSE LiveIn(g)
  <2>1. LiveIn(f)' = {n}
    <3>1. n \in LiveIn(f)' /\ t \notin LiveIn(f)'
      BY <1>4, <1>5, <1>7, <1>8 DEF LiveIn
    <3>2. ASSUME NEW u \in Issued \ {t}, u \in LiveIn(f)' PROVE u \in LiveIn(f)
      BY <1>7, <1>9, <3>2 DEF LiveIn
    <3>3. LiveIn(f)' \subseteq Issued \cup {n}
      BY <1>7 DEF LiveIn
    <3> QED BY <1>10, <3>1, <3>2, <3>3
  <2>2. ASSUME NEW g \in Tokens, g # f PROVE LiveIn(g)' = LiveIn(g)
    BY <1>3, <1>4, <1>5, <1>6, <1>7, <1>9, <2>2 DEF LiveIn
  <2> QED BY <2>1, <2>2
<1>12. \A u \in Issued : tok'[u].family = tok[u].family
  BY <1>3, <1>6, <1>7
<1>13. \A g \in Tokens : OwnerOf(g)' = OwnerOf(g)
  <2>1. f \in Issued /\ n # f
    BY <1>1, <1>2, <1>3 DEF IInv, Rooted
  <2>2. OwnerOf(n) = None /\ OwnerOf(n)' = None
    BY <1>2, <1>4, <1>5, <2>1 DEF OwnerOf
  <2>3. OwnerOf(t)' = OwnerOf(t)
    BY <1>1, <1>3, <1>6 DEF OwnerOf, Exists, Issued
  <2>4. \A g \in Tokens \ {t, n} : OwnerOf(g)' = OwnerOf(g)
    BY <1>5 DEF OwnerOf, Exists
  <2> QED BY <2>2, <2>3, <2>4
<1>14. \A d \in Requests : OrderOf(d)' = OrderOf(d) /\ Ending(d)' = Ending(d) \ {f}
  <2>1. pc[c] = "rotate" /\ Done(c)
    BY DEF Rotate
  <2>2. /\ \A d \in Requests : OrderOf(d)' = OrderOf(d)
        /\ Ending(c) = {} /\ Ending(c)' = {}
        /\ \A d \in Requests \ {c} : req'[d] = req[d]
        /\ \A d \in Requests : req[d].held \subseteq Issued
    BY <1>12, <2>1, InsertersOrderNothing
  <2>3. ASSUME NEW d \in Requests \ {c} PROVE Ending(d)' = Ending(d) \ {f}
    <3>1. \A u \in Issued : Live(u) /\ tok[u].family = f => u = t
      BY <1>1, <1>3 DEF IInv, OneLive
    <3>2. \A u \in req[d].held :
             Live(u)' /\ tok'[u].family \in Tokens
               <=> Live(u) /\ tok[u].family \in Tokens \ {f}
      BY <1>3, <1>8, <1>9, <1>12, <2>2, <3>1
    <3> QED BY <1>12, <2>2, <3>1, <3>2 DEF Ending
  <2> QED BY <2>2, <2>3
<1>15. Family!Exchange(f, t, n)
  BY <1>2, <1>7, <1>10, <1>11, <1>13, <1>14 DEF Family!Exchange, Family!WithoutDue
<1> QED BY <1>1, <1>15 DEF Family!Next

\* Revoking the rows of S ends the families whose living token is among them,
\* for everyone who meant to end them.
LEMMA RevokedFamilies ==
    ASSUME IInv, NEW S \in SUBSET Issued, tok' = Revoke(S)
    PROVE  /\ Issued' = Issued
           /\ \A u \in Issued : tok'[u].family = tok[u].family
           /\ \A f \in Tokens : OwnerOf(f)' = OwnerOf(f)
           /\ \A f \in Tokens : LiveIn(f)' = IF f \in Rowed(S) THEN {} ELSE LiveIn(f)
           /\ \A d \in Requests : req'[d].held = req[d].held => Ending(d)' = Ending(d) \ Rowed(S)
<1>1. /\ Issued' = Issued
      /\ \A u \in Issued \ S : tok'[u] = tok[u]
      /\ \A u \in S : tok'[u].revoked
      /\ \A u \in Issued : tok'[u].family = tok[u].family /\ tok'[u].member = tok[u].member
  BY RevokedRows DEF IInv
<1>2. \A u \in Issued : Live(u)' <=> Live(u) /\ u \notin S
  BY <1>1 DEF Live, Exists
<1>3. ASSUME NEW f \in Tokens PROVE LiveIn(f)' = IF f \in Rowed(S) THEN {} ELSE LiveIn(f)
  <2>1. CASE f \in Rowed(S)
    BY <1>1, <1>2, <2>1 DEF IInv, OneLive, LiveIn, Rowed
  <2>2. CASE f \notin Rowed(S)
    BY <1>1, <1>2, <2>2 DEF LiveIn, Rowed
  <2> QED BY <2>1, <2>2
<1>4. ASSUME NEW d \in Requests, req'[d].held = req[d].held
      PROVE  Ending(d)' = Ending(d) \ Rowed(S)
  <2>1. req[d].held \subseteq Issued
    BY DEF IInv, Staged, Relies
  <2>2. \A u, v \in Issued : Live(u) /\ Live(v) /\ tok[u].family = tok[v].family => u = v
    BY DEF IInv, OneLive
  <2> QED BY <1>1, <1>2, <1>4, <2>1, <2>2 DEF Ending, Rowed
<1>5. \A f \in Tokens : OwnerOf(f)' = OwnerOf(f)
  BY <1>1, SameFamilies
<1> QED BY <1>1, <1>3, <1>4, <1>5

\* A revocation that goes through ends what was due.
LEMMA FinishEnds ==
    ASSUME IInv, NEW c \in Requests, FinishRevoking(c)
    PROVE  Family!Next
<1> DEFINE S == req[c].held
<1>1. pc[c] = "revoke" /\ S \in SUBSET Issued /\ tok' = Revoke(S)
  BY DEF IInv, Staged, Relies, FinishRevoking
<1>2. /\ pc'[c] = "idle" /\ req'[c] = [NoRequest EXCEPT !.ended = TRUE]
      /\ \A d \in Requests \ {c} : pc'[d] = pc[d] /\ req'[d] = req[d]
  BY DEF FinishRevoking, IInv, TypeOK
<1>3. Rowed(S) = Ending(c)
  BY DEF Rowed, Ending
<1>4. OrderOf(c)' = Family!Ended /\ Ending(c)' = {}
  BY <1>2 DEF OrderOf, Family!Ended, Ending, NoRequest
<1> HIDE DEF S
<1>5. /\ Issued' = Issued
      /\ \A f \in Tokens : OwnerOf(f)' = OwnerOf(f)
      /\ \A f \in Tokens : LiveIn(f)' = IF f \in Ending(c) THEN {} ELSE LiveIn(f)
      /\ \A u \in Issued : tok'[u].family = tok[u].family
      /\ \A d \in Requests : req'[d].held = req[d].held => Ending(d)' = Ending(d) \ Ending(c)
  BY <1>1, <1>3, RevokedFamilies
<1>6. \A d \in Requests : OrderOf(d)' = IF d = c THEN Family!Ended ELSE OrderOf(d)
  BY <1>2, <1>4, <1>5, SameOrder
<1>7. \A d \in Requests : Ending(d)' = Ending(d) \ Ending(c)
  BY <1>2, <1>4, <1>5
<1>8. OrderOf(c) \in Family!Orders
  BY <1>1, OrderTypes
<1>9. Family!End(c)
  BY <1>5, <1>6, <1>7, <1>8 DEF Family!End, Family!Emptied, Family!WithoutDue
<1> QED BY <1>9 DEF Family!Next

\* A logout closes the family of a living token, and nothing otherwise.
LEMMA LogoutCloses ==
    ASSUME IInv, NEW t \in Tokens, Logout(t)
    PROVE  [Family!Next]_Family!familyVars
<1>1. t \in Issued /\ tok' = Revoke({t}) /\ UNCHANGED <<pc, req>>
  BY LogoutRevokes DEF IInv, Logout, requestVars
<1> DEFINE f == tok[t].family
<1>2. f \in Tokens
  BY <1>1, IssuedRows DEF IInv, Rows
<1>3. /\ Issued' = Issued
      /\ \A g \in Tokens : OwnerOf(g)' = OwnerOf(g)
      /\ \A g \in Tokens : LiveIn(g)' = IF g \in Rowed({t}) THEN {} ELSE LiveIn(g)
      /\ \A u \in Issued : tok'[u].family = tok[u].family
      /\ \A d \in Requests : Ending(d)' = Ending(d) \ Rowed({t})
  BY <1>1, RevokedFamilies
<1>4. \A d \in Requests : OrderOf(d)' = OrderOf(d)
  BY <1>1, <1>3, SameOrder
<1>5. CASE Live(t)
  <2>1. Rowed({t}) = {f}
    BY <1>2, <1>5 DEF Rowed
  <2> HIDE DEF f
  <2>2. Family!Close(f)
    BY <1>3, <1>4, <2>1 DEF Family!Close, Family!Emptied, Family!WithoutDue
  <2> QED BY <1>2, <2>2 DEF Family!Next
<1>6. CASE ~Live(t)
  <2>1. Rowed({t}) = {}
    BY <1>6 DEF Rowed
  <2> QED BY <1>3, <1>4, <2>1 DEF Family!familyVars
<1> QED BY <1>5, <1>6

(***************************************************************************)
(* Refresh tokens as the code keeps them implement TokenFamily: whatever      *)
(* requests overlap and fail, a family has at most one token that can be     *)
(* exchanged, an exchange retires it, an ended family stays ended, and a      *)
(* reuse, reset or removal that goes through has ended every family that was  *)
(* alive when it began and was not exchanged before it finished.             *)
(***************************************************************************)
THEOREM FamiliesKept == Spec => KeepsFamilies
<1>1. Init => Family!Init
  <2> SUFFICES ASSUME Init PROVE Family!Init
    OBVIOUS
  <2>1. Issued = {} /\ \A f \in Tokens : ~Exists(f)
    BY DEF Init, Issued, Exists
  <2>2. \A c \in Requests : OrderOf(c) = Family!NoOrder /\ Ending(c) = {}
    BY DEF Init, OrderOf, Ending, NoRequest, Family!NoOrder
  <2>3. \A f \in Tokens : OwnerOf(f) = None /\ LiveIn(f) = {}
    BY <2>1 DEF OwnerOf, LiveIn
  <2> QED BY <2>1, <2>2, <2>3 DEF Family!Init
<1>2. IInv /\ [Next]_vars => [Family!Next]_Family!familyVars
  <2> SUFFICES ASSUME IInv, [Next]_vars PROVE [Family!Next]_Family!familyVars
    OBVIOUS
  <2>1. ASSUME NEW t \in Tokens, Logout(t) PROVE [Family!Next]_Family!familyVars
    BY <2>1, LogoutCloses
  <2>2. ASSUME NEW c \in Requests, Progress(c) PROVE Family!Next
    BY <2>2, IssueBegins, RotateExchanges, FinishEnds DEF Progress
  <2>3. ASSUME NEW c \in Requests, NEW k \in ClientKinds, NEW m \in Members,
               ChooseMembership(c, k, m)
        PROVE  Family!Next
    <3> DEFINE r == [NoRequest EXCEPT !.member = m, !.client = k]
    <3>1. /\ UNCHANGED tok /\ pc' = [pc EXCEPT ![c] = "chosen"] /\ req' = [req EXCEPT ![c] = r]
          /\ ~r.ended /\ r.held = {}
      BY <2>3 DEF ChooseMembership, NoRequest, rowVars
    <3> HIDE DEF r
    <3> QED BY <3>1, OthersDrop
  <2>4. ASSUME NEW c \in Requests, NEW t \in Tokens, Accept(c, t) PROVE Family!Next
    <3> DEFINE r == [NoRequest EXCEPT !.token = t]
    <3>1. /\ UNCHANGED tok /\ pc' = [pc EXCEPT ![c] = "rotate"] /\ req' = [req EXCEPT ![c] = r]
          /\ ~r.ended /\ r.held = {}
      BY <2>4 DEF Accept, NoRequest
    <3> HIDE DEF r
    <3> QED BY <3>1, OthersDrop
  <2>5. ASSUME NEW c \in Requests, RollBack(c) PROVE Family!Next
    <3>1. /\ UNCHANGED tok /\ pc' = [pc EXCEPT ![c] = "idle"]
          /\ req' = [req EXCEPT ![c] = NoRequest] /\ ~NoRequest.ended /\ NoRequest.held = {}
      BY <2>5 DEF RollBack, Done, NoRequest
    <3> QED BY <3>1, OthersDrop
  <2>6. ASSUME NEW m \in Members, NEW r \in Roles, UpdateRole(m, r)
        PROVE  UNCHANGED Family!familyVars
    BY <2>6, FamiliesUntouched DEF UpdateRole, rowVars, requestVars
  <2>7. CASE UNCHANGED vars
    BY <2>7, FamiliesUntouched DEF vars, rowVars, requestVars
  <2> QED BY <2>1, <2>2, <2>3, <2>4, <2>5, <2>6, <2>7, ReuseAsks, ResetAsks, RemovalAsks
         DEF Next, PostLogout, Arrive, PostLogin, PostRefresh, PostReset, Fail, DeadlockVictim
<1> QED BY <1>1, <1>2, AlwaysIInv, PTL DEF Spec, KeepsFamilies, Family!Spec
=============================================================================
