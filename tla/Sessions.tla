------------------------------ MODULE Sessions ------------------------------
(***************************************************************************)
(* Sessions of one user (internal/auth): the refresh tokens of the user's    *)
(* memberships, as concurrent requests change them under READ COMMITTED.    *)
(* A row lock is taken by SELECT .. FOR UPDATE and kept to the end of the    *)
(* transaction.  A bulk UPDATE works on the rows its statement finds (held)  *)
(* and waits for those that are locked; rows committed later are not seen.   *)
(***************************************************************************)
EXTENDS Integers, FiniteSets

CONSTANTS Tokens,       \* refresh_tokens rows that may come to exist
          Members,      \* the user's memberships, one per organization
          Requests,     \* requests under way
          None

ClientKinds == {"dashboard", "mobile"}
Roles == {"owner", "employee"}

Rows == [member : Members, family : Tokens, client : ClientKinds,
         revoked : BOOLEAN, next : Tokens \cup {None}, late : BOOLEAN]

ASSUME SessionAssumption == None \notin Tokens \cup Members \cup Requests \cup Rows

VARIABLES tok,          \* refresh_tokens; late is history, see NewRow
          lockedBy,     \* row locks on refresh_tokens
          active,       \* memberships.deleted_at IS NULL
          role,         \* memberships.role
          pc,           \* next statement of a request
          req           \* what it holds in memory

rowVars     == <<tok, lockedBy>>
memberVars  == <<active, role>>
requestVars == <<pc, req>>
vars == <<rowVars, memberVars, requestVars>>

Stages == {"idle", "chosen", "rotate", "revoke"}

\* ended is history: the last revocation of this client went through.
NoRequest == [member |-> None, client |-> None, token |-> None,
              held |-> {}, why |-> "none", ended |-> FALSE]

TypeOK ==
    /\ tok \in [Tokens -> Rows \cup {None}]
    /\ lockedBy \in [Tokens -> Requests \cup {None}]
    /\ active \in [Members -> BOOLEAN]
    /\ role \in [Members -> Roles]
    /\ pc \in [Requests -> Stages]
    /\ req \in [Requests -> [member : Members \cup {None}, client : ClientKinds \cup {None},
                             token : Tokens \cup {None}, held : SUBSET Tokens,
                             why : {"none", "reuse", "role", "reset", "removal"},
                             ended : BOOLEAN]]

\* A user who has just registered: no session yet.
Init ==
    /\ tok = [t \in Tokens |-> None]
    /\ lockedBy = [t \in Tokens |-> None]
    /\ active = [m \in Members |-> TRUE]
    /\ role = [m \in Members |-> "owner"]
    /\ pc = [c \in Requests |-> "idle"]
    /\ req = [c \in Requests |-> NoRequest]

-----------------------------------------------------------------------------
Exists(t) == tok[t] # None
Issued == {t \in Tokens : Exists(t)}
\* Identifiers are new, which one does not matter.
Fresh == CHOOSE t \in Tokens : ~Exists(t)
Unrevoked == {t \in Issued : ~tok[t].revoked}
\* Mutant: a family revocation revokes the token presented.
FamilyOfOne(t) == {t}

FamilyOf(t) == {u \in Issued : tok[u].family = tok[t].family}

\* Can be exchanged.  A row may expire at any time: it is then refused without
\* a trace, as if it had not been presented.
Live(t) == Exists(t) /\ ~tok[t].revoked /\ tok[t].next = None

Free(c, S) == \A t \in S : lockedBy[t] \in {None, c}

MayUse(m, client) == client # "dashboard" \/ role[m] # "employee"

\* Bound: a request that will issue a token starts only if one is left for it.
Room == Cardinality(Issued) + Cardinality({c \in Requests : pc[c] \in {"chosen", "rotate"}})
            < Cardinality(Tokens)

Done(c) ==
    /\ pc' = [pc EXCEPT ![c] = "idle"]
    /\ req' = [req EXCEPT ![c] = NoRequest]

Unlocked(c) == [t \in Tokens |-> IF lockedBy[t] = c THEN None ELSE lockedBy[t]]

\* Mutant: the successor's row does not carry the family on.
NewRowAlone(m, family, client) ==
    [member |-> m, family |-> None, client |-> client, revoked |-> FALSE,
     next |-> None, late |-> ~active[m]]

\* late: the membership was removed before the row was committed.
NewRow(m, family, client) ==
    [member |-> m, family |-> family, client |-> client, revoked |-> FALSE,
     next |-> None, late |-> ~active[m]]

-----------------------------------------------------------------------------
(***************************************************************************)
(* Login: the password and the memberships are read, one membership is       *)
(* chosen, and the session is a transaction of its own.  A refused attempt   *)
(* changes nothing here.                                                    *)
(***************************************************************************)

ChooseMembership(c, client, m) ==
    /\ pc[c] = "idle" /\ Room
    /\ active[m] /\ MayUse(m, client)
    /\ pc' = [pc EXCEPT ![c] = "chosen"]
    /\ req' = [req EXCEPT ![c] = [NoRequest EXCEPT !.member = m, !.client = client]]
    /\ UNCHANGED <<rowVars, memberVars>>

IssueSession(c) ==
    /\ pc[c] = "chosen"
    /\ Tokens # Issued
    /\ tok' = [tok EXCEPT ![Fresh] = NewRow(req[c].member, Fresh, req[c].client)]
    /\ Done(c)
    /\ UNCHANGED <<lockedBy, memberVars>>

-----------------------------------------------------------------------------
(***************************************************************************)
(* Refresh.  The row is locked and judged; a token already exchanged or      *)
(* revoked, or a role that lost the dashboard, ends the family; otherwise    *)
(* the successor is inserted and linked.                                    *)
(***************************************************************************)

TakeLock(c, t) ==
    /\ Free(c, {t})
    /\ lockedBy' = [lockedBy EXCEPT ![t] = c]

\* Mutant: the membership is found whether or not it was removed.
MemberFoundAnyway(m) == TRUE

MemberFound(m) == active[m]

Spent(t) == tok[t].revoked \/ tok[t].next # None

StartRevoking(c, why, m, t, found) ==
    /\ pc' = [pc EXCEPT ![c] = "revoke"]
    /\ req' = [req EXCEPT ![c] = [NoRequest EXCEPT !.why = why, !.member = m,
                                                  !.token = t, !.held = found]]

Reused(c, t) ==
    /\ pc[c] = "idle"
    /\ Exists(t) /\ Spent(t)
    /\ TakeLock(c, t)
    /\ StartRevoking(c, "reuse", None, t, FamilyOf(t) \cap Unrevoked)
    /\ UNCHANGED <<tok, memberVars>>

RoleRefused(c, t) ==
    /\ pc[c] = "idle"
    /\ Exists(t) /\ ~Spent(t)
    /\ MemberFound(tok[t].member) /\ ~MayUse(tok[t].member, tok[t].client)
    /\ TakeLock(c, t)
    /\ StartRevoking(c, "role", None, t, FamilyOf(t) \cap Unrevoked)
    /\ UNCHANGED <<tok, memberVars>>

\* A removed membership is answered without a trace.
Accept(c, t) ==
    /\ pc[c] = "idle" /\ Room
    /\ Exists(t) /\ ~Spent(t)
    /\ MemberFound(tok[t].member) /\ MayUse(tok[t].member, tok[t].client)
    /\ TakeLock(c, t)
    /\ pc' = [pc EXCEPT ![c] = "rotate"]
    /\ req' = [req EXCEPT ![c] = [NoRequest EXCEPT !.token = t]]
    /\ UNCHANGED <<tok, memberVars>>

Rotate(c) ==
    /\ pc[c] = "rotate"
    /\ Tokens # Issued
    /\ LET t == req[c].token
       IN  tok' = [tok EXCEPT ![t].next = Fresh,
                              ![Fresh] = NewRow(tok[t].member, tok[t].family, tok[t].client)]
    /\ lockedBy' = Unlocked(c)
    /\ Done(c)
    /\ UNCHANGED <<memberVars>>

\* Logout finds the row locked or free, and revokes it alone.
RevokeOne(t) == [tok EXCEPT ![t].revoked = TRUE]

Logout(t) ==
    /\ Exists(t) /\ lockedBy[t] = None
    /\ tok' = RevokeOne(t)
    /\ UNCHANGED <<lockedBy, memberVars, requestVars>>

-----------------------------------------------------------------------------
(***************************************************************************)
(* ResetPassword and Deactivate end with a bulk revocation; the rows of the  *)
(* user and of the membership, written before it, let one at a time through. *)
(***************************************************************************)

Revoking(why, m) == \E c \in Requests : req[c].why = why /\ req[c].member = m

\* UpdatePassword and the start of RevokeAllByUserID.
ResetPassword(c) ==
    /\ pc[c] = "idle"
    /\ ~Revoking("reset", None)
    /\ StartRevoking(c, "reset", None, None, Unrevoked)
    /\ UNCHANGED <<rowVars, memberVars>>

\* Member.Deactivate and the start of RevokeAllByMembershipID.
Deactivate(c, m) ==
    /\ pc[c] = "idle"
    /\ active[m] /\ ~Revoking("removal", m)
    /\ StartRevoking(c, "removal", m, None, {t \in Unrevoked : tok[t].member = m})
    /\ UNCHANGED <<rowVars, memberVars>>

UpdateRole(m, r) ==
    /\ active[m] /\ role[m] # r
    /\ role' = [role EXCEPT ![m] = r]
    /\ UNCHANGED <<rowVars, active, requestVars>>

Revoke(S) == [t \in Tokens |-> IF t \in S THEN [tok[t] EXCEPT !.revoked = TRUE] ELSE tok[t]]

\* The UPDATE gets the rows it waited for, and the transaction commits.
FinishRevoking(c) ==
    /\ pc[c] = "revoke"
    /\ Free(c, req[c].held)
    /\ tok' = Revoke(req[c].held)
    /\ lockedBy' = Unlocked(c)
    /\ active' = IF req[c].why = "removal"
                 THEN [active EXCEPT ![req[c].member] = FALSE] ELSE active
    /\ pc' = [pc EXCEPT ![c] = "idle"]
    /\ req' = [req EXCEPT ![c] = [NoRequest EXCEPT !.ended = TRUE]]
    /\ UNCHANGED role

-----------------------------------------------------------------------------
(***************************************************************************)
(* Failures: a rollback gives the locks back.                               *)
(***************************************************************************)

\* Mutant: a transaction that fails keeps its row locks.
RollBackKeeps(c) == Done(c) /\ UNCHANGED <<rowVars, memberVars>>

RollBack(c) ==
    /\ lockedBy' = Unlocked(c)
    /\ Done(c)
    /\ UNCHANGED <<tok, memberVars>>

Fail(c) == pc[c] # "idle" /\ RollBack(c)

WaitsFor(c) ==
    IF pc[c] = "revoke" THEN {lockedBy[t] : t \in req[c].held} \ {c, None} ELSE {}

\* PostgreSQL aborts a transaction of a cycle of waiting ones.
DeadlockVictim(c) ==
    /\ \E S \in SUBSET Requests : c \in S /\ \A d \in S : WaitsFor(d) \cap S # {}
    /\ RollBack(c)

-----------------------------------------------------------------------------
Progress(c) == IssueSession(c) \/ Rotate(c) \/ FinishRevoking(c)

\* The endpoints.  How often one may try a login is left out.
PostLogin(c) == \E client \in ClientKinds, m \in Members : ChooseMembership(c, client, m)
PostRefresh(c) == \E t \in Tokens : Reused(c, t) \/ RoleRefused(c, t) \/ Accept(c, t)
PostLogout == \E t \in Tokens : Logout(t)
PostReset(c) == ResetPassword(c)

Arrive(c) ==
    \/ PostLogin(c) \/ PostRefresh(c) \/ PostReset(c)
    \/ \E m \in Members : Deactivate(c, m)

Next ==
    \/ PostLogout
    \/ \E m \in Members, r \in Roles : UpdateRole(m, r)
    \/ \E c \in Requests : Progress(c) \/ Arrive(c) \/ Fail(c) \/ DeadlockVictim(c)

\* A request's statements run; a waiter of row locks is served in its turn;
\* PostgreSQL breaks deadlocks.  Users and failures are not fair.
Fairness ==
    \A c \in Requests :
        /\ WF_vars(IssueSession(c)) /\ WF_vars(Rotate(c))
        /\ SF_vars(FinishRevoking(c))
        /\ WF_vars(DeadlockVictim(c))

Spec == Init /\ [][Next]_vars /\ Fairness

-----------------------------------------------------------------------------
(***************************************************************************)
(* Properties.                                                              *)
(***************************************************************************)

(***************************************************************************)
(* A token inserted after its membership was removed, by a login or refresh  *)
(* that overlapped the removal and that Deactivate's UPDATE therefore missed,*)
(* is a dead end: no refresh exchanges it (the re-read in Refresh).          *)
(***************************************************************************)
LateTokensAreDead == \A t \in Issued : tok[t].late => tok[t].next = None

(***************************************************************************)
(* Every request ends, although bulk revocations wait for rows that other    *)
(* requests hold and two of them can wait for each other.                   *)
(***************************************************************************)
EveryRequestEnds == \A c \in Requests : pc[c] # "idle" ~> pc[c] = "idle"

(***************************************************************************)
(* Rotation with reuse detection, logout, reset and removal implement        *)
(* TokenFamily: no race forks a family, exchanges a token twice or brings    *)
(* an ended family back, and a revocation that goes through has ended every  *)
(* family it found alive, but one exchanged while it waited: the successor,  *)
(* inserted by a transaction its UPDATE does not see, is missed.            *)
(***************************************************************************)
LiveIn(f) == {t \in Issued : tok[t].family = f /\ Live(t)}

OwnerOf(f) == IF Exists(f) /\ tok[f].family = f THEN tok[f].member ELSE None

\* The families a revocation will end: their living token is among its rows.
Ending(c) == {f \in Tokens : \E t \in req[c].held : Live(t) /\ tok[t].family = f}

OrderOf(c) ==
    IF pc[c] # "revoke"
    THEN [kind |-> IF req[c].ended THEN "ended" ELSE "none", of |-> None]
    ELSE CASE req[c].why = "reset"   -> [kind |-> "all", of |-> None]
           [] req[c].why = "removal" -> [kind |-> "member", of |-> req[c].member]
           [] OTHER                  -> [kind |-> "family", of |-> tok[req[c].token].family]

Family == INSTANCE TokenFamily WITH
    Callers <- Requests,
    born  <- Issued,
    owner <- [f \in Tokens |-> OwnerOf(f)],
    live  <- [f \in Tokens |-> LiveIn(f)],
    order <- [c \in Requests |-> OrderOf(c)],
    due   <- [c \in Requests |-> Ending(c)]

KeepsFamilies == Family!Spec
=============================================================================
