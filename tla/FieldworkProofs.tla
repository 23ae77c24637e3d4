-------------------------- MODULE FieldworkProofs --------------------------
(***************************************************************************)
(* Theorems about Fieldwork, for every number of members, tasks, devices and *)
(* requests.                                                                 *)
(***************************************************************************)
EXTENDS Fieldwork, FiniteSetTheorems, TLAPS

Memory == [by : Members \cup {None}, task : Tasks \cup {None},
           do : {"none", "update", "complete", "delete"}, seen : Nat,
           to : Members \cup {None}, todo : SUBSET Tokens, token : Tokens \cup {None},
           malformed : BOOLEAN]

\* What a request relies on between its statements.
Relies(c) ==
    /\ pc[c] = "create" => req[c].task \in Tasks /\ task[req[c].task] = None
    /\ pc[c] \in {"write", "record"} =>
            /\ req[c].task \in Tasks /\ req[c].by \in Members
            /\ task[req[c].task] # None
            /\ Employee(req[c].by) => c \in mine
    /\ pc[c] = "record" => /\ lock[req[c].task] = c
                           /\ task[req[c].task].version = req[c].seen
    /\ pc[c] = "unregister" => req[c].by \in Members /\ req[c].token \in had[req[c].by]
    /\ pc[c] = "clean" => req[c].token \notin alive \/ req[c].malformed

\* A task that is being created is nobody else's yet.
Alone ==
    \A c, d \in Requests : pc[c] = "create" /\ c # d => req[d].task # req[c].task

Staged == Alone /\ \A c \in Requests : Relies(c)

Unchanged(k) == task[k] = None => bases[k] = {}

\* A task's first version is 1.
Numbered(k) == task[k] # None => task[k].version > 0

Registered == \A t \in Tokens : owner[t] # None => t \in had[owner[t]]

IInv == /\ TypeOK /\ Staged /\ Registered
        /\ TimelineTells /\ ChangesChain /\ \A k \in Tasks : Unchanged(k) /\ Numbered(k)

-----------------------------------------------------------------------------

LEMMA Nones == /\ None \notin Members /\ None \notin Tasks /\ None \notin Tokens
               /\ None \notin Requests /\ None \notin Task
BY FieldworkAssumption

LEMMA NoRequestFits == NoRequest \in Memory /\ NoRequest.task = None /\ "idle" \in Stages
BY DEF NoRequest, Memory, Stages

\* Request c moves on: the others keep what they rely on.
LEMMA MovedOn ==
    ASSUME IInv, NEW c \in Requests, NEW s \in Stages, NEW r \in Memory,
           pc' = [pc EXCEPT ![c] = s], req' = [req EXCEPT ![c] = r],
           mine' \subseteq Requests, \A d \in Requests \ {c} : d \in mine => d \in mine',
           UNCHANGED <<task, lock>>, alive' \subseteq alive,
           \A m \in Members : had[m] \subseteq had'[m],
           \/ r.task = None
           \/ r.task = req[c].task /\ s # "create"
           \/ task[r.task] # None /\ s # "create"
           \/ \A d \in Requests : req[d].task # r.task,
           s # "create" \/ r.task # None,
           Relies(c)'
    PROVE  Staged'
<1>1. pc'[c] = s /\ req'[c] = r
  BY DEF IInv, TypeOK
<1>2. \A d \in Requests \ {c} : pc'[d] = pc[d] /\ req'[d] = req[d]
  BY DEF IInv, TypeOK
<1>3. ASSUME NEW d \in Requests \ {c} PROVE Relies(d)'
  <2>1. Relies(d)
    BY DEF IInv, Staged
  <2> QED BY <1>2, <2>1 DEF Relies
<1>4. ASSUME NEW a \in Requests, NEW d \in Requests, pc'[a] = "create", a # d
      PROVE  req'[d].task # req'[a].task
  <2>1. CASE a # c /\ d # c
    BY <1>2, <1>4, <2>1 DEF IInv, Staged, Alone
  <2>2. CASE d = c
    <3>1. /\ req'[d] = r /\ req'[a] = req[a] /\ pc[a] = "create"
          /\ req[a].task \in Tasks /\ task[req[a].task] = None /\ req[c].task # req[a].task
      BY <1>1, <1>2, <1>4, <2>2 DEF IInv, Staged, Relies, Alone
    <3> QED BY <3>1, Nones
  <2>3. CASE a = c
    <3>1. /\ s = "create" /\ req'[a] = r /\ req'[d] = req[d]
      BY <1>1, <1>2, <1>4, <2>3
    <3> QED BY <3>1
  <2> QED BY <2>1, <2>2, <2>3
<1> QED BY <1>3, <1>4 DEF Staged, Alone

LEMMA Ended ==
    ASSUME IInv, NEW c \in Requests, Done(c)
    PROVE  /\ pc' = [pc EXCEPT ![c] = "idle"] /\ req' = [req EXCEPT ![c] = NoRequest]
           /\ pc' \in [Requests -> Stages] /\ req' \in [Requests -> Memory]
           /\ mine' \subseteq Requests
           /\ \A d \in Requests \ {c} : d \in mine => d \in mine'
           /\ Relies(c)'
<1>1. /\ pc' = [pc EXCEPT ![c] = "idle"] /\ req' = [req EXCEPT ![c] = NoRequest]
      /\ mine' = mine \ {c}
  BY DEF Done
<1>2. pc' \in [Requests -> Stages] /\ req' \in [Requests -> Memory] /\ pc'[c] = "idle"
  BY <1>1, NoRequestFits DEF IInv, TypeOK, Memory
<1> QED BY <1>1, <1>2 DEF IInv, TypeOK, Relies

\* Request c ends and gives its rows back.
LEMMA LockReleased ==
    ASSUME IInv, NEW c \in Requests, Done(c),
           \A k \in Tasks : \A d \in Requests \ {c} : lock[k] = d => lock'[k] = d,
           UNCHANGED task, alive' \subseteq alive, UNCHANGED had
    PROVE  Staged'
<1>1. /\ pc'[c] = "idle" /\ req'[c] = NoRequest /\ Relies(c)'
      /\ \A d \in Requests \ {c} : /\ pc'[d] = pc[d] /\ req'[d] = req[d]
                                   /\ d \in mine => d \in mine'
  BY Ended DEF IInv, TypeOK
<1>2. ASSUME NEW d \in Requests \ {c} PROVE Relies(d)'
  <2>1. Relies(d)
    BY DEF IInv, Staged
  <2> QED BY <1>1, <2>1 DEF Relies
<1>3. Alone'
  <2> SUFFICES ASSUME NEW a \in Requests, NEW d \in Requests, pc'[a] = "create", a # d
               PROVE  req'[d].task # req'[a].task
    BY DEF Alone
  <2>1. a # c /\ pc[a] = "create" /\ req'[a] = req[a] /\ req[a].task \in Tasks
    BY <1>1 DEF IInv, Staged, Relies
  <2> QED BY <1>1, <2>1, NoRequestFits, Nones DEF IInv, Staged, Alone
<1> QED BY <1>1, <1>2, <1>3 DEF Staged

\* A step that leaves the tasks, their history and the timeline alone.
LEMMA TasksUntouched ==
    ASSUME IInv, UNCHANGED <<task, bases, timeline>>, TypeOK', Staged', Registered'
    PROVE  IInv'
BY DEF IInv, TimelineTells, ChangesChain, Unchanged, Numbered, Entry

\* ... and the devices and notices.
LEMMA RequestsOnly ==
    ASSUME IInv, NEW c \in Requests, NEW s \in Stages, NEW r \in Memory,
           pc' = [pc EXCEPT ![c] = s], req' = [req EXCEPT ![c] = r],
           mine' \subseteq Requests, \A d \in Requests \ {c} : d \in mine => d \in mine',
           UNCHANGED <<holder, removed, taskVars, timeline, noticeVars, deviceVars, boundVars>>,
           leadLock' \in Requests \cup {None},
           \/ r.task = None
           \/ r.task = req[c].task /\ s # "create"
           \/ task[r.task] # None /\ s # "create"
           \/ \A d \in Requests : req[d].task # r.task,
           s # "create" \/ r.task # None,
           Relies(c)'
    PROVE  IInv'
<1>1. UNCHANGED <<task, lock, bases, alive, had, owner>>
  BY DEF taskVars, deviceVars
<1>2. TypeOK'
  BY DEF IInv, TypeOK, Memory, taskVars, noticeVars, deviceVars, boundVars
<1>3. Staged'
  BY <1>1, MovedOn
<1>4. Registered'
  BY <1>1 DEF IInv, Registered
<1> QED BY <1>1, <1>2, <1>3, <1>4, TasksUntouched

-----------------------------------------------------------------------------
(* Steps that write no task. *)

LEMMA CreateTaskKeeps ==
    ASSUME IInv, NEW c \in Requests, NEW m \in Members, NEW k \in Tasks, CreateTask(c, m, k)
    PROVE  IInv'
<1> DEFINE r == [Asked(m) EXCEPT !.task = k]
<1>1. r \in Memory /\ r.task = k
  BY DEF Asked, NoRequest, Memory
<1>2. /\ pc' = [pc EXCEPT ![c] = "create"] /\ req' = [req EXCEPT ![c] = r]
      /\ mine' \subseteq Requests /\ mine \subseteq mine'
      /\ task[k] = None /\ \A d \in Requests : req[d].task # k
      /\ UNCHANGED <<leadVars, taskVars, timeline, noticeVars, deviceVars, boundVars>>
  BY DEF CreateTask, Start, IInv, TypeOK
<1> HIDE DEF r
<1>3. pc'[c] = "create" /\ req'[c] = r
  BY <1>2 DEF IInv, TypeOK
<1>4. Relies(c)'
  BY <1>1, <1>2, <1>3 DEF Relies, taskVars
<1>5. UNCHANGED <<holder, removed>> /\ leadLock' \in Requests \cup {None} /\ "create" \in Stages
  BY <1>2 DEF leadVars, IInv, TypeOK, Stages
<1> QED BY <1>1, <1>2, <1>4, <1>5, RequestsOnly, Nones

LEMMA FindTaskKeeps ==
    ASSUME IInv, NEW c \in Requests, NEW m \in Members, NEW k \in Tasks,
           NEW do \in {"update", "complete", "delete"}, FindTask(c, m, k, do)
    PROVE  IInv'
<1> DEFINE r == [Asked(m) EXCEPT !.task = k, !.do = do, !.seen = task[k].version]
<1>1. task[k] # None /\ task[k] \in Task /\ task[k].version \in Nat
  BY DEF FindTask, IInv, TypeOK, Task
<1>2. r \in Memory /\ r.task = k /\ r.by = m
  BY <1>1 DEF Asked, NoRequest, Memory
<1>3. /\ pc' = [pc EXCEPT ![c] = "write"] /\ req' = [req EXCEPT ![c] = r]
      /\ mine' = IF holder = r.by THEN mine \cup {c} ELSE mine
      /\ (Employee(m) => holder = m)
      /\ UNCHANGED <<leadVars, taskVars, timeline, noticeVars, deviceVars, boundVars>>
  BY DEF FindTask, Start, Within
<1> HIDE DEF r
<1>4. /\ pc'[c] = "write" /\ req'[c] = r /\ mine' \subseteq Requests /\ mine \subseteq mine'
      /\ (Employee(m) => c \in mine')
  BY <1>2, <1>3 DEF IInv, TypeOK
<1>5. Relies(c)'
  BY <1>1, <1>2, <1>3, <1>4 DEF Relies, taskVars, Employee
<1>6. UNCHANGED <<holder, removed>> /\ leadLock' \in Requests \cup {None} /\ "write" \in Stages
  BY <1>3 DEF leadVars, IInv, TypeOK, Stages
<1> QED BY <1>1, <1>2, <1>3, <1>4, <1>5, <1>6, RequestsOnly

LEMMA AssignKeeps ==
    ASSUME IInv, NEW c \in Requests, NEW m \in Members, NEW to \in Members \cup {None},
           Assign(c, m, to)
    PROVE  IInv'
<1> DEFINE r == [Asked(m) EXCEPT !.to = to]
<1>1. r \in Memory /\ r.task = None
  BY DEF Asked, NoRequest, Memory
<1>2. /\ pc' = [pc EXCEPT ![c] = "commit"] /\ req' = [req EXCEPT ![c] = r]
      /\ mine' \subseteq Requests /\ mine \subseteq mine' /\ leadLock' = c
      /\ UNCHANGED <<holder, removed, taskVars, timeline, noticeVars, deviceVars, boundVars>>
  BY DEF Assign, Start, IInv, TypeOK
<1> HIDE DEF r
<1>3. pc'[c] = "commit" /\ "commit" \in Stages
  BY <1>2 DEF IInv, TypeOK, Stages
<1>4. Relies(c)'
  BY <1>3 DEF Relies
<1> QED BY <1>1, <1>2, <1>3, <1>4, RequestsOnly

LEMMA FindTokenKeeps ==
    ASSUME IInv, NEW c \in Requests, NEW m \in Members, NEW t \in Tokens, FindToken(c, m, t)
    PROVE  IInv'
<1> DEFINE r == [Asked(m) EXCEPT !.token = t]
<1>1. r \in Memory /\ r.task = None /\ r.by = m /\ r.token = t
  BY DEF Asked, NoRequest, Memory
<1>2. /\ pc' = [pc EXCEPT ![c] = "unregister"] /\ req' = [req EXCEPT ![c] = r]
      /\ mine' \subseteq Requests /\ mine \subseteq mine' /\ owner[t] = m
      /\ UNCHANGED <<leadVars, taskVars, timeline, noticeVars, deviceVars, boundVars>>
  BY DEF FindToken, Start, Owns, IInv, TypeOK
<1> HIDE DEF r
<1>3. pc'[c] = "unregister" /\ req'[c] = r /\ t \in had[m]
  BY <1>2, Nones DEF IInv, TypeOK, Registered
<1>4. Relies(c)'
  BY <1>1, <1>2, <1>3 DEF Relies, deviceVars
<1>5. UNCHANGED <<holder, removed>> /\ leadLock' \in Requests \cup {None} /\ "unregister" \in Stages
  BY <1>2 DEF leadVars, IInv, TypeOK, Stages
<1> QED BY <1>1, <1>2, <1>4, <1>5, RequestsOnly

LEMMA FindTokensKeeps ==
    ASSUME IInv, NEW c \in Requests, FindTokens(c)
    PROVE  IInv'
<1>9. PICK malformed \in BOOLEAN :
          Proceed(c, "send", [req[c] EXCEPT !.todo = {t \in Tokens : owner[t] = req[c].to},
                                            !.malformed = malformed])
  BY DEF FindTokens
<1> DEFINE r == [req[c] EXCEPT !.todo = {t \in Tokens : owner[t] = req[c].to},
                               !.malformed = malformed]
<1>1. r \in Memory /\ r.task = req[c].task
  BY DEF IInv, TypeOK, Memory
<1>2. /\ pc' = [pc EXCEPT ![c] = "send"] /\ req' = [req EXCEPT ![c] = r] /\ mine' = mine
      /\ pushes' = [pushes EXCEPT ![req[c].to] = @ + 1]
      /\ UNCHANGED <<leadVars, taskVars, timeline, notices, unread, deviceVars, boundVars>>
  BY <1>9 DEF FindTokens, Proceed
<1> HIDE DEF r
<1>3. pushes' \in [Members -> Nat]
  <2>1. pushes \in [Members -> Nat] /\ req[c].to \in Members \cup {None}
    BY DEF IInv, TypeOK
  <2>2. CASE req[c].to \in Members
    BY <1>2, <2>1, <2>2
  <2>3. CASE req[c].to = None
    <3>1. pushes' = [x \in Members |-> IF x = None THEN pushes[None] + 1 ELSE pushes[x]]
      BY <1>2, <2>1, <2>3
    <3> QED BY <2>1, <3>1, Nones
  <2> QED BY <2>1, <2>2, <2>3
<1>4. pc'[c] = "send" /\ "send" \in Stages
  BY <1>2 DEF IInv, TypeOK, Stages
<1>5. Relies(c)'
  BY <1>4 DEF Relies
<1>6. TypeOK'
  BY <1>1, <1>2, <1>3, <1>4 DEF IInv, TypeOK, Memory, leadVars, taskVars, deviceVars, boundVars
<1>7. Staged'
  BY <1>1, <1>2, <1>4, <1>5, MovedOn DEF taskVars, deviceVars, IInv, TypeOK
<1>8. UNCHANGED <<task, bases, timeline, owner, had>>
  BY <1>2 DEF taskVars, deviceVars
<1> QED BY <1>6, <1>7, <1>8, TasksUntouched DEF IInv, Registered

LEMMA SendKeeps ==
    ASSUME IInv, NEW c \in Requests, NEW t \in Tokens, Send(c, t)
    PROVE  IInv'
<1> DEFINE rest == [req[c] EXCEPT !.todo = @ \ {t}]
           cond == [rest EXCEPT !.token = t]
<1>1. rest \in Memory /\ rest.task = req[c].task
  BY DEF IInv, TypeOK, Memory
<1>2. /\ cond \in Memory /\ cond.task = req[c].task /\ cond.token = t
      /\ cond.malformed = req[c].malformed
  BY <1>1 DEF Memory, IInv, TypeOK
<1>3. /\ \/ Proceed(c, "send", rest)
         \/ (t \notin alive \/ req[c].malformed) /\ Proceed(c, "clean", cond)
      /\ UNCHANGED <<leadVars, taskVars, timeline, noticeVars, deviceVars, boundVars>>
  BY DEF Send, Invalid
<1> HIDE DEF rest, cond
<1>4. UNCHANGED <<holder, removed>> /\ leadLock' \in Requests \cup {None}
  BY <1>3 DEF leadVars, IInv, TypeOK
<1>5. CASE Proceed(c, "send", rest)
  <2>1. /\ pc' = [pc EXCEPT ![c] = "send"] /\ req' = [req EXCEPT ![c] = rest] /\ mine' = mine
        /\ pc'[c] = "send" /\ "send" \in Stages
    BY <1>5 DEF Proceed, IInv, TypeOK, Stages
  <2>2. Relies(c)'
    BY <2>1 DEF Relies
  <2> QED BY <1>1, <1>3, <1>4, <2>1, <2>2, RequestsOnly DEF IInv, TypeOK
<1>6. CASE (t \notin alive \/ req[c].malformed) /\ Proceed(c, "clean", cond)
  <2>1. /\ pc' = [pc EXCEPT ![c] = "clean"] /\ req' = [req EXCEPT ![c] = cond] /\ mine' = mine
        /\ pc'[c] = "clean" /\ "clean" \in Stages /\ req'[c] = cond
    BY <1>6 DEF Proceed, IInv, TypeOK, Stages
  <2>2. Relies(c)'
    BY <1>2, <1>3, <1>6, <2>1 DEF Relies, deviceVars
  <2> QED BY <1>2, <1>3, <1>4, <2>1, <2>2, RequestsOnly DEF IInv, TypeOK
<1> QED BY <1>3, <1>5, <1>6

\* A token's row goes.
LEMMA OwnerLost ==
    ASSUME IInv, NEW c \in Requests, NEW s \in Stages, NEW r \in Memory, NEW t \in Tokens \cup {None},
           pc' = [pc EXCEPT ![c] = s], req' = [req EXCEPT ![c] = r],
           mine' \subseteq Requests, \A d \in Requests \ {c} : d \in mine => d \in mine',
           owner' \in {owner, [owner EXCEPT ![t] = None]},
           UNCHANGED <<leadVars, taskVars, timeline, noticeVars, alive, had, boundVars>>,
           r.task \in {None, req[c].task}, s # "create", Relies(c)'
    PROVE  IInv'
<1>1. /\ owner' \in [Tokens -> Members \cup {None}]
      /\ \A u \in Tokens : owner'[u] \in {None, owner[u]}
  BY DEF IInv, TypeOK
<1>2. TypeOK'
  BY <1>1 DEF IInv, TypeOK, Memory, leadVars, taskVars, noticeVars, boundVars
<1>3. Staged'
  BY MovedOn DEF taskVars
<1>4. Registered'
  BY <1>1 DEF IInv, Registered
<1> QED BY <1>2, <1>3, <1>4, TasksUntouched DEF taskVars

LEMMA UnregisterKeeps ==
    ASSUME IInv, NEW c \in Requests, Unregister(c)
    PROVE  IInv'
<1>1. req[c].token \in Tokens \cup {None}
  BY DEF IInv, TypeOK
<1>2. /\ owner' = [owner EXCEPT ![req[c].token] = None] /\ Done(c)
      /\ UNCHANGED <<leadVars, taskVars, timeline, noticeVars, alive, had, boundVars>>
  BY DEF Unregister
<1> QED BY <1>1, <1>2, Ended, NoRequestFits, OwnerLost

LEMMA CleanKeeps ==
    ASSUME IInv, NEW c \in Requests, Clean(c)
    PROVE  IInv'
<1> DEFINE r == [req[c] EXCEPT !.token = None]
<1>1. r \in Memory /\ r.task = req[c].task /\ req[c].token \in Tokens \cup {None}
  BY DEF IInv, TypeOK, Memory
<1>2. /\ owner' \in {owner, [owner EXCEPT ![req[c].token] = None]}
      /\ pc' = [pc EXCEPT ![c] = "send"] /\ req' = [req EXCEPT ![c] = r] /\ mine' = mine
      /\ UNCHANGED <<leadVars, taskVars, timeline, noticeVars, alive, had, boundVars>>
  BY DEF Clean, Proceed
<1> HIDE DEF r
<1>3. pc'[c] = "send" /\ "send" \in Stages /\ mine' \subseteq Requests
  BY <1>2 DEF IInv, TypeOK, Stages
<1>4. Relies(c)'
  BY <1>3 DEF Relies
<1> QED BY <1>1, <1>2, <1>3, <1>4, OwnerLost

LEMMA FinishPushKeeps ==
    ASSUME IInv, NEW c \in Requests, FinishPush(c)
    PROVE  IInv'
<1>1. Done(c) /\ UNCHANGED <<leadVars, taskVars, timeline, noticeVars, deviceVars, boundVars>>
  BY DEF FinishPush
<1>2. UNCHANGED <<holder, removed>> /\ leadLock' \in Requests \cup {None}
  BY <1>1 DEF leadVars, IInv, TypeOK
<1> QED BY <1>1, <1>2, Ended, NoRequestFits, RequestsOnly

\* A rollback; a commit of an assignment.
LEMMA FailKeeps ==
    ASSUME IInv, NEW c \in Requests, Fail(c)
    PROVE  IInv'
<1>1. /\ Done(c) /\ lock' = [k \in Tasks |-> IF lock[k] = c THEN None ELSE lock[k]]
      /\ leadLock' = IF leadLock = c THEN None ELSE leadLock
      /\ UNCHANGED <<holder, removed, task, bases, timeline, noticeVars, deviceVars, boundVars>>
  BY DEF Fail, Unlock, GivesUp
<1>2. /\ pc' = [pc EXCEPT ![c] = "idle"] /\ req' = [req EXCEPT ![c] = NoRequest]
      /\ pc' \in [Requests -> Stages] /\ req' \in [Requests -> Memory]
      /\ mine' \subseteq Requests /\ \A d \in Requests \ {c} : d \in mine => d \in mine'
      /\ Relies(c)'
  BY <1>1, Ended
<1>3. TypeOK'
  BY <1>1, <1>2 DEF IInv, TypeOK, Memory, noticeVars, deviceVars, boundVars
<1>4. Staged'
  BY <1>1, <1>2, LockReleased DEF deviceVars
<1> QED BY <1>1, <1>3, <1>4, TasksUntouched DEF IInv, Registered, deviceVars

LEMMA CommitKeeps ==
    ASSUME IInv, NEW c \in Requests, CommitAssignment(c)
    PROVE  IInv'
<1> DEFINE s == IF req[c].to \in {None, req[c].by} THEN "idle" ELSE "tokens"
           r == IF s = "idle" THEN NoRequest ELSE req[c]
<1>1. s \in Stages /\ r \in Memory /\ r.task \in {None, req[c].task}
  BY NoRequestFits DEF IInv, TypeOK, Stages, Memory
<1>2. /\ pc' = [pc EXCEPT ![c] = s] /\ pc'[c] = s
      /\ req' = [req EXCEPT ![c] = r]
      /\ s \in {"idle", "tokens"}
  BY DEF CommitAssignment, IInv, TypeOK
<1>3. /\ mine' \subseteq Requests /\ \A d \in Requests \ {c} : d \in mine => d \in mine'
  BY DEF CommitAssignment, IInv, TypeOK
<1>4. /\ holder' = req[c].to /\ leadLock' = None /\ moves' = moves + 1 /\ moves < MaxMoves
      /\ IF s = "idle" THEN UNCHANGED <<notices, unread>> ELSE Notify(c)
      /\ UNCHANGED <<removed, taskVars, timeline, pushes, deviceVars, kinds>>
  BY <1>2 DEF CommitAssignment
<1>5. /\ notices' \in [Members -> Nat] /\ unread' \in [Members -> Nat]
      /\ \A m \in Members : unread'[m] <= notices'[m]
  <2>1. CASE s = "idle"
    BY <1>4, <2>1 DEF IInv, TypeOK
  <2>2. CASE s # "idle"
    <3>1. req[c].to \in Members
      BY <2>2 DEF IInv, TypeOK
    <3>2. /\ notices' = [notices EXCEPT ![req[c].to] = @ + 1]
          /\ unread' = [unread EXCEPT ![req[c].to] = @ + 1]
      BY <1>4, <2>2 DEF Notify
    <3>3. /\ notices \in [Members -> Nat] /\ unread \in [Members -> Nat]
          /\ \A m \in Members : unread[m] <= notices[m]
      BY DEF IInv, TypeOK
    <3> QED BY <3>1, <3>2, <3>3
  <2> QED BY <2>1, <2>2
<1>6. holder' \in Members \cup {None} /\ moves' \in 0..MaxMoves
  BY <1>4, FieldworkAssumption DEF IInv, TypeOK
<1> HIDE DEF s, r
<1>7. Relies(c)'
  BY <1>2 DEF Relies
<1>8. TypeOK'
  BY <1>1, <1>2, <1>3, <1>4, <1>5, <1>6 DEF IInv, TypeOK, Memory, taskVars, deviceVars
<1>9. Staged'
  <2>1. s # "create"
    BY <1>2
  <2> QED BY <1>1, <1>2, <1>3, <1>4, <1>7, <2>1, MovedOn DEF taskVars, deviceVars
<1> QED BY <1>4, <1>8, <1>9, TasksUntouched DEF IInv, Registered, taskVars, deviceVars

-----------------------------------------------------------------------------
(* Steps of no request. *)

LEMMA SideStepsKeep ==
    ASSUME IInv, UNCHANGED <<taskVars, requestVars>>, TypeOK',
           alive' \subseteq alive, \A m \in Members : had[m] \subseteq had'[m]
    PROVE  Staged'
<1>1. ASSUME NEW c \in Requests PROVE Relies(c)'
  <2>1. Relies(c)
    BY DEF IInv, Staged
  <2> QED BY <2>1 DEF Relies, taskVars, requestVars
<1> QED BY <1>1 DEF IInv, Staged, Alone, requestVars

LEMMA RegisterKeeps ==
    ASSUME IInv, NEW m \in Members, NEW t \in Tokens, Register(m, t)
    PROVE  IInv'
<1>1. /\ owner' = [owner EXCEPT ![t] = m] /\ had' = [had EXCEPT ![m] = @ \cup {t}]
      /\ UNCHANGED <<leadVars, taskVars, timeline, noticeVars, alive, requestVars, boundVars>>
  BY DEF Register
<1>2. TypeOK'
  BY <1>1 DEF IInv, TypeOK, leadVars, taskVars, noticeVars, requestVars, boundVars
<1>3. \A n \in Members : had[n] \subseteq had'[n]
  BY <1>1 DEF IInv, TypeOK
<1>4. Staged'
  BY <1>1, <1>2, <1>3, SideStepsKeep
<1>5. Registered'
  <2>1. ASSUME NEW u \in Tokens, owner'[u] # None PROVE u \in had'[owner'[u]]
    <3>1. CASE u = t
      BY <1>1, <3>1 DEF IInv, TypeOK
    <3>2. CASE u # t
      <4>1. owner'[u] = owner[u] /\ owner[u] \in Members /\ u \in had[owner[u]]
        BY <1>1, <2>1, <3>2 DEF IInv, TypeOK, Registered
      <4> QED BY <1>3, <4>1
    <3> QED BY <3>1, <3>2
  <2> QED BY <2>1 DEF Registered
<1> QED BY <1>1, <1>2, <1>4, <1>5, TasksUntouched DEF taskVars

LEMMA TokenDiesKeeps ==
    ASSUME IInv, NEW t \in Tokens, TokenDies(t)
    PROVE  IInv'
<1>1. /\ alive' = alive \ {t}
      /\ UNCHANGED <<leadVars, taskVars, timeline, noticeVars, owner, had, requestVars, boundVars>>
  BY DEF TokenDies
<1>2. TypeOK'
  BY <1>1 DEF IInv, TypeOK, leadVars, taskVars, noticeVars, requestVars, boundVars
<1>3. Staged'
  BY <1>1, <1>2, SideStepsKeep
<1> QED BY <1>1, <1>2, <1>3, TasksUntouched DEF IInv, Registered, taskVars

LEMMA RemoveLeadKeeps ==
    ASSUME IInv, NEW m \in Members, RemoveLead(m)
    PROVE  IInv'
<1>1. /\ removed' = TRUE
      /\ UNCHANGED <<holder, leadLock, taskVars, timeline, noticeVars, deviceVars, requestVars, boundVars>>
  BY DEF RemoveLead
<1>2. TypeOK'
  BY <1>1 DEF IInv, TypeOK, taskVars, noticeVars, deviceVars, requestVars, boundVars
<1>3. Staged'
  BY <1>1, <1>2, SideStepsKeep DEF deviceVars
<1> QED BY <1>1, <1>2, <1>3, TasksUntouched DEF IInv, Registered, taskVars, deviceVars

LEMMA ReadingKeeps ==
    ASSUME IInv, NEW m \in Members, MarkRead(m) \/ MarkAllRead(m)
    PROVE  IInv'
<1>1. /\ unread' = [unread EXCEPT ![m] = @ - 1] \/ unread' = [unread EXCEPT ![m] = 0]
      /\ unread[m] > 0
      /\ UNCHANGED <<leadVars, taskVars, timeline, notices, pushes, deviceVars, requestVars, boundVars>>
  BY DEF MarkRead, MarkAllRead, HasUnread
<1>2. TypeOK'
  <2>1. /\ unread \in [Members -> Nat] /\ notices \in [Members -> Nat]
        /\ \A n \in Members : unread[n] <= notices[n]
    BY DEF IInv, TypeOK
  <2>2. unread' \in [Members -> Nat] /\ \A n \in Members : unread'[n] <= notices[n]
    BY ONLY <1>1, <2>1, m \in Members
  <2> QED BY <1>1, <2>2 DEF IInv, TypeOK, leadVars, taskVars, deviceVars, requestVars, boundVars
<1>3. Staged'
  BY <1>1, <1>2, SideStepsKeep DEF deviceVars
<1> QED BY <1>1, <1>2, <1>3, TasksUntouched DEF IInv, Registered, taskVars, deviceVars

LEMMA EntriesDiffer ==
    \A k, j : /\ Entry("task_created", k) # Entry("task_completed", j)
              /\ Entry("task_created", k) = Entry("task_created", j) => k = j
              /\ Entry("task_completed", k) = Entry("task_completed", j) => k = j
              /\ \A type \in UserTypes : /\ Entry(type, k) # Entry("task_created", j)
                                         /\ Entry(type, k) # Entry("task_completed", j)
BY DEF Entry, UserTypes

LEMMA ActivityKeeps ==
    ASSUME IInv, NEW m \in Members, NEW type \in Submitted, NEW k \in Tasks, AddActivity(m, type, k)
    PROVE  IInv'
<1>1. /\ timeline' = timeline \cup {Entry(type, k)} /\ type \in UserTypes
      /\ UNCHANGED <<leadVars, taskVars, noticeVars, deviceVars, requestVars, boundVars>>
  BY DEF AddActivity, IsUserType
<1>2. \A e \in timeline' : e.type \in Types /\ e.task \in Tasks
  BY <1>1 DEF IInv, TypeOK, Entry, Types
<1>3. TypeOK'
  BY <1>1, <1>2 DEF IInv, TypeOK, leadVars, taskVars, noticeVars, deviceVars, requestVars, boundVars
<1>4. Staged'
  BY <1>1, <1>3, SideStepsKeep DEF deviceVars
<1>5. TimelineTells'
  BY <1>1, EntriesDiffer DEF IInv, TimelineTells, taskVars
<1> QED BY <1>1, <1>3, <1>4, <1>5 DEF IInv, ChangesChain, Unchanged, Numbered, Registered, taskVars, deviceVars

-----------------------------------------------------------------------------
(* Steps that write a task. *)

\* Nobody else creates the task that c writes, or holds its row.
LEMMA TaskWritten ==
    ASSUME IInv, NEW c \in Requests, NEW k \in Tasks, NEW new \in Task, Done(c),
           k = req[c].task, task' = [task EXCEPT ![k] = new],
           \A d \in Requests \ {c} : pc[d] = "record" => req[d].task # k,
           \A d \in Requests \ {c} : pc[d] = "create" => req[d].task # k,
           \A j \in Tasks : \A d \in Requests \ {c} : lock[j] = d => lock'[j] = d,
           UNCHANGED <<alive, had>>
    PROVE  Staged'
<1>1. /\ pc'[c] = "idle" /\ req'[c] = NoRequest /\ Relies(c)'
      /\ \A d \in Requests \ {c} : /\ pc'[d] = pc[d] /\ req'[d] = req[d]
                                   /\ d \in mine => d \in mine'
  BY Ended DEF IInv, TypeOK
<1>2. /\ task'[k] = new /\ new # None
      /\ \A j \in Tasks : j # k => task'[j] = task[j]
  BY Nones DEF IInv, TypeOK
<1>3. ASSUME NEW d \in Requests \ {c} PROVE Relies(d)'
  <2>1. Relies(d)
    BY DEF IInv, Staged
  <2> QED BY <1>1, <1>2, <2>1 DEF Relies
<1>4. Alone'
  <2> SUFFICES ASSUME NEW a \in Requests, NEW d \in Requests, pc'[a] = "create", a # d
               PROVE  req'[d].task # req'[a].task
    BY DEF Alone
  <2>1. a # c /\ pc[a] = "create" /\ req'[a] = req[a] /\ req[a].task \in Tasks
    BY <1>1 DEF IInv, Staged, Relies
  <2> QED BY <1>1, <2>1, NoRequestFits, Nones DEF IInv, Staged, Alone
<1> QED BY <1>1, <1>3, <1>4 DEF Staged

LEMMA RecordCreatedKeeps ==
    ASSUME IInv, NEW c \in Requests, RecordCreated(c)
    PROVE  IInv'
<1>1. PICK k \in Tasks : k = req[c].task /\ task[k] = None
  BY DEF RecordCreated, IInv, Staged, Relies
<1>2. /\ pc[c] = "create" /\ Done(c)
      /\ UNCHANGED <<leadVars, lock, bases, noticeVars, deviceVars, boundVars>>
  BY DEF RecordCreated
<1>3. CASE Visible(req[c].by)
  <2>1. /\ task' = [task EXCEPT ![k] = NewTask]
        /\ timeline' = timeline \cup {Entry("task_created", k)}
    BY <1>1, <1>3 DEF RecordCreated
  <2>2. /\ NewTask \in Task /\ NewTask.status = "open" /\ NewTask.version = 1 /\ NewTask # None
    <3>1. NewTask \in Task /\ NewTask.status = "open" /\ NewTask.version = 1
      BY DEF NewTask, Task
    <3> QED BY <3>1, Nones
  <2>3. /\ task' \in [Tasks -> Task \cup {None}] /\ task'[k] = NewTask
        /\ \A j \in Tasks : j # k => task'[j] = task[j]
    BY <2>1, <2>2 DEF IInv, TypeOK
  <2>4. \A e \in timeline' : e.type \in Types /\ e.task \in Tasks
    BY <2>1 DEF IInv, TypeOK, Entry, Types
  <2>5. TypeOK'
    BY <1>2, <2>3, <2>4, Ended DEF IInv, TypeOK, Memory, leadVars, noticeVars, deviceVars, boundVars
  <2>6. Staged'
    <3>1. \A d \in Requests \ {c} : req[d].task # k
      BY <1>1, <1>2 DEF IInv, Staged, Alone
    <3> QED BY <1>1, <1>2, <2>1, <2>2, <3>1, TaskWritten DEF deviceVars
  <2>7. TimelineTells'
    <3> SUFFICES ASSUME NEW j \in Tasks
                 PROVE  /\ task'[j] # None <=> Entry("task_created", j) \in timeline'
                        /\ (task'[j] # None /\ task'[j].status = "done")
                              <=> Entry("task_completed", j) \in timeline'
      BY DEF TimelineTells, Entry
    <3>1. /\ task[j] # None <=> Entry("task_created", j) \in timeline
          /\ (task[j] # None /\ task[j].status = "done") <=> Entry("task_completed", j) \in timeline
      BY DEF IInv, TimelineTells
    <3>2. CASE j = k
      BY <1>1, <2>1, <2>2, <2>3, <3>1, <3>2, EntriesDiffer
    <3>3. CASE j # k
      BY <2>1, <2>3, <3>1, <3>3, EntriesDiffer
    <3> QED BY <3>2, <3>3
  <2>8. bases[k] = {} /\ bases' = bases
    BY <1>1, <1>2 DEF IInv, Unchanged
  <2>9. ChangesChain'
    <3> SUFFICES ASSUME NEW j \in Tasks, task'[j] # None
                 PROVE  bases'[j] = 1..(task'[j].version - 1)
      BY DEF ChangesChain
    <3>1. CASE j = k
      <4>1. 1..(NewTask.version - 1) = {}
        BY <2>2
      <4> QED BY <2>3, <2>8, <3>1, <4>1
    <3>2. CASE j # k
      BY <2>3, <2>8, <3>2 DEF IInv, ChangesChain
    <3> QED BY <3>1, <3>2
  <2>10. \A j \in Tasks : Unchanged(j)' /\ Numbered(j)'
    BY <2>2, <2>3, <2>8 DEF IInv, Unchanged, Numbered
  <2> QED BY <1>2, <2>5, <2>6, <2>7, <2>9, <2>10 DEF IInv, Registered, deviceVars
<1>4. CASE ~Visible(req[c].by)
  <2>1. UNCHANGED <<task, timeline>>
    BY <1>4 DEF RecordCreated
  <2>2. UNCHANGED <<holder, removed, taskVars, timeline, noticeVars, deviceVars, boundVars>>
    BY <1>2, <2>1 DEF leadVars, taskVars
  <2>3. leadLock' \in Requests \cup {None}
    BY <1>2 DEF leadVars, IInv, TypeOK
  <2> QED BY <1>2, <2>2, <2>3, Ended, NoRequestFits, RequestsOnly
<1> QED BY <1>3, <1>4

Revised(t, status) == [t EXCEPT !.status = status, !.version = t.version + 1]
Struck(t) == [t EXCEPT !.deleted = TRUE]

LEMMA Revision ==
    ASSUME NEW t \in Task, NEW status \in {"open", "done"}
    PROVE  /\ Revised(t, status) \in Task
           /\ Revised(t, status).status = status /\ Revised(t, status).version = t.version + 1
           /\ Struck(t) \in Task
           /\ Struck(t).status = t.status /\ Struck(t).version = t.version
<1>2. /\ Struck(t) \in Task
      /\ Struck(t).status = t.status /\ Struck(t).version = t.version
  BY DEF Task, Struck
<1>3. Revised(t, status) = [status |-> status, version |-> t.version + 1, deleted |-> t.deleted]
  <2> DEFINE v == t.version + 1
             one == [t EXCEPT !.status = status]
  <2>1. one \in Task /\ one.status = status /\ one.version = t.version /\ one.deleted = t.deleted
    BY DEF Task
  <2>2. v \in Nat
    BY DEF Task
  <2>3. Revised(t, status) = [one EXCEPT !.version = v]
    BY DEF Revised
  <2> HIDE DEF v, one
  <2>4. [one EXCEPT !.version = v] = [status |-> status, version |-> v, deleted |-> t.deleted]
    BY <2>1, <2>2 DEF Task
  <2> QED BY <2>3, <2>4 DEF v
<1>4. t.version \in Nat /\ t.deleted \in BOOLEAN
  BY DEF Task
<1>5. /\ Revised(t, status) \in Task
      /\ Revised(t, status).status = status /\ Revised(t, status).version = t.version + 1
  BY <1>3, <1>4 DEF Task
<1> QED BY <1>2, <1>5

\* A change made on the version the client saw.
LEMMA ChangeKeeps ==
    ASSUME IInv, NEW c \in Requests, NEW k \in Tasks, NEW status \in {"open", "done"},
           k = req[c].task, task[k] # None, task[k].version = req[c].seen, Done(c),
           Changed(c, status),
           \A d \in Requests \ {c} : pc[d] = "record" => req[d].task # k,
           \A j \in Tasks : \A d \in Requests \ {c} : lock[j] = d => lock'[j] = d,
           lock' \in [Tasks -> Requests \cup {None}],
           \/ status = task[k].status /\ timeline' = timeline
           \/ status = "done" /\ timeline' = timeline \cup {Entry("task_completed", k)},
           UNCHANGED <<leadVars, noticeVars, deviceVars, boundVars>>
    PROVE  IInv'
<1>1. task[k] \in Task /\ task[k].version \in Nat /\ task[k].status \in {"open", "done"}
  BY DEF IInv, TypeOK, Task
<1>2. PICK new \in Task :
          /\ task' = [task EXCEPT ![k] = new]
          /\ new.status = status /\ new.version = task[k].version + 1
  <2> DEFINE new == Revised(task[k], status)
  <2>1. task' = [task EXCEPT ![k] = new]
    BY Zenon DEF Changed, Revised
  <2>2. new \in Task /\ new.status = status /\ new.version = task[k].version + 1
    BY <1>1, Revision
  <2> HIDE DEF new
  <2> QED BY <2>1, <2>2
<1>3. /\ bases' = [bases EXCEPT ![k] = @ \cup {task[k].version}]
  BY DEF Changed
<1>4. /\ task' \in [Tasks -> Task \cup {None}] /\ task'[k] = new /\ new # None
      /\ \A j \in Tasks : j # k => task'[j] = task[j]
      /\ bases' \in [Tasks -> SUBSET Nat] /\ bases'[k] = bases[k] \cup {task[k].version}
      /\ \A j \in Tasks : j # k => bases'[j] = bases[j]
  BY <1>1, <1>2, <1>3, Nones DEF IInv, TypeOK
<1>5. \A e \in timeline' : e.type \in Types /\ e.task \in Tasks
  BY DEF IInv, TypeOK, Entry, Types
<1>6. TypeOK'
  BY <1>4, <1>5, Ended DEF IInv, TypeOK, Memory, leadVars, noticeVars, deviceVars, boundVars
<1>7. Staged'
  <2>1. \A d \in Requests \ {c} : pc[d] = "create" => req[d].task # k
    BY DEF IInv, Staged, Relies
  <2> QED BY <1>2, <2>1, TaskWritten DEF deviceVars
<1>8. TimelineTells'
  <2> SUFFICES ASSUME NEW j \in Tasks
               PROVE  /\ task'[j] # None <=> Entry("task_created", j) \in timeline'
                      /\ (task'[j] # None /\ task'[j].status = "done")
                            <=> Entry("task_completed", j) \in timeline'
    BY DEF TimelineTells, Entry
  <2>1. /\ task[j] # None <=> Entry("task_created", j) \in timeline
        /\ (task[j] # None /\ task[j].status = "done") <=> Entry("task_completed", j) \in timeline
    BY DEF IInv, TimelineTells
  <2>2. CASE j = k
    BY <1>2, <1>4, <2>1, <2>2, EntriesDiffer
  <2>3. CASE j # k
    BY <1>4, <2>1, <2>3, EntriesDiffer
  <2> QED BY <2>2, <2>3
<1>9. ChangesChain'
  <2> SUFFICES ASSUME NEW j \in Tasks, task'[j] # None
               PROVE  bases'[j] = 1..(task'[j].version - 1)
    BY DEF ChangesChain
  <2>1. CASE j = k
    <3> DEFINE v == task[k].version
    <3>1. bases[k] = 1..(v - 1) /\ v \in Nat /\ v > 0
      BY <1>1 DEF IInv, ChangesChain, Numbered
    <3>2. 1..(v - 1) \cup {v} = 1..v
      BY <3>1
    <3>3. bases'[j] = 1..v
      BY <1>4, <2>1, <3>1, <3>2
    <3>4. task'[j].version = v + 1
      BY <1>2, <1>4, <2>1
    <3> HIDE DEF v
    <3>5. (v + 1) - 1 = v
      BY <3>1
    <3> QED BY <3>3, <3>4, <3>5
  <2>2. CASE j # k
    BY <1>4, <2>2 DEF IInv, ChangesChain
  <2> QED BY <2>1, <2>2
<1>10. \A j \in Tasks : Unchanged(j)' /\ Numbered(j)'
  BY <1>1, <1>2, <1>4 DEF IInv, Unchanged, Numbered
<1> QED BY <1>6, <1>7, <1>8, <1>9, <1>10 DEF IInv, Registered, deviceVars

LEMMA RecordCompletedKeeps ==
    ASSUME IInv, NEW c \in Requests, RecordCompleted(c)
    PROVE  IInv'
<1>1. PICK k \in Tasks : /\ k = req[c].task /\ task[k] # None /\ lock[k] = c
                         /\ task[k].version = req[c].seen
  BY DEF RecordCompleted, IInv, Staged, Relies
<1>2. /\ Done(c) /\ lock' = [j \in Tasks |-> IF lock[j] = c THEN None ELSE lock[j]]
      /\ UNCHANGED <<leadVars, noticeVars, deviceVars, boundVars>>
  BY DEF RecordCompleted, Unlock
<1>3. /\ \A j \in Tasks : \A d \in Requests \ {c} : lock[j] = d => lock'[j] = d
      /\ lock' \in [Tasks -> Requests \cup {None}]
  BY <1>2 DEF IInv, TypeOK
<1>4. \A d \in Requests \ {c} : pc[d] = "record" => req[d].task # k
  BY <1>1 DEF IInv, Staged, Relies
<1>5. CASE Visible(req[c].by)
  <2>1. Changed(c, "done") /\ timeline' = timeline \cup {Entry("task_completed", k)}
    BY <1>1, <1>5 DEF RecordCompleted
  <2> QED BY <1>1, <1>2, <1>3, <1>4, <2>1, ChangeKeeps
<1>6. CASE ~Visible(req[c].by)
  <2>1. UNCHANGED <<task, bases, timeline>>
    BY <1>6 DEF RecordCompleted, Refused
  <2>2. TypeOK'
    BY <1>2, <1>3, <2>1, Ended DEF IInv, TypeOK, Memory, leadVars, noticeVars, deviceVars, boundVars
  <2>3. Staged'
    BY <1>2, <1>3, <2>1, LockReleased DEF deviceVars
  <2> QED BY <1>2, <2>1, <2>2, <2>3, TasksUntouched DEF IInv, Registered, deviceVars
<1> QED BY <1>5, <1>6

LEMMA DeleteKeeps ==
    ASSUME IInv, NEW c \in Requests, NEW k \in Tasks, k = req[c].task, task[k] # None,
           lock[k] = None, Done(c),
           task' = [task EXCEPT ![k] = Struck(task[k])],
           UNCHANGED <<lock, bases, leadVars, timeline, noticeVars, deviceVars, boundVars>>
    PROVE  IInv'
<1>1. PICK new \in Task : /\ task' = [task EXCEPT ![k] = new] /\ new # None
                          /\ new.status = task[k].status /\ new.version = task[k].version
  <2> DEFINE new == Struck(task[k])
  <2>1. task[k] \in Task
    BY DEF IInv, TypeOK
  <2>2. new \in Task /\ new.status = task[k].status /\ new.version = task[k].version
    BY <2>1, Revision
  <2>3. task' = [task EXCEPT ![k] = new]
    OBVIOUS
  <2> HIDE DEF new
  <2> QED BY <2>2, <2>3, Nones
<1>2. /\ task' \in [Tasks -> Task \cup {None}] /\ task'[k] = new
      /\ \A j \in Tasks : j # k => task'[j] = task[j]
  BY <1>1 DEF IInv, TypeOK
<1>3. \A j \in Tasks : /\ task'[j] = None <=> task[j] = None
                       /\ task[j] # None => /\ task'[j].status = task[j].status
                                            /\ task'[j].version = task[j].version
  BY <1>1, <1>2
<1>4. TypeOK'
  BY <1>2, Ended DEF IInv, TypeOK, Memory, leadVars, noticeVars, deviceVars, boundVars
<1>5. Staged'
  <2>1. \A d \in Requests \ {c} : pc[d] = "record" => req[d].task # k
    BY Nones DEF IInv, Staged, Relies
  <2>2. \A d \in Requests \ {c} : pc[d] = "create" => req[d].task # k
    BY DEF IInv, Staged, Relies
  <2>3. \A j \in Tasks : \A d \in Requests \ {c} : lock[j] = d => lock'[j] = d
    OBVIOUS
  <2>4. UNCHANGED <<alive, had>>
    BY DEF deviceVars
  <2>5. new \in Task
    BY <1>1
  <2>6. k = req[c].task /\ Done(c) /\ task' = [task EXCEPT ![k] = new]
    BY <1>1
  <2> QED BY ONLY IInv, c \in Requests, k \in Tasks, <2>1, <2>2, <2>3, <2>4, <2>5, <2>6, TaskWritten
<1>6. TimelineTells'
  BY <1>3 DEF IInv, TimelineTells
<1>7. ChangesChain' /\ \A j \in Tasks : Unchanged(j)' /\ Numbered(j)'
  BY <1>3 DEF IInv, ChangesChain, Unchanged, Numbered
<1> QED BY <1>4, <1>5, <1>6, <1>7 DEF IInv, Registered, deviceVars

LEMMA WriteKeeps ==
    ASSUME IInv, NEW c \in Requests, Write(c)
    PROVE  IInv'
<1>1. PICK k \in Tasks : /\ k = req[c].task /\ task[k] # None /\ lock[k] = None /\ pc[c] = "write"
                         /\ req[c].by \in Members /\ (Employee(req[c].by) => c \in mine)
  BY DEF Write, IInv, Staged, Relies
<1>2. UNCHANGED <<leadVars, timeline, noticeVars, deviceVars, boundVars>>
  BY DEF Write
<1>3. UNCHANGED <<holder, removed>> /\ leadLock' \in Requests \cup {None}
  BY <1>2 DEF leadVars, IInv, TypeOK
<1>4. CASE Done(c) /\ UNCHANGED taskVars
  BY <1>2, <1>3, <1>4, Ended, NoRequestFits, RequestsOnly
<1>5. CASE StillMatches(c) /\ req[c].do = "update" /\ Changed(c, task[k].status) /\ Done(c) /\ UNCHANGED lock
  <2>1. task[k].version = req[c].seen /\ task[k].status \in {"open", "done"}
    BY <1>1, <1>5 DEF StillMatches, IInv, TypeOK, Task
  <2>2. \A d \in Requests \ {c} : pc[d] = "record" => req[d].task # k
    BY <1>1, Nones DEF IInv, Staged, Relies
  <2>3. lock' \in [Tasks -> Requests \cup {None}]
    BY <1>5 DEF IInv, TypeOK
  <2> QED BY <1>1, <1>2, <1>5, <2>1, <2>2, <2>3, ChangeKeeps
<1>6. CASE task' = [task EXCEPT ![k] = Struck(task[k])] /\ Done(c) /\ UNCHANGED <<lock, bases>>
  BY <1>1, <1>2, <1>6, DeleteKeeps
<1>7. CASE /\ StillMatches(c) /\ req[c].do = "complete"
           /\ lock' = [lock EXCEPT ![k] = c]
           /\ Proceed(c, "record", req[c]) /\ UNCHANGED <<task, bases>>
  <2>1. /\ pc' = [pc EXCEPT ![c] = "record"] /\ req' = [req EXCEPT ![c] = req[c]] /\ mine' = mine
    BY <1>7 DEF Proceed
  <2>2. pc'[c] = "record" /\ req' = req /\ "record" \in Stages /\ lock'[k] = c
    BY <1>7, <2>1 DEF IInv, TypeOK, Stages
  <2>3. TypeOK'
    BY <1>2, <1>7, <2>1, <2>2 DEF IInv, TypeOK, leadVars, noticeVars, deviceVars, boundVars
  <2>4. ASSUME NEW d \in Requests PROVE Relies(d)'
    <3>1. CASE d = c
      <4>1. task[k].version = req[c].seen
        BY <1>1, <1>7 DEF StillMatches
      <4> QED BY <1>1, <1>7, <2>1, <2>2, <3>1, <4>1 DEF Relies, Employee
    <3>2. CASE d # c
      <4>1. pc'[d] = pc[d] /\ req'[d] = req[d] /\ Relies(d)
        BY <2>1, <2>2, <3>2 DEF IInv, TypeOK, Staged
      <4>2. \A j \in Tasks : lock[j] = d => lock'[j] = d
        BY <1>1, <1>7, Nones DEF IInv, TypeOK
      <4> QED BY <1>2, <1>7, <2>1, <4>1, <4>2 DEF Relies, deviceVars
    <3> QED BY <3>1, <3>2
  <2>5. Alone'
    BY <2>1, <2>2 DEF IInv, TypeOK, Staged, Alone
  <2> QED BY <1>2, <1>7, <2>3, <2>4, <2>5, TasksUntouched DEF IInv, Staged, Registered, deviceVars
<1>8. \/ Done(c) /\ UNCHANGED taskVars
      \/ /\ StillMatches(c) /\ req[c].do = "update" /\ Changed(c, task[k].status)
         /\ Done(c) /\ UNCHANGED lock
      \/ task' = [task EXCEPT ![k] = Struck(task[k])] /\ Done(c) /\ UNCHANGED <<lock, bases>>
      \/ /\ StillMatches(c) /\ req[c].do = "complete"
         /\ lock' = [lock EXCEPT ![k] = c]
         /\ Proceed(c, "record", req[c]) /\ UNCHANGED <<task, bases>>
  BY <1>1, Zenon DEF Write, Struck
<1> QED BY <1>4, <1>5, <1>6, <1>7, <1>8

-----------------------------------------------------------------------------
(* The theorems. *)

LEMMA InitIInv == Init => IInv
<1> SUFFICES ASSUME Init PROVE IInv
  OBVIOUS
<1>1. TypeOK
  <2>1. /\ holder = None /\ removed = FALSE /\ leadLock = None
        /\ task = [k \in Tasks |-> None] /\ lock = [k \in Tasks |-> None]
        /\ timeline = {}
        /\ notices = [m \in Members |-> 0] /\ unread = [m \in Members |-> 0]
        /\ owner = [k \in Tokens |-> None] /\ alive = Tokens
        /\ bases = [k \in Tasks |-> {}] /\ mine = {}
        /\ had = [m \in Members |-> {}] /\ pushes = [m \in Members |-> 0]
    BY DEF Init
  <2>2. kinds \subseteq Kinds /\ moves \in 0..MaxMoves
    BY FieldworkAssumption DEF Init
  <2>3. /\ pc \in [Requests -> Stages] /\ req \in [Requests -> Memory]
    <3>1. pc = [c \in Requests |-> "idle"] /\ req = [c \in Requests |-> NoRequest]
      BY DEF Init
    <3> QED BY <3>1, NoRequestFits
  <2>4. /\ holder \in Members \cup {None} /\ removed \in BOOLEAN /\ leadLock \in Requests \cup {None}
        /\ task \in [Tasks -> Task \cup {None}] /\ lock \in [Tasks -> Requests \cup {None}]
        /\ \A e \in timeline : e.type \in Types /\ e.task \in Tasks
    BY <2>1
  <2>5. /\ notices \in [Members -> Nat] /\ pushes \in [Members -> Nat]
        /\ unread \in [Members -> Nat] /\ \A m \in Members : unread[m] <= notices[m]
    BY <2>1
  <2>6. /\ owner \in [Tokens -> Members \cup {None}] /\ alive \subseteq Tokens
        /\ bases \in [Tasks -> SUBSET Nat] /\ mine \subseteq Requests
        /\ had \in [Members -> SUBSET Tokens]
    BY <2>1
  <2> QED BY ONLY <2>2, <2>3, <2>4, <2>5, <2>6 DEF TypeOK, Memory
<1>2. Staged
  <2>1. \A c \in Requests : pc[c] = "idle"
    BY DEF Init
  <2> QED BY <2>1 DEF Staged, Alone, Relies
<1>3. Registered /\ TimelineTells /\ ChangesChain /\ \A k \in Tasks : Unchanged(k) /\ Numbered(k)
  BY DEF Init, Registered, TimelineTells, ChangesChain, Unchanged, Numbered
<1> QED BY <1>1, <1>2, <1>3 DEF IInv

LEMMA StutterIInv == IInv /\ UNCHANGED vars => IInv'
<1> SUFFICES ASSUME IInv, UNCHANGED vars PROVE IInv'
  OBVIOUS
<1>1. TypeOK'
  BY DEF IInv, TypeOK, vars, leadVars, taskVars, noticeVars, deviceVars, requestVars, boundVars
<1>2. Staged'
  BY <1>1, SideStepsKeep DEF vars, deviceVars
<1> QED BY <1>1, <1>2, TasksUntouched DEF IInv, Registered, vars, taskVars, deviceVars

LEMMA NextIInv == IInv /\ [Next]_vars => IInv'
<1> SUFFICES ASSUME IInv, [Next]_vars PROVE IInv'
  OBVIOUS
<1>1. ASSUME NEW c \in Requests, Step(c) PROVE IInv'
  BY <1>1, RecordCreatedKeeps, WriteKeeps, RecordCompletedKeeps, CommitKeeps, UnregisterKeeps,
     FindTokensKeeps, CleanKeeps, FinishPushKeeps, FailKeeps, SendKeeps DEF Step
<1>2. ASSUME NEW c \in Requests, NEW m \in Members, Arrive(c, m) PROVE IInv'
  BY <1>2, CreateTaskKeeps, FindTaskKeeps, AssignKeeps, FindTokenKeeps
     DEF Arrive, PostTask, PatchTask, CompleteTask, DeleteTask, PatchAssignment, DeleteDevice
<1>3. ASSUME NEW m \in Members, \/ PostActivity(m) \/ RemoveLead(m) \/ PostDevice(m)
                                \/ MarkRead(m) \/ MarkAllRead(m)
      PROVE  IInv'
  BY <1>3, ActivityKeeps, RemoveLeadKeeps, RegisterKeeps, ReadingKeeps DEF PostActivity, PostDevice
<1> QED BY <1>1, <1>2, <1>3, TokenDiesKeeps, StutterIInv DEF Next

LEMMA AlwaysIInv == Spec => []IInv
BY InitIInv, NextIInv, PTL DEF Spec

(***************************************************************************)
(* Every variable keeps its type, and nobody has more unread notices than     *)
(* notices.                                                                 *)
(***************************************************************************)
THEOREM TypeCorrect == Spec => []TypeOK
<1>1. IInv => TypeOK
  BY DEF IInv
<1> QED BY <1>1, AlwaysIInv, PTL

(***************************************************************************)
(* The timeline tells what became of the tasks, whatever is reassigned,       *)
(* deleted or refused between the statements of a request.                   *)
(***************************************************************************)
THEOREM TimelineTold == Spec => []TimelineTells
<1>1. IInv => TimelineTells
  BY DEF IInv
<1> QED BY <1>1, AlwaysIInv, PTL

(***************************************************************************)
(* Every accepted change of a task was made on the version before it.         *)
(***************************************************************************)
THEOREM ChangesChained == Spec => []ChangesChain
<1>1. IInv => ChangesChain
  BY DEF IInv
<1> QED BY <1>1, AlwaysIInv, PTL

(***************************************************************************)
(* An employee changes a task only through a request during which the lead    *)
(* was the employee's.                                                       *)
(***************************************************************************)
THEOREM EmployeesReach == Spec => EmployeesKeepToTheirs
<1> DEFINE Reached == \A k \in Tasks : task[k] # None /\ task'[k] # task[k] =>
                         \E c \in Requests : /\ pc[c] \in {"write", "record"} /\ pc'[c] = "idle"
                                             /\ req[c].task = k
                                             /\ Employee(req[c].by) => c \in mine
<1>1. IInv /\ [Next]_vars => Reached
  <2> SUFFICES ASSUME IInv, [Next]_vars, NEW k \in Tasks, task[k] # None, task'[k] # task[k]
               PROVE  \E c \in Requests : /\ pc[c] \in {"write", "record"} /\ pc'[c] = "idle"
                                          /\ req[c].task = k
                                          /\ Employee(req[c].by) => c \in mine
    OBVIOUS
  <2>1. ASSUME UNCHANGED task PROVE FALSE
    BY <2>1
  <2>2. ASSUME NEW c \in Requests, pc[c] \in {"write", "record"}, Done(c),
               \A j \in Tasks : j # req[c].task => task'[j] = task[j]
        PROVE  \E d \in Requests : /\ pc[d] \in {"write", "record"} /\ pc'[d] = "idle"
                                   /\ req[d].task = k
                                   /\ Employee(req[d].by) => d \in mine
    <3>1. pc'[c] = "idle"
      BY <2>2 DEF Done, IInv, TypeOK
    <3>2. req[c].task = k
      BY <2>2
    <3>3. Employee(req[c].by) => c \in mine
      BY <2>2 DEF IInv, Staged, Relies
    <3> QED BY <2>2, <3>1, <3>2, <3>3
  <2>3. ASSUME NEW c \in Requests, RecordCreated(c) PROVE FALSE
    <3>1. /\ task[req[c].task] = None
          /\ UNCHANGED task \/ task' = [task EXCEPT ![req[c].task] = NewTask]
      BY <2>3 DEF RecordCreated, IInv, Staged, Relies
    <3> QED BY <3>1, <2>1 DEF IInv, TypeOK
  <2>4. ASSUME NEW c \in Requests, Write(c), ~UNCHANGED task
        PROVE  Done(c) /\ \A j \in Tasks : j # req[c].task => task'[j] = task[j]
    <3>1. Done(c)
      BY <2>4 DEF Write, taskVars
    <3>2. \/ Changed(c, task[req[c].task].status)
          \/ task' = [task EXCEPT ![req[c].task] = Struck(task[req[c].task])]
      BY <2>4, Zenon DEF Write, taskVars, Struck
    <3>3. CASE Changed(c, task[req[c].task].status)
      <4>1. task' = [task EXCEPT ![req[c].task] = Revised(task[req[c].task], task[req[c].task].status)]
        BY <3>3, Zenon DEF Changed, Revised
      <4> QED BY <3>1, <4>1 DEF IInv, TypeOK
    <3> QED BY <3>1, <3>2, <3>3 DEF IInv, TypeOK
  <2>5. ASSUME NEW c \in Requests, RecordCompleted(c), ~UNCHANGED task
        PROVE  Done(c) /\ \A j \in Tasks : j # req[c].task => task'[j] = task[j]
    <3>1. Done(c) /\ Changed(c, "done")
      BY <2>5 DEF RecordCompleted, Refused
    <3>2. task' = [task EXCEPT ![req[c].task] = Revised(task[req[c].task], "done")]
      BY <3>1, Zenon DEF Changed, Revised
    <3> QED BY <3>1, <3>2 DEF IInv, TypeOK
  <2>6. ASSUME NEW c \in Requests, Step(c)
        PROVE  RecordCreated(c) \/ Write(c) \/ RecordCompleted(c) \/ UNCHANGED task
    BY <2>6 DEF Step, CommitAssignment, Unregister, FindTokens, Clean, FinishPush, Fail, Send, taskVars
  <2>7. ASSUME NEW c \in Requests, NEW m \in Members, Arrive(c, m) PROVE UNCHANGED task
    BY <2>7 DEF Arrive, PostTask, PatchTask, CompleteTask, DeleteTask, PatchAssignment, DeleteDevice,
       CreateTask, FindTask, Assign, FindToken, taskVars
  <2>8. \/ \E c \in Requests : Step(c) \/ UNCHANGED task
        \/ UNCHANGED task
    BY <2>7 DEF Next, vars, taskVars, PostActivity, AddActivity, RemoveLead, PostDevice, Register,
       MarkRead, MarkAllRead, TokenDies
  <2>9. PICK c \in Requests : Step(c)
    BY <2>1, <2>8
  <2>10. RecordCreated(c) \/ Write(c) \/ RecordCompleted(c)
    BY <2>1, <2>6, <2>9
  <2>11. Write(c) => pc[c] = "write"
    BY DEF Write
  <2>12. RecordCompleted(c) => pc[c] = "record"
    BY DEF RecordCompleted
  <2> QED BY <2>1, <2>2, <2>3, <2>4, <2>5, <2>10, <2>11, <2>12
<1>2. IInv /\ [Next]_vars => [Reached]_vars
  BY <1>1
<1> QED BY <1>2, AlwaysIInv, PTL DEF Spec, EmployeesKeepToTheirs

(***************************************************************************)
(* A device whose token works is removed only by a request to sign it out, of  *)
(* somebody who had registered it, or by a push whose message the provider     *)
(* found malformed.                                                           *)
(***************************************************************************)
THEOREM TokensStay == Spec => TokenStays
<1> DEFINE Blamed(c, t) == /\ req[c].token = t
                           /\ \/ pc[c] = "unregister" /\ t \in had[req[c].by]
                              \/ pc[c] = "clean" /\ req[c].malformed
           Stays == \A t \in alive : owner[t] # None /\ owner'[t] = None =>
                        \E c \in Requests : Blamed(c, t)
<1>1. IInv /\ [Next]_vars => Stays
  <2> SUFFICES ASSUME IInv, [Next]_vars, NEW t \in alive, owner[t] # None, owner'[t] = None
               PROVE  \E c \in Requests : Blamed(c, t)
    OBVIOUS
  <2>1. t \in Tokens /\ owner \in [Tokens -> Members \cup {None}]
    BY DEF IInv, TypeOK
  <2>2. ASSUME UNCHANGED owner PROVE FALSE
    BY <2>2
  <2>3. ASSUME NEW c \in Requests, Clean(c) PROVE Blamed(c, t)
    <3>1. /\ pc[c] = "clean" /\ owner' \in {owner, [owner EXCEPT ![req[c].token] = None]}
          /\ req[c].token \notin alive \/ req[c].malformed
      BY <2>3 DEF Clean, IInv, Staged, Relies
    <3>2. req[c].token = t
      BY <2>1, <3>1
    <3> QED BY <3>1, <3>2
  <2>4. ASSUME NEW c \in Requests, Unregister(c) PROVE Blamed(c, t)
    <3>1. /\ pc[c] = "unregister" /\ owner' = [owner EXCEPT ![req[c].token] = None]
          /\ req[c].token \in had[req[c].by]
      BY <2>4 DEF Unregister, IInv, Staged, Relies
    <3>2. req[c].token = t
      BY <2>1, <3>1
    <3> QED BY <3>1, <3>2
  <2>5. ASSUME NEW m \in Members, NEW u \in Tokens, Register(m, u) PROVE FALSE
    <3>1. owner' = [owner EXCEPT ![u] = m]
      BY <2>5 DEF Register
    <3> QED BY <2>1, <3>1, Nones
  <2>6. ASSUME NEW c \in Requests, Step(c) PROVE Clean(c) \/ Unregister(c) \/ UNCHANGED owner
    BY <2>6 DEF Step, RecordCreated, Write, RecordCompleted, CommitAssignment, FindTokens,
       FinishPush, Fail, Send, deviceVars
  <2>7. ASSUME NEW c \in Requests, NEW m \in Members, Arrive(c, m) PROVE UNCHANGED owner
    BY <2>7 DEF Arrive, PostTask, PatchTask, CompleteTask, DeleteTask, PatchAssignment, DeleteDevice,
       CreateTask, FindTask, Assign, FindToken, deviceVars
  <2>8. ASSUME NEW m \in Members, \/ PostActivity(m) \/ RemoveLead(m) \/ PostDevice(m)
                                  \/ MarkRead(m) \/ MarkAllRead(m)
        PROVE  FALSE
    BY <2>2, <2>5, <2>8 DEF PostActivity, AddActivity, RemoveLead, PostDevice, MarkRead, MarkAllRead,
       deviceVars
  <2>9. ASSUME NEW u \in Tokens, TokenDies(u) PROVE UNCHANGED owner
    BY <2>9 DEF TokenDies
  <2>10. CASE UNCHANGED vars
    BY <2>2, <2>10 DEF vars, deviceVars
  <2> QED BY <2>2, <2>3, <2>4, <2>6, <2>7, <2>8, <2>9, <2>10 DEF Next
<1>2. IInv /\ [Next]_vars => [Stays]_vars
  BY <1>1
<1> QED BY <1>2, AlwaysIInv, PTL DEF Spec, TokenStays

-----------------------------------------------------------------------------
(* Pushes.  Each push sent, and each request on its way to send one, has a   *)
(* notice of its own in the recipient's list.                                *)

Waiting(m) == {c \in Requests : pc[c] = "tokens" /\ req[c].to = m}

PushInv ==
    \A m \in Members : /\ IsFiniteSet(Waiting(m))
                       /\ pushes[m] + Cardinality(Waiting(m)) <= notices[m]

\* Nothing is sent at the start.
LEMMA PushInit == Init => PushInv
<1> SUFFICES ASSUME Init, NEW m \in Members
             PROVE  IsFiniteSet(Waiting(m)) /\ pushes[m] + Cardinality(Waiting(m)) <= notices[m]
    BY DEF PushInv
<1>1. Waiting(m) = {}
    BY DEF Init, Waiting
<1>2. pushes[m] = 0 /\ notices[m] = 0
    BY DEF Init
<1>3. QED
    BY <1>1, <1>2, FS_EmptySet

\* No request sets out to push, no push and no notice is added.
LEMMA PushKept ==
    ASSUME TypeOK, PushInv, UNCHANGED <<pushes, notices>>,
           \A c \in Requests : pc'[c] = "tokens" => pc[c] = "tokens" /\ req'[c] = req[c]
    PROVE  PushInv'
<1> SUFFICES ASSUME NEW m \in Members
             PROVE  IsFiniteSet(Waiting(m)') /\ pushes'[m] + Cardinality(Waiting(m)') <= notices'[m]
    BY DEF PushInv
<1>1. Waiting(m)' \subseteq Waiting(m) /\ IsFiniteSet(Waiting(m))
    BY DEF Waiting, PushInv
<1>2. /\ IsFiniteSet(Waiting(m)') /\ Cardinality(Waiting(m)') <= Cardinality(Waiting(m))
      /\ Cardinality(Waiting(m)') \in Nat /\ Cardinality(Waiting(m)) \in Nat
    BY <1>1, FS_Subset, FS_CardinalityType
<1>3. pushes[m] \in Nat /\ notices[m] \in Nat /\ pushes[m] + Cardinality(Waiting(m)) <= notices[m]
    BY DEF TypeOK, PushInv
<1>4. QED
    BY <1>2, <1>3

\* Request c moves on, to a stage where it does not set out to push.
LEMMA PushMoved ==
    ASSUME TypeOK, PushInv, UNCHANGED <<pushes, notices>>,
           NEW c \in Requests, NEW s, s # "tokens", NEW r,
           pc' = [pc EXCEPT ![c] = s], req' = [req EXCEPT ![c] = r]
    PROVE  PushInv'
<1>1. \A d \in Requests : pc'[d] = "tokens" => pc[d] = "tokens" /\ req'[d] = req[d]
    BY DEF TypeOK
<1>2. QED
    BY <1>1, PushKept

\* The commit writes the notice the push will go with.
LEMMA CommitPush ==
    ASSUME TypeOK, PushInv, NEW c \in Requests, CommitAssignment(c)
    PROVE  PushInv'
<1>t. pc[c] = "commit" /\ pushes' = pushes /\ req[c].to \in Members \cup {None}
    BY DEF CommitAssignment, TypeOK
<1>1. CASE req[c].to \in {None, req[c].by}
    <2>1. pc' = [pc EXCEPT ![c] = "idle"] /\ pc'[c] = "idle"
        BY <1>1 DEF CommitAssignment, TypeOK
    <2>2. req' = [req EXCEPT ![c] = NoRequest] /\ notices' = notices
        BY <2>1 DEF CommitAssignment
    <2>3. QED
        BY <1>t, <2>1, <2>2, PushMoved
<1>2. CASE req[c].to \notin {None, req[c].by}
    <2>1. pc' = [pc EXCEPT ![c] = "tokens"] /\ pc'[c] = "tokens"
        BY <1>2 DEF CommitAssignment, TypeOK
    <2>2. req' = [req EXCEPT ![c] = req[c]] /\ notices' = [notices EXCEPT ![req[c].to] = @ + 1]
        BY <2>1 DEF CommitAssignment, Notify
    <2> SUFFICES ASSUME NEW m \in Members
                 PROVE  /\ IsFiniteSet(Waiting(m)')
                        /\ pushes'[m] + Cardinality(Waiting(m)') <= notices'[m]
        BY DEF PushInv
    <2>3. /\ IsFiniteSet(Waiting(m)) /\ Cardinality(Waiting(m)) \in Nat
          /\ pushes[m] \in Nat /\ notices[m] \in Nat
          /\ pushes[m] + Cardinality(Waiting(m)) <= notices[m]
        BY FS_CardinalityType DEF PushInv, TypeOK
    <2>4. CASE m = req[c].to
        <3>1. Waiting(m)' = Waiting(m) \cup {c} /\ c \notin Waiting(m)
            BY <1>t, <2>1, <2>2, <2>4 DEF Waiting, TypeOK
        <3>2. IsFiniteSet(Waiting(m)') /\ Cardinality(Waiting(m)') = Cardinality(Waiting(m)) + 1
            BY <2>3, <3>1, FS_AddElement
        <3>3. notices'[m] = notices[m] + 1
            BY <2>2, <2>4 DEF TypeOK
        <3>4. QED
            BY <1>t, <2>3, <3>2, <3>3
    <2>5. CASE m # req[c].to
        <3>1. Waiting(m)' = Waiting(m)
            BY <1>t, <2>1, <2>2, <2>5 DEF Waiting, TypeOK
        <3>2. notices'[m] = notices[m]
            BY <2>2, <2>5 DEF TypeOK
        <3>3. QED
            BY <1>t, <2>3, <3>1, <3>2
    <2>6. QED
        BY <2>4, <2>5
<1>3. QED
    BY <1>1, <1>2

\* The push goes out for a request that was waiting to send it.
LEMMA FindTokensPush ==
    ASSUME TypeOK, PushInv, NEW c \in Requests, FindTokens(c)
    PROVE  PushInv'
<1>1. /\ pc[c] = "tokens" /\ pc' = [pc EXCEPT ![c] = "send"] /\ notices' = notices
      /\ pushes' = [pushes EXCEPT ![req[c].to] = @ + 1]
      /\ \A d \in Requests \ {c} : req'[d] = req[d]
    BY DEF FindTokens, Proceed, TypeOK
<1> SUFFICES ASSUME NEW m \in Members
             PROVE  /\ IsFiniteSet(Waiting(m)')
                    /\ pushes'[m] + Cardinality(Waiting(m)') <= notices'[m]
    BY DEF PushInv
<1>2. /\ IsFiniteSet(Waiting(m)) /\ Cardinality(Waiting(m)) \in Nat
      /\ pushes[m] \in Nat /\ notices[m] \in Nat
      /\ pushes[m] + Cardinality(Waiting(m)) <= notices[m]
    BY FS_CardinalityType DEF PushInv, TypeOK
<1>3. Waiting(m)' = Waiting(m) \ {c}
    BY <1>1 DEF Waiting, TypeOK
<1>4. CASE m = req[c].to
    <2>1. c \in Waiting(m) /\ pushes'[m] = pushes[m] + 1
        BY <1>1, <1>4 DEF Waiting, TypeOK
    <2>2. IsFiniteSet(Waiting(m)') /\ Cardinality(Waiting(m)') = Cardinality(Waiting(m)) - 1
        BY <1>2, <1>3, <2>1, FS_RemoveElement
    <2>3. QED
        BY <1>1, <1>2, <2>1, <2>2
<1>5. CASE m # req[c].to
    <2>1. Waiting(m)' = Waiting(m) /\ pushes'[m] = pushes[m]
        BY <1>1, <1>3, <1>5 DEF Waiting, TypeOK
    <2>2. QED
        BY <1>1, <1>2, <2>1
<1>6. QED
    BY <1>4, <1>5

\* One step per action of Next.
LEMMA PushStep == TypeOK /\ PushInv /\ [Next]_vars => PushInv'
<1> SUFFICES ASSUME TypeOK, PushInv, [Next]_vars PROVE PushInv'
    OBVIOUS
<1>1. ASSUME NEW c \in Requests, NEW m \in Members, Arrive(c, m) PROVE PushInv'
    <2>1. PICK s \in {"create", "write", "commit", "unregister"} : \E r : Start(c, s, r)
        BY <1>1 DEF Arrive, PostTask, PatchTask, CompleteTask, DeleteTask, PatchAssignment,
           DeleteDevice, CreateTask, FindTask, Assign, FindToken
    <2>2. UNCHANGED <<pushes, notices>>
        BY <1>1 DEF Arrive, PostTask, PatchTask, CompleteTask, DeleteTask, PatchAssignment,
           DeleteDevice, CreateTask, FindTask, Assign, FindToken, noticeVars
    <2>3. QED
        BY <2>1, <2>2, PushMoved DEF Start
<1>2. ASSUME NEW c \in Requests,
             \/ RecordCreated(c) \/ Write(c) \/ RecordCompleted(c) \/ Unregister(c)
             \/ Clean(c) \/ FinishPush(c) \/ Fail(c) \/ \E t \in Tokens : Send(c, t)
      PROVE  PushInv'
    <2>1. Done(c) \/ \E s \in {"record", "send", "clean"} : \E r : Proceed(c, s, r)
        BY <1>2 DEF RecordCreated, Write, RecordCompleted, Unregister, Clean, FinishPush, Fail,
           GivesUp, Send
    <2>2. UNCHANGED <<pushes, notices>>
        BY <1>2 DEF RecordCreated, Write, RecordCompleted, Unregister, Clean, FinishPush, Fail,
           Send, noticeVars
    <2>3. QED
        BY <2>1, <2>2, PushMoved DEF Done, Proceed
<1>3. ASSUME UNCHANGED <<pushes, notices, pc, req>> PROVE PushInv'
    BY <1>3, PushKept
<1>4. ASSUME NEW m \in Members,
             PostActivity(m) \/ RemoveLead(m) \/ PostDevice(m) \/ MarkRead(m) \/ MarkAllRead(m)
      PROVE  PushInv'
    BY <1>3, <1>4 DEF PostActivity, AddActivity, RemoveLead, PostDevice, Register, MarkRead,
       MarkAllRead, noticeVars, requestVars
<1>5. ASSUME NEW t \in Tokens, TokenDies(t) PROVE PushInv'
    BY <1>3, <1>5 DEF TokenDies, noticeVars, requestVars
<1>6. CASE UNCHANGED vars
    BY <1>3, <1>6 DEF vars, noticeVars, requestVars
<1>7. QED
    BY <1>1, <1>2, <1>4, <1>5, <1>6, CommitPush, FindTokensPush DEF Next, Step

\* Nobody is pushed more than the notices in their list account for, however
\* many assignments commit, fail or overlap.
THEOREM PushesFollow == Spec => []PushFollowsNotice
<1>1. TypeOK /\ PushInv => PushFollowsNotice
    <2>1. ASSUME TypeOK, PushInv, NEW m \in Members PROVE pushes[m] <= notices[m]
        <3>1. /\ Cardinality(Waiting(m)) \in Nat /\ pushes[m] \in Nat /\ notices[m] \in Nat
              /\ pushes[m] + Cardinality(Waiting(m)) <= notices[m]
            BY <2>1, FS_CardinalityType DEF PushInv, TypeOK
        <3>2. QED
            BY <3>1
    <2>2. QED
        BY <2>1 DEF PushFollowsNotice
<1>2. QED
    BY <1>1, PushInit, PushStep, TypeCorrect, PTL DEF Spec
=============================================================================
