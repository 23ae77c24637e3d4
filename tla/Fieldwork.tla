------------------------------ MODULE Fieldwork ------------------------------
(***************************************************************************)
(* What happens around one lead once somebody works on it: its tasks         *)
(* (internal/task), its timeline (internal/activity), the notice and the     *)
(* push an assignment sends (internal/lead, internal/notification) and the   *)
(* devices the push goes to (internal/device).                              *)
(*                                                                          *)
(* A statement sees what is committed when it starts.  One that waits for a   *)
(* row lock checks that row again when it gets it, but not the lead its       *)
(* EXISTS looked at.  What a transaction wrote shows at its commit.          *)
(***************************************************************************)
EXTENDS Integers, FiniteSets

CONSTANTS Members, Role,    \* memberships and their roles
          Tasks,            \* tasks that may come to exist
          Tokens,           \* device tokens of the push provider
          Requests,         \* requests under way
          Scopes,           \* bound: which kinds of request a behaviour has
          Submitted,        \* bound: the types of entry clients send
          MaxVersion,       \* bound: no request on a task of this version
          MaxMoves,         \* bound: assignments in one behaviour
          None

Kinds == {"task", "note", "lead", "news", "device"}

UserTypes == {"note_added", "call_logged", "whatsapp_opened"}
Types == UserTypes \cup {"task_created", "task_completed"}

Task == [status : {"open", "done"}, version : Nat, deleted : BOOLEAN]

ASSUME FieldworkAssumption ==
    /\ Role \in [Members -> {"owner", "admin", "manager", "employee"}]
    /\ \A s \in Scopes : s \subseteq Kinds
    /\ Submitted \subseteq Types
    /\ MaxVersion \in Nat /\ MaxMoves \in Nat
    /\ None \notin Members \cup Tasks \cup Tokens \cup Requests \cup Task

VARIABLES holder, removed,  \* leads: assigned_to_membership_id, deleted_at
          leadLock,         \* the request that holds the lead's row
          task,             \* tasks
          lock,             \* the request that holds a task's row
          timeline,         \* activities
          notices, unread,  \* notifications of each member, and those not read
          owner,            \* device_tokens: token -> membership
          alive,            \* tokens the provider still accepts (external)
          pc, req,          \* requests: next statement, and what they hold in memory
          kinds, moves,     \* bounds: kinds of request, assignments so far
          bases,            \* history: versions the accepted changes of a task were made on
          mine,             \* history: employees' requests during which the lead was theirs
          had,              \* history: tokens a member has registered
          pushes            \* history: pushes started for a member

leadVars    == <<holder, removed, leadLock>>
taskVars    == <<task, lock, bases>>
noticeVars  == <<notices, unread, pushes>>
deviceVars  == <<owner, alive, had>>
requestVars == <<pc, req, mine>>
boundVars   == <<kinds, moves>>
vars == <<leadVars, taskVars, timeline, noticeVars, deviceVars, requestVars, boundVars>>

Stages == {"idle", "create", "write", "record", "commit", "tokens", "send", "clean", "unregister"}

NewTask == [status |-> "open", version |-> 1, deleted |-> FALSE]

\* malformed: what the provider makes of the message this request pushes.
NoRequest == [by |-> None, task |-> None, do |-> "none", seen |-> 0,
              to |-> None, todo |-> {}, token |-> None, malformed |-> FALSE]

TypeOK ==
    /\ holder \in Members \cup {None} /\ removed \in BOOLEAN
    /\ leadLock \in Requests \cup {None}
    /\ task \in [Tasks -> Task \cup {None}]
    /\ lock \in [Tasks -> Requests \cup {None}]
    /\ \A e \in timeline : e.type \in Types /\ e.task \in Tasks
    /\ notices \in [Members -> Nat] /\ pushes \in [Members -> Nat]
    /\ unread \in [Members -> Nat] /\ \A m \in Members : unread[m] <= notices[m]
    /\ owner \in [Tokens -> Members \cup {None}] /\ alive \subseteq Tokens
    /\ pc \in [Requests -> Stages]
    /\ req \in [Requests ->
                   [by : Members \cup {None}, task : Tasks \cup {None},
                    do : {"none", "update", "complete", "delete"}, seen : Nat,
                    to : Members \cup {None}, todo : SUBSET Tokens, token : Tokens \cup {None},
                    malformed : BOOLEAN]]
    /\ kinds \subseteq Kinds /\ moves \in 0..MaxMoves
    /\ bases \in [Tasks -> SUBSET Nat] /\ mine \subseteq Requests
    /\ had \in [Members -> SUBSET Tokens]

Init ==
    /\ holder = None /\ removed = FALSE /\ leadLock = None
    /\ task = [k \in Tasks |-> None] /\ lock = [k \in Tasks |-> None]
    /\ timeline = {}
    /\ notices = [m \in Members |-> 0] /\ unread = [m \in Members |-> 0]
    /\ owner = [k \in Tokens |-> None] /\ alive = Tokens
    /\ pc = [c \in Requests |-> "idle"] /\ req = [c \in Requests |-> NoRequest]
    /\ kinds \in Scopes /\ moves = 0
    /\ bases = [k \in Tasks |-> {}] /\ mine = {}
    /\ had = [m \in Members |-> {}] /\ pushes = [m \in Members |-> 0]

-----------------------------------------------------------------------------
Employee(m) == Role[m] = "employee"
MayDelete(m) == ~Employee(m)
MayAssign(m) == ~Employee(m)
MayRemove(m) == Role[m] \in {"owner", "admin"}

\* Mutant: an employee's reach is not narrowed to the leads it holds.
WithinAny(m) == TRUE

\* The EXISTS of the task statements: it does not ask whether the lead is deleted.
Within(m) == Employee(m) => holder = m

\* The EXISTS of the inserts: a lead still there, and within reach.
Visible(m) == ~removed /\ (Employee(m) => holder = m)

Asked(m) == [NoRequest EXCEPT !.by = m]

Start(c, stage, r) ==
    /\ pc[c] = "idle"
    /\ pc' = [pc EXCEPT ![c] = stage]
    /\ req' = [req EXCEPT ![c] = r]
    /\ mine' = IF holder = r.by THEN mine \cup {c} ELSE mine

Proceed(c, stage, r) ==
    /\ pc' = [pc EXCEPT ![c] = stage]
    /\ req' = [req EXCEPT ![c] = r]
    /\ UNCHANGED mine

Done(c) ==
    /\ pc' = [pc EXCEPT ![c] = "idle"]
    /\ req' = [req EXCEPT ![c] = NoRequest]
    /\ mine' = mine \ {c}

Unlock(c) == lock' = [k \in Tasks |-> IF lock[k] = c THEN None ELSE lock[k]]

Entry(type, k) == [type |-> type, task |-> k]

-----------------------------------------------------------------------------
(***************************************************************************)
(* Tasks.  Creating and completing write the task and then its entry in the  *)
(* timeline, in one transaction; a lead out of sight by then refuses the      *)
(* entry, and the transaction with it.  A request refused on sight changes    *)
(* nothing and is left out.                                                  *)
(***************************************************************************)
CreateTask(c, m, k) ==
    /\ "task" \in kinds
    /\ task[k] = None /\ \A d \in Requests : req[d].task # k
    /\ Visible(m)
    /\ Start(c, "create", [Asked(m) EXCEPT !.task = k])
    /\ UNCHANGED <<leadVars, taskVars, timeline, noticeVars, deviceVars, boundVars>>

RecordCreated(c) ==
    /\ pc[c] = "create"
    /\ IF Visible(req[c].by)
       THEN /\ task' = [task EXCEPT ![req[c].task] = NewTask]
            /\ timeline' = timeline \cup {Entry("task_created", req[c].task)}
       ELSE UNCHANGED <<task, timeline>>
    /\ Done(c)
    /\ UNCHANGED <<leadVars, lock, bases, noticeVars, deviceVars, boundVars>>

\* The statement starts: it finds the row the client saw, or nothing.
FindTask(c, m, k, do) ==
    /\ "task" \in kinds
    /\ task[k] # None /\ ~task[k].deleted /\ task[k].version < MaxVersion
    /\ Within(m) /\ (do = "delete" => MayDelete(m))
    /\ Start(c, "write", [Asked(m) EXCEPT !.task = k, !.do = do, !.seen = task[k].version])
    /\ UNCHANGED <<leadVars, taskVars, timeline, noticeVars, deviceVars, boundVars>>

\* Mutant: the row is not checked again once its lock is had.
StillMatchesNoCheck(c) == TRUE

StillMatches(c) ==
    LET t == task[req[c].task]
    IN  ~t.deleted /\ (req[c].do # "delete" => t.version = req[c].seen)

Changed(c, status) ==
    LET t == task[req[c].task]
    IN  /\ task' = [task EXCEPT ![req[c].task] =
                       [t EXCEPT !.status = status, !.version = t.version + 1]]
        /\ bases' = [bases EXCEPT ![req[c].task] = @ \cup {req[c].seen}]

Write(c) ==
    /\ pc[c] = "write" /\ lock[req[c].task] = None
    /\ \/ /\ ~StillMatches(c)
          /\ Done(c) /\ UNCHANGED taskVars
       \/ /\ StillMatches(c) /\ req[c].do = "update"
          /\ Changed(c, task[req[c].task].status)
          /\ Done(c) /\ UNCHANGED lock
       \/ /\ StillMatches(c) /\ req[c].do = "delete"
          /\ task' = [task EXCEPT ![req[c].task] = [@ EXCEPT !.deleted = TRUE]]
          /\ Done(c) /\ UNCHANGED <<lock, bases>>
       \/ /\ StillMatches(c) /\ req[c].do = "complete"
          /\ lock' = [lock EXCEPT ![req[c].task] = c]
          /\ Proceed(c, "record", req[c]) /\ UNCHANGED <<task, bases>>
    /\ UNCHANGED <<leadVars, timeline, noticeVars, deviceVars, boundVars>>

\* Mutant: the completion stands although its entry was refused.
CompletionStands(c) == Changed(c, "done")

Refused(c) == UNCHANGED <<task, bases>>

RecordCompleted(c) ==
    /\ pc[c] = "record"
    /\ IF Visible(req[c].by)
       THEN /\ Changed(c, "done")
            /\ timeline' = timeline \cup {Entry("task_completed", req[c].task)}
       ELSE Refused(c) /\ UNCHANGED timeline
    /\ Unlock(c)
    /\ Done(c)
    /\ UNCHANGED <<leadVars, noticeVars, deviceVars, boundVars>>

IsUserType(type) == type \in UserTypes

\* An entry of a member's own, whose metadata may name a task.
AddActivity(m, type, k) ==
    /\ "note" \in kinds
    /\ IsUserType(type)
    /\ Visible(m)
    /\ timeline' = timeline \cup {Entry(type, k)}
    /\ UNCHANGED <<leadVars, taskVars, noticeVars, deviceVars, requestVars, boundVars>>

-----------------------------------------------------------------------------
(***************************************************************************)
(* Assigning: the lead, the entry and the notice in one transaction, the      *)
(* push after it and only for somebody else.  Versions are LeadDesk's.        *)
(***************************************************************************)
Assign(c, m, to) ==
    /\ "lead" \in kinds /\ moves < MaxMoves
    /\ MayAssign(m) /\ ~removed /\ leadLock = None
    /\ Start(c, "commit", [Asked(m) EXCEPT !.to = to])
    /\ leadLock' = c
    /\ UNCHANGED <<holder, removed, taskVars, timeline, noticeVars, deviceVars, boundVars>>

Notify(c) ==
    /\ notices' = [notices EXCEPT ![req[c].to] = @ + 1]
    /\ unread' = [unread EXCEPT ![req[c].to] = @ + 1]

CommitAssignment(c) ==
    /\ pc[c] = "commit" /\ moves < MaxMoves
    /\ holder' = req[c].to
    /\ leadLock' = None /\ moves' = moves + 1
    /\ pc' = [pc EXCEPT ![c] = IF req[c].to \in {None, req[c].by} THEN "idle" ELSE "tokens"]
    /\ req' = [req EXCEPT ![c] = IF pc'[c] = "idle" THEN NoRequest ELSE req[c]]
    /\ mine' = (mine \ {d \in {c} : pc'[d] = "idle"})
                   \cup {d \in Requests \ {c} : req[d].by # None /\ req[d].by = req[c].to}
    /\ IF pc'[c] = "idle" THEN UNCHANGED <<notices, unread>> ELSE Notify(c)
    /\ UNCHANGED <<removed, taskVars, timeline, pushes, deviceVars, kinds>>

RemoveLead(m) ==
    /\ "lead" \in kinds
    /\ MayRemove(m) /\ ~removed /\ leadLock = None
    /\ removed' = TRUE
    /\ UNCHANGED <<holder, leadLock, taskVars, timeline, noticeVars, deviceVars,
                   requestVars, boundVars>>

\* Mutant: a notice that was read is marked again.
HasNotices(m) == notices[m] > 0

HasUnread(m) == unread[m] > 0

MarkRead(m) ==
    /\ "news" \in kinds /\ HasUnread(m)
    /\ unread' = [unread EXCEPT ![m] = @ - 1]
    /\ UNCHANGED <<leadVars, taskVars, timeline, notices, pushes, deviceVars,
                   requestVars, boundVars>>

MarkAllRead(m) ==
    /\ "news" \in kinds /\ HasUnread(m)
    /\ unread' = [unread EXCEPT ![m] = 0]
    /\ UNCHANGED <<leadVars, taskVars, timeline, notices, pushes, deviceVars,
                   requestVars, boundVars>>

-----------------------------------------------------------------------------
(***************************************************************************)
(* Devices.  A token has one row, which moves to whoever registers it last.   *)
(***************************************************************************)
Register(m, t) ==
    /\ "device" \in kinds
    /\ t \in alive
    /\ owner' = [owner EXCEPT ![t] = m]
    /\ had' = [had EXCEPT ![m] = @ \cup {t}]
    /\ UNCHANGED <<leadVars, taskVars, timeline, noticeVars, alive, requestVars, boundVars>>

Owns(m, t) == owner[t] = m

FindToken(c, m, t) ==
    /\ "device" \in kinds
    /\ Owns(m, t)
    /\ Start(c, "unregister", [Asked(m) EXCEPT !.token = t])
    /\ UNCHANGED <<leadVars, taskVars, timeline, noticeVars, deviceVars, boundVars>>

\* The row goes whoever has it by now.
Unregister(c) ==
    /\ pc[c] = "unregister"
    /\ owner' = [owner EXCEPT ![req[c].token] = None]
    /\ Done(c)
    /\ UNCHANGED <<leadVars, taskVars, timeline, noticeVars, alive, had, boundVars>>

TokenDies(t) ==
    /\ "device" \in kinds
    /\ t \in alive
    /\ alive' = alive \ {t}
    /\ UNCHANGED <<leadVars, taskVars, timeline, noticeVars, owner, had, requestVars, boundVars>>

-----------------------------------------------------------------------------
(* PushToMembership.  Its message carries the lead's name, as long as it is. *)
FindTokens(c) ==
    /\ pc[c] = "tokens"
    /\ \E malformed \in BOOLEAN :
          Proceed(c, "send", [req[c] EXCEPT !.todo = {t \in Tokens : owner[t] = req[c].to},
                                            !.malformed = malformed])
    /\ pushes' = [pushes EXCEPT ![req[c].to] = @ + 1]
    /\ UNCHANGED <<leadVars, taskVars, timeline, notices, unread, deviceVars, boundVars>>

\* Mutant: any error of the provider condemns the token.
InvalidOnAnyError(c, t) == TRUE

\* UNREGISTERED is about the token, INVALID_ARGUMENT may be about the message.
Invalid(c, t) == t \notin alive \/ req[c].malformed

Send(c, t) ==
    /\ pc[c] = "send" /\ t \in req[c].todo
    /\ LET rest == [req[c] EXCEPT !.todo = @ \ {t}]
       IN  \/ Proceed(c, "send", rest)      \* delivered, or an error that may pass
           \/ Invalid(c, t) /\ Proceed(c, "clean", [rest EXCEPT !.token = t])
    /\ UNCHANGED <<leadVars, taskVars, timeline, noticeVars, deviceVars, boundVars>>

\* A failed delete is logged and the loop goes on.
Clean(c) ==
    /\ pc[c] = "clean"
    /\ owner' \in {owner, [owner EXCEPT ![req[c].token] = None]}
    /\ Proceed(c, "send", [req[c] EXCEPT !.token = None])
    /\ UNCHANGED <<leadVars, taskVars, timeline, noticeVars, alive, had, boundVars>>

FinishPush(c) ==
    /\ pc[c] = "send" /\ req[c].todo = {}
    /\ Done(c)
    /\ UNCHANGED <<leadVars, taskVars, timeline, noticeVars, deviceVars, boundVars>>

-----------------------------------------------------------------------------
\* Mutant: the push goes out although the commit failed.
GivesUpButPushes(c) ==
    IF pc[c] = "commit" /\ req[c].to # None THEN Proceed(c, "tokens", req[c]) ELSE Done(c)

GivesUp(c) == Done(c)

\* A statement or a commit fails, or the process dies: the transaction is undone.
Fail(c) ==
    /\ pc[c] # "idle"
    /\ Unlock(c)
    /\ leadLock' = IF leadLock = c THEN None ELSE leadLock
    /\ GivesUp(c)
    /\ UNCHANGED <<holder, removed, task, bases, timeline, noticeVars, deviceVars, boundVars>>

\* The endpoints, asked by member m.
PostTask(c, m) == \E k \in Tasks : CreateTask(c, m, k)
PatchTask(c, m) == \E k \in Tasks : FindTask(c, m, k, "update")
CompleteTask(c, m) == \E k \in Tasks : FindTask(c, m, k, "complete")
DeleteTask(c, m) == \E k \in Tasks : FindTask(c, m, k, "delete")
PostActivity(m) == \E type \in Submitted, k \in Tasks : AddActivity(m, type, k)
PatchAssignment(c, m) == \E to \in Members \cup {None} : Assign(c, m, to)
PostDevice(m) == \E t \in Tokens : Register(m, t)
DeleteDevice(c, m) == \E t \in Tokens : FindToken(c, m, t)

Arrive(c, m) ==
    \/ PostTask(c, m) \/ PatchTask(c, m) \/ CompleteTask(c, m) \/ DeleteTask(c, m)
    \/ PatchAssignment(c, m) \/ DeleteDevice(c, m)

Step(c) ==
    \/ RecordCreated(c) \/ Write(c) \/ RecordCompleted(c) \/ CommitAssignment(c)
    \/ Unregister(c) \/ FindTokens(c) \/ Clean(c) \/ FinishPush(c) \/ Fail(c)
    \/ \E t \in Tokens : Send(c, t)

Next ==
    \/ \E c \in Requests : Step(c) \/ \E m \in Members : Arrive(c, m)
    \/ \E m \in Members :
          \/ PostActivity(m) \/ RemoveLead(m) \/ PostDevice(m)
          \/ MarkRead(m) \/ MarkAllRead(m)
    \/ \E t \in Tokens : TokenDies(t)

Spec == Init /\ [][Next]_vars

-----------------------------------------------------------------------------
(***************************************************************************)
(* Properties.                                                              *)
(***************************************************************************)

(***************************************************************************)
(* The timeline tells what became of the tasks: one that exists has its       *)
(* entry, one is done exactly when an entry says so, and nobody can write     *)
(* such an entry by hand; also when the lead is reassigned or deleted between  *)
(* the two statements of a request, or one of them fails.                    *)
(***************************************************************************)
TimelineTells ==
    \A k \in Tasks :
        /\ task[k] # None <=> Entry("task_created", k) \in timeline
        /\ (task[k] # None /\ task[k].status = "done") <=> Entry("task_completed", k) \in timeline

(***************************************************************************)
(* Of the requests that change one version of a task, one succeeds, however    *)
(* they wait for each other: every accepted update or completion was made on  *)
(* the version before it.                                                    *)
(***************************************************************************)
ChangesChain ==
    \A k \in Tasks : task[k] # None => bases[k] = 1..(task[k].version - 1)

(***************************************************************************)
(* An employee changes a task only through a request during which the lead    *)
(* was the employee's, whatever is reassigned meanwhile.                      *)
(***************************************************************************)
EmployeesKeepToTheirs ==
    [][\A k \in Tasks : task[k] # None /\ task'[k] # task[k] =>
          \E c \in Requests : /\ pc[c] \in {"write", "record"} /\ pc'[c] = "idle"
                              /\ req[c].task = k
                              /\ Employee(req[c].by) => c \in mine]_vars

(***************************************************************************)
(* A push is only ever sent for an assignment that stands and whose notice is  *)
(* in the recipient's list: a failed commit sends none.                       *)
(***************************************************************************)
PushFollowsNotice == \A m \in Members : pushes[m] <= notices[m]

(***************************************************************************)
(* A device whose token works stops receiving only because somebody who had   *)
(* registered it signs out, or because the provider found a push to it        *)
(* malformed and its answer was taken for the token's end: no other error of   *)
(* a push, and nobody else's request, removes it.                            *)
(***************************************************************************)
TokenStays ==
    [][\A t \in alive : owner[t] # None /\ owner'[t] = None =>
          \E c \in Requests :
              /\ req[c].token = t
              /\ \/ pc[c] = "unregister" /\ t \in had[req[c].by]
                 \/ pc[c] = "clean" /\ req[c].malformed]_vars
=============================================================================
