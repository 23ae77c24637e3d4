------------------------------ MODULE LeadDesk ------------------------------
(***************************************************************************)
(* The leads of one organization and the requests that work on them at the  *)
(* same time: creating (dashboard, public API, public form), changing a     *)
(* status, assigning, editing, deleting (internal/lead), converting to a    *)
(* customer (internal/customer), and deactivating a member, which settles   *)
(* its open leads (internal/membership).                                    *)
(*                                                                          *)
(* A request is a short program of SQL statements; each statement is one    *)
(* step and sees what is committed at that moment (READ COMMITTED).  A row  *)
(* lock taken inside a transaction is kept until its end, and a statement   *)
(* that would write or lock a locked row waits.  A write whose transaction  *)
(* only has inserts left to do is one step with the commit.  Field contents *)
(* are left out: an edit is the new version it makes.  The month of the     *)
(* quota does not turn.                                                     *)
(***************************************************************************)
EXTENDS Integers, FiniteSets

CONSTANTS
    Clients,        \* requests that may run at the same time
    Leads,          \* rows that may come to exist
    Members,        \* memberships of the organization
    Role,           \* the role of each
    Actor,          \* the membership a client's access token names
    Keys,           \* idempotency keys
    Nobody, NoKey, NoLead, Free,    \* null values
    Kinds,          \* bound: the kinds of request clients make
    Inlets,         \* bound: the principals that create leads
    Limit,          \* the plan's leads per month; 0 is unlimited
    MaxVersion      \* bound: no new request on a lead of this version

ASSUME LeadAssumption ==
    /\ IsFiniteSet(Clients) /\ IsFiniteSet(Leads) /\ Clients # {}
    /\ Role \in [Members -> {"owner", "admin", "manager", "employee"}]
    /\ Actor \in [Clients -> Members]
    /\ Nobody \notin Members /\ NoKey \notin Keys
    /\ NoLead \notin Leads /\ Free \notin Clients
    /\ Inlets \subseteq {"user", "api_key", "public_form"}
    /\ Limit \in Nat /\ MaxVersion \in Nat

VARIABLES
    row,            \* the leads table
    nextNumber,     \* organizations.next_lead_number
    numberLock,     \* the transaction that holds the organization's row
    customers,      \* leads a customer row was made from; such rows stay
    lock,           \* the transaction that holds a lead's row lock
    gone,           \* deactivated members
    aged,           \* leads older than 48 hours
    named,          \* leads the answers for a key named since its last sweep
    alerts,         \* quota notices sent this month
    pc, req         \* each client's request

numberVars == <<nextNumber, numberLock>>
answerVars == <<named, alerts>>
tableVars  == <<row, numberVars, customers, gone, aged>>
vars       == <<tableVars, lock, answerVars, pc, req>>

mainPath == <<"new", "contacted", "qualified", "proposal", "won">>
OnPath   == {mainPath[i] : i \in 1..5}
Statuses == OnPath \cup {"lost", "unqualified", "spam"}

\* The principal a lead came in through.
Principals == {"user", "api_key", "public_form"}

Row == [status : Statuses \cup {"absent"}, version : Nat, who : Members \cup {Nobody},
        deleted : BOOLEAN, key : Keys \cup {NoKey}, number : Nat, via : Principals \cup {"none"}]

NoRow == [status |-> "absent", version |-> 0, who |-> Nobody, deleted |-> FALSE,
          key |-> NoKey, number |-> 0, via |-> "none"]

\* What a request carries: the lead and the row as the client last saw it, the
\* status or assignee wanted, what the transaction read first, the principal
\* and key of a new lead, the member to deactivate and the leads found open.
Request == [lead : Leads \cup {NoLead}, seen : Row, want : Statuses \cup Members \cup {Nobody},
            from : Statuses \cup Members \cup {Nobody, "absent"},
            via : Principals \cup {"none"}, key : Keys \cup {NoKey},
            member : Members \cup {Nobody}, open : SUBSET Leads]

NoRequest == [lead |-> NoLead, seen |-> NoRow, want |-> Nobody, from |-> Nobody, via |-> "none",
              key |-> NoKey, member |-> Nobody, open |-> {}]

Creating == {"quota", "alertCheck", "alertSend", "sweepKeys", "allocate", "insert"}
Stages   == Creating \cup {"idle", "replay", "lockStatus", "checkConverted", "changeStatus",
                           "readAssignee", "assign", "edit", "convert", "recordConversion",
                           "delete", "settle", "leave"}

TypeOK ==
    /\ row \in [Leads -> Row]
    /\ nextNumber \in Nat
    /\ numberLock \in Clients \cup {Free}
    /\ customers \subseteq Leads
    /\ lock \in [Leads -> Clients \cup {Free}]
    /\ gone \subseteq Members
    /\ aged \subseteq Leads
    /\ named \in [Keys -> SUBSET Leads]
    /\ alerts \in Nat
    /\ pc \in [Clients -> Stages]
    /\ req \in [Clients -> Request]

Init ==
    /\ row = [l \in Leads |-> NoRow]
    /\ nextNumber = 1
    /\ numberLock = Free
    /\ customers = {}
    /\ lock = [l \in Leads |-> Free]
    /\ gone = {}
    /\ aged = {}
    /\ named = [k \in Keys |-> {}]
    /\ alerts = 0
    /\ pc = [c \in Clients |-> "idle"]
    /\ req = [c \in Clients |-> NoRequest]

-----------------------------------------------------------------------------
(* Helpers *)

Exists(l) == row[l].status # "absent"

\* findByIDQuery: not deleted, and an employee sees only its own.
Visible(c, l) ==
    /\ Exists(l) /\ ~row[l].deleted
    /\ Role[Actor[c]] = "employee" => row[l].who = Actor[c]

OpenLeads(m) ==
    {l \in Leads : /\ Exists(l) /\ ~row[l].deleted /\ row[l].who = m
                   /\ row[l].status \notin {"won", "lost", "unqualified", "spam"}}

\* Require: the roles that may do a kind of request.
Permitted ==
    LET managing == {"owner", "admin"}
        desk     == managing \cup {"manager"}
    IN  [create |-> desk, assign |-> desk, status |-> desk \cup {"employee"},
         edit |-> desk \cup {"employee"}, delete |-> managing, convert |-> managing,
         deactivate |-> managing]

May(c, kind) == kind \in Kinds /\ Role[Actor[c]] \in Permitted[kind]

\* Mutant: a lead may step back to new, as before ADR-015.
ValidTransitionToNew(from, to) ==
    \/ from = "contacted" /\ to = "new"
    \/ /\ from \notin {"unqualified", "spam", to}
       /\ \/ to \in {"unqualified", "spam", "lost"}
          \/ \E i, j \in 1..5 : mainPath[i] = from /\ mainPath[j] = to /\ j - i \in {1, -1}

\* validateStatusTransition.
ValidTransition(from, to) ==
    /\ from \notin {"unqualified", "spam"}
    /\ to = from => to = "lost"
    /\ to # "new"
    /\ \/ to \in {"unqualified", "spam", "lost"}
       \/ from = "lost"
       \/ \E i, j \in 1..5 : mainPath[i] = from /\ mainPath[j] = to /\ j - i \in {1, -1}

\* Mutant: deleting a lead gives its place in the quota back.
UsedLive == Cardinality({l \in Leads : Exists(l) /\ ~row[l].deleted})

\* CountCreatedThisMonth: deleted leads count.
Used == Cardinality({l \in Leads : Exists(l)})

Fits == Limit = 0 \/ Used < Limit

\* Mutant: the unique index is partial: a deleted lead frees its key.
HoldersLive(k) == {l \in Leads : Exists(l) /\ ~row[l].deleted /\ row[l].key = k}

\* uq_leads_org_idempotency: a deleted lead holds its key.
Holders(k) == {l \in Leads : Exists(l) /\ row[l].key = k}

KeyTaken(k) == k # NoKey /\ Holders(k) # {}

\* An UPDATE of c that asks for the version it saw.
Matches(c, l) == Visible(c, l) /\ row[l].version = req[c].seen.version

Goto(c, stage) == pc' = [pc EXCEPT ![c] = stage] /\ UNCHANGED req

\* The request is answered.
Done(c) == pc' = [pc EXCEPT ![c] = "idle"] /\ req' = [req EXCEPT ![c] = NoRequest]

\* Mutant: a refused status change returns without ending its transaction.
UnlockOnConvert(c) ==
    lock' = [l \in Leads |-> IF lock[l] = c /\ pc[c] = "recordConversion" THEN Free ELSE lock[l]]

\* A transaction of c ends: the lead's lock goes.
Unlock(c) == lock' = [l \in Leads |-> IF lock[l] = c THEN Free ELSE lock[l]]

\* The answer to a request with key k names the leads ls.
Answer(k, ls) == named' = [j \in Keys |-> IF j = k THEN named[j] \cup ls ELSE named[j]]

\* Mutants: any failure gives a number back, taken or not; create runs outside a transaction
\* and a failed insert burns its number.
UnallocateAlways(c) ==
    nextNumber' = nextNumber - 1 /\ numberLock' = Free

UnallocateNot(c) ==
    /\ numberLock' = IF numberLock = c THEN Free ELSE numberLock
    /\ UNCHANGED nextNumber

\* The allocation of c is undone with its transaction.
Unallocate(c) ==
    IF numberLock = c
    THEN nextNumber' = nextNumber - 1 /\ numberLock' = Free
    ELSE UNCHANGED numberVars

-----------------------------------------------------------------------------
(* Requests arrive *)

Begin(c, stage, r) ==
    /\ pc[c] = "idle"
    /\ pc' = [pc EXCEPT ![c] = stage]
    /\ req' = [req EXCEPT ![c] = r]
    /\ UNCHANGED <<tableVars, lock, answerVars>>

\* Bound: there is a row left for every creation under way.
Room == Cardinality({l \in Leads : ~Exists(l)}) > Cardinality({c \in Clients : pc[c] \in Creating})

BeginCreate(c) ==
    \E via \in Inlets, k \in Keys \cup {NoKey}, who \in Members \cup {Nobody} :
        /\ IF via = "user" THEN May(c, "create") ELSE "create" \in Kinds /\ who = Nobody
        /\ via = "public_form" => k = NoKey
        /\ Room
        /\ Begin(c, "quota", [NoRequest EXCEPT !.via = via, !.key = k, !.want = who])

\* A request on a lead the client has on its screen.
BeginOn(c, l, kind, stage, want) ==
    /\ May(c, kind) /\ Visible(c, l)
    /\ row[l].version < MaxVersion
    /\ Begin(c, stage, [NoRequest EXCEPT !.lead = l, !.seen = row[l], !.want = want])

BeginUpdate(c, l) ==
    \/ \E s \in Statuses : BeginOn(c, l, "status", "lockStatus", s)
    \/ \E m \in Members \cup {Nobody} : BeginOn(c, l, "assign", "readAssignee", m)
    \/ BeginOn(c, l, "edit", "edit", Nobody)
    \/ BeginOn(c, l, "convert", "convert", Nobody)
    \/ BeginOn(c, l, "delete", "delete", Nobody)

\* Deactivate up to its transaction: an admin may not remove an owner, nor the
\* last owner itself.
BeginDeactivate(c, m) ==
    /\ May(c, "deactivate") /\ m \notin gone
    /\ Role[m] = "owner" =>
        /\ Role[Actor[c]] = "owner"
        /\ m = Actor[c] => \E o \in Members \ (gone \cup {m}) : Role[o] = "owner"
    /\ Begin(c, "settle", [NoRequest EXCEPT !.member = m])

-----------------------------------------------------------------------------
(* Create *)

\* The quota is counted before the transaction and not again.  An API key's
\* request may also sweep expired keys, at most hourly.
Quota(c) ==
    /\ pc[c] = "quota"
    /\ \/ Fits /\ Goto(c, "allocate")
       \/ Fits /\ req[c].via = "api_key" /\ Goto(c, "sweepKeys")
       \/ ~Fits /\ req[c].via = "public_form" /\ Goto(c, "alertCheck")
       \/ ~Fits /\ req[c].via # "public_form" /\ Done(c)
    /\ UNCHANGED <<tableVars, lock, answerVars>>

\* CleanupExpiredIdempotencyKeys.  What was answered for a swept key is over.
SweepKeys(c) ==
    LET old == {l \in aged : row[l].key # NoKey}
    IN  /\ pc[c] = "sweepKeys"
        /\ \A l \in old : lock[l] = Free
        /\ row' = [l \in Leads |-> IF l \in old THEN [row[l] EXCEPT !.key = NoKey] ELSE row[l]]
        /\ named' = [k \in Keys |-> IF \E l \in old : row[l].key = k THEN {} ELSE named[k]]
        /\ Goto(c, "allocate")
        /\ UNCHANGED <<numberVars, customers, lock, gone, aged, alerts>>

\* NotifyQuotaExceededOnce: ask, then tell; its errors are dropped.
AlertCheck(c) ==
    /\ pc[c] = "alertCheck"
    /\ Goto(c, IF alerts > 0 THEN "allocate" ELSE "alertSend")
    /\ UNCHANGED <<tableVars, lock, answerVars>>

AlertSend(c) ==
    /\ pc[c] = "alertSend"
    /\ alerts' \in {alerts, alerts + 1}
    /\ Goto(c, "allocate")
    /\ UNCHANGED <<tableVars, lock, named>>

Allocate(c) ==
    /\ pc[c] = "allocate" /\ numberLock = Free
    /\ numberLock' = c
    /\ nextNumber' = nextNumber + 1
    /\ Goto(c, "insert")
    /\ UNCHANGED <<row, customers, gone, aged, lock, answerVars>>

\* Insert and commit, or the key is taken and everything is undone.
Insert(c) ==
    LET k == req[c].key
    IN  /\ pc[c] = "insert"
        /\ \/ /\ KeyTaken(k)
              /\ Unallocate(c)
              /\ Goto(c, "replay")
              /\ UNCHANGED <<row, named>>
           \/ \E l \in Leads :
              /\ ~KeyTaken(k) /\ ~Exists(l)
              /\ row' = [row EXCEPT ![l] =
                    [status |-> "new", version |-> 1, who |-> req[c].want, deleted |-> FALSE,
                     key |-> k, number |-> nextNumber - 1, via |-> req[c].via]]
              /\ Answer(k, {l})
              /\ numberLock' = Free
              /\ Done(c)
              /\ UNCHANGED nextNumber
        /\ UNCHANGED <<customers, gone, aged, lock, alerts>>

\* FindByIdempotencyKey, which does not see deleted leads.
Replay(c) ==
    LET found == {l \in Holders(req[c].key) : ~row[l].deleted}
    IN  /\ pc[c] = "replay"
        /\ Answer(req[c].key, found)
        /\ Done(c)
        /\ UNCHANGED <<tableVars, lock, alerts>>

CreateStep(c) ==
    \/ Quota(c) \/ SweepKeys(c) \/ AlertCheck(c) \/ AlertSend(c)
    \/ Allocate(c) \/ Insert(c) \/ Replay(c)

-----------------------------------------------------------------------------
(* UpdateStatus: lock the row, ask for a customer, compare and write *)

\* Mutant: the status change of before #142: the lead is read without a lock.
LockStatusReads(c) ==
    LET l == req[c].lead
    IN  /\ pc[c] = "lockStatus"
        /\ \/ ~Visible(c, l) /\ Done(c)
           \/ /\ Visible(c, l)
              /\ pc' = [pc EXCEPT ![c] = "checkConverted"]
              /\ req' = [req EXCEPT ![c].from = row[l].status]
        /\ UNCHANGED <<tableVars, lock, answerVars>>

LockStatus(c) ==
    LET l == req[c].lead
    IN  /\ pc[c] = "lockStatus"
        /\ \/ ~Visible(c, l) /\ Done(c) /\ UNCHANGED lock
           \/ /\ Visible(c, l) /\ lock[l] = Free
              /\ lock' = [lock EXCEPT ![l] = c]
              /\ pc' = [pc EXCEPT ![c] = "checkConverted"]
              /\ req' = [req EXCEPT ![c].from = row[l].status]
        /\ UNCHANGED <<tableVars, answerVars>>

CheckConverted(c) ==
    /\ pc[c] = "checkConverted"
    /\ \/ req[c].lead \in customers /\ Unlock(c) /\ Done(c)
       \/ req[c].lead \notin customers /\ Goto(c, "changeStatus") /\ UNCHANGED lock
    /\ UNCHANGED <<tableVars, answerVars>>

ChangeStatus(c) ==
    LET l    == req[c].lead
        good == ValidTransition(req[c].from, req[c].want) /\ Matches(c, l)
    IN  /\ pc[c] = "changeStatus"
        /\ \/ ~good /\ UNCHANGED row
           \/ /\ good /\ lock[l] \in {c, Free}
              /\ row' = [row EXCEPT ![l].status = req[c].want, ![l].version = @ + 1]
        /\ Unlock(c) /\ Done(c)
        /\ UNCHANGED <<numberVars, customers, gone, aged, answerVars>>

-----------------------------------------------------------------------------
(* UpdateAssignment, Update, Delete *)

\* The assignee the activity will say the lead came from, read without a lock.
ReadAssignee(c) ==
    LET l == req[c].lead
    IN  /\ pc[c] = "readAssignee"
        /\ \/ ~Visible(c, l) /\ Done(c)
           \/ /\ Visible(c, l)
              /\ pc' = [pc EXCEPT ![c] = "assign"]
              /\ req' = [req EXCEPT ![c].from = row[l].who]
        /\ UNCHANGED <<tableVars, lock, answerVars>>

Assign(c) ==
    LET l == req[c].lead
    IN  /\ pc[c] = "assign"
        /\ \/ ~Matches(c, l) /\ UNCHANGED row
           \/ /\ Matches(c, l) /\ lock[l] = Free
              /\ row' = [row EXCEPT ![l].who = req[c].want, ![l].version = @ + 1]
        /\ Done(c)
        /\ UNCHANGED <<numberVars, customers, gone, aged, lock, answerVars>>

Edit(c) ==
    LET l == req[c].lead
    IN  /\ pc[c] = "edit"
        /\ \/ ~Matches(c, l) /\ UNCHANGED row
           \/ /\ Matches(c, l) /\ lock[l] = Free
              /\ row' = [row EXCEPT ![l].version = @ + 1]
        /\ Done(c)
        /\ UNCHANGED <<numberVars, customers, gone, aged, lock, answerVars>>

\* Whatever the version.
Delete(c) ==
    LET l == req[c].lead
    IN  /\ pc[c] = "delete"
        /\ \/ ~Visible(c, l) /\ UNCHANGED row
           \/ /\ Visible(c, l) /\ lock[l] = Free
              /\ row' = [row EXCEPT ![l].deleted = TRUE]
        /\ Done(c)
        /\ UNCHANGED <<numberVars, customers, gone, aged, lock, answerVars>>

-----------------------------------------------------------------------------
(* Convert: lock the won lead and insert the customer, once *)

Convert(c) ==
    LET l   == req[c].lead
        won == ~row[l].deleted /\ row[l].status = "won"
    IN  /\ pc[c] = "convert"
        /\ \/ ~won /\ Done(c) /\ UNCHANGED lock
           \/ won /\ lock[l] = Free /\ l \in customers /\ Done(c) /\ UNCHANGED lock
           \/ /\ won /\ lock[l] = Free /\ l \notin customers
              /\ lock' = [lock EXCEPT ![l] = c]
              /\ Goto(c, "recordConversion")
        /\ UNCHANGED <<tableVars, answerVars>>

\* The activity is written and the transaction commits.
RecordConversion(c) ==
    /\ pc[c] = "recordConversion"
    /\ customers' = customers \cup {req[c].lead}
    /\ Unlock(c) /\ Done(c)
    /\ UNCHANGED <<row, numberVars, gone, aged, answerVars>>

LeadStep(c) ==
    \/ LockStatus(c) \/ CheckConverted(c) \/ ChangeStatus(c)
    \/ ReadAssignee(c) \/ Assign(c) \/ Edit(c) \/ Delete(c)
    \/ Convert(c) \/ RecordConversion(c)

-----------------------------------------------------------------------------
(* Deactivate: settle the open leads, then remove the member *)

\* on_open_leads is reject, or unassign or reassign: what the statement finds.
Settle(c) ==
    LET found == OpenLeads(req[c].member)
    IN  /\ pc[c] = "settle"
        /\ \/ found # {} /\ Done(c)
           \/ found = {} /\ Goto(c, "leave")
           \/ \E to \in Members \cup {Nobody} :
                /\ pc' = [pc EXCEPT ![c] = "leave"]
                /\ req' = [req EXCEPT ![c].want = to, ![c].open = found]
        /\ UNCHANGED <<tableVars, lock, answerVars>>

\* Mutant: the deactivation moves leads without a new version.
LeaveSameVersion(c) ==
    LET moved == req[c].open \cap OpenLeads(req[c].member)
    IN  /\ pc[c] = "leave"
        /\ \A l \in moved : lock[l] = Free
        /\ row' = [l \in Leads |-> IF l \in moved
                    THEN [row[l] EXCEPT !.who = req[c].want] ELSE row[l]]
        /\ gone' = gone \cup {req[c].member}
        /\ Done(c)
        /\ UNCHANGED <<numberVars, customers, aged, lock, answerVars>>

\* UnassignOpen, ReassignOpen: of the leads found, those still open and the
\* member's; then the membership goes and everything commits.
Leave(c) ==
    LET moved == req[c].open \cap OpenLeads(req[c].member)
    IN  /\ pc[c] = "leave"
        /\ \A l \in moved : lock[l] = Free
        /\ row' = [l \in Leads |-> IF l \in moved
                    THEN [row[l] EXCEPT !.who = req[c].want, !.version = @ + 1] ELSE row[l]]
        /\ gone' = gone \cup {req[c].member}
        /\ Done(c)
        /\ UNCHANGED <<numberVars, customers, aged, lock, answerVars>>

-----------------------------------------------------------------------------
(* What else happens *)

\* A statement fails or the process dies: the transaction is rolled back.
Fail(c) ==
    /\ pc[c] # "idle"
    /\ Unlock(c) /\ Unallocate(c) /\ Done(c)
    /\ UNCHANGED <<row, customers, gone, aged, answerVars>>

\* A lead turns 48 hours old, which only its key makes matter.
Age(l) ==
    /\ row[l].key # NoKey /\ l \notin aged
    /\ aged' = aged \cup {l}
    /\ UNCHANGED <<row, numberVars, customers, gone, lock, answerVars, pc, req>>

Step(c) == CreateStep(c) \/ LeadStep(c) \/ Settle(c) \/ Leave(c)

Next ==
    \/ \E c \in Clients :
        \/ BeginCreate(c)
        \/ \E l \in Leads : BeginUpdate(c, l)
        \/ \E m \in Members : BeginDeactivate(c, m)
        \/ Step(c) \/ Fail(c)
    \/ \E l \in Leads : Age(l)

\* A request that can run does; a lock goes to those who wait for it in turn.
Spec ==
    /\ Init /\ [][Next]_vars
    /\ \A c \in Clients : SF_vars(Step(c))

-----------------------------------------------------------------------------
(* Properties *)

\* A lead a customer was made from stays won: no status change slips in before,
\* during or after a conversion (#142).
ConvertedStaysWon == \A l \in customers : row[l].status = "won"

\* Lead numbers run from 1 without holes or duplicates, also when an insert
\* fails after its number was allocated and others create at the same time.
NumbersDense ==
    LET made == {l \in Leads : Exists(l)}
    IN  numberLock = Free =>
            /\ {row[l].number : l \in made} = 1..(nextNumber - 1)
            /\ Cardinality(made) = nextNumber - 1

\* All answers to requests with one idempotency key name one lead, until the
\* 48-hour sweep, whoever deletes it in between.
KeyNamesOneLead == \A k \in Keys : Cardinality(named[k]) <= 1

\* Checking the quota before the transaction lets authenticated requests pass it
\* by no more than the other requests under way, and deleting gives none back;
\* asking for the owner's notice before sending it tells the owner no more often
\* than there are requests under way.
SoftQuota ==
    /\ Limit > 0 =>
           Cardinality({l \in Leads : Exists(l) /\ row[l].via # "public_form"})
               <= Limit + Cardinality(Clients) - 1
    /\ alerts <= Cardinality(Clients)

\* A status change, assignment or edit that commits replaces exactly what its
\* client saw, and what its activity says the lead came from is what it was:
\* nothing another request or a deactivation did is silently overwritten.
SeenIsReplaced ==
    [][\A c \in Clients :
        pc[c] \in {"changeStatus", "assign", "edit"} /\ pc'[c] = "idle" /\ row' # row =>
            LET was == row[req[c].lead]
            IN  /\ was.status = req[c].seen.status /\ was.who = req[c].seen.who
                /\ ~was.deleted
                /\ pc[c] = "changeStatus" => req[c].from = was.status
                /\ pc[c] = "assign" => req[c].from = was.who]_vars

\* The requests together do to a lead what the product promises of one.
Pipeline == INSTANCE LeadPipeline WITH
    stage     <- [l \in Leads |-> row[l].status],
    converted <- customers,
    removed   <- {l \in Leads : row[l].deleted}

KeepsPipeline == Pipeline!Spec

\* Every request is answered.
EveryRequestEnds == \A c \in Clients : pc[c] # "idle" ~> pc[c] = "idle"

\* lead/usecase.go:62-66 says a key that was used gets its lead back, "never a
\* second lead and never an error".  It does not hold: the lead may be deleted.
ReplayFinds ==
    \A c \in Clients : pc[c] = "replay" => \E l \in Holders(req[c].key) : ~row[l].deleted

=============================================================================
