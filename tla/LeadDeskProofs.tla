--------------------------- MODULE LeadDeskProofs ---------------------------
(***************************************************************************)
(* Theorems about LeadDesk for every number of clients, leads, members and  *)
(* keys, every limit and every assignment of roles.                         *)
(***************************************************************************)
EXTENDS LeadDesk, TLAPS

-----------------------------------------------------------------------------
(* Types.  What a request carries fits its stage, and a number is given back *)
(* only by a transaction that took one.                                      *)

\* Stages that hold a lead's row lock.
InTx == {"checkConverted", "changeStatus", "recordConversion"}

OnLead == InTx \cup {"lockStatus", "readAssignee", "assign", "edit", "convert", "delete"}

StageFits(s, r) ==
    /\ s \in Creating \cup {"readAssignee", "assign", "settle", "leave"} => r.want \in Members \cup {Nobody}
    /\ s \in {"lockStatus", "checkConverted", "changeStatus"} => r.want \in Statuses
    /\ s \in OnLead => r.lead \in Leads
    /\ s \in {"settle", "leave"} => r.member \in Members

Staged == \A c \in Clients : StageFits(pc[c], req[c])

RequestsTyped == pc \in [Clients -> Stages] /\ req \in [Clients -> Request]

Counted == nextNumber \in Nat /\ nextNumber >= IF numberLock = Free THEN 1 ELSE 2

TypeInv == TypeOK /\ Staged /\ Counted

\* A request that moves to a stage it fits leaves the others as they were.
LEMMA RequestMoves ==
  ASSUME RequestsTyped, Staged, NEW c \in Clients, NEW s \in Stages, NEW r \in Request,
         StageFits(s, r),
         pc' = [pc EXCEPT ![c] = s], req' = [req EXCEPT ![c] = r]
  PROVE  RequestsTyped' /\ Staged'
<1>1. RequestsTyped'
  BY DEF RequestsTyped
<1>2. ASSUME NEW d \in Clients PROVE StageFits(pc'[d], req'[d])
  BY DEF RequestsTyped, Staged
<1>3. QED
  BY <1>1, <1>2 DEF Staged

\* The empty request is typed.
LEMMA NoRequestType == NoRequest \in Request /\ NoRow \in Row
<1>1. NoRow \in Row
  BY DEF NoRow, Row
<1>2. QED
  BY <1>1 DEF NoRequest, Request

\* A request that is answered.
LEMMA DoneMoves ==
  ASSUME RequestsTyped, Staged, NEW c \in Clients, Done(c)
  PROVE  RequestsTyped' /\ Staged'
<1>1. "idle" \in Stages /\ StageFits("idle", NoRequest)
  BY DEF Stages, StageFits, Creating, OnLead, InTx
<1>2. QED
  BY <1>1, NoRequestType, RequestMoves DEF Done

\* A request that goes on unchanged.
LEMMA GotoMoves ==
  ASSUME RequestsTyped, Staged, NEW c \in Clients, NEW s \in Stages, Goto(c, s),
         StageFits(s, req[c])
  PROVE  RequestsTyped' /\ Staged'
<1>1. req[c] \in Request /\ req' = [req EXCEPT ![c] = req[c]]
  BY DEF RequestsTyped, Goto
<1>2. QED
  BY <1>1, RequestMoves DEF Goto

\* A request that arrives.
LEMMA BeginMoves ==
  ASSUME RequestsTyped, Staged, NEW c \in Clients, NEW s \in Stages, NEW r \in Request,
         StageFits(s, r), Begin(c, s, r)
  PROVE  RequestsTyped' /\ Staged'
  BY RequestMoves DEF Begin


\* The stages of a request are told apart by name.
LEMMA StageNames ==
  /\ Stages = {"idle", "quota", "alertCheck", "alertSend", "sweepKeys", "allocate", "insert",
               "replay", "lockStatus", "checkConverted", "changeStatus", "readAssignee", "assign",
               "edit", "convert", "recordConversion", "delete", "settle", "leave"}
  /\ OnLead = {"checkConverted", "changeStatus", "recordConversion", "lockStatus",
               "readAssignee", "assign", "edit", "convert", "delete"}
  BY DEF Stages, Creating, OnLead, InTx

\* Requests that arrive fit their first stage.
LEMMA BeginTypes ==
  ASSUME TypeInv, NEW c \in Clients,
         \/ BeginCreate(c)
         \/ \E l \in Leads : BeginUpdate(c, l)
         \/ \E m \in Members : BeginDeactivate(c, m)
  PROVE  RequestsTyped' /\ Staged'
<1> RequestsTyped /\ Staged
  BY DEF TypeInv, TypeOK, RequestsTyped
<1> USE NoRequestType, StageNames
<1>1. CASE BeginCreate(c)
  <2>1. PICK via \in Principals, k \in Keys \cup {NoKey}, who \in Members \cup {Nobody} :
           Begin(c, "quota", [NoRequest EXCEPT !.via = via, !.key = k, !.want = who])
    BY <1>1, LeadAssumption DEF BeginCreate, Principals
  <2> DEFINE r == [NoRequest EXCEPT !.via = via, !.key = k, !.want = who]
  <2>2. r \in Request /\ StageFits("quota", r)
    BY DEF Request, NoRequest, StageFits
  <2>3. QED
    BY <2>1, <2>2, BeginMoves
<1>2. ASSUME NEW l \in Leads, BeginUpdate(c, l) PROVE RequestsTyped' /\ Staged'
  <2> DEFINE r(want) == [NoRequest EXCEPT !.lead = l, !.seen = row[l], !.want = want]
  <2>1. row[l] \in Row
    BY DEF TypeInv, TypeOK
  <2>2. ASSUME NEW want \in Statuses \cup Members \cup {Nobody}
        PROVE  r(want) \in Request /\ r(want).lead = l /\ r(want).want = want
    BY <2>1 DEF Request, NoRequest
  <2>3. ASSUME NEW x \in Statuses, BeginOn(c, l, "status", "lockStatus", x)
        PROVE  RequestsTyped' /\ Staged'
    <3>1. StageFits("lockStatus", r(x)) /\ r(x) \in Request
      BY <2>2 DEF StageFits, Creating
    <3>2. QED
      BY <2>3, <3>1, BeginMoves DEF BeginOn
  <2>4. ASSUME NEW m \in Members \cup {Nobody}, BeginOn(c, l, "assign", "readAssignee", m)
        PROVE  RequestsTyped' /\ Staged'
    <3>1. StageFits("readAssignee", r(m)) /\ r(m) \in Request
      BY <2>2 DEF StageFits, Creating
    <3>2. QED
      BY <2>4, <3>1, BeginMoves DEF BeginOn
  <2>5. ASSUME NEW k, NEW s \in {"edit", "convert", "delete"}, BeginOn(c, l, k, s, Nobody)
        PROVE  RequestsTyped' /\ Staged'
    <3>1. StageFits(s, r(Nobody)) /\ r(Nobody) \in Request
      BY <2>2 DEF StageFits, Creating
    <3>2. QED
      BY <2>5, <3>1, BeginMoves DEF BeginOn
  <2>6. QED
    BY <1>2, <2>3, <2>4, <2>5 DEF BeginUpdate
<1>3. ASSUME NEW m \in Members, BeginDeactivate(c, m) PROVE RequestsTyped' /\ Staged'
  <2> DEFINE r == [NoRequest EXCEPT !.member = m]
  <2>1. r \in Request /\ StageFits("settle", r)
    BY DEF Request, NoRequest, StageFits, Creating
  <2>2. QED
    BY <1>3, <2>1, BeginMoves DEF BeginDeactivate
<1>4. QED
  BY <1>1, <1>2, <1>3

\* Every statement leaves its request at a stage it fits.
LEMMA StepTypes ==
  ASSUME TypeInv, NEW c \in Clients, Step(c) \/ Fail(c)
  PROVE  RequestsTyped' /\ Staged'
<1> RequestsTyped /\ Staged
  BY DEF TypeInv, TypeOK, RequestsTyped
<1> DEFINE Goal == RequestsTyped' /\ Staged'
<1>d. Done(c) => Goal
  BY DoneMoves
<1>g. ASSUME NEW s \in Stages, Goto(c, s), StageFits(s, req[c]) PROVE Goal
  BY <1>g, GotoMoves
<1>r. req[c] \in Request /\ StageFits(pc[c], req[c])
  BY DEF RequestsTyped, Staged
<1> USE StageNames
<1>1. CASE Quota(c) \/ SweepKeys(c) \/ AlertCheck(c) \/ AlertSend(c) \/ Allocate(c)
  <2>1. ASSUME NEW s \in {"allocate", "sweepKeys", "alertCheck", "alertSend", "insert"},
               Goto(c, s), pc[c] \in Creating
        PROVE  Goal
    <3>1. StageFits(s, req[c])
      BY <2>1, <1>r DEF StageFits, Creating
    <3>2. QED
      BY <2>1, <3>1, <1>g
  <2>2. CASE Quota(c)
    BY <2>1, <2>2, <1>d DEF Quota, Creating
  <2>3. CASE SweepKeys(c)
    BY <2>1, <2>3 DEF SweepKeys, Creating
  <2>4. CASE AlertCheck(c)
    BY <2>1, <2>4 DEF AlertCheck, Creating
  <2>5. CASE AlertSend(c)
    BY <2>1, <2>5 DEF AlertSend, Creating
  <2>6. CASE Allocate(c)
    BY <2>1, <2>6 DEF Allocate, Creating
  <2>7. QED
    BY <1>1, <2>2, <2>3, <2>4, <2>5, <2>6
<1>2. CASE Insert(c) \/ Replay(c)
  <2>1. StageFits("replay", req[c])
    BY DEF StageFits, Creating
  <2>2. QED
    BY <1>2, <2>1, <1>d, <1>g DEF Insert, Replay
<1>3. CASE LockStatus(c)
  <2>1. CASE Done(c)
    BY <2>1, <1>d
  <2>2. CASE req' = [req EXCEPT ![c].from = row[req[c].lead].status] /\ ~Done(c)
    <3> DEFINE r == [req[c] EXCEPT !.from = row[req[c].lead].status]
    <3>1. StageFits("checkConverted", r)
      BY <1>3, <1>r DEF StageFits, Creating, LockStatus, Request
    <3>2. row[req[c].lead].status \in Statuses \cup {"absent"}
      BY <1>3, <1>r DEF StageFits, LockStatus, TypeInv, TypeOK, Row
    <3>3. r \in Request
      BY <3>2, <1>r DEF Request
    <3>4. req' = [req EXCEPT ![c] = r] /\ pc' = [pc EXCEPT ![c] = "checkConverted"]
      BY <1>3, <2>2 DEF LockStatus, RequestsTyped
    <3>5. QED
      BY <3>1, <3>3, <3>4, RequestMoves
  <2>3. QED
    BY <1>3, <2>1, <2>2 DEF LockStatus
<1>4. CASE CheckConverted(c)
  <2>1. pc[c] = "checkConverted" => StageFits("changeStatus", req[c])
    BY <1>r DEF StageFits, Creating
  <2>2. QED
    BY <1>4, <2>1, <1>d, <1>g DEF CheckConverted
<1>5. CASE ReadAssignee(c)
  <2>1. CASE req' = [req EXCEPT ![c].from = row[req[c].lead].who] /\ ~Done(c)
    <3> DEFINE r == [req[c] EXCEPT !.from = row[req[c].lead].who]
    <3>1. StageFits("assign", r)
      BY <1>5, <1>r DEF StageFits, Creating, ReadAssignee, Request
    <3>2. row[req[c].lead].who \in Members \cup {Nobody}
      BY <1>5, <1>r DEF StageFits, ReadAssignee, TypeInv, TypeOK, Row
    <3>3. r \in Request
      BY <3>2, <1>r DEF Request
    <3>4. req' = [req EXCEPT ![c] = r] /\ pc' = [pc EXCEPT ![c] = "assign"]
      BY <1>5, <2>1 DEF ReadAssignee, RequestsTyped
    <3>5. QED
      BY <3>1, <3>3, <3>4, RequestMoves
  <2>2. QED
    BY <1>5, <2>1, <1>d DEF ReadAssignee
<1>6. CASE \/ ChangeStatus(c) \/ Assign(c) \/ Edit(c) \/ Delete(c)
           \/ RecordConversion(c) \/ Leave(c) \/ Fail(c)
  BY <1>6, <1>d DEF ChangeStatus, Assign, Edit, Delete, RecordConversion, Leave, Fail
<1>7. CASE Convert(c)
  <2>1. pc[c] = "convert" => StageFits("recordConversion", req[c])
    BY <1>r DEF StageFits, Creating
  <2>2. QED
    BY <1>7, <2>1, <1>d, <1>g DEF Convert
<1>8. CASE Settle(c)
  <2>1. CASE Done(c)
    BY <2>1, <1>d
  <2>2. CASE Goto(c, "leave")
    <3>1. StageFits("leave", req[c])
      BY <1>8, <1>r DEF StageFits, Creating, Settle
    <3>2. QED
      BY <2>2, <3>1, <1>g
  <2>3. ASSUME NEW to \in Members \cup {Nobody}, pc' = [pc EXCEPT ![c] = "leave"],
               req' = [req EXCEPT ![c].want = to, ![c].open = OpenLeads(req[c].member)]
        PROVE  Goal
    <3> DEFINE r == [req[c] EXCEPT !.want = to, !.open = OpenLeads(req[c].member)]
    <3>1. r \in Request /\ r.want = to
      BY <1>r DEF Request, OpenLeads
    <3>2. StageFits("leave", r)
      BY <1>8, <1>r, <3>1 DEF StageFits, Creating, Settle
    <3>3. req' = [req EXCEPT ![c] = r]
      BY <2>3 DEF RequestsTyped
    <3>4. QED
      BY <2>3, <3>1, <3>2, <3>3, RequestMoves
  <2>4. QED
    BY <1>8, <2>1, <2>2, <2>3 DEF Settle
<1>9. QED
  BY <1>1, <1>2, <1>3, <1>4, <1>5, <1>6, <1>7, <1>8 DEF Step, CreateStep, LeadStep

TablesTyped ==
    /\ row \in [Leads -> Row]
    /\ customers \subseteq Leads
    /\ lock \in [Leads -> Clients \cup {Free}]
    /\ gone \subseteq Members
    /\ aged \subseteq Leads
    /\ named \in [Keys -> SUBSET Leads]
    /\ alerts \in Nat

NumbersTyped == Counted /\ numberLock \in Clients \cup {Free}

\* The type invariant in its three parts.
LEMMA Parts == TypeInv <=> TablesTyped /\ NumbersTyped /\ RequestsTyped /\ Staged
  BY DEF TypeInv, TypeOK, TablesTyped, NumbersTyped, RequestsTyped, Counted

\* Unlocking and undoing an allocation keep their types.
LEMMA UnlockType ==
  ASSUME TablesTyped, NEW c \in Clients, Unlock(c)
  PROVE  lock' \in [Leads -> Clients \cup {Free}]
  BY DEF TablesTyped, Unlock

\* Undoing an allocation keeps the counter typed and counted.
LEMMA UnallocateType ==
  ASSUME NumbersTyped, NEW c \in Clients, Unallocate(c)
  PROVE  NumbersTyped'
  BY LeadAssumption DEF NumbersTyped, Counted, Unallocate, numberVars

\* What the statements make of a row is a row.
LEMMA RowUpdates ==
  ASSUME NEW r \in Row, NEW m \in Members \cup {Nobody}
  PROVE  /\ [r EXCEPT !.version = @ + 1] \in Row
         /\ [r EXCEPT !.who = m, !.version = @ + 1] \in Row
         /\ [r EXCEPT !.deleted = TRUE] \in Row
<1>1. r.version + 1 \in Nat
  BY DEF Row
<1>2. [r EXCEPT !.version = @ + 1] \in Row
  BY <1>1 DEF Row
<1>3. [r EXCEPT !.who = m, !.version = @ + 1] \in Row
  BY <1>1 DEF Row
<1>4. [r EXCEPT !.deleted = TRUE] \in Row
  BY DEF Row
<1>5. QED
  BY <1>2, <1>3, <1>4

\* Statements write typed rows and typed numbers.
LEMMA StepTables ==
  ASSUME TypeInv, NEW c \in Clients, Step(c) \/ Fail(c)
  PROVE  TablesTyped' /\ NumbersTyped'
<1> TablesTyped /\ NumbersTyped /\ RequestsTyped /\ Staged
  BY Parts
<1>r. req[c] \in Request /\ StageFits(pc[c], req[c])
  BY DEF RequestsTyped, Staged
<1>v. \A l \in Leads : row[l] \in Row
  BY DEF TablesTyped
<1>1. CASE Quota(c) \/ AlertCheck(c) \/ LockStatus(c) \/ CheckConverted(c) \/ ReadAssignee(c)
           \/ Convert(c) \/ RecordConversion(c) \/ Settle(c)
  <2>1. UNCHANGED <<row, gone, aged, named, alerts, numberVars>>
    BY <1>1 DEF Quota, AlertCheck, LockStatus, CheckConverted, ReadAssignee, Convert,
                RecordConversion, Settle, tableVars, answerVars
  <2>2. NumbersTyped'
    BY <2>1 DEF NumbersTyped, Counted, numberVars
  <2>3. lock' \in [Leads -> Clients \cup {Free}]
    BY <1>1, UnlockType DEF TablesTyped, Quota, AlertCheck, LockStatus, CheckConverted,
       ReadAssignee, Convert, RecordConversion, Settle
  <2>4. customers' \subseteq Leads
    BY <1>1, <1>r DEF TablesTyped, StageFits, OnLead, InTx, Quota, AlertCheck, LockStatus,
       CheckConverted, ReadAssignee, Convert, RecordConversion, Settle, tableVars
  <2>5. QED
    BY <2>1, <2>2, <2>3, <2>4 DEF TablesTyped
<1>2. CASE SweepKeys(c)
  <2>1. row' \in [Leads -> Row]
    BY <1>2, <1>v DEF SweepKeys, Row
  <2>2. named' \in [Keys -> SUBSET Leads]
    BY <1>2 DEF SweepKeys, TablesTyped
  <2>3. QED
    BY <1>2, <2>1, <2>2 DEF SweepKeys, TablesTyped, NumbersTyped, Counted, numberVars
<1>3. CASE AlertSend(c)
  BY <1>3 DEF AlertSend, TablesTyped, NumbersTyped, Counted, tableVars, numberVars
<1>4. CASE Allocate(c)
  <2>1. NumbersTyped'
    BY <1>4, LeadAssumption DEF Allocate, NumbersTyped, Counted
  <2>2. QED
    BY <1>4, <2>1 DEF Allocate, TablesTyped, answerVars
<1>5. CASE Insert(c)
  <2>1. named' \in [Keys -> SUBSET Leads]
    BY <1>5 DEF Insert, Answer, TablesTyped
  <2>2. row' \in [Leads -> Row]
    <3>1. ASSUME NEW l \in Leads, row' = [row EXCEPT ![l] =
                    [status |-> "new", version |-> 1, who |-> req[c].want, deleted |-> FALSE,
                     key |-> req[c].key, number |-> nextNumber - 1, via |-> req[c].via]]
          PROVE  row' \in [Leads -> Row]
      <4>1. req[c].want \in Members \cup {Nobody}
        BY <1>5, <1>r DEF Insert, StageFits, Creating
      <4>2. nextNumber - 1 \in Nat
        BY DEF NumbersTyped, Counted
      <4>3. [status |-> "new", version |-> 1, who |-> req[c].want, deleted |-> FALSE,
             key |-> req[c].key, number |-> nextNumber - 1, via |-> req[c].via] \in Row
        BY <1>r, <4>1, <4>2 DEF Row, Request, Statuses, OnPath, mainPath
      <4>4. QED
        BY <3>1, <4>3 DEF TablesTyped
    <3>2. QED
      BY <1>5, <3>1 DEF Insert, TablesTyped
  <2>3. NumbersTyped'
    <3>1. CASE Unallocate(c)
      BY <3>1, UnallocateType
    <3>2. CASE numberLock' = Free /\ UNCHANGED nextNumber
      BY <3>2 DEF NumbersTyped, Counted
    <3>3. QED
      BY <1>5, <3>1, <3>2 DEF Insert
  <2>4. QED
    BY <1>5, <2>1, <2>2, <2>3 DEF Insert, TablesTyped
<1>6. CASE Replay(c)
  <2>1. named' \in [Keys -> SUBSET Leads]
    BY <1>6 DEF Replay, Answer, TablesTyped, Holders
  <2>2. QED
    BY <1>6, <2>1 DEF Replay, TablesTyped, NumbersTyped, Counted, tableVars, numberVars
<1>7. CASE ChangeStatus(c)
  <2>1. row' \in [Leads -> Row]
    <3>1. req[c].want \in Statuses
      BY <1>7, <1>r DEF ChangeStatus, StageFits
    <3>2. QED
      BY <1>7, <1>v, <3>1 DEF ChangeStatus, TablesTyped, Row
  <2>2. QED
    BY <1>7, <2>1, UnlockType DEF ChangeStatus, TablesTyped, NumbersTyped, Counted,
       answerVars, numberVars
<1>8. CASE Assign(c) \/ Edit(c) \/ Delete(c)
  <2>1. row' \in [Leads -> Row]
    <3>1. /\ Assign(c) => req[c].want \in Members \cup {Nobody}
          /\ req[c].lead \in Leads
      BY <1>8, <1>r DEF Assign, Edit, Delete, StageFits, Creating, OnLead
    <3> DEFINE l == req[c].lead
    <3>2. QED
      <4>1. CASE Assign(c)
        <5>1. [row[l] EXCEPT !.who = req[c].want, !.version = @ + 1] \in Row
          BY <4>1, <3>1, <1>v, RowUpdates
        <5>2. UNCHANGED row \/ row' = [row EXCEPT ![l] = [row[l] EXCEPT !.who = req[c].want, !.version = @ + 1]]
          BY <4>1, <3>1 DEF Assign, TablesTyped
        <5>3. QED
          BY <5>1, <5>2, <3>1 DEF TablesTyped
      <4>2. CASE Edit(c)
        <5>1. [row[l] EXCEPT !.version = @ + 1] \in Row
          BY <4>2, <3>1, <1>v, RowUpdates
        <5>2. UNCHANGED row \/ row' = [row EXCEPT ![l] = [row[l] EXCEPT !.version = @ + 1]]
          BY <4>2, <3>1 DEF Edit, TablesTyped
        <5>3. QED
          BY <5>1, <5>2, <3>1 DEF TablesTyped
      <4>3. CASE Delete(c)
        <5>1. [row[l] EXCEPT !.deleted = TRUE] \in Row
          BY <4>3, <3>1, <1>v, RowUpdates
        <5>2. UNCHANGED row \/ row' = [row EXCEPT ![l] = [row[l] EXCEPT !.deleted = TRUE]]
          BY <4>3, <3>1 DEF Delete, TablesTyped
        <5>3. QED
          BY <5>1, <5>2, <3>1 DEF TablesTyped
      <4>4. QED
        BY <1>8, <4>1, <4>2, <4>3
  <2>2. QED
    BY <1>8, <2>1 DEF Assign, Edit, Delete, TablesTyped, NumbersTyped, Counted,
       answerVars, numberVars
<1>9. CASE Leave(c)
  <2>1. req[c].want \in Members \cup {Nobody} /\ req[c].member \in Members
    BY <1>9, <1>r DEF Leave, StageFits, Creating, Request
  <2>2. row' \in [Leads -> Row]
    <3>1. ASSUME NEW l \in Leads
          PROVE  [row[l] EXCEPT !.who = req[c].want, !.version = @ + 1] \in Row
      BY <1>v, <2>1, RowUpdates
    <3>2. QED
      BY <1>9, <1>v, <3>1 DEF Leave
  <2>3. gone' \subseteq Members
    BY <1>9, <2>1 DEF Leave, TablesTyped
  <2>4. QED
    BY <1>9, <2>2, <2>3 DEF Leave, TablesTyped, NumbersTyped, Counted, answerVars, numberVars
<1>10. CASE Fail(c)
  BY <1>10, UnlockType, UnallocateType DEF Fail, TablesTyped, answerVars
<1>11. QED
  BY <1>1, <1>2, <1>3, <1>4, <1>5, <1>6, <1>7, <1>8, <1>9, <1>10 DEF Step, CreateStep, LeadStep

\* The empty organization is typed.
LEMMA TypeInit == Init => TypeInv
<1> SUFFICES ASSUME Init PROVE TypeInv
  OBVIOUS
<1>1. TablesTyped
  BY NoRequestType DEF Init, TablesTyped
<1>2. NumbersTyped /\ RequestsTyped
  BY NoRequestType DEF Init, NumbersTyped, Counted, RequestsTyped, Stages
<1>3. Staged
  BY DEF Init, Staged, StageFits, Creating, OnLead, InTx
<1>4. QED
  BY <1>1, <1>2, <1>3, Parts

\* The tables stay as they are while a request arrives.
LEMMA BeginStill ==
  ASSUME NEW c,
         \/ BeginCreate(c)
         \/ \E l \in Leads : BeginUpdate(c, l)
         \/ \E m \in Members : BeginDeactivate(c, m)
  PROVE  /\ UNCHANGED <<tableVars, lock, answerVars>>
         /\ pc[c] = "idle"
         /\ \E s \in {"quota", "lockStatus", "readAssignee", "edit", "convert", "delete", "settle"} :
               pc' = [pc EXCEPT ![c] = s]
         /\ \E r : req' = [req EXCEPT ![c] = r]
  BY DEF BeginCreate, BeginUpdate, BeginOn, BeginDeactivate, Begin

\* Every statement keeps the types.
LEMMA TypeStep == TypeInv /\ [Next]_vars => TypeInv'
<1> SUFFICES ASSUME TypeInv, [Next]_vars PROVE TypeInv'
  OBVIOUS
<1> TablesTyped /\ NumbersTyped /\ RequestsTyped /\ Staged
  BY Parts
<1>p. TablesTyped' /\ NumbersTyped' /\ RequestsTyped' /\ Staged' => TypeInv'
  BY DEF TypeInv, TypeOK, TablesTyped, NumbersTyped, RequestsTyped, Counted
<1>1. ASSUME NEW c \in Clients,
             \/ BeginCreate(c)
             \/ \E l \in Leads : BeginUpdate(c, l)
             \/ \E m \in Members : BeginDeactivate(c, m)
      PROVE  TypeInv'
  <2>1. TablesTyped' /\ NumbersTyped'
    BY <1>1, BeginStill DEF tableVars, answerVars, numberVars, TablesTyped, NumbersTyped, Counted
  <2>2. QED
    BY <1>1, <1>p, <2>1, BeginTypes
<1>2. ASSUME NEW c \in Clients, Step(c) \/ Fail(c) PROVE TypeInv'
  BY <1>2, <1>p, StepTypes, StepTables
<1>3. ASSUME NEW l \in Leads, Age(l) PROVE TypeInv'
  BY <1>3, <1>p DEF Age, numberVars, answerVars, TablesTyped, NumbersTyped, Counted,
     RequestsTyped, Staged
<1>4. CASE UNCHANGED vars
  BY <1>4, <1>p DEF vars, tableVars, numberVars, answerVars, TablesTyped, NumbersTyped, Counted,
     RequestsTyped, Staged
<1>5. QED
  BY <1>1, <1>2, <1>3, <1>4 DEF Next

\* Rows, counters, locks and requests have their types in every reachable state.
THEOREM TypeCorrect == Spec => []TypeOK
<1>1. TypeInv => TypeOK
  BY DEF TypeInv
<1>2. QED
  BY <1>1, TypeInit, TypeStep, PTL DEF Spec

-----------------------------------------------------------------------------
(* Conversions.  What a transaction read about a lead it has locked stays    *)
(* true until it ends, so a status is never changed behind a customer.       *)

Guarded(c) ==
    LET l == req[c].lead
    IN  pc[c] \in InTx =>
            /\ lock[l] = c
            /\ row[l].status # "absent" /\ ~row[l].deleted
            /\ pc[c] # "recordConversion" => req[c].from = row[l].status
            /\ pc[c] # "checkConverted" => l \notin customers
            /\ pc[c] = "recordConversion" => row[l].status = "won"

LockInv ==
    /\ \A c \in Clients : Guarded(c)
    /\ \A l \in Leads : row[l].status = "absent" => ~row[l].deleted
    /\ ConvertedStaysWon

\* The only statements that change a status or delete are these three.
LEMMA RowSteps ==
  ASSUME TypeInv, NEW c \in Clients, Step(c) \/ Fail(c), NEW l \in Leads
  PROVE  \/ row'[l].status = row[l].status /\ row'[l].deleted = row[l].deleted
         \/ /\ Insert(c) /\ row[l].status = "absent"
            /\ row'[l].status = "new" /\ ~row'[l].deleted
         \/ /\ ChangeStatus(c) /\ l = req[c].lead /\ ValidTransition(req[c].from, req[c].want)
            /\ row'[l].status = req[c].want /\ row'[l].deleted = row[l].deleted
         \/ /\ Delete(c) /\ l = req[c].lead /\ lock[l] = Free /\ Visible(c, l)
            /\ row'[l].status = row[l].status /\ row'[l].deleted
<1> USE DEF TypeInv, TypeOK
<1>r. row[l] \in Row
  OBVIOUS
<1>1. CASE UNCHANGED row
  BY <1>1
<1>2. CASE SweepKeys(c)
  BY <1>2, <1>r DEF SweepKeys, Row
<1>3. CASE Insert(c)
  <2>1. ASSUME NEW m \in Leads, ~Exists(m), NEW k, NEW n,
               row' = [row EXCEPT ![m] =
                    [status |-> "new", version |-> 1, who |-> req[c].want, deleted |-> FALSE,
                     key |-> k, number |-> n, via |-> req[c].via]]
        PROVE  \/ row'[l] = row[l]
               \/ row[l].status = "absent" /\ row'[l].status = "new" /\ ~row'[l].deleted
    <3>1. CASE l = m
      BY <2>1, <3>1 DEF Exists
    <3>2. CASE l # m
      BY <2>1, <3>2
    <3>3. QED
      BY <3>1, <3>2
  <2>2. UNCHANGED row \/ \E m \in Leads : \E k, n : ~Exists(m) /\ row' = [row EXCEPT ![m] =
                    [status |-> "new", version |-> 1, who |-> req[c].want, deleted |-> FALSE,
                     key |-> k, number |-> n, via |-> req[c].via]]
    BY <1>3 DEF Insert
  <2>3. QED
    BY <1>3, <2>1, <2>2, <1>1
<1>4. CASE ChangeStatus(c)
  BY <1>4, <1>r DEF ChangeStatus, Row
<1>5. CASE Assign(c)
  BY <1>5, <1>r DEF Assign, Row
<1>6. CASE Edit(c)
  BY <1>6, <1>r DEF Edit, Row
<1>7. CASE Delete(c)
  BY <1>7, <1>r DEF Delete, Row
<1>8. CASE Leave(c)
  BY <1>8, <1>r DEF Leave, Row
<1>9. QED
  BY <1>1, <1>2, <1>3, <1>4, <1>5, <1>6, <1>7, <1>8 DEF Step, CreateStep, LeadStep, Quota,
     AlertCheck, AlertSend, Allocate, Replay, LockStatus, CheckConverted, ReadAssignee, Convert,
     RecordConversion, Settle, Fail, tableVars

\* Customers only come from recorded conversions.
LEMMA CustomerSteps ==
  ASSUME NEW c \in Clients, Step(c) \/ Fail(c)
  PROVE  \/ UNCHANGED customers
         \/ RecordConversion(c) /\ customers' = customers \cup {req[c].lead}
  BY DEF Step, CreateStep, LeadStep, Quota, SweepKeys, AlertCheck, AlertSend, Allocate, Insert,
     Replay, LockStatus, CheckConverted, ChangeStatus, ReadAssignee, Assign, Edit, Delete,
     Convert, RecordConversion, Settle, Leave, Fail, tableVars

\* A lock is taken from nobody and given back by its holder.
LEMMA LockSteps ==
  ASSUME TypeInv, NEW c \in Clients, Step(c) \/ Fail(c), NEW l \in Leads,
         lock[l] \notin {c, Free}
  PROVE  lock'[l] = lock[l]
<1> USE DEF TypeInv, TypeOK
<1>1. CASE UNCHANGED lock
  BY <1>1
<1>2. CASE Unlock(c)
  BY <1>2 DEF Unlock
<1>3. CASE LockStatus(c) \/ Convert(c)
  BY <1>3 DEF LockStatus, Convert
<1>4. QED
  BY <1>1, <1>2, <1>3 DEF Step, CreateStep, LeadStep, Quota, SweepKeys, AlertCheck, AlertSend,
     Allocate, Insert, Replay, CheckConverted, ChangeStatus, ReadAssignee, Assign, Edit, Delete,
     RecordConversion, Settle, Leave, Fail

\* While another transaction holds a lead's lock, nothing happens to the lead.
LEMMA LockedStill ==
  ASSUME TypeInv, LockInv, NEW c \in Clients, Step(c) \/ Fail(c), NEW d \in Clients, d # c,
         pc[d] \in InTx
  PROVE  LET l == req[d].lead
         IN  /\ lock'[l] = d
             /\ row'[l].status = row[l].status /\ row'[l].deleted = row[l].deleted
             /\ l \in customers' <=> l \in customers
<1> DEFINE l == req[d].lead
<1>1. l \in Leads
  BY DEF TypeInv, Staged, StageFits, OnLead
<1>2. Guarded(c) /\ Guarded(d)
  BY DEF LockInv
<1>3. lock[l] = d /\ row[l].status # "absent"
  BY <1>2 DEF Guarded
<1>4. d # Free
  BY LeadAssumption
<1>5. ChangeStatus(c) \/ RecordConversion(c) => req[c].lead # l
  BY <1>2, <1>3 DEF Guarded, InTx, ChangeStatus, RecordConversion
<1>6. lock'[l] = d
  BY <1>1, <1>3, <1>4, LockSteps
<1>7. row'[l].status = row[l].status /\ row'[l].deleted = row[l].deleted
  BY <1>1, <1>3, <1>4, <1>5, RowSteps
<1>8. l \in customers' <=> l \in customers
  BY <1>5, CustomerSteps
<1>9. QED
  BY <1>6, <1>7, <1>8

\* Where a client's own step leaves its transaction.
LEMMA OwnGuard ==
  ASSUME TypeInv, LockInv, NEW c \in Clients, Step(c) \/ Fail(c)
  PROVE  Guarded(c)'
<1> SUFFICES ASSUME pc'[c] \in InTx PROVE Guarded(c)'
  BY DEF Guarded
<1>1. Guarded(c) /\ pc[c] \in Stages /\ pc \in [Clients -> Stages] /\ req \in [Clients -> Request]
  BY DEF LockInv, TypeInv, TypeOK
<1>2. LockStatus(c) \/ CheckConverted(c) \/ Convert(c)
  BY <1>1 DEF Step, CreateStep, LeadStep, Quota, SweepKeys, AlertCheck, AlertSend, Allocate,
     Insert, Replay, ChangeStatus, ReadAssignee, Assign, Edit, Delete, RecordConversion,
     Settle, Leave, Fail, Goto, Done, InTx
<1>3. req[c].lead \in Leads
  BY <1>2 DEF TypeInv, Staged, StageFits, OnLead, InTx, LockStatus, CheckConverted, Convert
<1>4. row' = row /\ customers' = customers
  BY <1>2 DEF LockStatus, CheckConverted, Convert, tableVars
<1>5. CASE LockStatus(c)
  <2>1. /\ pc'[c] = "checkConverted" /\ lock' = [lock EXCEPT ![req[c].lead] = c]
        /\ req' = [req EXCEPT ![c].from = row[req[c].lead].status] /\ Visible(c, req[c].lead)
    BY <1>1, <1>5 DEF LockStatus, Done, InTx
  <2>2. req'[c].lead = req[c].lead /\ req'[c].from = row[req[c].lead].status
    BY <1>1, <2>1 DEF Request
  <2>3. lock'[req[c].lead] = c
    BY <1>3, <2>1 DEF TypeInv, TypeOK
  <2>4. QED
    BY <1>4, <2>1, <2>2, <2>3 DEF Guarded, Visible, Exists
<1>6. CASE CheckConverted(c)
  <2>1. pc'[c] = "changeStatus" /\ req' = req /\ lock' = lock /\ req[c].lead \notin customers
    BY <1>1, <1>6 DEF CheckConverted, Done, Goto, InTx
  <2>2. QED
    BY <1>1, <1>4, <1>6, <2>1 DEF Guarded, InTx, CheckConverted
<1>7. CASE Convert(c)
  <2>1. /\ pc'[c] = "recordConversion" /\ req' = req /\ req[c].lead \notin customers
        /\ lock' = [lock EXCEPT ![req[c].lead] = c]
        /\ row[req[c].lead].status = "won" /\ ~row[req[c].lead].deleted
    BY <1>1, <1>7 DEF Convert, Done, Goto, InTx
  <2>2. lock'[req[c].lead] = c
    BY <1>3, <2>1 DEF TypeInv, TypeOK
  <2>3. QED
    BY <1>4, <2>1, <2>2 DEF Guarded
<1>8. QED
  BY <1>2, <1>5, <1>6, <1>7

\* The empty organization keeps the lock discipline.
LEMMA LockInit == Init => LockInv
  BY DEF Init, LockInv, Guarded, ConvertedStaysWon, InTx, NoRow

\* Every statement keeps the lock discipline, by what it writes and which lock it holds.
LEMMA LockStep == TypeInv /\ LockInv /\ [Next]_vars => LockInv'
<1> SUFFICES ASSUME TypeInv, LockInv, [Next]_vars PROVE LockInv'
  OBVIOUS
<1>1. ASSUME NEW c \in Clients, Step(c) \/ Fail(c) PROVE LockInv'
  <2>1. ASSUME NEW d \in Clients PROVE Guarded(d)'
    <3>1. CASE d = c
      BY <1>1, <3>1, OwnGuard
    <3>2. CASE d # c
      <4>1. pc'[d] = pc[d] /\ req'[d] = req[d]
        BY <1>1, <3>2 DEF TypeInv, TypeOK, Step, CreateStep, LeadStep, Quota, SweepKeys,
           AlertCheck, AlertSend, Allocate, Insert, Replay, LockStatus, CheckConverted,
           ChangeStatus, ReadAssignee, Assign, Edit, Delete, Convert, RecordConversion, Settle,
           Leave, Fail, Goto, Done
      <4>2. Guarded(d)
        BY DEF LockInv
      <4>3. QED
        BY <1>1, <3>2, <4>1, <4>2, LockedStill DEF Guarded
    <3>3. QED
      BY <3>1, <3>2
  <2>2. ASSUME NEW l \in Leads, row'[l].status = "absent" PROVE ~row'[l].deleted
    <3>1. ChangeStatus(c) => req[c].want # "absent"
      BY DEF ChangeStatus, TypeInv, Staged, StageFits, Statuses, OnPath, mainPath
    <3>2. Visible(c, l) => row[l].status # "absent"
      BY DEF Visible, Exists
    <3>3. row[l].status = "absent" => ~row[l].deleted
      BY DEF LockInv
    <3>4. QED
      BY <1>1, <2>2, <3>1, <3>2, <3>3, RowSteps
  <2>3. ASSUME NEW l \in customers' PROVE row'[l].status = "won"
    <3>0. Guarded(c)
      BY DEF LockInv
    <3>1. CASE l \in customers
      <4>1. row[l].status = "won" /\ l \in Leads
        BY <3>1 DEF LockInv, ConvertedStaysWon, TypeInv, TypeOK
      <4>2. ChangeStatus(c) => l # req[c].lead
        BY <3>0, <3>1 DEF Guarded, InTx, ChangeStatus
      <4>3. QED
        BY <1>1, <4>1, <4>2, RowSteps
    <3>2. CASE l \notin customers
      <4>1. RecordConversion(c) /\ l = req[c].lead
        BY <1>1, <2>3, <3>2, CustomerSteps
      <4>2. row' = row /\ row[l].status = "won"
        BY <3>0, <4>1 DEF Guarded, InTx, RecordConversion
      <4>3. QED
        BY <4>2
    <3>3. QED
      BY <3>1, <3>2
  <2>4. QED
    BY <2>1, <2>2, <2>3 DEF LockInv, ConvertedStaysWon
<1>2. ASSUME NEW c \in Clients,
             \/ BeginCreate(c)
             \/ \E l \in Leads : BeginUpdate(c, l)
             \/ \E m \in Members : BeginDeactivate(c, m)
      PROVE  LockInv'
  <2>1. row' = row /\ customers' = customers /\ lock' = lock
    BY <1>2, BeginStill DEF tableVars
  <2>2. ASSUME NEW d \in Clients PROVE Guarded(d)'
    <3>1. pc'[d] \in InTx => pc'[d] = pc[d] /\ req'[d] = req[d]
      BY <1>2, BeginStill DEF TypeInv, TypeOK, InTx
    <3>2. Guarded(d)
      BY DEF LockInv
    <3>3. QED
      BY <2>1, <3>1, <3>2 DEF Guarded
  <2>3. QED
    BY <2>1, <2>2 DEF LockInv, ConvertedStaysWon
<1>3. CASE UNCHANGED <<row, customers, lock, pc, req>>
  BY <1>3 DEF LockInv, Guarded, ConvertedStaysWon
<1>4. (\E l \in Leads : Age(l)) \/ UNCHANGED vars => UNCHANGED <<row, customers, lock, pc, req>>
  BY DEF Age, vars, tableVars
<1>5. QED
  BY <1>1, <1>2, <1>3, <1>4 DEF Next

\* Both invariants together.
LEMMA Safe == Spec => [](TypeInv /\ LockInv)
  BY TypeInit, TypeStep, LockInit, LockStep, PTL DEF Spec

\* However requests interleave, fail or wait, a converted lead stays won.
THEOREM ConversionFinal == Spec => []ConvertedStaysWon
<1>1. LockInv => ConvertedStaysWon
  BY DEF LockInv
<1>2. QED
  BY <1>1, Safe, PTL

-----------------------------------------------------------------------------
(* Refinement *)

stageOf   == [l \in Leads |-> row[l].status]
removedOf == {l \in Leads : row[l].deleted}

\* A transition the code allows is one the product promises, or none at all.
LEMMA TransitionAllowed ==
  ASSUME NEW from \in Statuses, NEW to \in Statuses, ValidTransition(from, to)
  PROVE  Pipeline!MayMove(from, to)
<1>1. Pipeline!OnFunnel = OnPath /\ Pipeline!Statuses = Statuses
  BY DEF Pipeline!OnFunnel, Pipeline!Statuses, Pipeline!Closed, Pipeline!Funnel, OnPath, mainPath,
     Statuses
<1>2. from \in OnPath \cup {"lost"} /\ to \in Statuses \ {"new"}
  BY DEF ValidTransition, Statuses
<1>3. ASSUME NEW i \in 1..5, NEW j \in 1..5, mainPath[i] = from, mainPath[j] = to,
             j - i \in {1, -1}
      PROVE  \E k \in 1..4 : {from, to} = {Pipeline!Funnel[k], Pipeline!Funnel[k + 1]}
  <2>1. mainPath = Pipeline!Funnel
    BY DEF mainPath, Pipeline!Funnel
  <2>2. CASE j = i + 1
    <3>1. i \in 1..4 /\ {from, to} = {Pipeline!Funnel[i], Pipeline!Funnel[i + 1]}
      BY <1>3, <2>1, <2>2
    <3>2. QED
      BY <3>1
  <2>3. CASE i = j + 1
    <3>1. j \in 1..4 /\ {from, to} = {Pipeline!Funnel[j], Pipeline!Funnel[j + 1]}
      BY <1>3, <2>1, <2>3
    <3>2. QED
      BY <3>1
  <2>4. j = i + 1 \/ i = j + 1
    <3>1. i \in Int /\ j \in Int /\ j - i \in {1, -1}
      BY <1>3
    <3>2. QED
      BY <3>1
  <2>5. QED
    BY <2>2, <2>3, <2>4
<1>4. QED
  BY <1>1, <1>2, <1>3 DEF ValidTransition, Pipeline!MayMove, Pipeline!Closed

\* The empty organization has no lead, customer or deletion.
LEMMA PipelineInit == Init => Pipeline!Init
  BY DEF Init, Pipeline!Init, NoRow

\* Each statement is one move of one lead, or none that the product sees.
LEMMA PipelineStep ==
  ASSUME TypeInv, TypeInv', LockInv, [Next]_vars
  PROVE  [Pipeline!Next]_(Pipeline!pipelineVars)
<1> USE DEF stageOf, removedOf, Pipeline!pipelineVars
<1>t. row \in [Leads -> Row] /\ row' \in [Leads -> Row] /\ customers \subseteq Leads
  BY DEF TypeInv, TypeOK
<1>s. \A l \in Leads : row[l].status \in Statuses \cup {"absent"}
  BY <1>t DEF Row
<1>1. ASSUME UNCHANGED customers, \A l \in Leads : /\ row'[l].status = row[l].status
                                                  /\ row'[l].deleted = row[l].deleted
      PROVE  UNCHANGED Pipeline!pipelineVars
  BY <1>1
<1>n. ASSUME NEW x \in Leads, NEW y \in Pipeline!Statuses, Pipeline!Move(x, y)
      PROVE  Pipeline!Next
  BY <1>n DEF Pipeline!Next
<1>r. ASSUME NEW x \in Leads, Pipeline!Remove(x)
      PROVE  Pipeline!Next
  BY <1>r DEF Pipeline!Next
<1>2. ASSUME NEW c \in Clients, Step(c) \/ Fail(c)
      PROVE  [Pipeline!Next]_(Pipeline!pipelineVars)
  <2>g. Guarded(c) /\ req[c] \in Request /\ StageFits(pc[c], req[c])
    BY DEF LockInv, TypeInv, TypeOK, Staged
  <2>a. ASSUME NEW k \in Leads, ~RecordConversion(c), ~Insert(c), ~ChangeStatus(c), ~Delete(c)
        PROVE  row'[k].status = row[k].status /\ row'[k].deleted = row[k].deleted
    BY <1>2, <2>a, RowSteps
  <2>1. CASE RecordConversion(c)
    <3> DEFINE l == req[c].lead
    <3>1. l \in Leads /\ l \notin customers /\ row[l].status = "won" /\ ~row[l].deleted
      BY <2>1, <2>g DEF RecordConversion, Guarded, InTx, StageFits, OnLead
    <3>2. row' = row /\ customers' = customers \cup {l}
      BY <2>1 DEF RecordConversion
    <3>3. Pipeline!Convert(l)
      BY <3>1, <3>2 DEF Pipeline!Convert
    <3>4. QED
      BY <3>1, <3>3 DEF Pipeline!Next
  <2>2. CASE Insert(c)
    <3>0. UNCHANGED customers
      BY <2>2 DEF Insert
    <3>1. ASSUME NEW l \in Leads, ~Exists(l), NEW v \in Row, v.status = "new", ~v.deleted,
                 row' = [row EXCEPT ![l] = v]
          PROVE  Pipeline!Enter(l)
      <4>1. row[l].status = "absent" /\ ~row[l].deleted
        BY <3>1 DEF Exists, LockInv
      <4>2. stageOf' = [stageOf EXCEPT ![l] = "new"]
        BY <3>1, <1>t
      <4>3. removedOf' = removedOf
        BY <3>1, <4>1, <1>t
      <4>4. QED
        BY <3>0, <4>1, <4>2, <4>3 DEF Pipeline!Enter
    <3>2. UNCHANGED row \/ \E l \in Leads : \E k, n : ~Exists(l) /\ row' = [row EXCEPT ![l] =
                    [status |-> "new", version |-> 1, who |-> req[c].want, deleted |-> FALSE,
                     key |-> k, number |-> n, via |-> req[c].via]]
      BY <2>2 DEF Insert
    <3>3. ASSUME NEW l \in Leads, NEW k, NEW n, ~Exists(l), row' = [row EXCEPT ![l] =
                    [status |-> "new", version |-> 1, who |-> req[c].want, deleted |-> FALSE,
                     key |-> k, number |-> n, via |-> req[c].via]]
          PROVE  Pipeline!Enter(l)
      <4> DEFINE v == [status |-> "new", version |-> 1, who |-> req[c].want, deleted |-> FALSE,
                       key |-> k, number |-> n, via |-> req[c].via]
      <4>1. v = row'[l]
        BY <3>3, <1>t
      <4>2. v \in Row /\ v.status = "new" /\ ~v.deleted
        BY <4>1, <1>t
      <4>3. row' = [row EXCEPT ![l] = v]
        BY <3>3
      <4> HIDE DEF v
      <4>4. QED
        BY <3>1, <3>3, <4>2, <4>3
    <3>4. CASE UNCHANGED row
      BY <3>0, <3>4, <1>1
    <3>5. QED
      BY <3>2, <3>3, <3>4 DEF Pipeline!Next
  <2>3. CASE ChangeStatus(c)
    <3>p. PICK l \in Leads, to \in Statuses : l = req[c].lead /\ to = req[c].want
      BY <2>3, <2>g DEF ChangeStatus, InTx, StageFits, OnLead
    <3>1. /\ l \in Leads /\ l \notin customers /\ ~row[l].deleted /\ req[c].from = row[l].status
          /\ to \in Statuses /\ row[l].status \in Statuses
      BY <3>p, <2>3, <2>g, <1>s DEF ChangeStatus, Guarded, InTx, StageFits, OnLead
    <3>2. UNCHANGED customers
      BY <2>3 DEF ChangeStatus
    <3>3. CASE UNCHANGED row
      BY <3>2, <3>3, <1>1
    <3>4. CASE ~UNCHANGED row
      <4>1. /\ ValidTransition(row[l].status, to)
            /\ row' = [row EXCEPT ![l].status = to, ![l].version = @ + 1]
        BY <3>p, <2>3, <3>1, <3>4 DEF ChangeStatus
      <4>a. ASSUME NEW k \in Leads
            PROVE  /\ row'[k].status = IF k = l THEN to ELSE row[k].status
                   /\ row'[k].deleted = row[k].deleted
        BY <4>1, <3>1, <1>t DEF Row
      <4>2. stageOf' = [stageOf EXCEPT ![l] = to]
        BY <4>a, <3>1
      <4>3. removedOf' = removedOf
        BY <4>a
      <4>4. Pipeline!MayMove(stageOf[l], to)
        BY <4>1, <3>1, TransitionAllowed
      <4>5. Pipeline!Move(l, to)
        BY <3>1, <3>2, <4>2, <4>3, <4>4 DEF Pipeline!Move
      <4>6. to \in Pipeline!Statuses
        BY <4>4 DEF Pipeline!MayMove
      <4>7. QED
        BY <3>1, <4>5, <4>6, <1>n
    <3>5. QED
      BY <3>3, <3>4
  <2>4. CASE Delete(c)
    <3>p. PICK l \in Leads : l = req[c].lead
      BY <2>4, <2>g DEF Delete, StageFits, OnLead
    <3>1. l \in Leads /\ UNCHANGED customers
      BY <2>4 DEF Delete, StageFits, OnLead
    <3>2. CASE UNCHANGED row
      BY <3>1, <3>2, <1>1
    <3>3. CASE ~UNCHANGED row
      <4>1. row' = [row EXCEPT ![l].deleted = TRUE] /\ row[l].status # "absent" /\ ~row[l].deleted
        BY <3>p, <2>4, <3>3 DEF Delete, Visible, Exists
      <4>a. ASSUME NEW k \in Leads
            PROVE  /\ row'[k].status = row[k].status
                   /\ row'[k].deleted = IF k = l THEN TRUE ELSE row[k].deleted
        BY <4>1, <3>1, <1>t DEF Row
      <4>2. stageOf' = stageOf /\ removedOf' = removedOf \cup {l}
        BY <4>a, <3>1
      <4>3. Pipeline!Remove(l)
        BY <3>1, <4>1, <4>2 DEF Pipeline!Remove
      <4>4. QED
        BY <3>1, <4>3, <1>r
    <3>4. QED
      BY <3>2, <3>3
  <2>5. CASE ~RecordConversion(c) /\ ~Insert(c) /\ ~ChangeStatus(c) /\ ~Delete(c)
    BY <1>2, <2>5, <2>a, <1>1, CustomerSteps
  <2>6. QED
    BY <2>1, <2>2, <2>3, <2>4, <2>5
<1>3. ASSUME NEW c \in Clients,
             \/ BeginCreate(c)
             \/ \E l \in Leads : BeginUpdate(c, l)
             \/ \E m \in Members : BeginDeactivate(c, m)
      PROVE  UNCHANGED Pipeline!pipelineVars
  BY <1>3, <1>1, BeginStill DEF tableVars
<1>4. (\E l \in Leads : Age(l)) \/ UNCHANGED vars => UNCHANGED Pipeline!pipelineVars
  BY <1>1 DEF Age, vars, tableVars
<1>5. QED
  BY <1>2, <1>3, <1>4 DEF Next

\* All requests together keep the product's promise about each lead.
THEOREM PipelineKept == Spec => KeepsPipeline
<1>1. Pipeline!Init /\ [][Pipeline!Next]_(Pipeline!pipelineVars) => KeepsPipeline
  BY DEF KeepsPipeline, Pipeline!Spec
<1>2. TypeInv /\ TypeInv' /\ LockInv /\ [Next]_vars => [Pipeline!Next]_(Pipeline!pipelineVars)
  BY PipelineStep
<1>3. QED
  BY <1>1, <1>2, PipelineInit, Safe, PTL DEF Spec
=============================================================================
