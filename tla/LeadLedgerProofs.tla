-------------------------- MODULE LeadLedgerProofs --------------------------
(***************************************************************************)
(* Theorems about what LeadDesk counts and names: the numbers leads get,    *)
(* the answers to idempotency keys, the monthly quota and the rows that     *)
(* requests replace, for every number of clients, leads, members and keys.  *)
(***************************************************************************)
EXTENDS LeadDeskProofs, FiniteSetTheorems

-----------------------------------------------------------------------------
(* What one statement leaves alone. *)

Made == {l \in Leads : Exists(l)}

\* A statement moves its own request only.
LEMMA OthersWait ==
  ASSUME TypeInv, NEW c \in Clients, Step(c) \/ Fail(c), NEW d \in Clients, d # c
  PROVE  pc'[d] = pc[d] /\ req'[d] = req[d]
  BY DEF TypeInv, TypeOK, Step, CreateStep, LeadStep, Quota, SweepKeys, AlertCheck, AlertSend,
     Allocate, Insert, Replay, LockStatus, CheckConverted, ChangeStatus, ReadAssignee, Assign,
     Edit, Delete, Convert, RecordConversion, Settle, Leave, Fail, Goto, Done

\* Only an insert makes a lead; a lead keeps its number and principal, and only
\* the sweep takes its key.
LEMMA LedgerSteps ==
  ASSUME TypeInv, NEW c \in Clients, Step(c) \/ Fail(c), ~Insert(c), NEW l \in Leads
  PROVE  /\ Exists(l)' <=> Exists(l)
         /\ row'[l].number = row[l].number /\ row'[l].via = row[l].via
         /\ row'[l].key = row[l].key \/ SweepKeys(c)
<1> USE DEF TypeInv, TypeOK, Exists
<1>r. row[l] \in Row
  OBVIOUS
<1>1. CASE UNCHANGED row
  BY <1>1
<1>2. CASE SweepKeys(c)
  BY <1>2, <1>r DEF SweepKeys, Row
<1>3. CASE ChangeStatus(c)
  <2>1. req[c].want # "absent"
    BY <1>3 DEF ChangeStatus, Staged, StageFits, Statuses, OnPath, mainPath
  <2>2. QED
    BY <1>3, <1>r, <2>1 DEF ChangeStatus, Matches, Visible, Row
<1>4. CASE Assign(c)
  BY <1>4, <1>r DEF Assign, Row
<1>5. CASE Edit(c)
  BY <1>5, <1>r DEF Edit, Row
<1>6. CASE Delete(c)
  BY <1>6, <1>r DEF Delete, Row
<1>7. CASE Leave(c)
  BY <1>7, <1>r DEF Leave, Row
<1>8. QED
  BY <1>1, <1>2, <1>3, <1>4, <1>5, <1>6, <1>7 DEF Step, CreateStep, LeadStep, Quota,
     AlertCheck, AlertSend, Allocate, Replay, LockStatus, CheckConverted, ReadAssignee, Convert,
     RecordConversion, Settle, Fail, tableVars

\* What an insert that commits makes, and of what.
LEMMA InsertMakes ==
  ASSUME TypeInv, NEW c \in Clients, Insert(c)
  PROVE  \/ /\ KeyTaken(req[c].key) /\ UNCHANGED <<row, named>>
            /\ Unallocate(c) /\ Goto(c, "replay")
         \/ \E l \in Leads :
               /\ ~KeyTaken(req[c].key) /\ ~Exists(l) /\ Exists(l)'
               /\ \A m \in Leads \ {l} : row'[m] = row[m]
               /\ row'[l].number = nextNumber - 1 /\ row'[l].key = req[c].key
               /\ row'[l].via = req[c].via
               /\ Answer(req[c].key, {l})
               /\ numberLock' = Free /\ UNCHANGED nextNumber /\ Done(c)
<1>1. CASE KeyTaken(req[c].key)
  BY <1>1 DEF Insert
<1>2. CASE ~KeyTaken(req[c].key)
  <2>1. PICK l \in Leads :
          /\ ~Exists(l)
          /\ row' = [row EXCEPT ![l] =
                [status |-> "new", version |-> 1, who |-> req[c].want, deleted |-> FALSE,
                 key |-> req[c].key, number |-> nextNumber - 1, via |-> req[c].via]]
          /\ Answer(req[c].key, {l})
          /\ numberLock' = Free /\ Done(c) /\ UNCHANGED nextNumber
    BY <1>2 DEF Insert
  <2>2. row'[l] = [status |-> "new", version |-> 1, who |-> req[c].want, deleted |-> FALSE,
                   key |-> req[c].key, number |-> nextNumber - 1, via |-> req[c].via]
    BY <2>1 DEF TypeInv, TypeOK
  <2>3. \A m \in Leads \ {l} : row'[m] = row[m]
    BY <2>1 DEF TypeInv, TypeOK
  <2>4. row'[l].number = nextNumber - 1 /\ row'[l].key = req[c].key /\ row'[l].via = req[c].via
          /\ Exists(l)'
    BY <2>2 DEF Exists
  <2>5. QED
    BY <1>2, <2>1, <2>3, <2>4
<1>3. QED
  BY <1>1, <1>2

\* Steps that are not a statement of a request leave rows, counters and answers.
LEMMA ArrivalStill ==
  ASSUME [Next]_vars, \A c \in Clients : ~Step(c) /\ ~Fail(c)
  PROVE  /\ UNCHANGED <<row, numberVars, customers, lock, answerVars>>
         /\ \/ UNCHANGED <<pc, req>>
            \/ \E c \in Clients : \/ BeginCreate(c)
                                  \/ \E l \in Leads : BeginUpdate(c, l)
                                  \/ \E m \in Members : BeginDeactivate(c, m)
<1>1. ASSUME NEW c \in Clients, \/ BeginCreate(c)
                                \/ \E l \in Leads : BeginUpdate(c, l)
                                \/ \E m \in Members : BeginDeactivate(c, m)
      PROVE  UNCHANGED <<row, numberVars, customers, lock, answerVars>>
  BY <1>1, BeginStill DEF tableVars
<1>2. QED
  BY <1>1 DEF Next, Age, vars, tableVars

\* A request that arrives is the only one to move, from idle to a first stage.
LEMMA ArrivalMoves ==
  ASSUME TypeInv, NEW c \in Clients,
         \/ BeginCreate(c)
         \/ \E l \in Leads : BeginUpdate(c, l)
         \/ \E m \in Members : BeginDeactivate(c, m)
  PROVE  /\ pc[c] = "idle"
         /\ pc'[c] \in {"quota", "lockStatus", "readAssignee", "edit", "convert", "delete", "settle"}
         /\ \A d \in Clients \ {c} : pc'[d] = pc[d] /\ req'[d] = req[d]
<1>1. PICK s \in {"quota", "lockStatus", "readAssignee", "edit", "convert", "delete", "settle"} :
         \E r : pc' = [pc EXCEPT ![c] = s] /\ req' = [req EXCEPT ![c] = r] /\ pc[c] = "idle"
  BY BeginStill
<1>2. QED
  BY <1>1 DEF TypeInv, TypeOK

-----------------------------------------------------------------------------
(* Numbers.  The counter runs ahead of the leads by the one number a         *)
(* transaction may have taken and not yet used; the organization's row is    *)
(* locked as long as it is.                                                  *)

Issued == IF numberLock = Free THEN nextNumber - 1 ELSE nextNumber - 2

NumbersInv ==
    /\ {row[l].number : l \in Made} = 1..Issued
    /\ Cardinality(Made) = Issued
    /\ \A c \in Clients : pc[c] = "insert" <=> numberLock = c

\* Each statement takes a number, gives one back, or leaves the count of issued
\* numbers alone.
LEMMA NumberSteps ==
  ASSUME TypeInv, NumbersInv, NEW c \in Clients, Step(c) \/ Fail(c)
  PROVE  /\ \A d \in Clients : pc'[d] = "insert" <=> numberLock' = d
         /\ Issued' = IF Insert(c) /\ row' # row THEN Issued + 1 ELSE Issued
<1>a. /\ pc \in [Clients -> Stages] /\ Free \notin Clients /\ nextNumber \in Nat
      /\ numberLock \in Clients \cup {Free}
      /\ \A d \in Clients : pc[d] = "insert" <=> numberLock = d
  BY LeadAssumption DEF TypeInv, TypeOK, NumbersInv
<1>1. \A d \in Clients \ {c} : pc'[d] = pc[d]
  BY OthersWait
<1>2. CASE UNCHANGED numberVars /\ pc[c] # "insert" /\ pc'[c] # "insert" /\ ~Insert(c)
  BY <1>2, <1>a, <1>1 DEF numberVars, Issued
<1>3. CASE Allocate(c)
  <2>1. pc'[c] = "insert" /\ numberLock = Free /\ numberLock' = c /\ nextNumber' = nextNumber + 1
    BY <1>3, <1>a DEF Allocate, Goto
  <2>2. row' = row
    BY <1>3 DEF Allocate
  <2>3. QED
    BY <2>1, <2>2, <1>a, <1>1 DEF Issued
<1>4. CASE Unallocate(c) /\ pc'[c] # "insert" /\ row' = row
  BY <1>4, <1>a, <1>1 DEF Unallocate, Issued, numberVars
<1>5. CASE Insert(c) /\ row' # row
  <2>1. numberLock = c /\ numberLock' = Free /\ nextNumber' = nextNumber /\ pc'[c] = "idle"
    BY <1>5, <1>a, InsertMakes DEF Insert, Done
  <2>2. QED
    BY <2>1, <1>a, <1>1, <1>5 DEF Issued
<1>6. CASE Insert(c) /\ row' = row
  <2>1. Unallocate(c) /\ Goto(c, "replay")
    BY <1>6, InsertMakes DEF Exists
  <2>2. pc'[c] # "insert"
    BY <2>1, <1>a DEF Goto
  <2>3. QED
    BY <2>1, <2>2, <1>6, <1>4
<1>7. CASE Fail(c)
  <2>1. pc'[c] = "idle" /\ row' = row /\ Unallocate(c)
    BY <1>7, <1>a DEF Fail, Done
  <2>2. QED
    BY <2>1, <1>4
<1>8. CASE Step(c) /\ ~Insert(c) /\ ~Allocate(c)
  <2>1. UNCHANGED numberVars /\ pc[c] # "insert"
    BY <1>8 DEF Step, CreateStep, LeadStep, Quota, SweepKeys, AlertCheck, AlertSend, Replay,
       LockStatus, CheckConverted, ChangeStatus, ReadAssignee, Assign, Edit, Delete, Convert,
       RecordConversion, Settle, Leave, tableVars, numberVars
  <2>2. pc'[c] # "insert"
    BY <1>8, <1>a DEF Step, CreateStep, LeadStep, Quota, SweepKeys, AlertCheck, AlertSend, Replay,
       LockStatus, CheckConverted, ChangeStatus, ReadAssignee, Assign, Edit, Delete, Convert,
       RecordConversion, Settle, Leave, Goto, Done
  <2>3. QED
    BY <2>1, <2>2, <1>2, <1>8
<1>9. QED
  BY <1>3, <1>5, <1>6, <1>7, <1>8

\* No lead and no number at the start.
LEMMA NumbersInit == Init => NumbersInv
<1> SUFFICES ASSUME Init PROVE NumbersInv
  OBVIOUS
<1>1. Made = {} /\ Issued = 0
  BY DEF Init, Made, Exists, NoRow, Issued
<1>2. QED
  BY <1>1, FS_EmptySet, LeadAssumption DEF Init, NumbersInv

\* Every statement keeps the numbers dense up to the count issued.
LEMMA NumbersStep == TypeInv /\ NumbersInv /\ [Next]_vars => NumbersInv'
<1> SUFFICES ASSUME TypeInv, NumbersInv, [Next]_vars PROVE NumbersInv'
  OBVIOUS
<1>1. ASSUME NEW c \in Clients, Step(c) \/ Fail(c), ~Insert(c) \/ row' = row PROVE NumbersInv'
  <2>1. \A l \in Leads : (Exists(l)' <=> Exists(l)) /\ row'[l].number = row[l].number
    BY <1>1, LedgerSteps DEF Exists
  <2>2. Made' = Made
    BY <2>1 DEF Made
  <2>3. {row'[l].number : l \in Made'} = {row[l].number : l \in Made}
    BY <2>1, <2>2 DEF Made
  <2>4. Issued' = Issued
    BY <1>1, NumberSteps
  <2>5. QED
    BY <1>1, <2>2, <2>3, <2>4, NumberSteps DEF NumbersInv
<1>2. ASSUME NEW c \in Clients, Insert(c), row' # row PROVE NumbersInv'
  <2>1. PICK l \in Leads : /\ ~Exists(l) /\ Exists(l)'
                           /\ \A m \in Leads \ {l} : row'[m] = row[m]
                           /\ row'[l].number = nextNumber - 1
    BY <1>2, InsertMakes
  <2>2. Made' = Made \cup {l} /\ l \notin Made
    BY <2>1 DEF Made, Exists
  <2>3. IsFiniteSet(Made)
    BY FS_Subset, LeadAssumption DEF Made
  <2>4. Cardinality(Made') = Cardinality(Made) + 1
    BY <2>2, <2>3, FS_AddElement
  <2>5. Step(c)
    BY <1>2 DEF Step, CreateStep
  <2>6. Issued' = Issued + 1
    BY <1>2, <2>5, NumberSteps
  <2>7. Issued + 1 = nextNumber - 1 /\ Issued \in Nat
    BY <1>2, LeadAssumption DEF NumbersInv, Insert, Issued, TypeInv, Counted
  <2>8. {row'[m].number : m \in Made'} = {row[m].number : m \in Made} \cup {nextNumber - 1}
    BY <2>1, <2>2 DEF Made
  <2>9. 1..(Issued + 1) = 1..Issued \cup {Issued + 1}
    BY <2>7
  <2>10. QED
    BY <2>4, <2>5, <2>6, <2>7, <2>8, <2>9, NumberSteps DEF NumbersInv
<1>3. ASSUME \A c \in Clients : ~Step(c) /\ ~Fail(c) PROVE NumbersInv'
  <2>1. UNCHANGED <<row, numberVars>>
    BY <1>3, ArrivalStill
  <2>2. \A d \in Clients : pc'[d] = "insert" <=> pc[d] = "insert"
    <3>1. CASE UNCHANGED <<pc, req>>
      BY <3>1
    <3>2. ASSUME NEW c \in Clients, \/ BeginCreate(c)
                                    \/ \E l \in Leads : BeginUpdate(c, l)
                                    \/ \E m \in Members : BeginDeactivate(c, m)
          PROVE  \A d \in Clients : pc'[d] = "insert" <=> pc[d] = "insert"
      BY <3>2, ArrivalMoves
    <3>3. QED
      BY <1>3, <3>1, <3>2, ArrivalStill
  <2>3. QED
    BY <2>1, <2>2 DEF NumbersInv, Issued, Made, Exists, numberVars
<1>4. QED
  BY <1>1, <1>2, <1>3 DEF Step, CreateStep

\* However many create at once and whatever fails half way, the leads of an
\* organization are numbered from 1 without a hole or a duplicate.
THEOREM DenseNumbers == Spec => []NumbersDense
<1>1. TypeInv /\ NumbersInv => NumbersDense
  BY DEF NumbersInv, NumbersDense, Issued, Made
<1>2. QED
  BY <1>1, TypeInit, TypeStep, NumbersInit, NumbersStep, PTL DEF Spec

-----------------------------------------------------------------------------
(* Keys.  Deleted leads keep their key, so at most one lead holds it, and    *)
(* what was answered for it since the last sweep is that lead.               *)

KeyInv ==
    \A k \in Keys : /\ named[k] \subseteq Holders(k)
                    /\ \A l, m \in Holders(k) : l = m

\* The lead an insert makes is the only one with its key.
LEMMA InsertKeys ==
  ASSUME TypeInv, KeyInv, NEW c \in Clients, Insert(c), NEW k \in Keys
  PROVE  /\ named'[k] \subseteq Holders(k)'
         /\ \A l, m \in Holders(k)' : l = m
<1>k. named[k] \subseteq Holders(k) /\ \A l, m \in Holders(k) : l = m
  BY DEF KeyInv
<1>1. CASE UNCHANGED <<row, named>>
  BY <1>1, <1>k DEF Holders, Exists
<1>2. CASE ~UNCHANGED <<row, named>>
  <2>1. PICK l \in Leads :
          /\ ~KeyTaken(req[c].key) /\ ~Exists(l) /\ Exists(l)'
          /\ \A m \in Leads \ {l} : row'[m] = row[m]
          /\ row'[l].key = req[c].key
          /\ Answer(req[c].key, {l})
    BY <1>2, InsertMakes
  <2>2. named'[k] = IF k = req[c].key THEN named[k] \cup {l} ELSE named[k]
    BY <2>1 DEF Answer
  <2>3. CASE k = req[c].key
    <3>1. Holders(k) = {}
      BY <2>1, <2>3, LeadAssumption DEF KeyTaken
    <3>2. Holders(k)' = {l}
      BY <3>1, <2>1, <2>3 DEF Holders, Exists
    <3>3. QED
      BY <3>1, <3>2, <2>2, <2>3, <1>k
  <2>4. CASE k # req[c].key
    <3>1. Holders(k)' = Holders(k)
      BY <2>1, <2>4 DEF Holders, Exists
    <3>2. QED
      BY <3>1, <2>2, <2>4, <1>k
  <2>5. QED
    BY <2>3, <2>4
<1>3. QED
  BY <1>1, <1>2

\* Swept keys are forgotten by the rows and by those who were answered.
LEMMA SweepForgets ==
  ASSUME TypeInv, KeyInv, NEW c \in Clients, SweepKeys(c), NEW k \in Keys
  PROVE  /\ named'[k] \subseteq Holders(k)'
         /\ \A l, m \in Holders(k)' : l = m
<1>k. named[k] \subseteq Holders(k) /\ \A l, m \in Holders(k) : l = m
  BY DEF KeyInv
<1> DEFINE old == {l \in aged : row[l].key # NoKey}
<1>1. /\ row' = [l \in Leads |-> IF l \in old THEN [row[l] EXCEPT !.key = NoKey] ELSE row[l]]
      /\ named' = [j \in Keys |-> IF \E l \in old : row[l].key = j THEN {} ELSE named[j]]
  BY DEF SweepKeys
<1>2. \A l \in Leads : /\ l \notin old => row'[l] = row[l]
                       /\ l \in old => row'[l].key = NoKey
                       /\ row'[l].status = row[l].status
  BY <1>1 DEF TypeInv, TypeOK, Row
<1>3. Holders(k)' \subseteq Holders(k)
  BY <1>2, LeadAssumption DEF Holders, Exists
<1>4. CASE \E l \in old : row[l].key = k
  <2>1. named'[k] = {}
    BY <1>1, <1>4
  <2>2. QED
    BY <2>1, <1>3, <1>k
<1>5. CASE ~\E l \in old : row[l].key = k
  <2>1. named'[k] = named[k]
    BY <1>1, <1>5
  <2>2. Holders(k) \subseteq Holders(k)'
    BY <1>2, <1>5 DEF Holders, Exists
  <2>3. QED
    BY <2>1, <2>2, <1>3, <1>k
<1>6. QED
  BY <1>4, <1>5

\* A replay answers with the key's holder or with nothing; no other statement
\* answers or touches a key.
LEMMA OtherKeys ==
  ASSUME TypeInv, KeyInv, NEW c \in Clients, Step(c) \/ Fail(c), ~Insert(c), ~SweepKeys(c),
         NEW k \in Keys
  PROVE  /\ named'[k] \subseteq Holders(k)'
         /\ \A l, m \in Holders(k)' : l = m
<1>k. named[k] \subseteq Holders(k) /\ \A l, m \in Holders(k) : l = m
  BY DEF KeyInv
<1>1. Holders(k)' = Holders(k)
  BY LedgerSteps DEF Holders
<1>2. CASE Replay(c)
  <2>1. named'[k] \subseteq named[k] \cup Holders(k)
    BY <1>2 DEF Replay, Answer, TypeInv, TypeOK
  <2>2. QED
    BY <2>1, <1>1, <1>k
<1>3. CASE ~Replay(c)
  <2>1. UNCHANGED named
    BY <1>3 DEF Step, CreateStep, LeadStep, Quota, AlertCheck, AlertSend, Allocate, LockStatus,
       CheckConverted, ChangeStatus, ReadAssignee, Assign, Edit, Delete, Convert,
       RecordConversion, Settle, Leave, Fail, answerVars
  <2>2. QED
    BY <2>1, <1>1, <1>k
<1>4. QED
  BY <1>2, <1>3

\* At the start no key names anything.
LEMMA KeyInit == Init => KeyInv
  BY DEF Init, KeyInv, Holders, Exists, NoRow

\* Every statement keeps one holder a key and the answers about it.
LEMMA KeyStep == TypeInv /\ KeyInv /\ [Next]_vars => KeyInv'
<1> SUFFICES ASSUME TypeInv, KeyInv, [Next]_vars PROVE KeyInv'
  OBVIOUS
<1>1. ASSUME NEW c \in Clients, Step(c) \/ Fail(c) PROVE KeyInv'
  BY <1>1, InsertKeys, SweepForgets, OtherKeys DEF KeyInv
<1>2. ASSUME \A c \in Clients : ~Step(c) /\ ~Fail(c) PROVE KeyInv'
  BY <1>2, ArrivalStill DEF answerVars, KeyInv, Holders, Exists
<1>3. QED
  BY <1>1, <1>2

\* However often a key is sent, by however many clients at once, all the
\* answers until it is swept name one lead.
THEOREM OneLeadPerKey == Spec => []KeyNamesOneLead
<1>1. KeyInv => KeyNamesOneLead
  <2>1. ASSUME KeyInv, NEW k \in Keys PROVE Cardinality(named[k]) <= 1
    <3>1. CASE named[k] = {}
      BY <3>1, FS_EmptySet
    <3>2. CASE named[k] # {}
      <4>1. PICK l : l \in named[k]
        BY <3>2
      <4>2. named[k] = {l}
        BY <2>1, <4>1 DEF KeyInv
      <4>3. Cardinality({l}) = 1
        BY FS_Singleton
      <4>4. QED
        BY <4>2, <4>3
    <3>3. QED
      BY <3>1, <3>2
  <2>2. QED
    BY <2>1 DEF KeyNamesOneLead
<1>2. QED
  BY <1>1, TypeInit, TypeStep, KeyInit, KeyStep, PTL DEF Spec

-----------------------------------------------------------------------------
(* The quota.  What the leads made and the requests past the check may come  *)
(* to together is bounded: the last request to pass the check found room for *)
(* one more, whatever the others under way go on to make.  A notice sent or  *)
(* about to be sent belongs to a request that was under way when the first   *)
(* was not sent yet.                                                         *)

Paid     == {l \in Leads : Exists(l) /\ row[l].via # "public_form"}
Passing  == {c \in Clients : /\ pc[c] \in {"sweepKeys", "allocate", "insert"}
                             /\ req[c].via # "public_form"}
Alerting == {c \in Clients : pc[c] = "alertSend"}

QuotaBound == Limit > 0 => Cardinality(Paid) + Cardinality(Passing)
                              <= Limit + Cardinality(Clients) - 1
AlertBound == alerts + Cardinality(Alerting) <= Cardinality(Clients)
FormAlerts == \A c \in Clients : pc[c] \in {"alertCheck", "alertSend"} => req[c].via = "public_form"

QuotaInv == QuotaBound /\ AlertBound /\ FormAlerts

\* The sets that are counted are finite, and no larger than what they are taken from.
LEMMA QuotaSets ==
  /\ IsFiniteSet(Paid) /\ Cardinality(Paid) \in Nat /\ Cardinality(Paid) <= Used
  /\ IsFiniteSet(Passing) /\ Cardinality(Passing) \in Nat
  /\ Cardinality(Passing) <= Cardinality(Clients)
  /\ IsFiniteSet(Alerting) /\ Cardinality(Alerting) \in Nat
  /\ Cardinality(Alerting) <= Cardinality(Clients)
  /\ Cardinality(Clients) \in Nat /\ Cardinality(Clients) >= 1 /\ Used \in Nat
<1>1. IsFiniteSet(Made) /\ Made \in SUBSET Leads
  BY FS_Subset, LeadAssumption DEF Made
<1>2. Used = Cardinality(Made) /\ Used \in Nat
  BY <1>1, FS_CardinalityType DEF Used, Made
<1>3. Paid \in SUBSET Made /\ Passing \in SUBSET Clients /\ Alerting \in SUBSET Clients
  BY DEF Paid, Made, Passing, Alerting
<1>4. IsFiniteSet(Paid) /\ Cardinality(Paid) <= Used
  BY <1>1, <1>2, <1>3, FS_Subset
<1>5. /\ IsFiniteSet(Passing) /\ Cardinality(Passing) <= Cardinality(Clients)
      /\ IsFiniteSet(Alerting) /\ Cardinality(Alerting) <= Cardinality(Clients)
  BY <1>3, FS_Subset, LeadAssumption
<1>6. Cardinality(Clients) \in Nat /\ Cardinality(Clients) # 0
  BY FS_CardinalityType, FS_EmptySet, LeadAssumption
<1>7. Cardinality(Paid) \in Nat /\ Cardinality(Passing) \in Nat /\ Cardinality(Alerting) \in Nat
  BY <1>4, <1>5, FS_CardinalityType
<1>8. QED
  BY <1>2, <1>4, <1>5, <1>6, <1>7

\* No request passes and no lead is made.
LEMMA QuotaKept ==
  ASSUME QuotaBound, Paid' = Paid, Passing' \subseteq Passing
  PROVE  QuotaBound'
<1>1. Cardinality(Passing') <= Cardinality(Passing) /\ Cardinality(Passing') \in Nat
  BY QuotaSets, FS_Subset, FS_CardinalityType
<1>2. QED
  BY <1>1, QuotaSets, LeadAssumption DEF QuotaBound

\* No notice is sent and none decided on.
LEMMA AlertKept ==
  ASSUME TypeInv, AlertBound, alerts' = alerts, Alerting' \subseteq Alerting
  PROVE  AlertBound'
<1>1. Cardinality(Alerting') <= Cardinality(Alerting) /\ Cardinality(Alerting') \in Nat
  BY QuotaSets, FS_Subset, FS_CardinalityType
<1>2. alerts \in Nat
  BY DEF TypeInv, TypeOK
<1>3. QED
  BY <1>1, <1>2, QuotaSets DEF AlertBound

\* Only an insert adds to the leads that count.
LEMMA PaidStill ==
  ASSUME TypeInv, NEW c \in Clients, Step(c) \/ Fail(c), ~Insert(c)
  PROVE  Paid' = Paid
  BY LedgerSteps DEF Paid, Exists

\* Which statements let a request into the stages that are counted.
LEMMA PassingSteps ==
  ASSUME TypeInv, FormAlerts, NEW c \in Clients, Step(c) \/ Fail(c)
  PROVE  /\ Quota(c) \/ Passing' \subseteq Passing
         /\ AlertCheck(c) \/ Alerting' \subseteq Alerting
         /\ FormAlerts'
         /\ AlertSend(c) \/ alerts' = alerts
<1>0. pc \in [Clients -> Stages] /\ req \in [Clients -> Request]
  BY DEF TypeInv, TypeOK
<1>1. \A d \in Clients \ {c} : pc'[d] = pc[d] /\ req'[d] = req[d]
  BY OthersWait
<1>2. CASE Quota(c)
  <2>1. /\ pc'[c] \in {"allocate", "sweepKeys", "alertCheck", "idle"}
        /\ pc'[c] = "alertCheck" => req'[c].via = "public_form"
        /\ alerts' = alerts
    BY <1>0, <1>2 DEF Quota, Goto, Done, answerVars
  <2>2. QED
    BY <1>1, <1>2, <2>1 DEF Alerting, FormAlerts
<1>3. CASE AlertCheck(c) \/ AlertSend(c)
  <2>1. pc'[c] \in {"allocate", "alertSend"} /\ req' = req /\ req[c].via = "public_form"
    BY <1>0, <1>3 DEF AlertCheck, AlertSend, Goto, FormAlerts
  <2>2. Passing' \subseteq Passing /\ FormAlerts'
    BY <1>1, <2>1 DEF Passing, FormAlerts
  <2>3. AlertSend(c) => pc'[c] # "alertSend"
    BY <1>0 DEF AlertSend, Goto
  <2>4. AlertCheck(c) => alerts' = alerts
    BY DEF AlertCheck, answerVars
  <2>5. QED
    BY <1>1, <1>3, <2>2, <2>3, <2>4 DEF Alerting
<1>4. CASE SweepKeys(c) \/ Allocate(c)
  <2>1. /\ pc[c] \in {"sweepKeys", "allocate"} /\ pc'[c] \in {"allocate", "insert"} /\ req' = req
        /\ alerts' = alerts
    BY <1>0, <1>4 DEF SweepKeys, Allocate, Goto, answerVars
  <2>2. QED
    BY <1>1, <2>1 DEF Passing, Alerting, FormAlerts
<1>5. CASE Fail(c) \/ (Step(c) /\ ~Quota(c) /\ ~AlertCheck(c) /\ ~AlertSend(c) /\ ~SweepKeys(c)
                         /\ ~Allocate(c))
  <2>1. pc'[c] \notin {"sweepKeys", "allocate", "insert", "alertCheck", "alertSend"}
    BY <1>0, <1>5 DEF Step, CreateStep, LeadStep, Insert, Replay, LockStatus, CheckConverted,
       ChangeStatus, ReadAssignee, Assign, Edit, Delete, Convert, RecordConversion, Settle, Leave,
       Fail, Goto, Done
  <2>2. alerts' = alerts
    BY <1>5 DEF Step, CreateStep, LeadStep, Insert, Replay, LockStatus, CheckConverted,
       ChangeStatus, ReadAssignee, Assign, Edit, Delete, Convert, RecordConversion, Settle, Leave,
       Fail, answerVars
  <2>3. QED
    BY <1>1, <2>1, <2>2 DEF Passing, Alerting, FormAlerts
<1>6. QED
  BY <1>2, <1>3, <1>4, <1>5

\* A request that passes the check found fewer leads than the limit.
LEMMA CheckPasses ==
  ASSUME TypeInv, QuotaBound, NEW c \in Clients, Quota(c)
  PROVE  QuotaBound'
<1>1. Paid' = Paid
  BY DEF Quota, tableVars, Paid, Exists
<1>2. CASE Fits
  <2>1. Limit > 0 => Used < Limit
    BY <1>2, LeadAssumption DEF Fits
  <2>2. Passing' \in SUBSET Clients
    BY DEF Passing
  <2>3. Cardinality(Passing') <= Cardinality(Clients) /\ Cardinality(Passing') \in Nat
    BY <2>2, FS_Subset, FS_CardinalityType, LeadAssumption
  <2>4. QED
    BY <2>1, <2>3, <1>1, QuotaSets, LeadAssumption DEF QuotaBound
<1>3. CASE ~Fits
  <2>1. pc'[c] \in {"alertCheck", "idle"}
    BY <1>3 DEF Quota, Goto, Done, TypeInv, TypeOK
  <2>2. \A d \in Clients \ {c} : pc'[d] = pc[d] /\ req'[d] = req[d]
    BY OthersWait DEF Step, CreateStep
  <2>3. Passing' \subseteq Passing
    BY <2>1, <2>2 DEF Passing
  <2>4. QED
    BY <1>1, <2>3, QuotaKept
<1>4. QED
  BY <1>2, <1>3

\* A lead made is a request that passes no more.
LEMMA InsertPays ==
  ASSUME TypeInv, FormAlerts, QuotaBound, NEW c \in Clients, Insert(c)
  PROVE  QuotaBound'
<1>0. Step(c) /\ pc[c] = "insert" /\ Passing' \subseteq Passing
  <2>1. Step(c) /\ pc[c] = "insert" /\ ~Quota(c)
    BY DEF Step, CreateStep, Insert, Quota
  <2>2. QED
    BY <2>1, PassingSteps
<1>1. CASE row' = row
  BY <1>0, <1>1, QuotaKept DEF Paid, Exists
<1>2. CASE row' # row
  <2>1. PICK l \in Leads : /\ ~Exists(l) /\ Exists(l)' /\ \A m \in Leads \ {l} : row'[m] = row[m]
                           /\ row'[l].via = req[c].via /\ Done(c)
    BY <1>2, InsertMakes
  <2>2. CASE req[c].via = "public_form"
    <3>1. Paid' = Paid
      BY <2>1, <2>2 DEF Paid, Exists
    <3>2. QED
      BY <1>0, <3>1, QuotaKept
  <2>3. CASE req[c].via # "public_form"
    <3>1. Paid' = Paid \cup {l} /\ l \notin Paid
      BY <2>1, <2>3 DEF Paid, Exists
    <3>2. pc'[c] = "idle" /\ c \in Passing
      BY <1>0, <2>1, <2>3 DEF Done, Passing, TypeInv, TypeOK
    <3>3. Passing' \subseteq Passing \ {c}
      BY <1>0, <3>2 DEF Passing
    <3>4. Cardinality(Paid') = Cardinality(Paid) + 1
      BY <3>1, FS_AddElement, QuotaSets
    <3>5. IsFiniteSet(Passing \ {c}) /\ Cardinality(Passing \ {c}) = Cardinality(Passing) - 1
      BY <3>2, FS_RemoveElement, QuotaSets
    <3>6. Cardinality(Passing') <= Cardinality(Passing) - 1 /\ Cardinality(Passing') \in Nat
      BY <3>3, <3>5, FS_Subset, FS_CardinalityType
    <3>7. QED
      BY <3>4, <3>6, QuotaSets, LeadAssumption DEF QuotaBound
  <2>4. QED
    BY <2>2, <2>3
<1>3. QED
  BY <1>1, <1>2

\* The notice is decided on while none was sent; then it is sent, once.
LEMMA AlertsStep ==
  ASSUME TypeInv, AlertBound, NEW c \in Clients, AlertCheck(c) \/ AlertSend(c)
  PROVE  AlertBound'
<1>0. alerts \in Nat /\ pc \in [Clients -> Stages]
  BY DEF TypeInv, TypeOK
<1>1. \A d \in Clients \ {c} : pc'[d] = pc[d]
  BY OthersWait DEF Step, CreateStep
<1>2. CASE AlertCheck(c) /\ alerts = 0
  <2>1. Alerting' \in SUBSET Clients
    BY DEF Alerting
  <2>2. Cardinality(Alerting') <= Cardinality(Clients) /\ Cardinality(Alerting') \in Nat
    BY <2>1, FS_Subset, FS_CardinalityType, LeadAssumption
  <2>3. alerts' = 0
    BY <1>2 DEF AlertCheck, answerVars
  <2>4. QED
    BY <2>2, <2>3, QuotaSets DEF AlertBound
<1>3. CASE AlertCheck(c) /\ alerts # 0
  <2>1. pc'[c] = "allocate" /\ alerts' = alerts
    BY <1>0, <1>3 DEF AlertCheck, Goto, answerVars
  <2>2. Alerting' \subseteq Alerting
    BY <1>1, <2>1 DEF Alerting
  <2>3. QED
    BY <2>1, <2>2, AlertKept
<1>4. CASE AlertSend(c)
  <2>1. c \in Alerting /\ pc'[c] = "allocate" /\ alerts' \in {alerts, alerts + 1}
    BY <1>0, <1>4 DEF AlertSend, Goto, Alerting
  <2>2. Alerting' = Alerting \ {c}
    BY <1>1, <2>1 DEF Alerting
  <2>3. Cardinality(Alerting') = Cardinality(Alerting) - 1
    BY <2>1, <2>2, FS_RemoveElement, QuotaSets
  <2>4. QED
    BY <1>0, <2>1, <2>3, QuotaSets DEF AlertBound
<1>5. QED
  BY <1>2, <1>3, <1>4

\* No lead, no request and no notice at the start.
LEMMA QuotaInit == Init => QuotaInv
<1> SUFFICES ASSUME Init PROVE QuotaInv
  OBVIOUS
<1>1. Paid = {} /\ Passing = {} /\ Alerting = {} /\ alerts = 0 /\ FormAlerts
  BY DEF Init, Paid, Passing, Alerting, Exists, NoRow, FormAlerts
<1>2. QED
  BY <1>1, FS_EmptySet, QuotaSets, LeadAssumption DEF QuotaInv, QuotaBound, AlertBound

\* Every statement keeps the bounds.
LEMMA QuotaStep == TypeInv /\ QuotaInv /\ [Next]_vars => QuotaInv'
<1> SUFFICES ASSUME TypeInv, QuotaInv, [Next]_vars PROVE QuotaInv'
  OBVIOUS
<1> USE DEF QuotaInv
<1>1. ASSUME NEW c \in Clients, Step(c) \/ Fail(c) PROVE QuotaInv'
  <2>1. FormAlerts'
    BY <1>1, PassingSteps
  <2>2. QuotaBound'
    BY <1>1, PassingSteps, PaidStill, QuotaKept, CheckPasses, InsertPays
  <2>3. AlertBound'
    BY <1>1, PassingSteps, AlertKept, AlertsStep
  <2>4. QED
    BY <2>1, <2>2, <2>3
<1>2. ASSUME \A c \in Clients : ~Step(c) /\ ~Fail(c) PROVE QuotaInv'
  <2>1. row' = row /\ alerts' = alerts
    BY <1>2, ArrivalStill DEF answerVars
  <2>2. ASSUME NEW d \in Clients
        PROVE  \/ pc'[d] = pc[d] /\ req'[d] = req[d]
               \/ pc'[d] \in {"quota", "lockStatus", "readAssignee", "edit", "convert", "delete", "settle"}
    BY <1>2, ArrivalStill, ArrivalMoves
  <2>3. Paid' = Paid /\ Passing' \subseteq Passing /\ Alerting' \subseteq Alerting
    BY <2>1, <2>2 DEF Paid, Exists, Passing, Alerting
  <2>4. FormAlerts'
    BY <2>2 DEF FormAlerts
  <2>5. QED
    BY <2>1, <2>3, <2>4, QuotaKept, AlertKept
<1>3. QED
  BY <1>1, <1>2

\* Authenticated requests pass the monthly limit by no more than the requests
\* under way beside the last one, and the owner is told no more often than
\* there are requests under way.
THEOREM QuotaIsSoft == Spec => []SoftQuota
<1>1. TypeInv /\ QuotaInv => SoftQuota
  <2>1. ASSUME TypeInv, QuotaInv PROVE SoftQuota
    <3>1. Limit > 0 => Cardinality(Paid) <= Limit + Cardinality(Clients) - 1
      BY <2>1, QuotaSets, LeadAssumption DEF QuotaInv, QuotaBound
    <3>2. alerts <= Cardinality(Clients)
      BY <2>1, QuotaSets DEF QuotaInv, AlertBound, TypeInv, TypeOK
    <3>3. QED
      BY <3>1, <3>2 DEF SoftQuota, Paid
  <2>2. QED
    BY <2>1
<1>2. QED
  BY <1>1, TypeInit, TypeStep, QuotaInit, QuotaStep, PTL DEF Spec

-----------------------------------------------------------------------------
(* Versions.  Every statement that changes a lead's status or assignee makes *)
(* a new version, so a request that finds the version it saw finds the row   *)
(* it saw; between the read of the assignee and the write the version        *)
(* guards that too, and the row lock guards the status.                      *)

\* What client c saw of its lead is what the lead is, or is an older version.
SeenOf(c) ==
    LET l    == req[c].lead
        seen == req[c].seen
    IN  /\ Exists(l)
        /\ seen.version <= row[l].version
        /\ seen.version = row[l].version =>
              /\ seen.status = row[l].status /\ seen.who = row[l].who
              /\ pc[c] = "assign" => req[c].from = row[l].who

SeenInv == \A c \in Clients : pc[c] \in OnLead => SeenOf(c)

\* Leads stay, and keep their status and assignee for as long as their version.
LEMMA VersionSteps ==
  ASSUME TypeInv, NEW c \in Clients, Step(c) \/ Fail(c), NEW l \in Leads, Exists(l)
  PROVE  /\ Exists(l)'
         /\ \/ row'[l].version = row[l].version /\ row'[l].status = row[l].status
                  /\ row'[l].who = row[l].who
            \/ row'[l].version = row[l].version + 1
<1> USE DEF TypeInv, TypeOK, Exists
<1>r. row[l] \in Row
  OBVIOUS
<1>1. CASE UNCHANGED row
  BY <1>1
<1>2. CASE SweepKeys(c)
  BY <1>2, <1>r DEF SweepKeys, Row
<1>3. CASE Insert(c)
  BY <1>3, InsertMakes
<1>4. CASE ChangeStatus(c)
  <2>1. req[c].want # "absent"
    BY <1>4 DEF ChangeStatus, Staged, StageFits, Statuses, OnPath, mainPath
  <2>2. QED
    BY <1>4, <1>r, <2>1 DEF ChangeStatus, Row
<1>5. CASE Assign(c)
  BY <1>5, <1>r DEF Assign, Row
<1>6. CASE Edit(c)
  BY <1>6, <1>r DEF Edit, Row
<1>7. CASE Delete(c)
  BY <1>7, <1>r DEF Delete, Row
<1>8. CASE Leave(c)
  BY <1>8, <1>r DEF Leave, Row
<1>9. QED
  BY <1>1, <1>2, <1>3, <1>4, <1>5, <1>6, <1>7, <1>8 DEF Step, CreateStep, LeadStep, Quota,
     AlertCheck, AlertSend, Allocate, Replay, LockStatus, CheckConverted, ReadAssignee, Convert,
     RecordConversion, Settle, Fail, tableVars

\* A request under way keeps what it saw; its next statement reads the rest.
LEMMA OwnSeen ==
  ASSUME TypeInv, SeenInv, NEW c \in Clients, Step(c) \/ Fail(c), pc'[c] \in OnLead
  PROVE  SeenOf(c)'
<1>0. pc \in [Clients -> Stages] /\ req \in [Clients -> Request]
  BY DEF TypeInv, TypeOK
<1>1. LockStatus(c) \/ CheckConverted(c) \/ ReadAssignee(c) \/ Convert(c)
  BY <1>0 DEF Step, CreateStep, LeadStep, Quota, SweepKeys, AlertCheck, AlertSend, Allocate,
     Insert, Replay, ChangeStatus, Assign, Edit, Delete, RecordConversion, Settle, Leave, Fail,
     Goto, Done, OnLead, InTx
<1>2. pc[c] \in OnLead /\ SeenOf(c)
  BY <1>1 DEF SeenInv, OnLead, InTx, LockStatus, CheckConverted, ReadAssignee, Convert
<1>3. row' = row
  BY <1>1 DEF LockStatus, CheckConverted, ReadAssignee, Convert, tableVars
<1>4. CASE req'[c] = req[c] /\ pc'[c] # "assign"
  BY <1>2, <1>3, <1>4 DEF SeenOf, Exists
<1>5. CASE LockStatus(c) \/ ReadAssignee(c)
  <2>1. \/ pc'[c] = "checkConverted" /\ LockStatus(c)
        \/ pc'[c] = "assign" /\ ReadAssignee(c)
    BY <1>5, <1>0 DEF LockStatus, ReadAssignee, Done, OnLead, InTx
  <2>2. req'[c].lead = req[c].lead /\ req'[c].seen = req[c].seen
    BY <2>1, <1>0 DEF LockStatus, ReadAssignee, Done, Request
  <2>3. pc'[c] = "assign" => req'[c].from = row[req[c].lead].who
    BY <2>1, <1>0 DEF ReadAssignee, Done, Request
  <2>4. QED
    BY <1>2, <1>3, <2>2, <2>3 DEF SeenOf, Exists
<1>6. CASE CheckConverted(c) \/ Convert(c)
  <2>1. req'[c] = req[c] /\ pc'[c] # "assign"
    BY <1>6, <1>0 DEF CheckConverted, Convert, Goto, Done, OnLead, InTx
  <2>2. QED
    BY <2>1, <1>4
<1>7. QED
  BY <1>1, <1>5, <1>6

\* At the start no request has seen a row.
LEMMA SeenInit == Init => SeenInv
  BY DEF Init, SeenInv, OnLead, InTx

\* A client sees the row as it is when its request arrives.
LEMMA ArrivalSees ==
  ASSUME TypeInv, NEW c \in Clients,
         \/ BeginCreate(c)
         \/ \E l \in Leads : BeginUpdate(c, l)
         \/ \E m \in Members : BeginDeactivate(c, m),
         pc'[c] \in OnLead
  PROVE  SeenOf(c)'
<1>0. pc \in [Clients -> Stages] /\ req \in [Clients -> Request] /\ row \in [Leads -> Row]
  BY DEF TypeInv, TypeOK
<1>1. row' = row
  BY BeginStill DEF tableVars
<1>2. PICK l \in Leads : BeginUpdate(c, l)
  BY <1>0 DEF BeginCreate, BeginDeactivate, Begin, OnLead, InTx
<1>3. /\ Visible(c, l) /\ pc'[c] # "assign"
      /\ req'[c].lead = l /\ req'[c].seen = row[l]
  BY <1>0, <1>2 DEF BeginUpdate, BeginOn, Begin, NoRequest
<1>4. row[l].version \in Nat
  BY <1>0 DEF Row
<1>5. QED
  BY <1>1, <1>3, <1>4 DEF SeenOf, Visible, Exists

\* Every statement makes a new version of the lead it changes.
LEMMA SeenStep == TypeInv /\ SeenInv /\ [Next]_vars => SeenInv'
<1> SUFFICES ASSUME TypeInv, SeenInv, [Next]_vars PROVE SeenInv'
  OBVIOUS
<1>1. ASSUME NEW c \in Clients, Step(c) \/ Fail(c), NEW d \in Clients, pc'[d] \in OnLead
      PROVE  SeenOf(d)'
  <2>1. CASE d = c
    BY <1>1, <2>1, OwnSeen
  <2>2. CASE d # c
    <3>1. pc'[d] = pc[d] /\ req'[d] = req[d]
      BY <1>1, <2>2, OthersWait
    <3>2. PICK l \in Leads : l = req[d].lead
      BY <1>1, <3>1 DEF TypeInv, Staged, StageFits
    <3>3. SeenOf(d) /\ req[d].seen.version \in Nat /\ row[l].version \in Nat
      BY <1>1, <3>1 DEF SeenInv, TypeInv, TypeOK, Request, Row
    <3>4. /\ Exists(l)'
          /\ \/ row'[l].version = row[l].version /\ row'[l].status = row[l].status
                   /\ row'[l].who = row[l].who
             \/ row'[l].version = row[l].version + 1
      BY <1>1, <3>2, <3>3, VersionSteps DEF SeenOf
    <3>5. QED
      BY <3>1, <3>2, <3>3, <3>4 DEF SeenOf, Exists
  <2>3. QED
    BY <2>1, <2>2
<1>2. ASSUME \A c \in Clients : ~Step(c) /\ ~Fail(c), NEW d \in Clients, pc'[d] \in OnLead
      PROVE  SeenOf(d)'
  <2>1. row' = row
    BY <1>2, ArrivalStill
  <2>2. CASE pc'[d] = pc[d] /\ req'[d] = req[d]
    BY <1>2, <2>1, <2>2 DEF SeenInv, SeenOf, Exists
  <2>3. ASSUME NEW c \in Clients, \/ BeginCreate(c)
                                  \/ \E l \in Leads : BeginUpdate(c, l)
                                  \/ \E m \in Members : BeginDeactivate(c, m)
        PROVE  SeenOf(d)'
    BY <1>2, <2>2, <2>3, ArrivalMoves, ArrivalSees
  <2>4. QED
    BY <1>2, <2>2, <2>3, ArrivalStill
<1>3. QED
  BY <1>1, <1>2 DEF SeenInv

\* A write that goes through replaces the row its client saw.
LEMMA WriteReplaces ==
  ASSUME TypeInv, LockInv, SeenInv, NEW c \in Clients, Step(c) \/ Fail(c),
         pc[c] \in {"changeStatus", "assign", "edit"}, row' # row
  PROVE  LET was == row[req[c].lead]
         IN  /\ was.status = req[c].seen.status /\ was.who = req[c].seen.who
             /\ ~was.deleted
             /\ pc[c] = "changeStatus" => req[c].from = was.status
             /\ pc[c] = "assign" => req[c].from = was.who
<1>1. ChangeStatus(c) \/ Assign(c) \/ Edit(c)
  BY DEF Step, CreateStep, LeadStep, Quota, SweepKeys, AlertCheck, AlertSend, Allocate, Insert,
     Replay, LockStatus, CheckConverted, ReadAssignee, Delete, Convert, RecordConversion, Settle,
     Leave, Fail
<1>2. Matches(c, req[c].lead)
  BY <1>1 DEF ChangeStatus, Assign, Edit
<1>3. SeenOf(c)
  BY DEF SeenInv, OnLead, InTx
<1>4. pc[c] = "changeStatus" => req[c].from = row[req[c].lead].status
  BY DEF LockInv, Guarded, InTx
<1>5. QED
  BY <1>2, <1>3, <1>4 DEF SeenOf, Matches, Visible

\* Nothing another request or a deactivation did to a lead is silently
\* overwritten, and an activity tells truly what the lead came from.
THEOREM NothingOverwritten == Spec => SeenIsReplaced
<1> DEFINE Replaces(c) ==
        pc[c] \in {"changeStatus", "assign", "edit"} /\ pc'[c] = "idle" /\ row' # row =>
            LET was == row[req[c].lead]
            IN  /\ was.status = req[c].seen.status /\ was.who = req[c].seen.who
                /\ ~was.deleted
                /\ pc[c] = "changeStatus" => req[c].from = was.status
                /\ pc[c] = "assign" => req[c].from = was.who
<1>1. TypeInv /\ LockInv /\ SeenInv /\ [Next]_vars => [\A c \in Clients : Replaces(c)]_vars
  <2> SUFFICES ASSUME TypeInv, LockInv, SeenInv, [Next]_vars, NEW c \in Clients,
                      pc[c] \in {"changeStatus", "assign", "edit"}, pc'[c] = "idle", row' # row
               PROVE  Replaces(c)
    OBVIOUS
  <2>1. PICK d \in Clients : Step(d) \/ Fail(d)
    BY ArrivalStill
  <2>2. d = c
    BY <2>1, OthersWait
  <2>3. QED
    BY <2>1, <2>2, WriteReplaces
<1>2. QED
  BY <1>1, TypeInit, TypeStep, LockInit, LockStep, SeenInit, SeenStep, PTL DEF Spec, SeenIsReplaced
=============================================================================
