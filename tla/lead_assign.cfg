\* Assignments, edits, status changes and deactivations that race for one lead and wait for its lock.
CONSTANTS
    c1 = c1  c2 = c2  c3 = c3  owner = owner  worker = worker
    Clients = {c1, c2, c3}
    Leads = {l1}
    Members = {owner, worker}
    Role <- MCRole
    Actor <- OwnerAndWorker
    Keys = {}
    Nobody = Nobody  NoKey = NoKey  NoLead = NoLead  Free = Free
    Kinds <- AssignKinds
    Inlets = {"user"}
    Limit = 0
    MaxVersion = 2
SPECIFICATION Spec
INVARIANTS TypeOK
PROPERTIES SeenIsReplaced EveryRequestEnds
CHECK_DEADLOCK FALSE
