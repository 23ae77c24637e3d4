\* A key whose lead was deleted.
CONSTANTS
    c1 = c1  c2 = c2  c3 = c3  owner = owner  worker = worker
    Clients = {c1, c2}
    Leads = {l1, l2}
    Members = {owner, worker}
    Role <- MCRole
    Actor <- Owners
    Keys = {k1}
    Nobody = Nobody  NoKey = NoKey  NoLead = NoLead  Free = Free
    Kinds <- CreateKinds
    Inlets = {"user"}
    Limit = 0
    MaxVersion = 2
SPECIFICATION Spec
INVARIANTS ReplayFinds
CHECK_DEADLOCK FALSE
