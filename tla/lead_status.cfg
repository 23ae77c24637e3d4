\* Status changes, conversions and deletions of one lead at the same time.
CONSTANTS
    c1 = c1  c2 = c2  c3 = c3  owner = owner  worker = worker
    Clients = {c1, c2}
    Leads = {l1}
    Members = {owner, worker}
    Role <- MCRole
    Actor <- Owners
    Keys = {}
    Nobody = Nobody  NoKey = NoKey  NoLead = NoLead  Free = Free
    Kinds <- StatusKinds
    Inlets = {"public_form"}
    Limit = 0
    MaxVersion = 6
SYMMETRY ClientSymmetry
SPECIFICATION Spec
INVARIANTS ConvertedStaysWon
PROPERTIES KeepsPipeline
CHECK_DEADLOCK FALSE
