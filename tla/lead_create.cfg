\* Creations from all sources at the limit of the plan, with a key and deletions.
CONSTANTS
    c1 = c1  c2 = c2  c3 = c3  owner = owner  worker = worker

    Clients = {c1, c2}
    Leads = {l1, l2, l3}
    Members = {owner, worker}
    Role <- MCRole
    Actor <- Owners
    Keys = {k1}
    Nobody = Nobody  NoKey = NoKey  NoLead = NoLead  Free = Free
    Kinds <- CreateKinds
    Inlets = {"user", "api_key", "public_form"}
    Limit = 1
    MaxVersion = 2
SYMMETRY BothSymmetries
SPECIFICATION Spec
INVARIANTS NumbersDense KeyNamesOneLead SoftQuota
CHECK_DEADLOCK FALSE
