\* Two callers behind one address, two forms and a key, while the owner edits.
SPECIFICATION Spec
CONSTANTS
    v1 = v1  v2 = v2  f1 = f1  f2 = f2  a1 = a1
    Visitors = {v1, v2}
    Addresses = {a1}
    AddressOf <- OneAddress
    Forms = {f1, f2}
    Keys = {k1}
    Origins = {o1}
    Fields = {"name"}
    Second = 2
    MinAge = 2
    MaxAge = 3
    TouchEvery = 2
    AddressLimit = 1
    FormLimit = 4
    KeyLimit = 2
    Window = 2
    MaxTime = 4
    MaxEdits = 3
    MaxRestarts = 1
    None = None
SYMMETRY Interchangeable
INVARIANTS TypeOK LeadsAreTimely LeadsMetTheirForm CountsItsLeads AddressIsBounded LastUsedFresh
CONSTRAINT Apart
CHECK_DEADLOCK FALSE
