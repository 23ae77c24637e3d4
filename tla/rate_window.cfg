\* Two keys, two callers, windows of three units, readings up to one unit old.
SPECIFICATION Spec
CONSTANTS
    k1 = k1
    k2 = k2
    c1 = c1
    c2 = c2
    None = None
    Keys <- TwoKeys
    Callers <- TwoCallers
    Limit = 2
    Window = 3
    Stall = 1
    MaxTime = 6
SYMMETRY Interchangeable
INVARIANTS TypeOK TrackedAreRecent BurstBounded
PROPERTY KeepsBudget
