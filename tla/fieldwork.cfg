\* An owner and two employees around one lead, two requests at once.
SPECIFICATION Spec
CONSTANTS
    boss = boss
    emp1 = emp1
    emp2 = emp2
    k1 = k1
    t1 = t1
    t2 = t2
    c1 = c1
    c2 = c2
    None = None
    Members <- AllMembers
    Role <- Roles
    Tasks <- OneTask
    Tokens <- TwoTokens
    Requests <- TwoRequests
    Scopes <- AllScopes
    Submitted <- NoteOrForgery
    MaxVersion = 4
    MaxMoves = 2
SYMMETRY Interchangeable
INVARIANTS TypeOK TimelineTells ChangesChain PushFollowsNotice
PROPERTIES EmployeesKeepToTheirs TokenStays
CHECK_DEADLOCK FALSE
