\* Two owners and an admin; two requests at once.
SPECIFICATION Spec
CONSTANTS
    p1 = p1
    p2 = p2
    p3 = p3
    i1 = i1
    i2 = i2
    c1 = c1
    c2 = c2
    None = None
    People <- ThreePeople
    Invites <- TwoInvites
    Requests <- TwoRequests
    Seats <- SmallPlans
    Paid = "pro"
    Starts <- OnlyMoves
    Offered <- EmployeesOnly
    MaxRoleChanges = 2
CHECK_DEADLOCK FALSE
PROPERTY LastOwnerStays
