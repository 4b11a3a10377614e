SPECIFICATION Spec
CONSTANTS
    j1 = j1
    u1 = u1
    Nothing = Nothing
    Jobs = {j1}
    Updates = {}
    JobOf <- MCJobOf
    Requests = {q1, q2}
    Thinventory = TRUE
    MaxEdits = 0
    MaxOrders = 2
    MaxFaults = 0
INVARIANT NeverBookedTwice
CHECK_DEADLOCK FALSE
