SPECIFICATION Spec
CONSTANTS
    j1 = j1
    u1 = u1
    Nothing = Nothing
    Jobs = {j1}
    Updates = {u1}
    JobOf <- MCJobOf
    Requests = {q1, q2}
    Thinventory = TRUE
    MaxEdits = 1
    MaxOrders = 2
    MaxFaults = 1
INVARIANTS
    SecondOrderHasACause
    BookedHasAnOrder
    CancelledIsNotBooked
    ExportedIsLocked
    BookedAsShown
SYMMETRY RequestSymmetry
CHECK_DEADLOCK FALSE
