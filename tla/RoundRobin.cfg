CONSTANTS
    ann = ann
    bob = bob
    None = None
    Roster <- MCRoster
    Shifts = {day}
    Savers = {s1, s2}
    Pollers = {p1, p2}
    MaxRows = 3
    MaxSaves = 3
    MaxBookings = 3
    MaxFaults = 1
SPECIFICATION Spec
INVARIANTS OneRowPerAgent FairTurns
SYMMETRY WorkerSymmetry
CHECK_DEADLOCK FALSE
