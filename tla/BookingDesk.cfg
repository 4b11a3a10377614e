CONSTANTS
    Agents = {ann, bob}
    None = None
    Unset = Unset
    Targets = {"Open", "Completed"}
    Requests = {q1, q2}
    MaxRequests = 3
    MaxFills = 1
    MaxFaults = 1
SPECIFICATION Spec
INVARIANTS HistoryTells ClosedHasEnd AgentIsLogged SupportAsTold StaleHasACause
SYMMETRY DeskSymmetry
CHECK_DEADLOCK FALSE
