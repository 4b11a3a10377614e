SPECIFICATION Spec
CONSTANTS
    Procs = {p1, p2}
    Children = {c1, c2}
    Ids = {s1, s2, s3, s4, s5, s6, s7}
    NoId = NoId
    Period = 2
    Life = 3
    MaxTasks = 1
    MaxFaults = 1
INVARIANTS
    SubscribedUnlessFailed
    NoPileUp
PROPERTY
    Heals
