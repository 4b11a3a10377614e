SPECIFICATION FairSpec
CONSTANTS
    Replies = {r1}
    Others = {m1}
    Pollers = {p1, p2}
    Syncs = {s1, s2}
    NoMail = NoMail
    MaxFaults = 1
INVARIANTS
    DuplicatesNeedARace
    LedgeredIsStored
PROPERTY EventuallyStored
