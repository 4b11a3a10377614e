SPECIFICATION Spec
CONSTANTS
    x = x
    y = y
    a = a
    alice = alice
    m1 = m1
    None = None
    Places = {x, y, a}
    UK = {x, y}
    Contacts = {alice}
    Marks = {m1}
    JobKinds <- MCJobKinds
    Manifests <- MCManifests
    MaxJobs = 3
INVARIANTS
    EveryLegBookedOnce
    StopsAtOwnAddress
    NoStopTwice
    PackagesFollowDeliveries
CHECK_DEADLOCK FALSE
