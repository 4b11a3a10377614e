SPECIFICATION Spec
CONSTANTS
    x = x
    y = y
    a = a
    alice = alice
    m1 = m1
    None = None
    Places = {x, y, a}
    UK = {x, y}
    Contacts = {alice}
    Marks = {m1}
    JobKinds <- RoundTrips
    Manifests <- NoPoints
    MaxJobs = 2
INVARIANT
    CollectedBeforeDelivered
CHECK_DEADLOCK FALSE
