SPECIFICATION Spec
CONSTANTS
    root = root
    reply = reply
    anon = anon
    order = order
    blank = blank
    NoMessage = NoMessage
    NoBooking = NoBooking
    Messages = {root, reply, anon}
    Pollers = {p1, p2}
    Syncs = {}
    Identified <- MCIdentified
    Titled <- MCTitled
    WithFiles <- MCWithFiles
    Filtered = {}
    Refs <- MCRefs
    Prefix <- MCPrefix
    Topic <- MCTopic
    Conversation <- MCConversation
    DeskTitles = {}
    MaxBookings = 2
    MaxDesk = 0
    MaxFaults = 1
INVARIANTS
    IngestedOnce
    FiledWhereLinked
    SplitsHaveACause
PROPERTY ImplementsLedger
SYMMETRY PollerSymmetry
