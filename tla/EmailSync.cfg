SPECIFICATION FairSpec
CONSTANTS
    root = root
    reply = reply
    anon = anon
    order = order
    blank = blank
    NoMessage = NoMessage
    NoBooking = NoBooking
    Messages = {order, blank}
    Pollers = {p1}
    Syncs = {s1}
    Identified <- MCIdentified
    Titled <- MCTitled
    WithFiles <- MCWithFiles
    Filtered = {}
    Refs <- MCRefs
    Prefix <- MCPrefix
    Topic <- MCTopic
    Conversation <- MCConversation
    DeskTitles = {order}
    MaxBookings = 3
    MaxDesk = 1
    MaxFaults = 1
INVARIANTS
    RowsMatchBookings
    FiledWhereLinked
    HawbBeforeLedger
PROPERTIES
    
    EventuallyRecorded
