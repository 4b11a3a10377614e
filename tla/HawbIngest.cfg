SPECIFICATION FairSpec
CONSTANTS
    e1 = e1
    e2 = e2
    note = note
    form = form
    large = large
    again = again
    t1 = t1
    t2 = t2
    h1 = h1
    h2 = h2
    Nobody = Nobody
    Mails = {e1, e2}
    Atts = {note, form, again, large}
    Hawbs = {h1, h2}
    MailOf <- MCMailOf
    Name <- MCName
    Sort <- MCSort
    Thinv = {note, again}
    Traces = {t1, t2}
    RefOf <- MCRefOf
    Content <- MCContent
    Workers = {w1, w2}
    MaxAsked = 2
    MaxFaults = 1
INVARIANTS
    TypeOK
    OpenHasJobs
    NeverDropped
    ExtractedOncePerName
    FailedHasNoJobs
    NoPdfVanishes
    OpenIsDueOrReported
    OneManifestPerRef
PROPERTY ExtractionEnds
CHECK_DEADLOCK FALSE
