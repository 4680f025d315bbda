\* Three fair retrievers in two processes, a crawler, a changing page, a secret, one fault.
CONSTANTS
    r1 = r1
    r2 = r2
    r3 = r3
    p1 = p1
    p2 = p2
    w1 = w1
    l1 = l1
    l2 = l2
    ca = ca
    cb = cb
    cs = cs
    None = None
    Retrievers = {r1, r2, r3}
    Processes = {p1, p2}
    ProcessOf <- TwoAndOne
    Crawlers = {w1}
    Visits <- VisitFirst
    Locations = {l1, l2}
    Contents = {ca, cb, cs}
    Serves <- Pages
    Secret = {cs}
    Batch <- Batches
    MaxFaults = 1
SPECIFICATION FairSpec
INVARIANTS StoredHasDocument LostOnlyWithFailure
PROPERTIES EveryBatchEnds
CHECK_DEADLOCK FALSE
