\* Three submissions with one key beside two loops; two callers, one session kept of at most
\* two searches with two results; one grounded inquiry into two sites; two processes with two
\* indicator values; three starts of two replicas.
CONSTANTS
    c1 = c1
    c2 = c2
    v1 = v1
    v2 = v2
    friday = friday
    q1 = q1
    q2 = q2
    q3 = q3
    key1 = key1
    o1 = o1
    o2 = o2
    p1 = p1
    p2 = p2
    Loop = Loop
    None = None
    Requests = {q1, q2, q3}
    Keys = {key1}
    Key <- OneKey
    Caller <- TwoCallers
    Loops = 2
    Limit = 2
    Recent = 1
    MaxRuns = 3
    Callers = {c1, c2}
    Endpoints = {e1}
    MaxHits = 2
    MaxScrape = 1
    MaxSessions = 1
    MaxSearches = 2
    Inquiries = {i1}
    Engines = {e1}
    Sites = {s1, s2}
    MaxPages = 2
    Processes = {p1, p2}
    Values = {o1, o2}
    MaxReports = 1
    Replicas = {c1, c2}
    ApiKeys = {v1, friday}
    DemoKeys = {}
    AdminNamed = {}
    Friday = friday
    Configs <- Settings
    Boots = 3
SYMMETRY Symmetry
SPECIFICATION DeskSpec
INVARIANTS KeyNamesOneRun SpawnRateBound CasesHold ReportsAreGrounded OneWriterKeepsAll
    RevocationLasts ServingIsSeeded
CHECK_DEADLOCK FALSE
