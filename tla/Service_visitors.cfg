\* What Cortex shows a website visitor as verified: the same instance as Service_parts, and
\* of its parts only the answers can break the property.
CONSTANTS
    Dispatches = {1}
    Fanout = 1
    Attempts = 1
    e1 = e1
    e2 = e2
    cancel = cancel
    p1 = p1
    p2 = p2
    q1 = q1
    a = a
    b = b
    Sessions = {e1, e2, cancel}
    Handlers = {cancel}
    Processes = {p1, p2}
    Home <- Homes
    Clients = {1, 2}
    MaxEvents = 2
    None = None
    Requests = {q1}
    Caller <- OneCaller
    Admins = {a}
    Runs = {1, 2}
    Owner <- Owners
    Claims = {1, 2, 3}
    RunOf <- RunOfEach
    Created <- CreatedBy
    Findings = {1, 2}
    Names <- NamesOf
    RunLimit = 2
    ClaimLimit = 2
    FindingLimit = 1
    Fallback = 1
    Chain = 2
    MeshFindings = 1
    Desks <- DesksOpen
    Tags = {"t"}
    Room <- Rooms
    Phases = 1
    Depth = 1
    Burst = 1
    Top = 1
SPECIFICATION ServiceSpec
INVARIANTS VisitorsSeeFinishedWork
CHECK_DEADLOCK FALSE
