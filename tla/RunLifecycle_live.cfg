\* One worker, one slot, two runs, one request; no fault, fair worker.
CONSTANTS
    Runs = {1, 2}
    Workers = {w1}
    Clis = {}
    Requests = {q1}
    Kinds <- AllKinds
    Limit = 1
    Urgency <- TwoUrgency
    Scope <- DeepAndStandard
    MaxFaults = 0
    None = None
SPECIFICATION FairSpec
PROPERTIES NoRunStuck QueueProgress
CHECK_DEADLOCK FALSE
