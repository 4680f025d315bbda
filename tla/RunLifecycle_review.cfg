\* One review of a deep run.
CONSTANTS
    Runs = {1}
    Workers = {w1}
    Clis = {}
    Requests = {q1}
    Kinds = {"apiReview"}
    Limit = 1
    Urgency <- OneUrgency
    Scope <- OneDeep
    MaxFaults = 0
    None = None
SPECIFICATION Spec
INVARIANTS ReviewedOnce
CHECK_DEADLOCK FALSE
