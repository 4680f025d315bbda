\* A worker and a CLI process, one run, one cancel or review, one fault.
CONSTANTS
    Runs = {1}
    Workers = {w1, c1}
    Clis = {c1}
    Requests = {q1}
    Kinds = {"apiCancel", "webReview"}
    Limit = 2
    Urgency <- OneUrgency
    Scope <- OneStandard
    MaxFaults = 1
    None = None
SPECIFICATION Spec
INVARIANTS CancelFlagHonoured
CHECK_DEADLOCK FALSE
