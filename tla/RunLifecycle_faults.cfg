\* Two workers, one deep run, two requests of any kind, or one and two faults.
CONSTANTS
    Runs = {1}
    Workers = {w1, w2}
    Clis = {}
    Requests = {q1, q2}
    Kinds <- AllKinds
    Limit = 2
    Urgency <- OneUrgency
    Scope <- OneDeep
    MaxFaults = 2
    None = None
SPECIFICATION Spec
SYMMETRY Symmetry
CONSTRAINT RequestsOrFaults
INVARIANTS TypeOK ClaimedOncePerQueueing SharedOnlyAfterRequeue CancelFlagHonoured OutcomeAgrees
PROPERTIES FinishedNeverRestarts
CHECK_DEADLOCK FALSE
