SPECIFICATION Spec
CONSTANTS
    q1 = q1
    q2 = q2
    q3 = q3
    p1 = p1
    p2 = p2
    Requests = {q1, q2, q3}
    Processes = {p1, p2}
    ProcessOf <- TwoInOne
    Ceilings <- SmallCeilings
    DefaultCeiling = 1
    Tiers <- SmallTiers
    FirstTier = 0
    MaxFaults = 2
    None = None
INVARIANTS
    ChainRooted
    AlarmIsFork
    LastRecordTells
    EnforcedWasAskedFor
    HolderIsOnItsWay
SYMMETRY SameProcess
CHECK_DEADLOCK FALSE
