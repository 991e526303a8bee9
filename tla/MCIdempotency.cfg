CONSTANTS
    Keys = {k1}
    Attempts = {a1, a2, a3, a4}
    Nobody = Nobody
    FaultKinds = {"crash", "redis"}
    MaxFaults = 2
SPECIFICATION FairSpec
INVARIANTS
    TypeOK
    OneAtATime
    RunsOnce
    ReplayIsCurrent
PROPERTIES
    KeyIsFreed
CHECK_DEADLOCK FALSE
