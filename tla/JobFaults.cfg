SPECIFICATION Spec
CONSTANTS
    r1 = r1
    r2 = r2
    None = None
    Run = {r1, r2}
    MaxRows = 2
    MaxFaults = 2
    MaxResets = 1
INVARIANTS
    TypeOK
    OwnRowOnly
    NamesAccounted
    HandleHasJob
    VerdictRecorded
PROPERTY HangsOnlyWithoutMonitor
CHECK_DEADLOCK FALSE
