INIT Init
NEXT Next
CONSTANTS
    c1 = c1
    c2 = c2
    j1 = j1
    j2 = j2
    NoClient = NoClient
    NoJob = NoJob
    NoPid = NoPid
    p1 = p1
    p2 = p2
    Pid = {p1, p2}
    ExitCode = {3}
    Timeout = {"FINITE"}
    Client = {c1, c2}
    Job = {j1, j2}
SYMMETRY Symmetric
INVARIANTS
    TypeOK
    HandleUsable
    StartedTruthful
    VerdictTruthful
PROPERTIES
    SettledForGood
    KillAccounted
    MeetsContract
CHECK_DEADLOCK FALSE
