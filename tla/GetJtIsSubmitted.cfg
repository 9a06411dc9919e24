INIT Init
NEXT Next
CONSTANTS
    c1 = c1
    c2 = c2
    id1 = id1
    id2 = id2
    None = None
    Client = {c1, c2}
    Name = {"js"}
    SessionId = {id1, id2}
    Content = {"date", "openmp", "mpi"}
    Unsupported = {"mpi"}
    Categorised = {"openmp", "mpi"}
    MaxSessions = 2
    MaxTemplates = 3
    MaxFaults = 0
    Bulks <- MCBulks
INVARIANT GetJtIsSubmitted
CHECK_DEADLOCK FALSE
