INIT Init
NEXT Next
CONSTANTS
    c1 = c1
    c2 = c2
    None = None
    Client = {c1, c2}
    Name = {"rs", "night"}
    Content = {"small", "o'clock"}
    Unquotable = {"o'clock"}
    MaxSessions = 2
    MaxRequests = 2
    MaxFaults = 1
SYMMETRY Symmetric
INVARIANTS
    TypeOK
    TemplateKept
    NamedAfterItsRow
    ReadBackInStep
    SharedByName
CHECK_DEADLOCK FALSE
