SPECIFICATION Spec
CONSTANTS
    c1 = c1
    c2 = c2
    j1 = j1
    j2 = j2
    Client = {c1, c2}
    Job = {j1, j2}
    Calls <- Roles
    List <- EmptyOrBoth
    Timeout = {"FINITE"}
    MaxMoves = 2
INVARIANTS
    TypeOK
    ToldOnce
    ToldInOrder
PROPERTIES
    NoneLeftOut
    WaitAnyReturns
CHECK_DEADLOCK FALSE
