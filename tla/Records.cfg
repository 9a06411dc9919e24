SPECIFICATION RecordsSpec
CONSTANTS
    a = a
    d = d
    Null = Null
    Sep = Sep
    Word = 8
    MaxJobs = 6
    Others <- MCOthers
    Path <- MCPath
    Index = Index
    Home = Home
    Working = Working
    Tilde = Tilde
    Dot = Dot
    Exit = Exit
    Text <- MCText
    Number <- MCNumber
    Int32 = 16
    Time <- MCTime
    Dict = {d}
    NULL = NULL
    Error = Error
    Column = {"session_name", "queue_name"}
    Session = {"js", "session_name", "queue_name"}
    SessionId = {1, 2}
    State = {1, 5}
    Code = {0, 3}
    When = {4, 5}
    Offset <- MCOffset
    Queue = {"default", "session_name"}
INVARIANTS
    ArrayReadBack
    ReadBack
    FilterAgreesWithInfo
PROPERTY LoopEnds
CHECK_DEADLOCK FALSE
