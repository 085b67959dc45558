SPECIFICATION Spec
CONSTANTS
    Routines = {r1, r2}
    Answers = {a1, a2}
    NoAnswer = NoAnswer
    NoSpec = NoSpec
    NoRevision = NoRevision
    Idle = Idle
    HistoryLimit = 1
    MaxConnections = 2
    MaxStamps = 3
    MaxEdits = 1
    MaxRequests = 1
CHECK_DEADLOCK FALSE
CONSTRAINT NotOvertaken
SYMMETRY Symmetry
INVARIANTS TypeOK LiveIsTested LiveIsConnected
PROPERTIES NoLiveEscalation ReplacesItsBase
