SPECIFICATION Spec
CONSTANTS
    Requests = {q1, q2}
    Sessions = {s1, s2}
    Nobody = Nobody
    Capacity = 1
    Tries = 2
    ByPeople = {"new", "confirmed", "completed"}
    MaxTurns = 3
    MaxDecisions = 1
    MaxCrashes = 1
CHECK_DEADLOCK FALSE
CONSTRAINT Bounded
SYMMETRY Symmetry
INVARIANTS TypeOK StatusIsTrue NoBlindRetry NoOverbooking
