SPECIFICATION Spec
CONSTANTS
    Messages = {m1, m2}
    Replies = {h1}
    Requests = {r1, r2}
    Nobody = Nobody
    NoRow = NoRow
    MaxBegun = 3
    MaxControls = 1
    MaxCrashes = 1
SYMMETRY Symmetry
CONSTRAINT NoMisjudgement
CHECK_DEADLOCK FALSE
INVARIANTS
    StatusIsTrue
    OwnAnswer
