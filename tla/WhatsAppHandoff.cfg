SPECIFICATION Spec
CONSTANTS
    Replies = {e1, e2}
    Commands = {c1}
    None = None
    Window = 2
    MaxTime = 3
    Late = FALSE
    MaxControls = 2
CHECK_DEADLOCK FALSE
SYMMETRY Symmetry
INVARIANTS ReturnStands FirstPauseIsBounded
PROPERTIES AiNeverTalksOver
