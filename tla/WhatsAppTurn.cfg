SPECIFICATION TurnFairSpec
CONSTANTS
    Runs = {r1, r2}
    NoRun = NoRun
    MaxTries = 2
    MaxCrashes = 2
    MaxSwitches = 2
CHECK_DEADLOCK FALSE
INVARIANTS OneAnswer
PROPERTIES AnswerSettles
