SPECIFICATION OutboxFairSpec
CONSTANTS
    Events = {e1}
    Workflows = {w1, w2}
    Dispatchers = {d1, d2}
    Steady = {w1}
    NoEvent = NoEvent
    NoWorkflow = NoWorkflow
    MAX_EVENT_ATTEMPTS = 3
    MaxAccidents = 2
    MaxToggles = 1
INVARIANTS OutboxTypeOK OneRun NoSilentLoss
PROPERTIES EventSettles
CHECK_DEADLOCK FALSE
