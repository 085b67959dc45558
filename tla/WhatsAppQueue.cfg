SPECIFICATION FairSpec
CONSTANTS
    Workers = {w1, w2}
    Jobs = {j1}
    NoWorker = NoWorker
    NoRaw = NoRaw
    MaxAttempts = 2
    MaxFailures = 2
    MaxStops = 2
    MaxRequeues = 1
INVARIANTS TypeOK NoJobLost SingleWorker
PROPERTIES EveryJobSettles
