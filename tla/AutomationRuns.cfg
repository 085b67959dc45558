SPECIFICATION FairSpec
CONSTANTS
    Threads = {t1, t2}
    Graphs <- SomeGraphs
    MaxRuns = 2
    MaxAttempts = 1
    Recent = 2
    MaxByHand = 1
    MaxUpsets = 1
CHECK_DEADLOCK FALSE
INVARIANTS NodesRunOnce ApprovedFirst OneRunPerSlot EventEndsTheWait
PROPERTIES RunsMoveOn
