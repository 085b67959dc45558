SPECIFICATION DeliverySpec
CONSTANTS
    Observers = {o1, o2, o3}
    NoAnswer = NoAnswer
    MaxAttempts = 2
    MaxStale = 1
    MaxCrashes = 1
CHECK_DEADLOCK FALSE
SYMMETRY Symmetry
INVARIANTS HonestStatus
PROPERTIES ReceiptIsKept OneShotSpec
