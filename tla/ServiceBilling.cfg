SPECIFICATION Spec
CONSTANTS
    Schedulers = {s1}
    Handlers = {h1, h2}
    Plans = {basic, free}
    Free = {free}
    None = None
    Outcomes = {"CAPTURED", "FAILED"}
    Month = 2
    Lead = 1
    MaxTime = 2
    MaxCharges = 1
    MaxKey = 2
    MaxFaults = 1
    MaxChanges = 1
CHECK_DEADLOCK FALSE
SYMMETRY Symmetry
CONSTRAINT OneUpset
INVARIANTS OneMonthPerCharge CallsBounded NoPaymentDropped
