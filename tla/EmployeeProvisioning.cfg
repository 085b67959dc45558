SPECIFICATION ProvisioningSpec
CONSTANTS
    task = task
    system = system
    hours = hours
    check = check
    first = first
    second = second
    third = third
    Keys = {task, system, hours}
    Routines = {check}
    Briefs = {first, second, third}
    Kind <- MCKind
    Secret <- MCSecret
    Uses <- MCUses
    Timed <- MCTimed
    Cron <- MCCron
    NoSpec = NoSpec
    NoRevision = NoRevision
    NoRow = NoRow
    NoPlan = NoPlan
    MaxConnections = 2
    MaxChanges = 2
CHECK_DEADLOCK FALSE
INVARIANTS OnlyTheBuildRuns NextStepIsShown
PROPERTIES LaunchHasWork
