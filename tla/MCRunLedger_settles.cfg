SPECIFICATION FairStableSpec
CONSTANTS
    Runs = {r1, r2}
    Workers = {w1}
    NoWorker = NoWorker
    MaxRunTime = 1
    LeaseTime = 1
    ArgumentRetention = 2
    ResultRetention = 1
    RunRetention = 2
    BatchSize = 1
    MaxActiveRuns = 2
    ClockLag = 1
    MaxClock = 5
    LastAdmission = 1
    MaxExecutionEpoch = 2
    MaxTargetEpoch = 1
    MaxEvents = 3
    MaxTakeovers = 0
INVARIANTS
    RestoreReconciled
PROPERTIES
    EveryRunSettles
    EveryRunIsForgotten
