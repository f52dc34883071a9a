SPECIFICATION FairStableWorkerSpec
CONSTANTS
    Runs = {r1}
    Workers = {w1, w2}
    NoWorker = NoWorker
    MaxRunTime = 2
    LeaseTime = 1
    ArgumentRetention = 2
    ResultRetention = 2
    RunRetention = 2
    BatchSize = 1
    MaxActiveRuns = 1
    ClockLag = 1
    MaxClock = 3
    LastAdmission = 1
    MaxExecutionEpoch = 2
    MaxTargetEpoch = 1
    MaxEvents = 3
    MaxTakeovers = 1
PROPERTIES
    WorkersReturn
