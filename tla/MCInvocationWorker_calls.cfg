SPECIFICATION WorkerSpec
CONSTANTS
    Runs = {r1}
    Workers = {w1, w2}
    NoWorker = NoWorker
    MaxRunTime = 3
    LeaseTime = 2
    ArgumentRetention = 3
    ResultRetention = 3
    RunRetention = 3
    BatchSize = 1
    MaxActiveRuns = 1
    ClockLag = 1
    MaxClock = 4
    LastAdmission = 1
    MaxExecutionEpoch = 2
    MaxTargetEpoch = 1
    MaxEvents = 5
    MaxTakeovers = 1
SYMMETRY Symmetric
INVARIANTS
    AtMostOneCall
    LedgerTellsTheTruth
PROPERTIES
    AnswerIsAwaited
    CallFollowsFence
