SPECIFICATION ReadTargetSpec
CONSTANTS
    Runs = {r1}
    Workers = {w1, w2}
    NoWorker = NoWorker
    MaxRunTime = 3
    LeaseTime = 2
    ArgumentRetention = 4
    ResultRetention = 2
    RunRetention = 3
    BatchSize = 1
    MaxActiveRuns = 1
    ClockLag = 1
    MaxClock = 5
    LastAdmission = 1
    MaxExecutionEpoch = 2
    MaxTargetEpoch = 2
    MaxEvents = 5
    MaxTakeovers = 1
SYMMETRY Symmetric
INVARIANTS
    TypeOK
    ProjectionsAgree
    AtMostOneDispatch
    HonestOutcome
PROPERTIES
    TerminalIsFinal
    NoFenceAfterRevocation
    ImplementsLifecycle
