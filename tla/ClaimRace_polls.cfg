SPECIFICATION Spec
CONSTANTS
    Sessions = {s1, s2, s3}
    NoSession = NoSession
    LeaseTime = 2
    Deadline = 5
    MaxClock = 6
    MaxEpoch = 3
INVARIANTS
    AttemptsFollowJob
PROPERTIES
    ImplementsLifecycle
SYMMETRY SessionSymmetry
