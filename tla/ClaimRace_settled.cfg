SPECIFICATION Spec
CONSTANTS
    Sessions = {s1, s2}
    NoSession = NoSession
    LeaseTime = 2
    Deadline = 5
    MaxClock = 6
    MaxEpoch = 3
PROPERTIES
    SettledOnce
