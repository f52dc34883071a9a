SPECIFICATION Spec
CONSTANTS
    Sessions = {s1, s2}
    RunIds = {1, 2}
    Programs <- DeployedPrograms
    Rank <- DocumentedRank
    Guard <- DocumentedGuard
INVARIANTS
    NoWaitCycle
