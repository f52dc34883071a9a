SPECIFICATION Spec
CONSTANTS
    Sessions = {s1, s2, s3}
    RunIds = {1, 2}
    Programs <- AllPrograms
    Rank <- DocumentedRank
    Guard <- DocumentedGuard
INVARIANTS
    DeadlocksAreKnown

SYMMETRY SessionSymmetry
