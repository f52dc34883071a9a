SPECIFICATION Spec
CONSTANTS
    Sessions = {s1, s2}
    NoSession = NoSession
    Actors = {a1}
    RunKeys = {k1, k2}
    RunBodies = {plain}
    DigestOf <- OneDigest
    Deployments <- Rings
    TTL = 1
    Retention = 1
    LastInstant = 3
    MaxTokens = 2
    MaxRuns = 2
    Users = {u1, u2, u3}
    Owner = u1
    Logins = {l1, l2, l3, l4}
    Principals = {p1, p2}
    NoUser = NoUser
    Processes = {"before", "during", "after"}
    Rollout <- Rotation
    RingOf <- RotatedRings
    SkewOf <- Skews
    Worker = "worker"
    ApiKeys = {"k1", "k2"}
    ApiBodies = {"b1", "b2"}
    Lifetime = 3
    Promise = 2
    MaxOverlap = 1
    BatchSize = 1
    MaxClock = 7
    MaxMutations = 3
    Ids = {1, 2, 3, 4}
    Timestamps = {0, 1}
    Limits = {1, 2}
    None = None
INVARIANTS
    OneRunPerKey
    NotRepeated
    AdminRemains
    OneIdentity
    NothingSkipped
SYMMETRY Symmetric
CHECK_DEADLOCK FALSE
