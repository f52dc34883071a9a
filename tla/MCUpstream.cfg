SPECIFICATION Spec
CONSTANTS
    Requests = {r1, r2, r3}
    NoRequest = NoRequest
    Queries = {q1, q2, q3}
    Digests = {d1, d2}
    TTL = 1
    LastSearch = 1
    MaxRows = 2
    Cursors = {c1, c2, c3}
    NoCursor = NoCursor
    Items = {"a", "b", "c"}
    PageItems <- SomePages
    MaxPages = 3
    MaxItems = 2
    MaxBytes = 7
    ResponseBytes = 5
    Bytes = {0, 1}
    MaxPattern = 4
    MaxStream = 6
    MaxChunk = 3
    Kids = {k1, k2}
    NoKid = NoKid
    RefreshInterval = 2
    NegativeTtl = 3
    MaxNegativeKids = 1
    Lifespan = 4
    LastRefresh = 6
    None = None
INVARIANTS
    CacheIsSound
    WholeOrNothing
    OutcomeIsTrue
    ResultIsClean
    FoundWhereverCut
PROPERTIES
    FreshOrRejected
    RevokedKeysStop
SYMMETRY Symmetric
CHECK_DEADLOCK FALSE
