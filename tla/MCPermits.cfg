SPECIFICATION FairSpec
CONSTANTS
    Calls = {11, 12}
    Scans = {1, 2, 3, 5}
    Abandonable = {1, 2, 3}
    Loops = {1, 2}
    LoopOf <- OddAndEven
    ScannerLimit = 2
    AbandonableLimit = 1
    ValidationLimit = 1
    RateLimit = 1
    MaxPeers = 2
    MaxSlots = 1
    Requests = {21, 22, 23, 24}
    Addresses = {a1, proxy}
    Proxies = {proxy}
    Forwarded = {a1, a2}
    Garbled = Garbled
    NoHeader = NoHeader
    MaxMinute = 2
    None = None
INVARIANTS
    PermitsConserved
    PeersAreLimited
PROPERTIES
    CallsEnd
CHECK_DEADLOCK FALSE
