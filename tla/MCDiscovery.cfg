SPECIFICATION DiscoverySpec
CONSTANTS
    Tools = {t1}
    Tool = t1
    Metadata = {m1, m2, m3}
    Supported = {m1, m2}
    NoVersion = NoVersion
    NoAllocation = NoAllocation
    MaxVersions = 2
    MaxGeneration = 3
    MaxControlEpoch = 3
    MaxStatusEpoch = 3
    MaxLeaseEpoch = 2
SYMMETRY Symmetric
INVARIANTS
    AllocationMatchesJob
    EnabledIsObserved
    EpochsPinTarget
    OperatorDecides
PROPERTIES
    SnapshotIsFresh
    ImplementsTarget
