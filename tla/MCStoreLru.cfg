CONSTANTS
    k1 = k1
    k2 = k2
    k3 = k3
    Absent = Absent
    Keys = {k1, k2, k3}
    Values = {v1}
    Hash <- MCHash
    Configs <- MCConfigs
    PoolCapacity = 2
    SampleBuckets = 1
    ScanBuckets = 2
    SampleLimit = 1
    kMinBuckets = 2
    kMaxPasses = 2
    LruMod = 3
    CounterMod = 2
    MaxTtl = 0
    MaxNow = 4
SPECIFICATION LruSpec
INVARIANT PoolNeverEmpty
PROPERTY EvictsLeastRecent
CHECK_DEADLOCK FALSE
