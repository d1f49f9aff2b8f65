CONSTANTS
    k1 = k1
    k2 = k2
    k3 = k3
    Absent = Absent
    Keys = {k1, k2, k3}
    Values = {v1}
    Hash <- MCHash
    Configs <- OverCapConfigs
    PoolCapacity = 2
    SampleBuckets = 1
    ScanBuckets = 2
    SampleLimit = 1
    kMinBuckets = 2
    kMaxPasses = 2
    LruMod = 1
    CounterMod = 2
    MaxTtl = 1
    MaxNow = 1
SPECIFICATION Spec
INVARIANT PoolNeverEmpty
CHECK_DEADLOCK FALSE
