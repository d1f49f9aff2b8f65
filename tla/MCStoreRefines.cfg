CONSTANTS
    k1 = k1
    k2 = k2
    k3 = k3
    Absent = Absent
    Keys = {k1, k2}
    Values = {v1, v2}
    Hash <- MCHash
    Configs <- MapConfigs
    PoolCapacity = 2
    SampleBuckets = 1
    ScanBuckets = 2
    SampleLimit = 1
    kMinBuckets = 2
    kMaxPasses = 2
    LruMod = 1
    CounterMod = 1
    MaxTtl = 1
    MaxNow = 4
SPECIFICATION Spec
PROPERTIES ImplementsExpiringMap WritesWhatItWasGiven
CHECK_DEADLOCK FALSE
