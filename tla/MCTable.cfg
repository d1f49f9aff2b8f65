CONSTANTS
    k1 = k1
    k2 = k2
    k3 = k3
    v1 = v1
    v2 = v2
    v3 = v3
    Keys = {k1, k2, k3}
    Values = {v1, v2, v3}
    KeyLen <- MCKeyLen
    ValLen <- MCValLen
    Hash <- MCHash
    Blocks = {b1, b2, b3}
    Buffers = {h1, h2, h3, h4}
    Null = Null
    Junk = Junk
    kInlineCap = 2
    kMinBuckets = 2
    SampleBuckets = 1
    InitialBuckets = 1
SPECIFICATION Spec
INVARIANTS ChainsSound SpillOwned ScanVisitsChain SampleDistinct ReadsBack
