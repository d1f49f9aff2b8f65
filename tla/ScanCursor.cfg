CONSTANTS
    HashRange = 64
    FewestBuckets = 2
SPECIFICATION Spec
INVARIANTS EachEntryOnce
PROPERTY ScanEnds
