CONSTANTS
    Byte = {0, 1}
    Zero = 0
    InitialCapacity = 1
    ReadRoom = 2
    MaxLive = 3
    MaxChunk = 2
SPECIFICATION Spec
INVARIANTS MemorySafe CapacityBounded
PROPERTY IsAQueue
