\* A reserve of 1, blocks of up to 7 bytes: every kind of grow() happens.
SPECIFICATION Spec
CONSTANTS
    b1 = b1
    b2 = b2
    Byte = {b1, b2}
    Junk = Junk
    Chunks <- MCChunks
    Sizes = {0, 1, 2, 4}
    InitialSize = 2
    ReservedSize = 1
    kCheapPrependSize = 2
    kInitialSize = 1
    MaxCapacity = 7
INVARIANTS TypeOK AssertsHold
PROPERTIES IsByteQueue
