SPECIFICATION Spec
CONSTANTS
    Size = 3
    Seqs = {0, 1}
    a = a
    b = b
    Tokens = {a, b}
    NoToken = NoToken
    MaxMoves = 1
    NUbatch = 2
    MaxPos = 1
    Batches <- StoreBatches
    Deltas <- StoreDeltas
    Divisors <- MCDivisors
PROPERTY
    ImplementsStore
CHECK_DEADLOCK FALSE
