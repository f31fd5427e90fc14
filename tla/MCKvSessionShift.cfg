SPECIFICATION SessionSpec
CONSTANTS
    Size = 3
    Seqs = {0, 1}
    a = a
    Tokens = {a}
    NoToken = NoToken
    MaxMoves = 1
    NUbatch = 2
    MaxPos = 1
    Batches <- SessionBatches
    Deltas <- MCDeltas
    Divisors <- MCDivisors
    Received <- Elsewhere
    MaxSteps = 4
    Circumstances <- PendingShift
INVARIANT
    RotationCoherent
CHECK_DEADLOCK FALSE
