SPECIFICATION Spec
CONSTANTS
    Size = 3
    Seqs = {0, 1}
    a = a
    b = b
    Tokens = {a}
    NoToken = NoToken
    MaxMoves = 1
    NUbatch = 2
    MaxPos = 1
    Batches <- SharedBatches
    Deltas <- MCDeltas
    Divisors <- MCDivisors
INVARIANTS
    TypeOK
    PosIffSeq
    RotationCoherent
    ShiftFlagged
    UsedExact
    ViewContiguous
CHECK_DEADLOCK FALSE
