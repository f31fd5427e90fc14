SPECIFICATION SessionSpec
CONSTANTS
    Size = 3
    Seqs = {0, 1}
    a = a
    Tokens = {a}
    NoToken = NoToken
    MaxMoves = 1
    NUbatch = 2
    MaxPos = 1
    Batches <- SessionBatches
    Deltas <- MCDeltas
    Divisors <- MCDivisors
    Received <- Elsewhere
    MaxSteps = 4
    Circumstances <- AllCircumstances
INVARIANTS
    BooksKept
    RotationKept
    RestoredExactly
PROPERTY
    OthersKept
CHECK_DEADLOCK FALSE
