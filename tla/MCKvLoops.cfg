SPECIFICATION LoopSpec
CONSTANTS
    Size = 8
    Seqs = {0}
    Tokens = {}
    NoToken = NoToken
    MaxMoves = 2
INVARIANTS
    NoAssertion
    DefragRight
    TokensKept
    Compacted
    FoundRight
    NoneRight
PROPERTY
    LoopsEnd
CHECK_DEADLOCK FALSE
