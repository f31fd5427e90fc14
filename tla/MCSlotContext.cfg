SPECIFICATION Spec
CONSTANTS
    tok0 = tok0  tok1 = tok1  tok2 = tok2  tok3 = tok3
    NoToken = NoToken
    Tokens <- AllTokens
    Zero = tok0
    Seqs <- AllSeqs
    Size = 12
    MaxMoves = 1
    NSlots = 2
    NCtx = 6
    NBatch = 4
    NUbatch = 3
    AddBos = 1
    Outputs <- OnlyTok3
    Scenarios <- AllScenes
INVARIANTS TypeOK ContextWhole CacheTokensTrue SystemKept RowsSettled LogitsOwn
PROPERTY NeverFull
