SPECIFICATION FairSpec
CONSTANTS
    NThreads = 2
    Wrap = 2
    Parts <- PlainGraph
    Aborts <- PlainAborts
PROPERTY Ends
CHECK_DEADLOCK FALSE
