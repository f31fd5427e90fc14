SPECIFICATION FairSpec
CONSTANTS
    NThreads = 3
    Wrap = 2
    Parts <- MixedGraph
    Aborts <- MixedAborts
INVARIANTS TypeOK Apart
PROPERTIES ImplementsOrder Ends
CHECK_DEADLOCK FALSE
