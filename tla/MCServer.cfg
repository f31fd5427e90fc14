SPECIFICATION FairSpec
CONSTANTS
    c1 = c1
    c2 = c2
    c3 = c3
    Clients = {c1, c2, c3}
    None = None
    NSlots = 2
    NBatch = 2
    Requests <- Scenarios
INVARIANTS
    TypeOK
    OneAnswer
    OnePlace
    StreamInOrder
    NoForgottenWork
PROPERTIES
    Answered
    Settles
CHECK_DEADLOCK FALSE
