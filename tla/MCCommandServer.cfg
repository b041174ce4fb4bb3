SPECIFICATION Spec
CONSTANTS
    c1 = c1
    c2 = c2
    Clients <- MCClients
    MaxLines <- MCMaxLines
    Room = 1
    MaxStarts = 2
    MayFail = TRUE
INVARIANT TypeOK
INVARIANT AnsweredInOrder
INVARIANT PathTrue
PROPERTY StreamEnds
PROPERTY SignalEnds
CHECK_DEADLOCK FALSE
