SPECIFICATION Spec
CONSTANTS
    Depth = 2
    WordBytes = 3
    AddrRange = 4
    NumWrite = 2
    NumRead = 1
    BytePace = 2
    MaxWire = 8
    ResetWord <- MCResetWord
    Value <- MCValue
INVARIANTS
    StreamIntact
    QueueHasRoom
    NothingLeftOver
PROPERTIES
    ServesCommands
