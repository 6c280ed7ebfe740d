SPECIFICATION Spec
CONSTANTS
    DataBits = 2
    Over = 6
    MaxSkew = 2
    Depth = 3
    Item <- MCItem
INVARIANTS
    SamplesInOrder
PROPERTIES
    ImplementsQueue
    DeliversBytes
