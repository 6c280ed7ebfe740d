SPECIFICATION Spec
CONSTANTS
    NumDcChannel = 3
INVARIANTS
    EmptyBitIsChannel
