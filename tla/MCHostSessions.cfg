SPECIFICATION Spec
CONSTANTS
    NumDcChannel = 2
    Addr = {1, 2}
    Parts = 2
    Pace = 4
INVARIANTS
    StrobesOnce
    NoStrayStart
    ReadsStored
    ReadsWhole
