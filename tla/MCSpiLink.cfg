SPECIFICATION Spec
CONSTANTS
    DataWidth = 3
    CounterMod = 4
    Dvsr = {0, 1, 2}
INVARIANTS
    BitsInOrder
PROPERTIES
    FrameTakes
    FrameEnds
    DeliversFrames
