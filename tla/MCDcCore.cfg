SPECIFICATION FairSpec
CONSTANTS
    DacMod = 4
    DeltaMod = 2
    CycleMod = 4
    IterMax = 1
    Program <- MCProgram
    AddrMod = 2
    Ctrl <- MCCtrl
    None = None
    MaxClocks = 5
INVARIANTS
    TypeOK
    SelectFramesFrame
    HeldExactly
    LdacStrobe
    EmptyIsQuiet
PROPERTIES
    SelectRests
    ExecutesInOrder
    PipelineDrains
