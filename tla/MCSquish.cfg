SPECIFICATION Spec
CONSTANTS
    DacMod = 64
    DeltaMod = 32
    CycleMod = 32
    IterMax = 7
    VMax = 36
    Digit = 6
    NsPerCycle = 2
    TimeBase = 4
    RegMod = 8192
    WordBits = 13
    ShortLines <- MCShortLines
    InsnLines <- MCInsnLines
    MaxLines = 7
    NumDcChannel = 2
    NumMarkers = 2
    Depth = 2
    MaxCtrl = 3
    MaxRepeat = 3
    IterMod = 2
INVARIANTS
    WordsCarryInstruction
    SweepClimbs
    PrintedReassembles
    ParsesAsWritten
    LoadsPrograms
    ReadsBackProgram
