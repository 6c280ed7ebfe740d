SPECIFICATION WiredSpec
CONSTANTS
    DacMod = 2
    DeltaMod = 2
    CycleMod = 4
    IterMax = 0
    Program <- MCProgram
    AddrMod = 1
    Ctrl <- MCCtrl
    None = None
    Channel = {dc0}
    Self = dc0
    MaxIters = 1
    HostGap = 1
PROPERTIES
    ArmedStartExecutes
