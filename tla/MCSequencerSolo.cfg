SPECIFICATION SoloSpec
CONSTANTS
    MaxPc = 2
    Insn <- MCInsn
    Zero = 0
    Modify <- MCModify
    IterMod = 3
    HostIters = {1, 2}
INVARIANTS
    ObserverTypeOK
    ConsecutivePcs
    DeliversProgram
    WriteBackCurrent
PROPERTIES
    ImplementsOrder
    RunEnds
