SPECIFICATION SharedSpec
CONSTANTS
    MaxPc = 1
    Insn <- MCInsn
    Zero = 0
    Modify <- MCModify
    IterMod = 4
    HostIters = {1, 2}
INVARIANTS
    DeliversProgram
