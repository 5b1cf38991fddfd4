SPECIFICATION Spec
CONSTANTS
    Width = 2
    Zero = 0
    NoSym = NoSym
    Regs = {"rax", "rdx"}
    MemSize = 4
    Worlds = {0, 1, 2, 3}
    Seed = 2
    Objects <- MCObjects
    Insns <- MCInsns
    MaxInsns = 3
    Conforming = TRUE
CHECK_DEADLOCK FALSE
INVARIANTS
    TypeOK
    MarkedIsCovered

    
