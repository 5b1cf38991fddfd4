SPECIFICATION Spec
CONSTANTS
    Width = 4
    Regs = {rax}
    SubRegs = {"full", "d", "w", "l"}
    ListRegs = {"full", "w", "l"}
    SymByte = {s, t}
    ConByte = {zero, one}
    Zero = zero
    NoSym = NoSym
    Spanning = TRUE
    ZeroedHeap = TRUE
INVARIANTS
    TypeOK
    MarkedIsCovered
    BytesFresh
    ReadsFresh
