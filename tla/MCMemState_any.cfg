SPECIFICATION Spec
CONSTANTS
    Addr <- PairAddr
    Sizes = {1, 2}
    BlockSize = 4
    CellSpan = 2
    SymByte = {s, t}
    ConByte = {zero, one}
    Zero = zero
    NoSym = NoSym
    Lost = Lost
    Spanning = FALSE
CHECK_DEADLOCK FALSE
INVARIANTS
    TypeOK
    MarkedIsCovered
    BytesFresh
