SPECIFICATION Spec
CONSTANTS
    Addr <- TripleAddr
    Sizes = {1, 3}
    BlockSize = 6
    CellSpan = 3
    SymByte = {s, t}
    ConByte = {zero, one}
    Zero = zero
    NoSym = NoSym
    Lost = Lost
    Spanning = TRUE
CHECK_DEADLOCK FALSE
INVARIANTS
    LayersAgree
    ReadsFresh
