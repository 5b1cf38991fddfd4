SPECIFICATION Spec
CONSTANTS
    v = v
    w = w
    Lo <- MCLo
    Hi <- MCHi
    KeySpace = 16
    SymByte <- MCSymByte
    NoSym = NoSym
    Sources <- MCSources
    Ranges <- MCRanges
    MaxId = 5
INVARIANTS
    TypeOK
    WalksEnd
    ListOrdered
    IndexExact
    ListImplementsStore
    ReadsExact
