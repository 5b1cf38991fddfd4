SPECIFICATION Spec
CONSTANTS
    x = x
    y = y
    NoExpr = NoExpr
    Half = 2
    SymbolOrder <- OneSymbol
    Seed <- SeedOfOne
    SymExprs <- Compares
    ConExprs <- Concrete
    Preserves <- Whole
    Conds <- AnyCond
CHECK_DEADLOCK FALSE
INVARIANTS
    TypeOK
    SeedOnPath
    PathExact
