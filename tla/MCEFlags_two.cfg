SPECIFICATION Spec
CONSTANTS
    x = x
    y = y
    NoExpr = NoExpr
    Half = 2
    SymbolOrder <- TwoSymbols
    Seed <- SeedOfTwo
    SymExprs <- ComparesTwo
    ConExprs <- Concrete
    Preserves <- Whole
    Conds <- ZeroCond
CHECK_DEADLOCK FALSE
INVARIANTS
    SeedOnPath
