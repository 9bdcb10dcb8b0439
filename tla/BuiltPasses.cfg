SPECIFICATION PassesSpec
CONSTANTS
    x = x
    Name <- MCName
    Expr <- MCExpr
    ToElement <- MCToElement
    Undeclared = Undeclared
    MaxItems = 3
    MaxFuns = 1
    MaxPromoted = 3
    Given <- MCGiven
    EntryNamed = TRUE
INVARIANTS
    
    LoopsAreNatural
    NestingRight
    
    HoistedDominates
    LoopsDrained
    
    
    
    
PROPERTIES
    HoistKeeps
    
    AnalysisEnds
CHECK_DEADLOCK FALSE
