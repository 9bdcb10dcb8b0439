SPECIFICATION Spec
CONSTANTS
    x = x
    Name <- MCName
    Expr <- MCExpr
    ToElement <- MCToElement
    Undeclared = Undeclared
    MaxItems = 4
    MaxFuns = 1
INVARIANTS
    TypeOK
    EdgesAgree
    OpenBlocksPending
    LoopsHaveOneEntry
    LocalsAreLocal
    StorageDominatesUses
CHECK_DEADLOCK FALSE
