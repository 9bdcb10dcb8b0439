SPECIFICATION PassesSpec
CONSTANTS
    x = x
    Name <- MCName
    Expr <- MCExpr
    ToElement <- MCToElement
    Undeclared = Undeclared
    MaxItems = 1
    MaxFuns = 1
    MaxPromoted = 0
    Given <- MCGiven
    EntryNamed = FALSE
INVARIANT UselessOnly
CHECK_DEADLOCK FALSE
