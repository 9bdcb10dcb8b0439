SPECIFICATION BuiltSpec
CONSTANTS
    x = x
    Name <- MCName
    Expr <- MCExpr
    ToElement <- MCToElement
    Undeclared = Undeclared
    MaxItems = 4
    MaxFuns = 1
INVARIANT AssertionHolds
CHECK_DEADLOCK FALSE
