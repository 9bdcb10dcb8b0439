SPECIFICATION Spec
CONSTANTS
    x = x
    Name <- MCName
    Expr <- MCExpr
    ToElement <- MCToElement
    Undeclared = Undeclared
    MaxItems = 4
    MaxFuns = 1
CHECK_DEADLOCK FALSE
INVARIANT OneTerminator
