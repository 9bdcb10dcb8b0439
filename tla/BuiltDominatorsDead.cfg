SPECIFICATION BuiltSpec
CONSTANTS
    Name <- MCName
    Expr <- MCExpr
    ToElement <- MCToElement
    Undeclared = Undeclared
    MaxItems = 5
    MaxFuns = 1
CHECK_DEADLOCK FALSE
PROPERTY Generates
