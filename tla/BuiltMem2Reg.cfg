SPECIFICATION BuiltSpec
CONSTANTS
    x = x
    Name <- MCName
    Expr <- MCExpr
    ToElement <- MCToElement
    Undeclared = Undeclared
    MaxItems = 4
    MaxFuns = 1
INVARIANTS
    Mem2RegTypeOK
    NeverFails
    StacksBalanced
    ValidSSA
    LoadsPreserved
    AccessesGone
CHECK_DEADLOCK FALSE
