SPECIFICATION BuiltSpec
CONSTANTS
    Name <- MCName
    Expr <- MCExpr
    ToElement <- MCToElement
    Undeclared = Undeclared
    MaxItems = 5
    MaxFuns = 1
INVARIANTS
    DominatorsTypeOK
    NeverAborts
    IdomCorrect
    FrontierCorrect
    TreeSpansReachable
PROPERTY
    TerminatesOnLive
CHECK_DEADLOCK FALSE
