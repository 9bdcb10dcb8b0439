CONSTANTS
    alloca1 = alloca1
    load1 = load1
    phi1 = phi1
    store1 = store1
    c1 = c1
    bb1 = bb1
    Instr <- MCInstr
    Leaf <- MCLeaf
    Phi <- MCPhi
    Void <- MCVoid
    Alloca <- MCAlloca
    Block <- MCBlock
    MaxOps = 4
SPECIFICATION SpecConstProp
INVARIANT NeverAborts
CHECK_DEADLOCK FALSE
