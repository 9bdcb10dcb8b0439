SPECIFICATION Spec
CONSTANTS
    Sketch <- MCSketch
    Ids <- MCIds
    Integers <- MCIntegers
    Floats <- MCFloats
INVARIANTS TextKept MeaningKept WellTyped
CHECK_DEADLOCK FALSE
