SPECIFICATION Spec
CONSTANTS
    Keys = {1, 2, 3}
    Vals = {1}
    Hash <- TableHash
    InitSize = 1
    ForceResize = 1
    MaxNodes = 3
INVARIANT TableIsMap
CHECK_DEADLOCK FALSE
