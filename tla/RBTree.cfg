SPECIFICATION Spec
CONSTANTS
    Keys <- MCKeys
    IterPrefixes <- MCPrefixes
    MaxInserts = 8
    MaxVaried = 4
INVARIANTS IsRedBlackTree GetFindsLatest IterationIsComplete
CHECK_DEADLOCK FALSE
