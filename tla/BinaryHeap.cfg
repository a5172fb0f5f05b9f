SPECIFICATION Spec
CONSTANTS
    Records <- MCRecords
    IterPrefixes <- MCPrefixes
    MaxRecords = 5
    MaxRestarts = 2
INVARIANTS PublishedIsSorted IterationFindsAll
CHECK_DEADLOCK FALSE
