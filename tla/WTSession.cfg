CONSTANTS
    MaxHandles = 3
    MaxImpls = 2
    MaxFailed = 1
    Scoped = TRUE
    MaxKey = 3
    Values = {v1}
    Absent = Absent
    MaxObjects = 4
    MaxIterators = 1
    MaxWrites = 2

SPECIFICATION SessionSpec

INVARIANT ImplDiesWithLastHandle
INVARIANT CounterIsPending
INVARIANT SessionOutlivesCursors
INVARIANT IterationIsExact
PROPERTY ImplementsStore

CHECK_DEADLOCK FALSE
