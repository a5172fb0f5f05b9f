CONSTANTS
    w1 = w1
    w2 = w2
    Loop = loop
    Workers = {w1, w2}
    Droppers = {w2}
    MaxItems = 2
    Size <- MCSize2
    MaxDummies = 1

SPECIFICATION Spec

INVARIANT QueueInOrder
INVARIANT CallbacksInOrder
INVARIANT FilterIsRegistered
INVARIANT ClosedOnce
INVARIANT RegisteredNodeIsOwned
PROPERTY ImplementsChannel

CHECK_DEADLOCK FALSE
