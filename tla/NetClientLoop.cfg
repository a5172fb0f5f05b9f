CONSTANTS
    w1 = w1
    w2 = w2
    Loop = loop
    Workers = {}
    Droppers = {}
    MaxItems = 3
    Size <- MCSize3
    MaxDummies = 2

SPECIFICATION FairSpec

INVARIANT CbOnOwnedClient
INVARIANT ArmedWhenPending
PROPERTY EveryItemCompletes

CHECK_DEADLOCK FALSE
