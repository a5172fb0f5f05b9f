CONSTANTS
    ThreadCount = 2
    Incoming = {c1, c2, c3}
    Outgoing = {o1}
    MaxFailures = 1
    NoConn = NoConn

SPECIFICATION FairSpec

INVARIANT OneOwner
INVARIANT NoLostTrigger
PROPERTY QueueIsDrained
PROPERTY DroppedAreSwept

CHECK_DEADLOCK FALSE
