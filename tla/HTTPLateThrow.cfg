SPECIFICATION Spec
CONSTANTS
    Workers = {w1, w2}
    Loop = loop
    MaxRequests = 2
    Frames = {"ping", "text", "close"}
    MaxFrames = 2
    Upgraders = {loop}
    LateThrows = TRUE
INVARIANT AnsweredOnce
CHECK_DEADLOCK FALSE
