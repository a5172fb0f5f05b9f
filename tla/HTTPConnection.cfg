SPECIFICATION FairSpec
CONSTANTS
    Workers = {w1, w2}
    Loop = loop
    MaxRequests = 2
    Frames = {"ping", "close"}
    MaxFrames = 2
    Upgraders = {loop}
    LateThrows = FALSE
INVARIANTS AnsweredOnce AcceptedFramesAreRead
 
PROPERTY EveryRequestIsAnswered
CHECK_DEADLOCK FALSE
