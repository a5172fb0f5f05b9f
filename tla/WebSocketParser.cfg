SPECIFICATION Spec
CONSTANTS
    FrameSet <- MCFrames
    MaxFrames = 3
    Escape = 2
    WideSize = 3
    ChopLimit = 6
INVARIANTS FramesArePrefix NothingLeftBehind BufferIsBounded
CHECK_DEADLOCK FALSE
