CONSTANTS
    Origins = {o1}
    Upstreams = {u1, u2}
    Others = {x1}
    None = None
    MaxAddresses = 2
    MaxRetries = 2
    MaxReplies = 2
SPECIFICATION AwaitFairSpec
INVARIANT DescriptorsHaveOwners
INVARIANT NothingDangles
PROPERTY ReplyReachesOrigin
PROPERTY DroppedIsFreed
CHECK_DEADLOCK FALSE
