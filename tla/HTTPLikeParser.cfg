SPECIFICATION HTTPSpec
CONSTANTS
    Messages <- MCMessages
    MaxMessages = 2
CONSTRAINT NotTorn
INVARIANTS MessagesArePrefix EveryMessageIsParsed
CHECK_DEADLOCK FALSE
