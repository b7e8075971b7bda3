CONSTANTS
    Delta = 1
    MinRead = 4
    Lines <- OneLine
    MaxLines = 1
    ReplyLength = 3
    SendRoom = 4
    Pipelining = TRUE
    Splitting = FALSE
    Blanks = FALSE
    Closing = FALSE
    Asserts = FALSE
SPECIFICATION Spec
INVARIANT WireIntact
CHECK_DEADLOCK FALSE
