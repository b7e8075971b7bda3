CONSTANTS
    Delta = 1
    MinRead = 4
    Lines <- OneLine
    MaxLines = 2
    ReplyLength = 3
    SendRoom = 6
    Pipelining = TRUE
    Splitting = FALSE
    Blanks = FALSE
    Closing = FALSE
    Asserts = TRUE
SPECIFICATION Spec
INVARIANT StaysUp
CHECK_DEADLOCK FALSE
