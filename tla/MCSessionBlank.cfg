CONSTANTS
    Delta = 1
    MinRead = 8
    Lines <- InsertOnly
    MaxLines = 3
    ReplyLength = 3
    SendRoom = 6
    Pipelining = FALSE
    Splitting = FALSE
    Blanks = TRUE
    Closing = FALSE
    Asserts = TRUE
SPECIFICATION Spec
INVARIANT StillListening
CHECK_DEADLOCK FALSE
