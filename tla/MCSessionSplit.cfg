CONSTANTS
    Delta = 1
    MinRead = 8
    Lines <- InsertOnly
    MaxLines = 1
    ReplyLength = 3
    SendRoom = 6
    Pipelining = FALSE
    Splitting = TRUE
    Blanks = FALSE
    Closing = FALSE
    Asserts = TRUE
SPECIFICATION Spec
PROPERTY EveryCommandAnswered
CHECK_DEADLOCK FALSE
