CONSTANTS
    Delta = 1
    MinRead = 4
    Lines <- OneLine
    MaxLines = 2
    ReplyLength = 2
    SendRoom = 3
    Pipelining = TRUE
    Splitting = TRUE
    Blanks = TRUE
    Closing = FALSE
    Asserts = FALSE
SPECIFICATION Spec
INVARIANTS TypeOK Ledger WordsBeginInOrder
CHECK_DEADLOCK FALSE
