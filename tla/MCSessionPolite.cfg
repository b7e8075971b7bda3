CONSTANTS
    Delta = 1
    MinRead = 8
    Lines <- MCLines
    MaxLines = 6
    ReplyLength = 3
    SendRoom = 6
    Pipelining = FALSE
    Splitting = FALSE
    Blanks = FALSE
    Closing = TRUE
    Asserts = TRUE
SPECIFICATION Spec
INVARIANTS Ledger HeardAsSent WireIntact RegionsLive StaysUp
PROPERTIES KeepsPromise EveryCommandAnswered
CHECK_DEADLOCK FALSE
