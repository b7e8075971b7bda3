CONSTANTS
    MaxLength = 24
    MaxText = 1
    MaxHeaders = 1
    MaxUri = 6
SPECIFICATION HandlerSpec
INVARIANTS VerdictIsRight RequestIsMeant BackExists FileIsMeant PathStaysInside TypeIsOfFile ReplyIsFramed
CHECK_DEADLOCK FALSE
