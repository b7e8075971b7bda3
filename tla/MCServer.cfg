CONSTANTS
    Clients = {c1, c2, c3}
    NoClient = NoClient
    MaxOpen = 3
    Descriptors = 2
SPECIFICATION Spec
INVARIANTS TypeOK HandlersLive OneAccept OnePlace
PROPERTIES SignalEndsMain ServedWhileTheyLast
CHECK_DEADLOCK FALSE
