CONSTANTS
    Clients = {c1, c2}
    Descriptors = 2
    Pieces = 2
    NoClient = NoClient
SPECIFICATION Spec
INVARIANTS TypeOK OneOperation Managed AcceptOutstanding
PROPERTIES HangsUpWhenDone EveryConnectionServed EveryRequestAnswered SignalEndsRun
CHECK_DEADLOCK FALSE
