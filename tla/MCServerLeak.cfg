CONSTANTS
    Clients = {c1, c2, c3}
    NoClient = NoClient
    MaxOpen = 1
    Descriptors = 2
SPECIFICATION Spec
PROPERTY EveryConnectionServed
CHECK_DEADLOCK FALSE
