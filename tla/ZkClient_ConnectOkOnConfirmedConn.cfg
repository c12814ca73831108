CONSTANTS
    Nodes <- MCNodes
    MaxConnects = 2
    MaxLibSteps = 6
    MaxChildChanges = 2
    MaxWatchCalls = 1

SPECIFICATION Spec

INVARIANT ConnectOkOnConfirmedConn

CHECK_DEADLOCK FALSE
