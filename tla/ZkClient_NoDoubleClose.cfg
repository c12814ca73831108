CONSTANTS
    Nodes <- MCNodes
    MaxConnects = 2
    MaxLibSteps = 6
    MaxChildChanges = 2
    MaxWatchCalls = 1

SPECIFICATION Spec

INVARIANT NoDoubleClose

CHECK_DEADLOCK FALSE
