\* A lost or expired session is reported to the error watcher.
CONSTANTS
    Nodes <- MCNodes
    MaxConnects = 2
    MaxLibSteps = 6
    MaxChildChanges = 2
    MaxWatchCalls = 1

SPECIFICATION Spec

PROPERTY SessionLossReported

CHECK_DEADLOCK FALSE
