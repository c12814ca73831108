\* A timed-out connection is left open when connect() retries.
CONSTANTS
    Nodes <- MCNodes
    MaxConnects = 2
    MaxLibSteps = 6
    MaxChildChanges = 2
    MaxWatchCalls = 1

SPECIFICATION Spec

INVARIANT OnlyCurrentConnOpen

CHECK_DEADLOCK FALSE
