CONSTANTS
    MaxStarts = 2
    MaxOffers = 1

SPECIFICATION Spec

INVARIANT AbortedDisconnected
