\* Lifecycle refinement and Join progress.
CONSTANTS
    MaxStarts = 2
    MaxOffers = 1

SPECIFICATION Spec

PROPERTY LifecycleRefined
PROPERTY JoinReturns
