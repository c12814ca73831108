\* Leader resolution implements LeaderView while the names keep a fixed width.
CONSTANTS
    MaxCreates = 4
    MaxFlaps = 2
    FirstSeq <- MCWidthBoundary
    NoLeader = NoLeader
    Unknown = Unknown

SPECIFICATION Spec

INVARIANT TypeOK
PROPERTY LeaderRefined

\* The detector only observes: once masters stop changing, it waits.
CHECK_DEADLOCK FALSE
