\* Leader resolution once the election root's cversion is negative.
CONSTANTS
    MaxCreates = 2
    MaxFlaps = 1
    FirstSeq <- MCNegativeSeq
    NoLeader = NoLeader
    Unknown = Unknown

SPECIFICATION Spec

PROPERTY LeaderRefined

CHECK_DEADLOCK FALSE
