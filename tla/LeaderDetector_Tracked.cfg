\* The detector converges on the leader once its connection stays up.
CONSTANTS
    MaxCreates = 4
    MaxFlaps = 2
    FirstSeq <- MCWidthBoundary
    NoLeader = NoLeader
    Unknown = Unknown

SPECIFICATION Spec

PROPERTY LeaderTracked

CHECK_DEADLOCK FALSE
