\* Without callers of the maintenance API every job is automatic.
SPECIFICATION JobsSpec
CONSTANTS
    w1 = w1
    w2 = w2
    c1 = c1
    Writers = {w1, w2}
    Callers = {}
    CheckpointBytes = 2
    MaxWal = 3
    MaxGroup = 3
    RecoveredWal = 4
PROPERTIES
    NoRetryAfterFailure
