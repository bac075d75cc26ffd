\* Three callers with requests of one or two bytes; the queue admits two requests or
\* three bytes, a group holds two requests or two bytes.
SPECIFICATION Spec
CONSTANTS
    c1 = c1
    c2 = c2
    c3 = c3
    Callers = {c1, c2, c3}
    Sizes = {1, 2}
    MaxQueued = 2
    MaxQueuedBytes = 3
    MaxTransactions = 2
    MaxBytes = 2
INVARIANTS
    TypeOK
    CapacityIsExact
    ClaimedHaveALeader
    ExpiredNeverCommits
PROPERTIES
    EveryCommitReturns
    LeadershipIsHandedBack
CHECK_DEADLOCK FALSE
