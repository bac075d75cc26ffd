\* A snapshot with its cursors and a transaction share the permits; a second
\* transaction waits for one.
SPECIFICATION CursorSpec
CONSTANTS
    Handles = {s1, t1, t2}
    Txns = {t1, t2}
    MaxSnapshots = 2
    MaxTransactions = 1
    Lifetime = 2
    IdleLimit = 1
    OperationLimit = 1
    Histories <- MCHistories
    MaxEvents = 2
    MaxBytes = 3
INVARIANTS
    UsageIsExact
    CursorReadsItsRange
PROPERTIES
    AbandonedStatesGo
