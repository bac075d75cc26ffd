\* A crash between any two steps; while the database is closed, a file that only
\* the newest checkpoint wrote may come to fail its checksum.
SPECIFICATION Spec
CONSTANTS
    MaxTx = 3
    MaxGen = 3
    MaxGroup = 2
    MaxWal = 2
    Damage = "newest"
INVARIANTS
    TypeOK
    RecoverySucceeds
    OpenHoldsAcknowledged
    WalFramesExact
    GenerationIsFresh
PROPERTIES
    KeepsPromise
CHECK_DEADLOCK FALSE
