\* Any checkpoint file may fail its checksum, a file two manifests share included.
SPECIFICATION Spec
CONSTANTS
    MaxTx = 1
    MaxGen = 2
    MaxGroup = 1
    MaxWal = 3
    Damage = "any"
INVARIANTS
    OpenHoldsAcknowledged
CHECK_DEADLOCK FALSE
