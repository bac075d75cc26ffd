\* Two leaders of commit groups and one caller of the maintenance API.
SPECIFICATION JobsSpec
CONSTANTS
    w1 = w1
    w2 = w2
    c1 = c1
    Writers = {w1, w2}
    Callers = {c1}
    CheckpointBytes = 2
    MaxWal = 3
    MaxGroup = 3
    RecoveredWal = 4
INVARIANTS
    TypeOK
    OneJob
    TailHasAJob
PROPERTIES
    WaitReportsFailure
    DueWalDrains
