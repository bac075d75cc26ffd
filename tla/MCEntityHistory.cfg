\* One entity with two interchangeable fields, versions 0..3, three transactions
\* of two requests each, two checkpoints; an automatic snapshot every second
\* version, automatic retention of one event or none.
SPECIFICATION Spec
CONSTANTS
    f1 = f1
    f2 = f2
    Fields <- MCFields
    Counts = {0, 1}
    Intervals = {2}
    Retentions = {Unlimited, 1}
    MaxVersion = 3
    MaxLsn = 3
    MaxGen = 2
    MaxOps = 2
    Unlimited = Unlimited
SYMMETRY FieldSymmetry
INVARIANTS
    EveryVersionReads
    EventsAreWhole
    CheckpointIsWritable
