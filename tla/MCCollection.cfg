\* Handles with copying capped at one entity and uncapped, and with a generation
\* budget of two or of all four slots, follow one another.
SPECIFICATION Spec
CONSTANTS
    MaxEntity = 3
    MaxGen = 5
    MaxSlots = 4
    GenerationLimits = {2, 4}
    CollectLimits = {0, 1}
    Num = 3
    Den = 4
INVARIANTS
    TypeOK
    OccupancyIsExact
    LocatorsResolve
    ManifestFits
PROPERTIES
    GenerationBudgetHolds
    CopyingIsBounded
