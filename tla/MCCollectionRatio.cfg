\* A ratio of one quarter, where live share and superseded share tell apart.
SPECIFICATION Spec
CONSTANTS
    MaxEntity = 4
    MaxGen = 3
    MaxSlots = 5
    GenerationLimits = {3}
    CollectLimits = {0}
    Num = 1
    Den = 4
PROPERTIES
    CollectedOnceSuperseded
