\* Two partitions, the first with room for two levels of branches; three
\* checkpoints, so that a carried partition is renumbered more than once.
SPECIFICATION Spec
CONSTANTS
    MaxId = 3
    Width = 3
    LeafCapacity = 1
    BranchCapacity = 2
    MaxGen = 3
INVARIANTS
    MapAgrees
    DirectoryAgrees
