\* Two entities, one of them stored; two handles; the checkpoint found at open
\* and two more.
SPECIFICATION Spec
CONSTANTS
    Keys = {k1, k2}
    Stored = {k1}
    Handles = {h1, h2}
    NoKey = NoKey
    MaxGen = 2
INVARIANTS
    ReadableFilesExist
