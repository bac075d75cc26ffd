\* Three transactions that may write one entity, change the table catalog, or both:
\* the entity and the catalog are the two objects a view could mix.
SPECIFICATION Spec
CONSTANTS
    t1 = t1
    t2 = t2
    t3 = t3
    k1 = k1
    Txns = {t1, t2, t3}
    Keys = {k1}
    CatalogTxns = {t1, t2, t3}
    MaxWal = 2
SYMMETRY Symmetry
INVARIANTS
    TypeOK
    NoLostUpdate
    ViewsArePrefixes
    FirstCommitterWins
    AcknowledgedIsVisible
    RevisionsCoverPins
PROPERTIES
    ConflictIsReal
    IsIsolated
CHECK_DEADLOCK FALSE
