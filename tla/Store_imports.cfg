CONSTANTS
    m1 = m1
    m2 = m2
    b1 = b1
    b2 = b2
    Live = {m1, m2}
    Backup = {b1, b2}
    WithMedia = {m2, b1, b2}
    Final = {b1}
    DateOf <- Dates
    Start = 1
    Loaders = {i1, i2}
    Limit = 3
    Chunk = 1
    MaxRestarts = 1
SPECIFICATION Spec
SYMMETRY Interchangeable
INVARIANTS
    TypeOK
    ImportsAreComplete
    FilesExist
    OnlyLoadsForget
PROPERTIES
    StoredForGood
CHECK_DEADLOCK FALSE
