CONSTANTS
    e1 = e1
    e2 = e2
    s1 = s1
    Digits = {1, 2, 3, 4}
    Numbers <- MCNumbers
    SuffixMin = 2
    DialMin = 3
    DialMax = 4
    MaxContacts = 2
    MaxBulk = 2
    Editors = {e1, e2}
    Senders = {s1}
    None = None
    Names <- MCNames
    Alias <- MCAlias
    Near <- MCNear
    Known <- MCKnown
SPECIFICATION Spec
INVARIANTS
    TypeOK
    DuplicatesOnlyFromRaces
    SentWasAllowed
    ReportMatches
SYMMETRY Symmetric
CHECK_DEADLOCK FALSE
