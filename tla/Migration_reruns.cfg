CONSTANTS
    p1 = p1
    p2 = p2
    Order <- MCOrder
    Numbered = {"rules"}
    Legacy <- MCLegacy
    Top <- MCTop
    Keys <- MCKeys
    Clients = {p1, p2}
    MaxRuns = 2
    MaxSeq = 4
SPECIFICATION Spec
INVARIANTS
    NumbersCovered
    NothingLeftBehind
SYMMETRY Symmetric
CHECK_DEADLOCK FALSE
