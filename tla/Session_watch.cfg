CONSTANTS
    Tasks = {t1, t2}
    Watchers = {w1, w2}
    Clients = {c1, c2}
    None = None
    Previous = Previous
    Requests = {"connect", "pair", "disconnect", "logout", "probe", "send"}
    Threshold = 1
    MaxInbox = 2
SPECIFICATION Spec
SYMMETRY Interchangeable
INVARIANTS
    TypeOK
    OneWatcher
    WatchedWhileConnected
    LoggedOutMeansWiped
CHECK_DEADLOCK FALSE
