CONSTANTS
    Tasks = {t1, t2}
    Watchers = {w1}
    Clients = {c1}
    None = None
    Previous = Previous
    Requests = {"connect", "disconnect", "logout", "probe", "send"}
    Threshold = 1
    MaxInbox = 2
SPECIFICATION FairSpec
PROPERTIES
    SessionLossNoticed
CHECK_DEADLOCK FALSE
