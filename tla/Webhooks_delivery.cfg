CONSTANTS
    h1 = h1
    h2 = h2
    h3 = h3
    Hooks = {h1, h2, h3}
    Types = {"message", "qr"}
    Subscribed <- Asked
    Default <- OnlyDefault
    MaxEvents = 2
    MaxFailures = 1
    MaxRestarts = 1
SPECIFICATION FairSpec
INVARIANTS
    TypeOK
    InOrderOnce
    EveryoneHears
    RemovedHearNothingNew
PROPERTIES
    EventsAreHandled
CHECK_DEADLOCK FALSE
