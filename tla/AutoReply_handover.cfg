CONSTANTS
    m1 = m1
    m2 = m2
    m3 = m3
    a = a
    Msgs = {m1, m2, m3}
    Chats = {a}
    ChatOf <- OneChat
    Kinds = {"contact", "owner", "mute", "unmute", "off", "pause", "panelSend", "panelOn"}
    NoReply = NoReply
    Delay = 1
    ReadHold = 2
    Snooze = 1
    Cooldown = 0
    PauseFor = 1
    EchoOwnSends = TRUE
    MaxRestarts = 1
SPECIFICATION Spec
SYMMETRY Interchangeable
INVARIANTS
    TypeOK
    SlotMatchesWorkers
    OwnerBeatsRegistered
    MuteBeatsRegistered
