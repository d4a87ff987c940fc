CONSTANTS
    m1 = m1
    m2 = m2
    m3 = m3
    a = a
    Msgs = {m1, m2, m3}
    Chats = {a}
    ChatOf <- OneChat
    Kinds = {"contact", "owner"}
    NoReply = NoReply
    Delay = 1
    ReadHold = 0
    Snooze = 1
    Cooldown = 0
    PauseFor = 1
    EchoOwnSends = FALSE
    MaxRestarts = 0
SPECIFICATION FairSpec
PROPERTIES
    CancelledIfOwnerRepliesFirst
