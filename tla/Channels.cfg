SPECIFICATION ChannelsSpec
CONSTANTS
    c = c
    u1 = u1
    d1 = d1
    d2 = d2
    e1 = e1
    Creator = c
    Subscribers = {u1}
    Device <- OneDevice
    SignOuts = {e1}
    g1 = g1
    g2 = g2
    Dialogs = {g1, g2}
    ListLimit = 1
    Posts = {p1}
    Messages = {}
    Runs = {r1}
    RunLimit = 1
    MaxThrows = 1
    PendingLimit = 1
    MaxKey = 2
    MaxEvents = 2
    OverlapWeight = 2
INVARIANTS OneChannelKey
PROPERTIES SubscribersRead
CHECK_DEADLOCK FALSE
