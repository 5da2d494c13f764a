\* Two tabs of one browser; a user with one device.
\* Two recordings and a file; two faults, refusals or deletions.
SPECIFICATION RoomsSpec
CONSTANTS
    p1 = p1
    p2 = p2
    d1 = d1
    u1 = u1
    None = None
    Pages = {p1, p2}
    Devices = {d1}
    Users = {u1}
    DeviceOf <- Tabs
    UserOf <- OneUser
    Sockets = {1, 2, 3}
    Kinds = {"audio", "video"}
    Sizes = {4, 8}
    Window = 1
    Idle = 1
    Limit = 1
    MaxFps <- Fps
    MaxFrame <- FrameLength
    MaxBytes = 7
    MaxTime = 2
    MaxEvents = 3
    f1 = f1
    Notes = {1, 2}
    Files = {f1}
    NoNote = 0
    Quota = 1
    MaxMedia = 2
INVARIANTS RelayedWithinLimit FramesWithinLimit GoneIsOffline NotesArriveOnce
PROPERTIES StaysConnected RecordingEnds
CHECK_DEADLOCK FALSE
