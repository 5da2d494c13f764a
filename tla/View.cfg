\* Two conversations: three messages, one load of an older page, three events;
\* two texts, three boxes, two posts, the page loaded twice, one kind of overlap.
SPECIFICATION PaneSpec
CONSTANTS
    a = a
    b = b
    m1 = m1
    m2 = m2
    s1 = s1
    Chats = {a, b}
    Messages = {m1, m2, s1}
    ChatOf <- Home
    Own = {m1}
    Local = {s1}
    Media = {m2}
    Reactors = {me, u1}
    Me = me
    Glyphs = {g1, g2}
    None = None
    Loads = {l1}
    MaxLists = 2
    MaxRows = 3
    MaxEvents = 3
    Talks = {a, b}
    NoChat = NoChat
    MaxTexts = 2
    MaxBoxes = 3
    MaxPosts = 2
    MaxLoads = 2
    MaxSlips = 1
INVARIANTS RowsFollowTheList TypedIsKept SentOnceToItsChat
PROPERTIES DeletedStaysDeleted
CHECK_DEADLOCK FALSE
