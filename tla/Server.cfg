\* A group: three members, one page, two moderations at once.
\* Conversations: of two people, two requests at once, four in all.
\* A meeting: two attendees, two joins at once.
SPECIFICATION ServerSpec
CONSTANTS
    c = c
    u1 = u1
    u2 = u2
    q1 = q1
    q2 = q2
    Users <- Everyone
    Creator = c
    Pages = {u1}
    Moderations = {q1, q2}
    MaxPosted = 4
    MaxKey = 2
    MaxEvents = 2
    People = {me, u1}
    Me = me
    Chats = {1, 2, 3}
    Requests = {q1, q2}
    Options = {plain, dark}
    Plain = plain
    None = None
    MaxAsks = 4
    Attendees = {c, u2}
    Host = c
    Roles = {"host", "participant"}
    Joins = {q1, q2}
    MaxMeets = 4
SYMMETRY Interchange
INVARIANTS MessagesHaveKeys NoMoreThanOverlapped PageAgrees LiveIsListed
PROPERTIES CreatorKeepsRole
CHECK_DEADLOCK FALSE
