SPECIFICATION ConversationsSpec
CONSTANTS
    People = {me, u1}
    Me = me
    Chats = {1, 2}
    Requests = {q1, q2}
    Options = {plain, dark}
    Plain = plain
    None = None
    MaxAsks = 4
INVARIANTS MembersStay
CHECK_DEADLOCK FALSE
