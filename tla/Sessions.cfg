\* One tab, two calls, two exchanges and two polls at once.
SPECIFICATION FairSpec
CONSTANTS
    t1 = t1
    r1 = r1
    r2 = r2
    x1 = x1
    x2 = x2
    p1 = p1
    p2 = p2
    Tabs = {t1}
    Requests = {r1, r2}
    Exchanges = {x1, x2}
    Polls = {p1, p2}
    MaxSession = 3
    MaxEvents = 2
INVARIANTS IndexKnowsSessions
PROPERTIES StaysSignedIn CallsAreAnswered QrSignsIn
CHECK_DEADLOCK FALSE
