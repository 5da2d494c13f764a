\* One message, posted by the composer, two overlapping flushes and the worker;
\* one call at a time, the page reloaded at any await.
SPECIFICATION SendingSpec
CONSTANTS
    m1 = m1
    r1 = r1
    r2 = r2
    Message = {m1}
    Disappearing = {m1}
    Poster <- Posters
    Run = {r1, r2}
    Quota = 2
    MaxPost = 3
    MaxChange = 1
    MaxReload = 1
    us = us
    them = them
    None = None
    Party <- Parties
    Encryption = {11, 12, 13}
    Decryption = {21, 22}
    MaxSkip = 2
    MaxConcurrent = 1
    MaxRestart = 1
    MaxReply = 3
    PeerStarts = TRUE
INVARIANTS AnswersHold QueuedIsKept SentMessagesStand CallsAreAtomic
CHECK_DEADLOCK FALSE
