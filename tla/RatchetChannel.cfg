\* One side starts the conversation; text messages, stored and acknowledged,
\* opened from the history in any order: the abstract channel.
SPECIFICATION FairSpec
CONSTANTS
    a = a
    b = b
    None = None
    Party <- MCParty
    Initiator <- OnlyA
    Kind = {"text"}
    Outcome = {"acknowledged"}
    Path = {"history"}
    PromptReload = FALSE
    MaxSkip = 2
    MaxSend = 4
    MaxReload = 1
    MaxFailure = 1
INVARIANTS KeysForgotten UnreadStaysReadable
PROPERTIES DeliversMessages
CHECK_DEADLOCK FALSE
