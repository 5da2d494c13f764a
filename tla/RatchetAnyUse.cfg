\* Every kind of message, outcome and path; either side may start; reloads at
\* any moment.
SPECIFICATION Spec
CONSTANTS
    a = a
    b = b
    None = None
    Party <- MCParty
    Initiator <- MCParty
    Kind = {"text", "file"}
    Outcome = {"acknowledged"}
    Path = {"history", "socket"}
    PromptReload = TRUE
    MaxSkip = 2
    MaxSend = 3
    MaxReload = 1
    MaxFailure = 1
SYMMETRY Exchange
INVARIANTS UniqueMessageKeys
CHECK_DEADLOCK FALSE
