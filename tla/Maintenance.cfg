\* Three requests for bundles, refills of a low stock, rotations, a login and the
\* maintenance task, statement by statement.
SPECIFICATION MaintenanceSpec
CONSTANTS
    f1 = f1
    f2 = f2
    f3 = f3
    load = load
    worker = worker
    None = None
    Fetcher <- ThreeFetchers
    Checker <- Checkers
    Registered = 2
    Batch = 2
    Threshold = 2
    Attempts = 2
    MaxRotation = 1
    MaxRefill = 3
    MaxLogin = 1
    Posts = {p1}
    Messages = {m1}
    Runs = {r1, r2}
    RunLimit = 1
    MaxThrows = 1
INVARIANTS FirstBundlesAgree
PROPERTIES DispensesKeys Replenished SettledIsNotSent DueIsStored
CHECK_DEADLOCK FALSE
