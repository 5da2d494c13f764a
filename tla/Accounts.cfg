\* Two browsers, two passphrases, two requests at once.
SPECIFICATION Spec
CONSTANTS
    None = None
    b1 = b1
    b2 = b2
    p1 = p1
    p2 = p2
    c1 = c1
    c2 = c2
    Browsers = {b1, b2}
    Passphrases = {p1, p2}
    Calls = {c1, c2}
    MaxDrawn = 3
    MaxEvents = 1
SYMMETRY Alike
INVARIANTS LoginOpensAccount VaultOpensWithWords SignInRestoresIdentity
CHECK_DEADLOCK FALSE
