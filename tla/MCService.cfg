CONSTANTS
    e1 = e1
    e2 = e2
    b1 = b1
    b2 = b2
    x = x
    y = y
    Calls = {e1, e2}
    Commands <- Kinds
    MaxCuts = 1
    n1 = n1
    n2 = n2
    Numbers = {n1, n2}
    Certifiers = {b1, b2}
    Dirs = {x, y}
    None = None
    MaxRequests = 2
SYMMETRY Swaps
SPECIFICATION Spec
INVARIANTS TypeOK Sanctioned LedgerTellsTrue AnsweredIsOnRecord CertificateStands
CHECK_DEADLOCK FALSE
