CONSTANTS
    r1 = r1
    r2 = r2
    b1 = b1
    b2 = b2
    c1 = c1
    c2 = c2
    Revisions = {r1, r2}
    Blobs = {b1, b2}
    Content <- ContentValue
    Callers = {c1, c2}
    Stored = {r1, r2}
    Legacy = {r1}
    MinAge = 2
    MaxTime = 3
    None = None
SPECIFICATION Spec
INVARIANTS RootsWhole PinsStay OwnObjectsStay
CHECK_DEADLOCK TRUE
