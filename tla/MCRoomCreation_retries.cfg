\* Two tabs, two identities, two requests, colliding codes.
SPECIFICATION Spec
CONSTANTS
    Tabs = {t1, t2}
    Identities = {i1, i2}
    Requests = {q1, q2}
    Codes = {k1, k2}
    Rooms = {r1, r2}
    Passphrases = {p1}
    MaxAttempts = 2
    None = None
SYMMETRY MCSymmetry
INVARIANTS RoomsAccounted SecretsOnce OnlyCreatorTold
\* Once every tab is closed and the request IDs are used up, nothing happens.
CHECK_DEADLOCK FALSE
