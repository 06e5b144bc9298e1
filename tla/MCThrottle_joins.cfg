\* One caller tries two codes, with clocks up to a window late.
SPECIFICATION Spec
CONSTANTS
    Calls = {x1, x2}
    Trees = {"admission"}
    Codes = {k1, k2}
    Ips = {a1}
    Uids = {u1}
    Limits <- MCLimits
    Window = 2
    MaxLag = 2
    MaxTime = 5
    None = None
SYMMETRY MCSymmetry
INVARIANTS CountsAdmissions BurstBounded LockoutBrief
