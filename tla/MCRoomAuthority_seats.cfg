\* Joins, GM claims and recoveries around a command of another build.
SPECIFICATION Spec
CONSTANTS
    c1 = c1 c2 = c2
    Uids = {u1, u2, u3, u4}
    Members = {m1, m2, m3}
    Codes = {k1, k2, k3, k4, k5}
    CommandIds = {c1}
    Kind <- MCForeign
    Batches <- MCSharedOnly
    MaxSeats = 2
    None = None
SYMMETRY MCSymmetry
INVARIANTS IndexSound OccupancyExact GmAgreed SeatedCanReturn
PROPERTIES RedemptionRotatesCode
