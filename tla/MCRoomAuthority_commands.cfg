\* Commands with retries, guards and Pause, among joins, recoveries and archival.
SPECIFICATION Spec
CONSTANTS
    c1 = c1 c2 = c2
    Uids = {u1, u2}
    Members = {m1, m2}
    Codes = {k1, k2, k3}
    CommandIds = {c1, c2}
    Kind <- MCActionAndPause
    Batches <- MCBatches
    MaxSeats = 2
    None = None
SYMMETRY MCSymmetry
INVARIANTS EventLogOrdered ProjectionsCurrent
PROPERTIES PlatformHolds HistoryPermanent RefinesCommandService
