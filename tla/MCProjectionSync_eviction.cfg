\* As in the code, the list of acknowledged events is longer than the lag and shorter
\* than twice the lag, and as many events may wait.  Several resolutions do.
SPECIFICATION MCSpec
CONSTANTS
    None = None
    choice = choice
    declared = declared
    Actions = {a1, a2, a3}
    Notes = {n1, n2, n3}
    Tabs = {t1}
    Capability = "player"
    EventIds <- MCEventIds
    Events <- MCNotices
    Unique <- MCEventIds
    Resolutions = {a1, a2, a3}
    ChoiceOf <- MCChoiceOf
    PageLimit = 6
    PagesPerSync = 2
    MaxAcknowledged = 4
    MaxPending = 4
    MaxSequenceLag = 3
    MaxBatch = 2
    MaxSequence = 6
    MaxFaults = 1
INVARIANTS NeverReplayed
