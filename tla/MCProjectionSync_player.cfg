\* One tab of a player: an own resolution with its injury choice among notices.
SPECIFICATION FairSpec
CONSTANTS
    None = None
    Actions = {action}
    choice = choice
    declared = declared
    Notes = {n1}
    Tabs = {t1}
    Capability = "player"
    EventIds <- MCEventIds
    Events <- MCEvents
    Unique = {action, choice, declared}
    Resolutions = {action}
    ChoiceOf <- MCChoiceOf
    PageLimit = 1
    PagesPerSync = 2
    MaxAcknowledged = 3
    MaxPending = 2
    MaxSequenceLag = 1
    MaxBatch = 1
    MaxSequence = 3
    MaxFaults = 2
INVARIANTS NothingSkipped PagesLeaveNoGap ReceiptsOutliveFailures ChoicesWaitForSummaries
PROPERTIES ShownUntilHandled EventsGetShown
