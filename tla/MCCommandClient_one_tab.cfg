\* One tab with a fair sync loop, an ordinary command and a Pause, an outbox of one.
SPECIFICATION FairSpec
CONSTANTS
    Tabs = {t1}
    Commands = {c1, p1}
    Pauses = {p1}
    MaxPending = 1
    MaxReloads = 1
    None = None
PROPERTIES SavedCommandsSettle WaitingCallsSettle
