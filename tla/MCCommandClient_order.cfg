\* Two tabs, two ordinary commands, a reload.
SPECIFICATION Spec
CONSTANTS
    Tabs = {t1, t2}
    Commands = {c1, c2}
    Pauses = {}
    MaxPending = 2
    MaxReloads = 1
    None = None
SYMMETRY MCSymmetry
INVARIANTS TypeOK LearnedIsTrue NothingForgotten AppliedInIssueOrder
