SPECIFICATION Spec
CONSTANTS
    Ids = {s1, s2}
    Procs = {p1, p2}
    NoProc = NoProc
    Slots = {h1}
    Forms = {f1}
    FormOf <- OneForm
    Valid <- AllValid
    MaxRetries = 2
    BaseBackoff = 1
    MaxBackoff = 3
    MaxCopies = 1
    MaxCrashes = 0
    MaxDeletes = 0
INVARIANTS
    QueuedStaysQueued
CHECK_DEADLOCK FALSE
