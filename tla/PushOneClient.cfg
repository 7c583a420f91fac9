SPECIFICATION FairSpec
CONSTANTS
    Ids = {s1, s2}
    Procs = {p1}
    NoProc = NoProc
    Slots = {h1, h2}
    Forms = {f1}
    FormOf <- OneForm
    Valid <- OneInvalid
    MaxRetries = 2
    BaseBackoff = 1
    MaxBackoff = 3
    MaxCopies = 1
    MaxCrashes = 1
    MaxDeletes = 1
INVARIANTS
    TypeOK
    AbandonedMeansExhausted
    QueuedStaysQueued
    SyncedIsOnServer
    UploadsBounded
PROPERTIES
    ReportsAreFinal
    DeliveredItemsAreSynced
    RetriesAreSpaced
    KeepsPromise
    QueueDrains
CHECK_DEADLOCK FALSE
