SPECIFICATION FairOrderedSpec
CONSTANTS
    Forms = {f1, f2}
    Writers = {w1, w2}
    Pulls = {p1}
    Advance <- Loose
    MaxWrites = 4
CHECK_DEADLOCK FALSE
INVARIANTS
    TypeOK
    HeldIsASnapshot
PROPERTIES
    MirrorsServer
    CatchesUp
