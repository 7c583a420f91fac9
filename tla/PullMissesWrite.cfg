SPECIFICATION Spec
CONSTANTS
    Forms = {f1, f2}
    Writers = {w1, w2}
    Pulls = {p1}
    Advance <- Strict
    MaxWrites = 3
CHECK_DEADLOCK FALSE
INVARIANTS
    HeldIsASnapshot
