SPECIFICATION Spec
CONSTANTS
    s1 = s1
    s2 = s2
    s3 = s3
    s4 = s4
    h1 = h1
    h2 = h2
    Submissions = {s1, s2}
    Located = {s1, s2}
    BatchSize = 1
    Slots = {h1}
    MaxFilings = 2
    MaxDeletes = 0
    MaxFailures = 1
INVARIANTS SentOnce
