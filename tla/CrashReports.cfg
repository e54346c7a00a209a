SPECIFICATION Spec
CONSTANTS
    Reports = {r1, r2, r3}
    Sessions = {s1, s2}
    Bugs = {b1}
    CommentCap = 1
    CommentCooldown = 1
    ReopenCooldown = 1
    CreateWindow = 0
    CreateCap = 2
    PerPage = 1
    TokenTTL = 1
    MaxIssues = 3
    MaxTime = 1
    MaxPosts = 2
    MaxCloses = 1
    MaxFaults = 1
SYMMETRY Interchangeable
INVARIANTS TypeOK DuplicatesOnlyFromRaces CreationHadRoom
PROPERTIES ReopensWhenDue UndoIsOwn
CHECK_DEADLOCK FALSE
