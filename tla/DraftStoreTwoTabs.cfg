SPECIFICATION Spec
CONSTANTS
    t1 = t1  t2 = t2  k1 = k1  k2 = k2  w1 = w1  w2 = w2
    Tabs <- TwoTabs
    ProjectKeys <- TwoKeys
    Works <- OneWork
    EarlierWorks <- OneWork
    None = None
    Pending = Pending
    MaxEdits = 0
    StorageMayFail = FALSE
    AuthorWaits = FALSE
    DistinctIds = FALSE
SYMMETRY Symmetry
INVARIANTS
    IndexLockstep
PROPERTIES
    ShelfSpec
