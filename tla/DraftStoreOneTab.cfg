SPECIFICATION FairSpec
CONSTANTS
    t1 = t1  t2 = t2  k1 = k1  k2 = k2  w1 = w1  w2 = w2
    Tabs <- OneTab
    ProjectKeys <- TwoKeys
    Works <- TwoWorks
    EarlierWorks <- TwoWorks
    None = None
    Pending = Pending
    MaxEdits = 2
    StorageMayFail = FALSE
    AuthorWaits = TRUE
    DistinctIds = TRUE
INVARIANTS
    TypeOK
    NoDuplicateFiling
    DiscardedStaysGone
    NothingUnscheduled
PROPERTIES
    SubmittedContentKept
    ListedWorkKept
    NoOverwriting
    EditReachesDisk
