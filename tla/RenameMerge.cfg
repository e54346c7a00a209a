SPECIFICATION FairSpec
CONSTANTS
    k1 = k1  k2 = k2  k3 = k3
    Keys <- ThreeKeys
    Pending = Pending
    None = None
    Broken = Broken
    Times <- TwoTimes
    Profiles <- AllProfiles
    StorageMayFail = TRUE
INVARIANTS
    TypeOK
    FamiliesApart
    NewestKept
    SubmissionKept
PROPERTIES
    BootEnds
