SPECIFICATION FairSpec
CONSTANTS
    k1 = k1  k2 = k2
    None = None
    Keys <- TwoKeys
    MaxSaves = 4
    MaxInFlight = 2
    InOrder = FALSE
    NetworkFails = FALSE
PROPERTIES
    CloudNeverGoesBack
    EditReachesCloud
