SPECIFICATION Spec
CONSTANTS
    k1 = k1  k2 = k2
    None = None
    Keys <- TwoKeys
    MaxSaves = 5
    MaxInFlight = 2
    InOrder = TRUE
    NetworkFails = TRUE
SYMMETRY Symmetry
INVARIANTS
    TypeOK
    ListingHasContent
    SkipsOnlyWhatIsStored
PROPERTIES
    CardNeverGoesBack
