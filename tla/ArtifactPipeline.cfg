SPECIFICATION FairSpec
CONSTANTS
    ka = ka  kb = kb
    Keyboards <- TwoKeyboards
    None = None
    Slots <- ThreeSlots
    MaxRev = 2
    MaxActs = 4
INVARIANTS
    ShownIsCurrent
    LicenseIsOwn
    
PROPERTIES
    PreviewSettles
CHECK_DEADLOCK FALSE
