SPECIFICATION Spec
CONSTANTS
    Tabs = {t1}
    Requests = {r1, r2}
    PerIp = 1
    Global = 2
    Window = 0
    Cap = 1
    PerPage = 1
    Hashes = 2
    MaxTime = 0
    MaxWork = 2
    MaxBuilds = 2
    MaxMerges = 1
    MaxFaults = 0
SYMMETRY Interchangeable

PROPERTY BuildKeepsPanel
CHECK_DEADLOCK FALSE
