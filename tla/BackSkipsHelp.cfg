SPECIFICATION Spec
CONSTANTS
    MaxMoves = 6
    MaxDetours = 0
    Resumed <- BeforeGate
PROPERTY BackRetracesAll
CHECK_DEADLOCK FALSE
