SPECIFICATION Spec
CONSTANTS
    MaxMoves = 6
    MaxDetours = 2
    Resumed <- AllParts
INVARIANTS InLockstep
PROPERTIES GateNotResurfaced BackRetraces
CHECK_DEADLOCK FALSE
