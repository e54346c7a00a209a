SPECIFICATION Spec
CONSTANTS
    b1 = b1  b2 = b2  x = x  y = y
    None = None
    Bases <- TwoBases
    Answers <- TwoAnswers
SYMMETRY Symmetry
INVARIANTS
    InstalledIsReplay
    GatedAnswerFollowsGate
