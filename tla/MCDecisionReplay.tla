-------------------------- MODULE MCDecisionReplay --------------------------
(* DecisionReplay with two keyboards to start from.                        *)
EXTENDS DecisionReplay, TLC

CONSTANTS b1, b2, x, y

TwoBases == {b1, b2}
TwoAnswers == {x, y}

\* Sound: bases and answers are only compared for equality.
Symmetry == Permutations(TwoBases) \cup Permutations(TwoAnswers)
=============================================================================
