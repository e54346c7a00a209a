---------------------------- MODULE MCCloudSync ----------------------------
(* CloudSync with one or two keyboard ids.                                 *)
EXTENDS CloudSync, TLC

CONSTANTS k1, k2

OneKey == {k1}
TwoKeys == {k1, k2}

\* Sound: keys are only compared for equality.
Symmetry == Permutations(TwoKeys)
=============================================================================
