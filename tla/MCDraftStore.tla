---------------------------- MODULE MCDraftStore ----------------------------
(* DraftStore on small browser profiles.                                   *)
EXTENDS DraftStore, TLC

CONSTANTS t1, t2, k1, k2, w1, w2

OneTab == {t1}
TwoTabs == {t1, t2}
OneKey == {k1}
TwoKeys == {k1, k2}
NoWork == {}
OneWork == {w1}
TwoWorks == {w1, w2}

\* Sound for a safety run: tabs and keys are only compared for equality.
Symmetry == Permutations(TwoKeys) \cup Permutations(TwoTabs)
=============================================================================
