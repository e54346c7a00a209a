--------------------------- MODULE MCCrashReports ---------------------------
(***************************************************************************)
(* Bounds for CrashReports.  Reports, sessions and bugs are interchangeable *)
(* and no liveness is checked, so the runs use symmetry.                   *)
(***************************************************************************)
EXTENDS CrashReports, TLC

Interchangeable ==
    Permutations(Reports) \cup Permutations(Sessions) \cup Permutations(Bugs)

=============================================================================
