---------------------------- MODULE MCPublishing ----------------------------
(***************************************************************************)
(* Bounds for Publishing.  Tabs and requests are interchangeable and no    *)
(* liveness is checked, so the runs use symmetry.                          *)
(***************************************************************************)
EXTENDS Publishing, TLC

Interchangeable == Permutations(Tabs) \cup Permutations(Requests)

=============================================================================
