-------------------------- MODULE MCSurveyHistory --------------------------
(***************************************************************************)
(* Bounds for SurveyHistory.  A draft may be resumed at the entry step, at *)
(* the step before the fork, at the touch gallery, on the gate or past it, *)
(* so that every part of the walk lies within the bounded moves.           *)
(***************************************************************************)
EXTENDS SurveyHistory

AllParts == {1, 4, 6, 8, 10}
BeforeGate == {7}

=============================================================================
