---------------------------- MODULE MCSubmission ----------------------------
(***************************************************************************)
(* Instances of Submission: a tab that sends up to three times while the   *)
(* customer changes the journey and back.                                  *)
(***************************************************************************)
EXTENDS Submission, TLC

CONSTANTS t1, v1, v2, v3, j1, j2

Symmetry == Permutations(Visits) \cup Permutations(Journeys)

=============================================================================
