------------------------------- MODULE MCIntake -------------------------------
(***************************************************************************)
(* Instances of Intake for TLC.                                            *)
(***************************************************************************)
EXTENDS Intake, TLC

\* Answer calls, finalize calls, cases and questions are interchangeable.
IntakeSymmetry ==
  Permutations(Answers) \cup Permutations(Finals) \cup Permutations(Cases)
    \cup Permutations(Questions)
=============================================================================
