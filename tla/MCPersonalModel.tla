-------------------------- MODULE MCPersonalModel --------------------------
(* Small instances of PersonalModel for TLC.                               *)
EXTENDS PersonalModel, TLC

\* Detached tasks are interchangeable.
TaskSymmetry == Permutations(Trainers)
=============================================================================
