----------------------------- MODULE MCSchedule -----------------------------
(* Instances of the script scheduler for TLC. *)
EXTENDS ScheduleProperties, TLC

HandleSymmetry == Permutations(Handles)
=============================================================================
