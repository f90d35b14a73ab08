----------------------------- MODULE MCGoalRuns -----------------------------
(* Symmetry for the runs of GoalRuns that check no liveness. *)
EXTENDS GoalRuns, TLC

RunSymmetry == Permutations(Runs) \cup Permutations(Records) \cup Permutations(Recorders)

=============================================================================
