---------------------------- MODULE MCHarnessRuns ----------------------------
(* Small instances of HarnessRuns for TLC.                                  *)
EXTENDS HarnessRuns, TLC

Symmetry == Permutations(Callers) \cup Permutations(Monitors)
              \cup Permutations(Pids) \cup Permutations(Ids)

=============================================================================
