------------------------- MODULE MCSidecarLifecycle -------------------------
(* Small instances of SidecarLifecycle for TLC.                             *)
EXTENDS SidecarLifecycle, TLC

Symmetry == Permutations(Pids)

=============================================================================
