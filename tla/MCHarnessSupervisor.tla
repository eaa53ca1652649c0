------------------------ MODULE MCHarnessSupervisor ------------------------
(* Small instances of HarnessSupervisor for TLC.                            *)
EXTENDS HarnessSupervisor

=============================================================================
