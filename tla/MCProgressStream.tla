--------------------------- MODULE MCProgressStream ---------------------------
(* Small instances of ProgressStream for TLC.                               *)
EXTENDS ProgressStream, TLC

=============================================================================
