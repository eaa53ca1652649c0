--------------------------- MODULE MCSidecarRequest ---------------------------
(* Small instances of SidecarRequest for TLC.                               *)
EXTENDS SidecarRequest, TLC

=============================================================================
