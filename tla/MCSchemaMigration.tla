-------------------------- MODULE MCSchemaMigration --------------------------
(* A small instance of SchemaMigration for TLC.                              *)
EXTENDS SchemaMigration, TLC

CONSTANTS p1, p2, p3

\* An older program among newer ones.
MixedVersions == (p1 :> 1) @@ (p2 :> 2) @@ (p3 :> 2)

=============================================================================
