----------------------------- MODULE MCUpdateFlow -----------------------------
(* A small instance of UpdateFlow for TLC: two answers of one version and one *)
(* of the next.                                                               *)
EXTENDS UpdateFlow, TLC

CONSTANTS u1, u2, u3

TwoVersions == u1 :> 1 @@ u2 :> 1 @@ u3 :> 2

=============================================================================
