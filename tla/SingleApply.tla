----------------------------- MODULE SingleApply -----------------------------
(***************************************************************************)
(* What the migration runner of sidecar/storage promises to the processes  *)
(* that open one database: at most one of them applies migrations at a     *)
(* time, it starts only when the recorded version is not its own, and it   *)
(* records its version only when its whole chain is in the schema.  An     *)
(* applier may die or fail, and then another one may begin.                *)
(***************************************************************************)
EXTENDS Naturals

CONSTANTS Procs, Current, NoProc

VARIABLES applier, version, schema

Chain(p) == 1 .. Current[p]

Init ==
  /\ applier = NoProc
  /\ version = 0
  /\ schema = {}

Begin(p) ==
  /\ applier = NoProc
  /\ version # Current[p]
  /\ applier' = p
  /\ UNCHANGED <<version, schema>>

ApplyOne(p) ==
  /\ applier = p
  /\ \E m \in Chain(p) : schema' = schema \cup {m}
  /\ UNCHANGED <<applier, version>>

Finish(p) ==
  /\ applier = p
  /\ Chain(p) \subseteq schema
  /\ version' = Current[p]
  /\ applier' = NoProc
  /\ UNCHANGED schema

Abort(p) ==
  /\ applier = p
  /\ applier' = NoProc
  /\ UNCHANGED <<version, schema>>

Next == \E p \in Procs : Begin(p) \/ ApplyOne(p) \/ Finish(p) \/ Abort(p)

Spec == Init /\ [][Next]_<<applier, version, schema>>

=============================================================================
