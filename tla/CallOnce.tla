------------------------------- MODULE CallOnce -------------------------------
(***************************************************************************)
(* What the command sidecar_request promises to the renderer: the request  *)
(* of a call is executed at most once, the call ends once and for all, an  *)
(* answer follows its execution, and a refused call is never executed.  A  *)
(* call that failed may have been executed, or be executed later: its      *)
(* handler cannot be stopped.                                              *)
(***************************************************************************)

CONSTANT Calls

VARIABLES
  outcome,   \* what the renderer was told; "pending" before
  executed   \* how often its handler was run

Init ==
  /\ outcome = [c \in Calls |-> "pending"]
  /\ executed = [c \in Calls |-> 0]

Execute(c) ==
  /\ executed[c] = 0
  /\ outcome[c] \in {"pending", "failed"}
  /\ executed' = [executed EXCEPT ![c] = 1]

End(c, result) ==
  /\ outcome[c] = "pending"
  /\ result = "answered" => executed'[c] = 1
  /\ result = "refused" => executed'[c] = 0
  /\ outcome' = [outcome EXCEPT ![c] = result]

Ends(c) == \E result \in {"answered", "refused", "failed"} : End(c, result)

\* A one-shot process executes the request and ends the call in one step.
Next ==
  \E c \in Calls :
    \/ Execute(c) /\ UNCHANGED outcome
    \/ Ends(c) /\ UNCHANGED executed
    \/ Execute(c) /\ Ends(c)

Spec == Init /\ [][Next]_<<outcome, executed>>

=============================================================================
