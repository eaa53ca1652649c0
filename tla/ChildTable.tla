------------------------------ MODULE ChildTable ------------------------------
(***************************************************************************)
(* What the harness supervisor promises of its children as seen from       *)
(* outside: one table that changes at once and that can be closed.  A      *)
(* process is entered when it runs or has run, under one id at a time, and *)
(* only while the table is open; closing it is one step and emptying it,   *)
(* with the death of all that is in it, another; after that it stays       *)
(* empty.                                                                  *)
(***************************************************************************)
CONSTANTS Ids, Pids, NoPid

VARIABLES
  entry,   \* the process entered under each id
  life,    \* what the operating system knows of each process
  phase    \* "open", "closing" or "drained"

Entered == {entry[i] : i \in Ids} \ {NoPid}

Init ==
  /\ entry = [i \in Ids |-> NoPid]
  /\ life = [p \in Pids |-> "unborn"]
  /\ phase = "open"

Spawn(p) ==
  /\ life[p] = "unborn"
  /\ life' = [life EXCEPT ![p] = "alive"]
  /\ UNCHANGED <<entry, phase>>

Die(p) ==
  /\ life[p] = "alive"
  /\ life' = [life EXCEPT ![p] = "dead"]
  /\ UNCHANGED <<entry, phase>>

\* What was entered under that id before is not in the table any more.
Enter(i, p) ==
  /\ phase = "open"
  /\ life[p] # "unborn"
  /\ p \notin Entered
  /\ entry' = [entry EXCEPT ![i] = p]
  /\ UNCHANGED <<life, phase>>

Remove(i) ==
  /\ entry' = [entry EXCEPT ![i] = NoPid]
  /\ UNCHANGED <<life, phase>>

Close ==
  /\ phase = "open"
  /\ phase' = "closing"
  /\ UNCHANGED <<entry, life>>

Drain ==
  /\ phase = "closing"
  /\ phase' = "drained"
  /\ entry' = [i \in Ids |-> NoPid]
  /\ life' = [p \in Pids |-> IF p \in Entered THEN "dead" ELSE life[p]]

Next ==
  \/ \E p \in Pids : Spawn(p) \/ Die(p)
  \/ \E i \in Ids, p \in Pids : Enter(i, p)
  \/ \E i \in Ids : Remove(i)
  \/ Close
  \/ Drain

Spec == Init /\ [][Next]_<<entry, life, phase>>

===============================================================================
