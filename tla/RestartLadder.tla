---------------------------- MODULE RestartLadder ----------------------------
(***************************************************************************)
(* The restart ladder in time: how the monitor of the sidecar (lib.rs,     *)
(* spawn_sidecar_monitor) and the monitor of a harness (supervisor.rs,     *)
(* spawn_harness_monitor with RestartTracker) space their restarts, count  *)
(* them within a window and give up.  The two differ in when they look at  *)
(* the window: the sidecar's when it notices a crash, the harness's before *)
(* every attempt.                                                          *)
(*                                                                         *)
(* Time advances by Tick, one second of the code.  Ages saturate where no  *)
(* guard and no property tells them apart any more.  A sleeper may wake up *)
(* to MaxLate ticks late, and time does not run past that.                 *)
(***************************************************************************)
EXTENDS Naturals, FiniteSets, Sequences

CONSTANTS
  Delays,      \* SIDECAR_RESTART_DELAYS_SECS, HARNESS_RESTART_DELAYS_SECS
  Window,      \* SIDECAR_RESTART_WINDOW, HARNESS_RESTART_WINDOW
  PollEvery,   \* the sleep between two polls of the child
  MaxLate      \* bound on how late a sleeper wakes

ASSUME LadderAssumption ==
  /\ Delays \in Seq(Nat \ {0}) /\ Delays # <<>>
  /\ {Window, PollEvery, MaxLate} \subseteq Nat

VARIABLES
  kind,        \* whose monitor this is, "sidecar" or "harness"
  mon,         \* "watch" and "backoff" are its two sleeps
  timer,       \* ticks the sleeper may still sleep
  child,       \* the process under supervision, "none" when it was reaped
  attempts,    \* restart attempts counted in this window
  age,         \* window_start.elapsed()
  halted,      \* shutting_down, or for a harness stopping
  upFor,       \* history: how long the present or last process has lived
  made         \* history: the ages of the attempts

vars == <<kind, mon, timer, child, attempts, age, halted, upFor, made>>

Rungs == Len(Delays)
Ended == {"failed", "over"}

\* The longest time a ladder of failing spawns may take: slept[n] is the sum of
\* the first n sleeps, each as late as it can be.
slept[n \in 0 .. Rungs] == IF n = 0 THEN 0 ELSE slept[n - 1] + Delays[n] + MaxLate
LadderTime == slept[Rungs]

Horizon == Window + LadderTime + 1
LongUp == Window + MaxLate + 1
CapAt(n, cap) == IF n > cap THEN cap ELSE n

TypeOK ==
  /\ kind \in {"sidecar", "harness"}
  /\ mon \in {"watch", "backoff"} \cup Ended
  /\ timer \in Nat
  /\ child \in {"up", "dead", "none"}
  /\ attempts \in 0 .. Rungs
  /\ age \in 0 .. Window + 1
  /\ halted \in BOOLEAN
  /\ upFor \in 0 .. LongUp
  /\ made \in SUBSET Nat

\* start_sidecar_server: the process is there before its monitor, which sets
\* window_start when it first runs.
Init ==
  /\ kind \in {"sidecar", "harness"}
  /\ mon = "watch"
  /\ timer = PollEvery + MaxLate
  /\ child = "up"
  /\ attempts = 0
  /\ age = 0
  /\ halted = FALSE
  /\ upFor \in 0 .. MaxLate
  /\ made = {}

Sleep(for) == timer' = for + MaxLate
Wakes == timer <= MaxLate

Tick ==
  /\ mon \notin Ended
  /\ timer > 0
  /\ timer' = timer - 1
  /\ age' = CapAt(age + 1, Window + 1)
  /\ upFor' = IF child = "up" THEN CapAt(upFor + 1, LongUp) ELSE upFor
  /\ made' = {a + 1 : a \in made} \ {Horizon + 1}
  /\ UNCHANGED <<kind, mon, child, attempts, halted>>

Crash ==
  /\ mon \notin Ended
  /\ child = "up"
  /\ child' = "dead"
  /\ UNCHANGED <<kind, mon, timer, attempts, age, halted, upFor, made>>

\* The exit, an update or a stop: the flag is set and the handle is taken.
Halt ==
  /\ mon \notin Ended
  /\ halted' = TRUE
  /\ child' = "none"
  /\ UNCHANGED <<kind, mon, timer, attempts, age, upFor, made>>

-----------------------------------------------------------------------------
(* The monitor.                                                             *)

\* Mutant of WindowOver: the window never ends.
WindowNeverOver == FALSE
\* Mutant of WindowOver: the window ends with every crash.
WindowAlwaysOver == TRUE

WindowOver == age > Window

\* Mutant of ResetsOn: the harness's tracker looks at the window as seldom as
\* the sidecar's monitor does.
ResetsOnCrashOnly(crash) == crash

\* Whether the window is looked at: by the sidecar's monitor once per crash, by
\* RestartTracker::next_delay every time.
ResetsOn(crash) == crash \/ kind = "harness"

Exhausted(n) == n >= Rungs

\* One turn of the inner loop up to its sleep: the next rung, or "failed".
NextRung(crash) ==
  LET reset == ResetsOn(crash) /\ WindowOver
      n == IF reset THEN 0 ELSE attempts
  IN
  /\ age' = IF reset THEN 0 ELSE age
  /\ child' = "none"
  /\ \/ /\ Exhausted(n)
        /\ mon' = "failed"
        /\ attempts' = n
        /\ UNCHANGED <<timer, made>>
     \/ /\ ~Exhausted(n)
        /\ mon' = "backoff"
        /\ attempts' = n + 1
        /\ Sleep(Delays[n + 1])
        /\ made' = made \cup {0}
  /\ UNCHANGED <<kind, halted, upFor>>

\* try_wait says that the child runs, or fails and is taken to say so.
PollRunning ==
  /\ mon = "watch" /\ Wakes /\ ~halted
  /\ child # "none"
  /\ Sleep(PollEvery)
  /\ UNCHANGED <<kind, mon, child, attempts, age, halted, upFor, made>>

PollExited ==
  /\ mon = "watch" /\ Wakes /\ ~halted
  /\ child = "dead"
  /\ NextRung(TRUE)

\* The spawn after the back-off: Ok, and the outer loop begins again.
Respawn ==
  /\ mon = "backoff" /\ Wakes /\ ~halted
  /\ mon' = "watch"
  /\ child' = "up"
  /\ upFor' = 0
  /\ Sleep(PollEvery)
  /\ UNCHANGED <<kind, attempts, age, halted, made>>

\* Mutant of RespawnFails: an error ends the inner loop as a success would.
RespawnFailsUnseen ==
  /\ mon = "backoff" /\ Wakes /\ ~halted
  /\ mon' = "watch"
  /\ Sleep(PollEvery)
  /\ UNCHANGED <<kind, child, attempts, age, halted, upFor, made>>

\* The spawn fails, and the inner loop goes on to the next rung.
RespawnFails ==
  /\ mon = "backoff" /\ Wakes /\ ~halted
  /\ NextRung(FALSE)

\* The monitor sees the flag, or finds nothing to supervise.
MonitorReturns ==
  /\ mon \notin Ended /\ Wakes
  /\ halted \/ (mon = "watch" /\ child = "none")
  /\ mon' = "over"
  /\ UNCHANGED <<kind, timer, child, attempts, age, halted, upFor, made>>

Monitor == PollRunning \/ PollExited \/ Respawn \/ RespawnFails \/ MonitorReturns

Next == Tick \/ Crash \/ Halt \/ Monitor

Spec == Init /\ [][Next]_vars

\* The clock runs, the runtime wakes a sleeper, and try_wait does not fail for
\* ever on a process that has ended.
FairSpec == Spec /\ WF_vars(Tick) /\ WF_vars(Monitor) /\ SF_vars(PollExited)

-----------------------------------------------------------------------------
(* Properties.                                                              *)

\* How many attempts were made in the last n ticks.
MadeWithin(n) == Cardinality({a \in made : a <= n})

\* A crash loop is not fed for ever: however the crashes fall about the ends of
\* the windows, no stretch of one window sees more attempts than two ladders
\* have.
BurstBounded == MadeWithin(Window) <= 2 * Rungs

\* "Sidecar server crashed {} times within {:?}, giving up" (lib.rs:183-187):
\* "failed" is said only when a whole ladder of attempts was made just now.  The
\* sidecar's monitor, which does not look at the window between failing spawns,
\* may exceed it by the time a ladder takes.
GiveUpIsEarned ==
  mon = "failed" =>
    MadeWithin(IF kind = "sidecar" THEN Window + LadderTime ELSE Window) >= Rungs

\* "Five minutes of health is treated as 'that incident is over'"
\* (lib.rs:61-65): a server that has lived through a window and crashes then is
\* restarted from the first rung, whatever happened before.
HealthForgives ==
  [][(mon = "watch" /\ mon' # "watch" /\ ~halted /\ upFor = LongUp)
       => (mon' = "backoff" /\ attempts' = 1)]_vars

\* A server that has crashed is restarted, or the user is told that it is not,
\* or the application stops: the loop of retries ends.
CrashIsAnswered == child = "dead" ~> (child = "up" \/ mon = "failed" \/ halted)

=============================================================================
