------------------------ MODULE RestartLadder_proofs -------------------------
(***************************************************************************)
(* For a ladder of any length, any window and any lateness: no stretch of  *)
(* one window sees more attempts than two ladders have, a process that has *)
(* lived through a window is restarted from the first rung, and a monitor  *)
(* gives up only after a whole ladder of attempts.                         *)
(***************************************************************************)
EXTENDS RestartLadder, FiniteSetTheorems, WellFoundedInduction, TLAPS

\* The attempts of the last Window ticks, those counted in this window and
\* those of the windows before it.
Counted == {a \in made : a <= Window /\ a <= age}
Uncounted == {a \in made : a <= Window /\ a > age}

\* The counter bounds what was counted, and what was not counted is what one
\* earlier ladder counted: a reset comes more than a window after the last.
BurstInv ==
  /\ Cardinality(Counted) <= attempts
  /\ Cardinality(Uncounted) <= Rungs

\* window_start is at most MaxLate later than the start of the process, and
\* there is a process whenever the monitor watches and is not told to stop.
HealthInv ==
  /\ (child # "none" /\ age <= Window) => upFor <= age + MaxLate
  /\ (mon = "watch" /\ ~halted) => child # "none"

\* The attempts of a sidecar's ladder that will still be recent enough when the
\* sleep is over.
InLadder == {a \in made : a + timer <= Window + slept[attempts]}

\* While the window is open the counter counts only attempts made within it; a
\* sidecar's ladder may outlive the window, by no more than its own sleeps.  An
\* attempt made just now is followed by a sleep, so no two are of the same age.
EarnedInv ==
  /\ 0 \in made => mon = "backoff" /\ timer > MaxLate
  /\ age <= Window => Cardinality(Counted) >= attempts
  /\ mon = "backoff" /\ kind = "sidecar" => Cardinality(InLadder) >= attempts
  /\ GiveUpIsEarned

-----------------------------------------------------------------------------
LEMMA Constants ==
  /\ Rungs \in Nat /\ Window \in Nat /\ PollEvery \in Nat /\ MaxLate \in Nat
  /\ LongUp = Window + MaxLate + 1
  /\ Rungs > 0
BY LadderAssumption DEF Rungs, LongUp

LEMMA Sleeps ==
  /\ PollEvery + MaxLate \in Nat
  /\ \A n \in 0 .. Rungs - 1 : Delays[n + 1] + MaxLate \in Nat
<1>1. ASSUME NEW n \in 0 .. Rungs - 1 PROVE Delays[n + 1] + MaxLate \in Nat
  <2>1. n + 1 \in 1 .. Rungs
    BY Constants
  <2>2. Delays[n + 1] \in Nat \ {0}
    BY <2>1, LadderAssumption DEF Rungs
  <2> QED BY <2>2, Constants
<1> QED BY <1>1, Constants

\* Every set of ages up to some age is finite.
LEMMA AgesUpToFinite ==
  ASSUME NEW k \in Nat, NEW S, S \subseteq {a \in Nat : a <= k}
  PROVE  IsFiniteSet(S) /\ Cardinality(S) \in Nat
<1>1. IsFiniteSet(0 .. k)
  BY FS_Interval
<1>2. S \in SUBSET (0 .. k)
  OBVIOUS
<1> QED BY <1>1, <1>2, FS_Subset, FS_CardinalityType

\* Every set of ages within the window is finite.
LEMMA AgesFinite ==
  ASSUME NEW S, S \subseteq {a \in Nat : a <= Window}
  PROVE  IsFiniteSet(S) /\ Cardinality(S) \in Nat
BY Constants, AgesUpToFinite

\* A set of ages that is a tick older than another is not larger.
LEMMA OlderNotMore ==
  ASSUME NEW S, NEW T, S \subseteq Nat, T \subseteq Nat, IsFiniteSet(S),
         \A b \in T : b - 1 \in S
  PROVE  Cardinality(T) <= Cardinality(S)
<1> DEFINE f == [b \in T |-> b - 1]
<1>1. f \in [T -> S]
  OBVIOUS
<1>2. \A b, c \in T : f[b] = f[c] => b = c
  OBVIOUS
<1>3. f \in Injection(T, S)
  BY <1>1, <1>2 DEF Injection, IsInjective
<1> QED BY <1>3, FS_Injection

\* Nor is it smaller, when nothing was left out of it.
LEMMA OlderNotFewer ==
  ASSUME NEW S, NEW T, S \subseteq Nat, T \subseteq Nat, IsFiniteSet(T),
         \A a \in S : a + 1 \in T
  PROVE  Cardinality(S) <= Cardinality(T)
<1> DEFINE f == [a \in S |-> a + 1]
<1>1. f \in [S -> T]
  OBVIOUS
<1>2. \A a, b \in S : f[a] = f[b] => a = b
  OBVIOUS
<1>3. f \in Injection(S, T)
  BY <1>1, <1>2 DEF Injection, IsInjective
<1> QED BY <1>3, FS_Injection

\* Type correctness of every reachable state.
THEOREM Typing == Spec => []TypeOK
<1> USE DEF TypeOK, Ended
<1>1. Init => TypeOK
  <2> SUFFICES ASSUME Init PROVE TypeOK
    OBVIOUS
  <2>1. timer \in Nat
    BY Sleeps DEF Init
  <2>2. attempts \in 0 .. Rungs /\ age \in 0 .. Window + 1 /\ upFor \in 0 .. LongUp
    BY Constants DEF Init
  <2> QED BY <2>1, <2>2 DEF Init
<1>2. TypeOK /\ [Next]_vars => TypeOK'
  <2> SUFFICES ASSUME TypeOK, [Next]_vars PROVE TypeOK'
    OBVIOUS
  <2>1. CASE Tick
    BY Constants, <2>1 DEF Tick, CapAt
  <2>2. CASE Crash \/ Halt
    BY Constants, <2>2 DEF Crash, Halt
  <2>3. CASE PollRunning \/ Respawn \/ MonitorReturns
    <3>1. timer' \in Nat
      BY <2>3, Sleeps DEF PollRunning, Respawn, MonitorReturns, Sleep
    <3>2. upFor' \in 0 .. LongUp
      BY <2>3, Constants DEF PollRunning, Respawn, MonitorReturns
    <3> QED BY <2>3, <3>1, <3>2 DEF PollRunning, Respawn, MonitorReturns
  <2>4. ASSUME NEW crash, NextRung(crash) PROVE TypeOK'
    <3> DEFINE n == IF ResetsOn(crash) /\ WindowOver THEN 0 ELSE attempts
    <3>1. n \in 0 .. Rungs /\ age' \in 0 .. Window + 1
      BY <2>4, Constants DEF NextRung
    <3>2. CASE mon' = "failed"
      BY <2>4, <3>1, <3>2 DEF NextRung
    <3>3. CASE mon' = "backoff"
      <4>1. attempts' = n + 1 /\ ~(n >= Rungs) /\ timer' = Delays[n + 1] + MaxLate
            /\ made' = made \cup {0}
        BY <2>4, <3>3 DEF NextRung, Exhausted, Sleep
      <4>2. n \in 0 .. Rungs - 1 /\ attempts' \in 0 .. Rungs
        BY <4>1, <3>1, Constants
      <4>3. timer' \in Nat
        BY <4>1, <4>2, Sleeps
      <4> HIDE DEF n
      <4> QED BY <2>4, <3>1, <3>3, <4>1, <4>2, <4>3 DEF NextRung
    <3> QED BY <2>4, <3>2, <3>3 DEF NextRung
  <2>5. CASE PollExited \/ RespawnFails
    BY Constants, <2>4, <2>5 DEF PollExited, RespawnFails
  <2>6. CASE UNCHANGED vars
    BY Constants, <2>6 DEF vars
  <2> QED BY Constants, <2>1, <2>2, <2>3, <2>5, <2>6 DEF Next, Monitor
<1> QED BY <1>1, <1>2, PTL DEF Spec

-----------------------------------------------------------------------------
\* A rung taken is one more attempt of this window, or the first of a new one.
LEMMA BurstRung ==
  ASSUME TypeOK, BurstInv, NEW crash, NextRung(crash)
  PROVE  BurstInv'
<1> USE DEF TypeOK, BurstInv
<1> DEFINE reset == ResetsOn(crash) /\ WindowOver
<1>1. /\ IsFiniteSet(Counted) /\ Cardinality(Counted) \in Nat
      /\ IsFiniteSet(Uncounted) /\ Cardinality(Uncounted) \in Nat
  BY AgesFinite DEF Counted, Uncounted
<1>2. made' = made \/ made' = made \cup {0}
  BY DEF NextRung
<1>3. CASE reset
  <2>1. age' = 0 /\ age > Window
    BY <1>3 DEF NextRung, WindowOver
  <2>2. Uncounted' \in SUBSET Counted
    <3> SUFFICES ASSUME NEW a \in Uncounted' PROVE a \in Counted
      OBVIOUS
    <3>1. a \in made' /\ a <= Window /\ a > 0
      BY <2>1 DEF Uncounted
    <3>2. a # 0
      BY <3>1
    <3>3. a \in made
      BY <3>1, <3>2, <1>2
    <3>4. a \in Nat
      BY <3>3
    <3> QED BY <3>1, <3>3, <3>4, <2>1, Constants DEF Counted
  <2>3. Cardinality(Uncounted') <= Cardinality(Counted) /\ IsFiniteSet(Uncounted')
    BY <2>2, <1>1, FS_Subset
  <2>4. Cardinality(Uncounted') \in Nat
    BY <2>3, FS_CardinalityType
  <2>5. Counted' \in SUBSET {0}
    <3> SUFFICES ASSUME NEW a \in Counted' PROVE a = 0
      OBVIOUS
    <3>1. a \in made' /\ a <= 0
      BY <2>1 DEF Counted
    <3>2. a \in made \/ a = 0
      BY <3>1, <1>2
    <3>3. CASE a \in made
      <4>1. a \in Nat
        BY <3>3
      <4> QED BY <4>1, <3>1
    <3> QED BY <3>2, <3>3
  <2>6. mon' # "failed"
    BY Constants, <1>3 DEF NextRung, Exhausted
  <2>7. CASE mon' = "backoff"
    <3>1. attempts' = 1
      BY <2>7, <1>3 DEF NextRung
    <3>2. IsFiniteSet({0}) /\ Cardinality({0}) = 1
      BY FS_Singleton
    <3>3. Cardinality(Counted') <= 1
      BY <2>5, <3>2, FS_Subset
    <3> QED BY Constants, <3>1, <3>3, <2>3, <2>4, <1>1
  <2> QED BY <2>6, <2>7 DEF NextRung
<1>4. CASE ~reset
  <2>1. age' = age
    BY <1>4 DEF NextRung
  <2>2. Uncounted' = Uncounted
    BY <2>1, <1>2 DEF Uncounted
  <2>3. CASE mon' = "failed"
    BY <2>1, <2>2, <2>3, <1>4 DEF NextRung, Counted
  <2>4. CASE mon' = "backoff"
    <3>1. attempts' = attempts + 1 /\ made' = made \cup {0}
      BY <2>4, <1>4 DEF NextRung
    <3>2. Counted' = Counted \cup {0}
      <4>1. 0 <= Window /\ 0 <= age
        BY Constants
      <4>2. \A a : a \in Counted' <=> a \in Counted \/ a = 0
        BY <3>1, <2>1, <4>1 DEF Counted
      <4> QED BY <4>2
    <3>3. Cardinality(Counted') <= Cardinality(Counted) + 1
      <4>1. Cardinality(Counted \cup {0})
              = IF 0 \in Counted THEN Cardinality(Counted) ELSE Cardinality(Counted) + 1
        BY <1>1, FS_AddElement
      <4> HIDE DEF Counted
      <4> QED BY <4>1, <3>2, <1>1
    <3>4. Cardinality(Counted') \in Nat
      BY <3>2, <1>1, FS_AddElement, FS_CardinalityType
    <3> QED BY <3>1, <3>3, <3>4, <2>2, <1>1
  <2> QED BY <2>3, <2>4 DEF NextRung
<1> QED BY <1>3, <1>4

\* A tick makes every attempt older, and moves none between the two sets but
\* out of the window.
LEMMA BurstTick ==
  ASSUME TypeOK, BurstInv, Tick
  PROVE  BurstInv'
<1> USE DEF TypeOK
<1>1. /\ IsFiniteSet(Counted) /\ Cardinality(Counted) \in Nat
      /\ IsFiniteSet(Uncounted) /\ Cardinality(Uncounted) \in Nat
  BY AgesFinite DEF Counted, Uncounted
<1>2. age' = IF age <= Window THEN age + 1 ELSE Window + 1
  BY Constants DEF Tick, CapAt
<1>3. made' \subseteq {a + 1 : a \in made}
  BY DEF Tick
<1>4. /\ Counted' \subseteq Nat /\ \A b \in Counted' : b - 1 \in Counted
      /\ Uncounted' \subseteq Nat /\ \A b \in Uncounted' : b - 1 \in Uncounted
  BY Constants, <1>2, <1>3 DEF Counted, Uncounted
<1>5. Counted \subseteq Nat /\ Uncounted \subseteq Nat
  BY DEF Counted, Uncounted
<1>6. Cardinality(Counted') <= Cardinality(Counted)
  BY <1>1, <1>4, <1>5, OlderNotMore
<1>7. Cardinality(Uncounted') <= Cardinality(Uncounted)
  BY <1>1, <1>4, <1>5, OlderNotMore
<1>8. Cardinality(Counted') \in Nat /\ Cardinality(Uncounted') \in Nat
  <2>1. Counted' \subseteq {a \in Nat : a <= Window}
    BY <1>4 DEF Counted
  <2>2. Uncounted' \subseteq {a \in Nat : a <= Window}
    BY <1>4 DEF Uncounted
  <2> QED BY <2>1, <2>2, AgesFinite
<1>9. attempts' = attempts
  BY DEF Tick
<1> QED BY Constants, <1>1, <1>6, <1>7, <1>8, <1>9 DEF BurstInv

\* The bound on the attempts within one window.
THEOREM BurstsBounded == Spec => []BurstBounded
<1>1. Init => BurstInv
  <2> SUFFICES ASSUME Init PROVE BurstInv
    OBVIOUS
  <2>1. Counted = {} /\ Uncounted = {} /\ attempts = 0
    BY DEF Init, Counted, Uncounted
  <2> QED BY Constants, <2>1, FS_EmptySet DEF BurstInv
<1>2. TypeOK /\ BurstInv /\ [Next]_vars => BurstInv'
  <2> SUFFICES ASSUME TypeOK, BurstInv, [Next]_vars PROVE BurstInv'
    OBVIOUS
  <2>1. CASE PollExited \/ RespawnFails
    BY <2>1, BurstRung DEF PollExited, RespawnFails
  <2>2. CASE Tick
    BY <2>2, BurstTick
  <2>3. CASE /\ made' = made /\ age' = age /\ attempts' = attempts
    BY <2>3 DEF BurstInv, Counted, Uncounted
  <2> QED
    BY <2>1, <2>2, <2>3 DEF Next, Monitor, Crash, Halt, PollRunning, Respawn,
                            MonitorReturns, vars
<1>3. TypeOK /\ BurstInv => BurstBounded
  <2> SUFFICES ASSUME TypeOK, BurstInv PROVE BurstBounded
    OBVIOUS
  <2>1. /\ IsFiniteSet(Counted) /\ Cardinality(Counted) \in Nat
        /\ IsFiniteSet(Uncounted) /\ Cardinality(Uncounted) \in Nat
    BY AgesFinite DEF Counted, Uncounted, TypeOK
  <2> DEFINE within == {a \in made : a <= Window}
  <2>2. within \in SUBSET (Counted \cup Uncounted)
    <3> SUFFICES ASSUME NEW a \in within PROVE a \in Counted \cup Uncounted
      OBVIOUS
    <3>1. a \in Nat /\ age \in Nat
      BY DEF TypeOK
    <3> QED BY <3>1 DEF Counted, Uncounted
  <2>3. /\ IsFiniteSet(Counted \cup Uncounted)
        /\ Cardinality(Counted \cup Uncounted)
             = Cardinality(Counted) + Cardinality(Uncounted)
                 - Cardinality(Counted \cap Uncounted)
    BY <2>1, FS_Union
  <2>4. Cardinality(Counted \cap Uncounted) \in Nat
    <3>1. Counted \cap Uncounted \in SUBSET Counted
      OBVIOUS
    <3> QED BY <2>1, <3>1, FS_Subset, FS_CardinalityType
  <2>5. Cardinality(within) <= Cardinality(Counted \cup Uncounted)
        /\ Cardinality(within) \in Nat
    BY <2>2, <2>3, FS_Subset, FS_CardinalityType
  <2>6. attempts \in Nat /\ attempts <= Rungs
    BY DEF TypeOK
  <2>7. Cardinality(within) <= 2 * Rungs
    <3> HIDE DEF within
    <3> QED BY Constants, <2>1, <2>3, <2>4, <2>5, <2>6 DEF BurstInv
  <2> QED BY <2>7 DEF BurstBounded, MadeWithin
<1> QED BY <1>1, <1>2, <1>3, Typing, PTL DEF Spec

-----------------------------------------------------------------------------
\* A long life before a crash gives the whole ladder back.
THEOREM HealthAlwaysForgives == Spec => HealthForgives
<1> USE DEF TypeOK, Ended
<1>1. Init => HealthInv
  BY Constants DEF Init, HealthInv
<1>2. TypeOK /\ HealthInv /\ [Next]_vars => HealthInv'
  <2> SUFFICES ASSUME TypeOK, HealthInv, [Next]_vars PROVE HealthInv'
    OBVIOUS
  <2>1. CASE Tick
    BY Constants, <2>1 DEF Tick, CapAt, HealthInv
  <2>2. CASE Crash \/ Halt \/ PollRunning \/ Respawn \/ MonitorReturns
    BY Constants, <2>2 DEF Crash, Halt, PollRunning, Respawn, MonitorReturns, HealthInv
  <2>3. CASE PollExited \/ RespawnFails
    BY <2>3 DEF PollExited, RespawnFails, NextRung, HealthInv
  <2>4. CASE UNCHANGED vars
    BY <2>4 DEF vars, HealthInv
  <2> QED BY <2>1, <2>2, <2>3, <2>4 DEF Next, Monitor
<1> DEFINE Forgives == (mon = "watch" /\ mon' # "watch" /\ ~halted /\ upFor = LongUp)
                         => (mon' = "backoff" /\ attempts' = 1)
<1>3. TypeOK /\ HealthInv /\ [Next]_vars => [Forgives]_vars
  <2> SUFFICES ASSUME TypeOK, HealthInv, Next,
                      mon = "watch", mon' # "watch", ~halted, upFor = LongUp
               PROVE  mon' = "backoff" /\ attempts' = 1
    OBVIOUS
  <2>1. CASE PollExited
    <3>1. WindowOver /\ ResetsOn(TRUE)
      BY Constants, <2>1 DEF PollExited, HealthInv, WindowOver, ResetsOn
    <3>2. ~Exhausted(0)
      BY Constants DEF Exhausted
    <3> QED BY <3>1, <3>2, <2>1 DEF PollExited, NextRung
  <2>2. CASE MonitorReturns
    BY <2>2 DEF MonitorReturns, HealthInv
  <2> QED BY <2>1, <2>2 DEF Next, Monitor, Tick, Crash, Halt, PollRunning, Respawn,
                            RespawnFails
<1> QED BY <1>1, <1>2, <1>3, Typing, PTL DEF Spec, HealthForgives

-----------------------------------------------------------------------------
(* Induction over the ladder, by the smallest counterexample.               *)

\* A set of natural numbers that is not empty has a smallest element.
LEMMA SmallestNat ==
  ASSUME NEW T, T \subseteq Nat, T # {}
  PROVE  \E m \in T : \A n \in T : m <= n
<1> DEFINE R == {ss \in Nat \X Nat : ss[1] < ss[2]}
<1>1. IsWellFoundedOn(R, Nat)
  BY NatLessThanWellFounded, Zenon DEF OpToRel
<1>2. PICK m \in T : \A n \in T : ~(<<n, m>> \in R)
  <2> HIDE DEF R
  <2> QED BY <1>1, WFMin
<1>3. ASSUME NEW n \in T PROVE m <= n
  <2>1. ~(<<n, m>> \in R)
    BY <1>2
  <2>2. n \in Nat /\ m \in Nat
    OBVIOUS
  <2>3. ~(n < m)
    BY <2>1, <2>2
  <2> QED BY <2>2, <2>3
<1> QED BY <1>3

\* The sums of the ladder's sleeps up to the rung m.
SumsTo(g, m) ==
  /\ g \in [0 .. m -> Nat]
  /\ g[0] = 0
  /\ \A n \in 1 .. m : g[n] = g[n - 1] + (Delays[n] + MaxLate)

\* There are such sums for every rung: else there is a smallest rung without,
\* and the sums up to the one before it can be extended.
LEMMA SumsExist == \A m \in 0 .. Rungs : \E g : SumsTo(g, m)
<1> DEFINE T == {m \in 0 .. Rungs : ~ \E g : SumsTo(g, m)}
<1> SUFFICES ASSUME T # {} PROVE FALSE
  OBVIOUS
<1>1. PICK m \in T : \A n \in T : m <= n
  <2>1. T \subseteq Nat
    BY Constants
  <2> HIDE DEF T
  <2> QED BY <2>1, SmallestNat
<1>2. m # 0
  <2>1. SumsTo([n \in 0 .. 0 |-> 0], 0)
    BY DEF SumsTo
  <2> QED BY <1>1, <2>1
<1>3. m \in Nat /\ m - 1 \in 0 .. Rungs /\ m - 1 \notin T
  BY <1>1, <1>2, Constants
<1>4. PICK g : SumsTo(g, m - 1)
  BY <1>3
<1>5. Delays[m] + MaxLate \in Nat
  <2>1. m - 1 \in 0 .. Rungs - 1 /\ (m - 1) + 1 = m
    BY <1>1, <1>3, Constants
  <2> QED BY <2>1, Sleeps
<1> DEFINE h == [n \in 0 .. m |-> IF n = m THEN g[m - 1] + (Delays[m] + MaxLate) ELSE g[n]]
<1>6. g[m - 1] \in Nat /\ \A n \in 0 .. m - 1 : g[n] \in Nat
  BY <1>3, <1>4 DEF SumsTo
<1>7. SumsTo(h, m)
  <2>1. h \in [0 .. m -> Nat]
    <3>1. ASSUME NEW n \in 0 .. m PROVE h[n] \in Nat
      <4>1. CASE n = m
        BY <4>1, <1>5, <1>6
      <4>2. CASE n # m
        <5>1. n \in 0 .. m - 1
          BY <4>2, <1>3
        <5> QED BY <5>1, <4>2, <1>6
      <4> QED BY <4>1, <4>2
    <3> QED BY <3>1
  <2>2. h[0] = 0
    BY <1>2, <1>3, <1>4 DEF SumsTo
  <2>3. ASSUME NEW n \in 1 .. m PROVE h[n] = h[n - 1] + (Delays[n] + MaxLate)
    <3>1. n \in 0 .. m /\ n - 1 \in 0 .. m /\ n - 1 # m
      BY <1>3
    <3>2. h[n - 1] = g[n - 1]
      BY <3>1
    <3>3. CASE n = m
      BY <3>1, <3>2, <3>3
    <3>4. CASE n # m
      <4>1. n \in 1 .. m - 1
        BY <3>4, <1>3
      <4>2. g[n] = g[n - 1] + (Delays[n] + MaxLate)
        BY <4>1, <1>4 DEF SumsTo
      <4> QED BY <3>1, <3>2, <3>4, <4>2
    <3> QED BY <3>3, <3>4
  <2> HIDE DEF h
  <2> QED BY <2>1, <2>2, <2>3 DEF SumsTo
<1> QED
  <2>1. \E g1 : SumsTo(g1, m)
    BY <1>7
  <2> QED BY <2>1

\* So slept is what its recursive definition says, and its values are natural
\* numbers: else there is a smallest rung at which one is not.
LEMMA SleptSums ==
  /\ slept \in [0 .. Rungs -> Nat]
  /\ slept[0] = 0
  /\ \A n \in 1 .. Rungs : slept[n] = slept[n - 1] + (Delays[n] + MaxLate)
<1> DEFINE Step(f) == [n \in 0 .. Rungs |->
                        IF n = 0 THEN 0 ELSE f[n - 1] + Delays[n] + MaxLate]
<1>1. \E f : f = Step(f)
  <2>1. PICK g : SumsTo(g, Rungs)
    BY SumsExist, Constants
  <2>2. ASSUME NEW n \in 0 .. Rungs PROVE g[n] = Step(g)[n]
    <3>1. CASE n = 0
      BY <2>1, <3>1 DEF SumsTo
    <3>2. CASE n # 0
      <4>1. n \in 1 .. Rungs /\ n - 1 \in 0 .. Rungs
        BY <3>2, Constants
      <4>2. Delays[n] \in Nat
        BY <4>1, LadderAssumption DEF Rungs
      <4>3. g[n] = g[n - 1] + (Delays[n] + MaxLate) /\ g[n - 1] \in Nat
        BY <2>1, <4>1 DEF SumsTo
      <4>4. g[n] = g[n - 1] + Delays[n] + MaxLate
        BY <4>2, <4>3, Constants
      <4> QED BY <3>2, <4>4
    <3> QED BY <3>1, <3>2
  <2>3. g = Step(g)
    BY <2>1, <2>2 DEF SumsTo
  <2> QED BY <2>3
<1>2. slept = Step(slept)
  BY <1>1, Zenon DEF slept
<1>3. slept[0] = 0
  <2>1. 0 \in 0 .. Rungs
    BY Constants
  <2>2. slept[0] = Step(slept)[0]
    BY <1>2
  <2> QED BY <2>1, <2>2
<1>4. ASSUME NEW n \in 1 .. Rungs
      PROVE  /\ n \in 0 .. Rungs /\ n - 1 \in 0 .. Rungs
             /\ Delays[n] \in Nat
             /\ slept[n] = slept[n - 1] + Delays[n] + MaxLate
  <2>1. n \in 0 .. Rungs /\ n - 1 \in 0 .. Rungs /\ n # 0
    BY Constants
  <2>2. Delays[n] \in Nat
    BY LadderAssumption DEF Rungs
  <2>3. slept[n] = Step(slept)[n]
    BY <1>2
  <2> QED BY <2>1, <2>2, <2>3
<1>5. \A n \in 0 .. Rungs : slept[n] \in Nat
  <2> DEFINE T == {n \in 0 .. Rungs : slept[n] \notin Nat}
  <2> SUFFICES ASSUME T # {} PROVE FALSE
    OBVIOUS
  <2>1. PICK m \in T : \A n \in T : m <= n
    <3>1. T \subseteq Nat
      BY Constants
    <3> HIDE DEF T
    <3> QED BY <3>1, SmallestNat
  <2>2. m \in 1 .. Rungs
    BY <2>1, <1>3, Constants
  <2>3. slept[m - 1] \in Nat
    BY <2>1, <2>2, <1>4
  <2>4. slept[m] \in Nat
    BY <2>2, <2>3, <1>4, Constants
  <2> QED BY <2>4
<1>6. slept = [n \in 0 .. Rungs |-> slept[n]]
  BY <1>2
<1> HIDE DEF Step
<1> QED
  <2>1. slept \in [0 .. Rungs -> Nat]
    BY <1>5, <1>6
  <2>2. ASSUME NEW n \in 1 .. Rungs
        PROVE  slept[n] = slept[n - 1] + (Delays[n] + MaxLate)
    BY <1>4, <1>5, Constants
  <2> QED BY <2>1, <2>2, <1>3

\* No rung is reached later than the last: else there is a smallest rung after
\* which the sum has become smaller.
LEMMA SleptGrows ==
  /\ LadderTime \in Nat /\ LadderTime = slept[Rungs]
  /\ \A n \in 0 .. Rungs : slept[n] \in Nat /\ slept[n] <= LadderTime
<1>1. \A n \in 0 .. Rungs : slept[n] \in Nat
  BY SleptSums
<1>2. ASSUME NEW n \in 0 .. Rungs PROVE slept[n] <= slept[Rungs]
  <2> DEFINE T == {m \in n .. Rungs : ~(slept[n] <= slept[m])}
  <2> SUFFICES ASSUME T # {} PROVE FALSE
    BY Constants
  <2>1. PICK m \in T : \A k \in T : m <= k
    <3>1. T \subseteq Nat
      BY Constants
    <3> HIDE DEF T
    <3> QED BY <3>1, SmallestNat
  <2>2. m \in n .. Rungs /\ ~(slept[n] <= slept[m])
    BY <2>1
  <2>3. m # n
    BY <2>2, <1>1
  <2>4. m \in 1 .. Rungs /\ m - 1 \in n .. Rungs /\ m - 1 \in 0 .. Rungs /\ m \in 0 .. Rungs
    BY <2>2, <2>3, Constants
  <2>5. slept[n] <= slept[m - 1]
    <3>1. m - 1 \notin T
      BY <2>1, <2>4
    <3> QED BY <3>1, <2>4
  <2>6. slept[m] = slept[m - 1] + (Delays[m] + MaxLate)
    BY <2>4, SleptSums
  <2>7. Delays[m] + MaxLate \in Nat
    <3>1. m - 1 \in 0 .. Rungs - 1 /\ (m - 1) + 1 = m
      BY <2>4, Constants
    <3> QED BY <3>1, Sleeps
  <2>8. slept[n] \in Nat /\ slept[m] \in Nat /\ slept[m - 1] \in Nat
    BY <1>1, <2>4
  <2> QED BY <2>2, <2>5, <2>6, <2>7, <2>8
<1> QED BY <1>1, <1>2, Constants DEF LadderTime

-----------------------------------------------------------------------------
\* The sets of attempts that giving up is measured by are finite.
LadderFinite ==
  /\ slept[attempts] \in Nat /\ slept[attempts] <= LadderTime
  /\ Counted \subseteq Nat /\ IsFiniteSet(Counted) /\ Cardinality(Counted) \in Nat
  /\ InLadder \subseteq Nat /\ IsFiniteSet(InLadder) /\ Cardinality(InLadder) \in Nat

LEMMA LadderSets == TypeOK => LadderFinite
<1> SUFFICES ASSUME TypeOK PROVE LadderFinite
  OBVIOUS
<1> USE DEF TypeOK
<1>1. slept[attempts] \in Nat /\ slept[attempts] <= LadderTime
  BY SleptGrows
<1>2. Counted \subseteq {a \in Nat : a <= Window}
  BY DEF Counted
<1>3. Window + slept[attempts] \in Nat
  BY <1>1, Constants
<1>4. ASSUME NEW a \in InLadder PROVE a \in Nat /\ a <= Window + slept[attempts]
  <2>1. a \in Nat /\ timer \in Nat /\ a + timer <= Window + slept[attempts]
    BY DEF InLadder
  <2> QED BY <1>3, <2>1
<1>5. InLadder \subseteq {a \in Nat : a <= Window + slept[attempts]}
  BY <1>4
<1> QED BY <1>1, <1>2, <1>3, <1>5, AgesFinite, AgesUpToFinite DEF LadderFinite

\* One more attempt, whose age no earlier one has.
LEMMA OneMore ==
  ASSUME NEW S, NEW T, IsFiniteSet(T), IsFiniteSet(S), Cardinality(S) \in Nat,
         0 \notin S, S \cup {0} \subseteq T
  PROVE  Cardinality(S) + 1 <= Cardinality(T)
<1>1. Cardinality(S \cup {0}) = Cardinality(S) + 1
  BY FS_AddElement
<1>2. Cardinality(S \cup {0}) <= Cardinality(T)
  BY FS_Subset
<1> QED BY <1>1, <1>2

\* A rung is taken, or the monitor gives up, with what the ladder has counted.
LEMMA EarnedRung ==
  ASSUME TypeOK, TypeOK', EarnedInv, NEW crash \in BOOLEAN, ~crash => mon = "backoff",
         Wakes, NextRung(crash)
  PROVE  EarnedInv'
<1> USE DEF TypeOK
<1> DEFINE reset == ResetsOn(crash) /\ WindowOver
           recent == {a \in made : a <= Window + slept[attempts]}
<1>1. 0 \notin made
  BY Constants DEF EarnedInv, Wakes
<1>2. /\ slept[attempts] \in Nat /\ Window + slept[attempts] \in Nat
      /\ IsFiniteSet(Counted) /\ Cardinality(Counted) \in Nat
      /\ IsFiniteSet(InLadder) /\ Cardinality(InLadder) \in Nat
  BY LadderSets, Constants DEF LadderFinite
<1>3. /\ IsFiniteSet(Counted') /\ Cardinality(Counted') \in Nat
      /\ IsFiniteSet(InLadder') /\ Cardinality(InLadder') \in Nat
  <2>1. LadderFinite'
    BY LadderSets, PTL
  <2> QED BY <2>1 DEF LadderFinite
<1>4. IsFiniteSet(recent) /\ Cardinality(recent) \in Nat
  <2>1. recent \subseteq {a \in Nat : a <= Window + slept[attempts]}
    OBVIOUS
  <2> HIDE DEF recent
  <2> QED BY <1>2, <2>1, AgesUpToFinite
<1>5. ASSUME ~reset, kind = "sidecar" PROVE Cardinality(recent) >= attempts
  <2>1. CASE crash
    <3>1. age <= Window
      BY <1>5, <2>1, Constants DEF ResetsOn, WindowOver
    <3>2. Counted \in SUBSET recent
      <4> SUFFICES ASSUME NEW a \in Counted PROVE a \in recent
        OBVIOUS
      <4>1. a \in made /\ a \in Nat /\ a <= Window
        BY DEF Counted
      <4>2. a <= Window + slept[attempts]
        BY <4>1, <1>2, Constants
      <4> QED BY <4>1, <4>2
    <3>3. Cardinality(Counted) <= Cardinality(recent)
      <4> HIDE DEF recent
      <4> QED BY <3>2, <1>4, FS_Subset
    <3> HIDE DEF recent
    <3> QED BY <3>1, <3>3, <1>2, <1>4 DEF EarnedInv
  <2>2. CASE ~crash
    <3>1. InLadder \in SUBSET recent
      <4> SUFFICES ASSUME NEW a \in InLadder PROVE a \in recent
        OBVIOUS
      <4>1. a \in made /\ a \in Nat /\ timer \in Nat /\ a + timer <= Window + slept[attempts]
        BY DEF InLadder
      <4>2. a <= Window + slept[attempts]
        BY <4>1, <1>2
      <4> QED BY <4>1, <4>2
    <3>2. Cardinality(InLadder) <= Cardinality(recent)
      <4> HIDE DEF recent
      <4> QED BY <3>1, <1>4, FS_Subset
    <3> HIDE DEF recent
    <3> QED BY <2>2, <3>2, <1>2, <1>4, <1>5 DEF EarnedInv
  <2> QED BY <2>1, <2>2
<1>6. CASE mon' = "failed"
  <2>1. /\ ~reset /\ attempts' = attempts /\ age' = age /\ attempts = Rungs
        /\ UNCHANGED <<made, kind, timer>>
    <3>1. ~reset
      BY <1>6, Constants DEF NextRung, Exhausted
    <3> QED BY <1>6, <3>1, Constants DEF NextRung, Exhausted
  <2>2. Counted' = Counted
    BY <2>1 DEF Counted
  <2>3. GiveUpIsEarned'
    <3>1. CASE kind = "sidecar"
      <4>1. Cardinality(recent) >= Rungs
        BY <1>5, <2>1, <3>1
      <4>2. recent = {a \in made : a <= Window + LadderTime}
        BY <2>1 DEF LadderTime
      <4>3. Cardinality({a \in made : a <= Window + LadderTime}) >= Rungs
        BY <4>1, <4>2
      <4> QED BY <4>3, <3>1, <2>1 DEF GiveUpIsEarned, MadeWithin
    <3>2. CASE kind = "harness"
      <4>1. age <= Window
        BY <3>2, <2>1, Constants DEF ResetsOn, WindowOver
      <4>2. Counted \in SUBSET {a \in made : a <= Window}
        BY DEF Counted
      <4>3. {a \in made : a <= Window} \subseteq {a \in Nat : a <= Window}
        OBVIOUS
      <4>4. Cardinality({a \in made : a <= Window}) >= Cardinality(Counted)
        BY <4>2, <4>3, AgesFinite, FS_Subset
      <4>5. Cardinality({a \in made : a <= Window}) \in Nat
        BY <4>3, AgesFinite
      <4>6. Cardinality({a \in made : a <= Window}) >= Rungs
        BY <4>1, <4>4, <4>5, <2>1, <1>2, Constants DEF EarnedInv
      <4> QED BY <4>6, <3>2, <2>1 DEF GiveUpIsEarned, MadeWithin
    <3> QED BY <3>1, <3>2
  <2> QED BY <1>1, <1>6, <2>1, <2>2, <2>3 DEF EarnedInv
<1>7. CASE mon' = "backoff"
  <2> DEFINE n == IF reset THEN 0 ELSE attempts
  <2>1. /\ n \in 0 .. Rungs - 1 /\ attempts' = n + 1 /\ made' = made \cup {0}
        /\ timer' = Delays[n + 1] + MaxLate /\ kind' = kind
    BY <1>7, Constants DEF NextRung, Exhausted, Sleep
  <2>2. timer' > MaxLate /\ timer' \in Nat
    <3>1. Delays[n + 1] \in Nat \ {0}
      BY <2>1, LadderAssumption DEF Rungs
    <3> HIDE DEF n
    <3> QED BY <3>1, <2>1, Constants
  <2>3. slept[attempts'] = slept[n] + timer' /\ slept[n] \in Nat
    <3> HIDE DEF n
    <3>1. n + 1 \in 1 .. Rungs /\ (n + 1) - 1 = n /\ n \in 0 .. Rungs
      BY <2>1, Constants
    <3>2. slept[n + 1] = slept[(n + 1) - 1] + (Delays[n + 1] + MaxLate)
      BY <3>1, SleptSums
    <3>3. slept[n] \in Nat
      BY <3>1, SleptGrows
    <3> QED BY <2>1, <3>1, <3>2, <3>3
  <2>4. 0 \in InLadder'
    <3> HIDE DEF n
    <3> QED BY <2>1, <2>2, <2>3, Constants DEF InLadder
  <2>5. age' <= Window => Cardinality(Counted') >= attempts'
    <3>1. CASE reset
      <4>1. age' = 0 /\ attempts' = 1
        BY <2>1, <3>1 DEF NextRung
      <4>2. 0 \in Counted'
        BY <2>1, <4>1, Constants DEF Counted
      <4>3. 0 + 1 <= Cardinality(Counted')
        BY <4>2, <1>3, FS_EmptySet, OneMore
      <4> QED BY <4>1, <4>3, <1>3
    <3>2. CASE ~reset
      <4>1. age' = age /\ attempts' = attempts + 1
        BY <2>1, <3>2 DEF NextRung
      <4>2. Counted \cup {0} \subseteq Counted' /\ 0 \notin Counted
        BY <2>1, <4>1, <1>1, Constants DEF Counted
      <4>3. Cardinality(Counted) + 1 <= Cardinality(Counted')
        BY <4>2, <1>2, <1>3, OneMore
      <4> QED BY <4>1, <4>3, <1>2, <1>3 DEF EarnedInv
    <3> QED BY <3>1, <3>2
  <2>6. kind' = "sidecar" => Cardinality(InLadder') >= attempts'
    <3>1. CASE reset
      <4>1. attempts' = 1
        BY <2>1, <3>1
      <4>2. 0 + 1 <= Cardinality(InLadder')
        BY <2>4, <1>3, FS_EmptySet, OneMore
      <4> QED BY <4>1, <4>2, <1>3
    <3>2. CASE ~reset
      <4>1. attempts' = attempts + 1 /\ n = attempts
        BY <2>1, <3>2
      <4>2. recent \subseteq InLadder'
        <5> SUFFICES ASSUME NEW a \in recent PROVE a \in InLadder'
          OBVIOUS
        <5>1. a \in Nat /\ a \in made' /\ a <= Window + slept[attempts]
          BY <2>1
        <5>2. slept[attempts'] = slept[attempts] + timer'
          BY <2>3, <4>1
        <5>3. a + timer' <= Window + slept[attempts']
          <6> HIDE DEF recent, n
          <6> QED BY <5>1, <5>2, <1>2, <2>2, Constants
        <5> QED BY <5>1, <5>3 DEF InLadder
      <4>3. recent \cup {0} \subseteq InLadder' /\ 0 \notin recent
        BY <4>2, <2>4, <1>1
      <4>4. Cardinality(recent) + 1 <= Cardinality(InLadder')
        <5> HIDE DEF recent
        <5> QED BY <4>3, <1>3, <1>4, OneMore
      <4> HIDE DEF recent, n
      <4> QED BY <4>1, <4>4, <2>1, <3>2, <1>3, <1>4, <1>5
    <3> QED BY <3>1, <3>2
  <2> QED BY <1>7, <2>1, <2>2, <2>5, <2>6 DEF EarnedInv, GiveUpIsEarned
<1> QED BY <1>6, <1>7 DEF NextRung

\* A tick makes every attempt older and the sleep shorter by the same.
LEMMA EarnedTick ==
  ASSUME TypeOK, TypeOK', EarnedInv, Tick
  PROVE  EarnedInv'
<1> USE DEF TypeOK
<1>1. /\ slept[attempts] \in Nat /\ slept[attempts] <= LadderTime /\ LadderTime \in Nat
      /\ Counted \subseteq Nat /\ InLadder \subseteq Nat
      /\ Cardinality(Counted) \in Nat /\ Cardinality(InLadder) \in Nat
  BY LadderSets, SleptGrows DEF LadderFinite
<1>2. /\ Counted' \subseteq Nat /\ IsFiniteSet(Counted') /\ Cardinality(Counted') \in Nat
      /\ InLadder' \subseteq Nat /\ IsFiniteSet(InLadder') /\ Cardinality(InLadder') \in Nat
  <2>1. LadderFinite'
    BY LadderSets, PTL
  <2> QED BY <2>1 DEF LadderFinite
<1>3. /\ UNCHANGED <<mon, kind, attempts>> /\ timer' = timer - 1 /\ timer > 0
      /\ mon # "failed"
  BY DEF Tick, Ended
<1>4. 0 \notin made'
  BY DEF Tick
<1>5. ASSUME NEW a \in made, a <= Window + LadderTime PROVE a + 1 \in made'
  <2>1. a + 1 # Horizon + 1
    BY <1>1, <1>5, Constants DEF Horizon
  <2> QED BY <2>1 DEF Tick
<1>6. age' <= Window => Cardinality(Counted') >= attempts'
  <2> SUFFICES ASSUME age' <= Window PROVE Cardinality(Counted') >= attempts
    BY <1>3
  <2>1. age' = age + 1 /\ age <= Window
    BY Constants DEF Tick, CapAt
  <2>2. ASSUME NEW a \in Counted PROVE a + 1 \in Counted'
    <3>1. a \in made /\ a \in Nat /\ a <= age /\ a <= Window
      BY DEF Counted
    <3>2. a + 1 \in made'
      BY <3>1, <1>1, <1>5, Constants
    <3> QED BY <3>1, <3>2, <2>1, Constants DEF Counted
  <2>3. Cardinality(Counted) <= Cardinality(Counted')
    BY <2>2, <1>1, <1>2, OlderNotFewer
  <2> QED BY <2>1, <2>3, <1>1, <1>2 DEF EarnedInv
<1>7. mon' = "backoff" /\ kind' = "sidecar" => Cardinality(InLadder') >= attempts'
  <2>1. ASSUME NEW a \in InLadder PROVE a + 1 \in InLadder'
    <3>1. a \in made /\ a \in Nat /\ a + timer <= Window + slept[attempts]
      BY DEF InLadder
    <3>2. a + 1 \in made'
      BY <3>1, <1>1, <1>5, Constants
    <3>3. (a + 1) + timer' <= Window + slept[attempts']
      BY <3>1, <1>1, <1>3, Constants
    <3> QED BY <3>2, <3>3 DEF InLadder
  <2>2. Cardinality(InLadder) <= Cardinality(InLadder')
    BY <2>1, <1>1, <1>2, OlderNotFewer
  <2> QED BY <2>2, <1>1, <1>2, <1>3 DEF EarnedInv
<1> QED BY <1>3, <1>4, <1>6, <1>7 DEF EarnedInv, GiveUpIsEarned

\* Whoever gives up has made a whole ladder of attempts within the window, the
\* sidecar's monitor within the window and the time of one ladder.
THEOREM GivingUpIsEarned == Spec => []GiveUpIsEarned
<1>1. Init => EarnedInv
  <2> SUFFICES ASSUME Init PROVE EarnedInv
    OBVIOUS
  <2>1. Counted = {} /\ attempts = 0 /\ mon = "watch" /\ made = {}
    BY DEF Init, Counted
  <2> QED BY <2>1, FS_EmptySet DEF EarnedInv, GiveUpIsEarned
<1>2. TypeOK /\ TypeOK' /\ EarnedInv /\ [Next]_vars => EarnedInv'
  <2> SUFFICES ASSUME TypeOK, TypeOK', EarnedInv, [Next]_vars PROVE EarnedInv'
    OBVIOUS
  <2>1. CASE Tick
    BY <2>1, EarnedTick
  <2>2. CASE PollExited
    BY <2>2, EarnedRung DEF PollExited
  <2>3. CASE RespawnFails
    BY <2>3, EarnedRung DEF RespawnFails
  <2>4. CASE Crash \/ Halt \/ UNCHANGED vars
    BY <2>4 DEF Crash, Halt, vars, EarnedInv, Counted, InLadder, GiveUpIsEarned, MadeWithin
  <2>5. CASE PollRunning \/ Respawn \/ MonitorReturns
    <3>1. 0 \notin made
      BY <2>5, Constants DEF PollRunning, Respawn, MonitorReturns, EarnedInv, Wakes, TypeOK
    <3>2. UNCHANGED <<made, attempts, age, kind>> /\ mon' \in {"watch", "over"}
      BY <2>5 DEF PollRunning, Respawn, MonitorReturns
    <3> QED BY <3>1, <3>2 DEF EarnedInv, Counted, GiveUpIsEarned
  <2> QED BY <2>1, <2>2, <2>3, <2>4, <2>5 DEF Next, Monitor
<1>3. EarnedInv => GiveUpIsEarned
  BY DEF EarnedInv
<1> QED BY <1>1, <1>2, <1>3, Typing, PTL DEF Spec

=============================================================================
