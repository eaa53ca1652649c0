-------------------------- MODULE UpdateFlow_proofs --------------------------
(***************************************************************************)
(* Theorems about UpdateFlow, for every set of updates, every assignment   *)
(* of versions and every number of checks, retries and installs.           *)
(***************************************************************************)
EXTENDS UpdateFlow, TLAPS

USE DEF history

LEMMA InitTypeOK == Init => TypeOK
<1> SUFFICES ASSUME Init PROVE TypeOK
  OBVIOUS
<1>1. NoState \in States
  BY DEF NoState, States
<1>2. {loading, verifying} \subseteq [Updates -> Nat]
  BY DEF Init
<1>3. /\ checked \in 0 .. MaxChecks /\ checks \in 0 .. checked
      /\ retried \in 0 .. MaxRetries
  BY UpdatesAssumption DEF Init
<1>4. /\ install \in [Clicks -> {"idle", "backup", "prepare", "install", "exited"}]
      /\ target \in [Clicks -> Updates \cup {NoUpdate}]
      /\ \A i \in Clicks : install[i] = "idle" <=> target[i] = NoUpdate
  BY DEF Init
<1> QED
  BY <1>1, <1>2, <1>3, <1>4 DEF Init, TypeOK

LEMMA NextTypeOK == TypeOK /\ [Next]_vars => TypeOK'
<1> SUFFICES ASSUME TypeOK, [Next]_vars PROVE TypeOK'
  OBVIOUS
<1> USE UpdatesAssumption
<1>1. CASE Check
  <2>1. state' \in States
    BY <1>1 DEF TypeOK, States, Check
  <2>2. checked' \in 0 .. MaxChecks /\ checks' \in 0 .. checked'
    BY <1>1 DEF TypeOK, Check
  <2> QED
    BY <1>1, <2>1, <2>2 DEF TypeOK, Check, loads, installs
<1>2. CASE CheckAnswers
  <2>1. state' \in States
    BY <1>2 DEF TypeOK, States, CheckAnswers
  <2>2. checks' \in 0 .. checked'
    <3>1. checks > 0 /\ checks' = checks - 1 /\ checked' = checked
      BY <1>2 DEF CheckAnswers, bounds
    <3>2. checked \in Nat /\ checks \in 0 .. checked
      BY DEF TypeOK
    <3> QED
      BY <3>1, <3>2
  <2> QED
    BY <1>2, <2>1, <2>2 DEF TypeOK, CheckAnswers, loads, installs, bounds
<1>3. ASSUME NEW clears \in BOOLEAN, Retry(clears) PROVE TypeOK'
  <2>1. state' \in States
    BY <1>3 DEF TypeOK, States, Retry
  <2>2. /\ retried' \in 0 .. MaxRetries
        /\ {loading', verifying'} \subseteq [Updates -> Nat]
        /\ downloaded' \subseteq Updates
        /\ tried' \subseteq {Version[u] : u \in Updates}
    <3>1. CASE rendered.update # NoUpdate
      BY <1>3, <3>1 DEF TypeOK, States, Retry, Load
    <3>2. CASE rendered.update = NoUpdate
      BY <1>3, <3>2 DEF TypeOK, States, Retry, loads
    <3> QED
      BY <3>1, <3>2
  <2> QED
    BY <1>3, <2>1, <2>2 DEF TypeOK, Retry, installs
<1>4. ASSUME NEW u \in Updates, Finished(u) PROVE TypeOK'
  <2>1. state' \in States
    BY <1>4 DEF TypeOK, States, Finished
  <2>2. {loading', verifying'} \subseteq [Updates -> Nat]
    BY <1>4 DEF TypeOK, Finished
  <2> QED
    BY <1>4, <2>1, <2>2 DEF TypeOK, Finished, installs, bounds
<1>5. ASSUME NEW u \in Updates, Returns(u) PROVE TypeOK'
  BY <1>5 DEF TypeOK, States, Returns, installs, bounds
<1>6. ASSUME NEW u \in Updates, DownloadFails(u) PROVE TypeOK'
  <2>1. {loading', verifying'} \subseteq [Updates -> Nat]
    BY <1>6 DEF TypeOK, DownloadFails
  <2>2. state' \in States
    BY <1>6 DEF TypeOK, States, DownloadFails
  <2> QED
    BY <1>6, <2>1, <2>2 DEF TypeOK, DownloadFails, installs, bounds
<1>7. CASE Dismiss
  BY <1>7 DEF TypeOK, States, Dismiss, loads, installs, bounds
<1>8. CASE Render
  BY <1>8 DEF TypeOK, States, Render, loads, installs, bounds
<1>9. CASE Effects
  <2>1. CASE AutoDownloads
    <3>1. state' \in States /\ rendered.update \in Updates
      BY <1>9, <2>1 DEF TypeOK, States, Effects, AutoDownloads, Offered
    <3>2. /\ loading' \in [Updates -> Nat]
          /\ tried' \subseteq {Version[u] : u \in Updates}
          /\ UNCHANGED <<verifying, downloaded>>
      BY <1>9, <2>1, <3>1 DEF TypeOK, Effects, Load
    <3> QED
      BY <1>9, <3>1, <3>2 DEF TypeOK, Effects, installs, bounds
  <2>2. CASE ~AutoDownloads
    BY <1>9, <2>2 DEF TypeOK, States, Effects, loads, installs, bounds
  <2> QED
    BY <2>1, <2>2
<1>10. ASSUME NEW i \in Clicks, Click(i) PROVE TypeOK'
  BY <1>10 DEF TypeOK, States, Click, InstallGoes, loads, bounds
<1>11. ASSUME NEW i \in Clicks, AbortInstall(i) PROVE TypeOK'
  BY <1>11
  DEF TypeOK, States, AbortInstall, InstallGoes, InstallWaits, loads, bounds
<1>12. ASSUME NEW i \in Clicks, Proceed(i) PROVE TypeOK'
  BY <1>12 DEF TypeOK, Proceed, InstallGoes, InstallWaits, loads, bounds
<1>13. ASSUME NEW i \in Clicks, RunInstaller(i) PROVE TypeOK'
  BY <1>13 DEF TypeOK, RunInstaller, InstallGoes, InstallWaits, loads, bounds
<1>14. CASE UNCHANGED vars
  BY <1>14 DEF TypeOK, vars, loads, installs, bounds
<1> QED
  BY <1>1, <1>2, <1>3, <1>4, <1>5, <1>6, <1>7, <1>8, <1>9, <1>10, <1>11, <1>12,
     <1>13, <1>14 DEF Next, Downloads, InstallSteps

\* Every variable keeps its type, and an install under way has an update.
THEOREM Typing == Spec => []TypeOK
  BY InitTypeOK, NextTypeOK, PTL DEF Spec

-----------------------------------------------------------------------------
\* Without a download of the user's and a refused signature: `downloading` is
\* TRUE for exactly as long as there is one, and an effect that would start
\* another one has not seen it yet only if it is over.
Alone == retried = 0 /\ ~rejected

OneDownload ==
  Alone =>
    /\ \A u \in Updates : loading[u] > 0 => state.downloading
    /\ due # {} /\ ~rendered.downloading => ~state.downloading

LoadInv == ProgressIsReal /\ AutoDownloadsDoNotOverlap /\ OneDownload

LEMMA InitLoadInv == Init => LoadInv
  BY DEF Init, NoState, LoadInv, ProgressIsReal, AutoDownloadsDoNotOverlap, OneDownload

\* Starting a download where none is under way.
LEMMA Starts ==
  ASSUME TypeOK, LoadInv, NEW u \in Updates, Load(u),
         Alone' => \A w \in Updates : loading[w] = 0
  PROVE  /\ loading'[u] > 0
         /\ AutoDownloadsDoNotOverlap'
  BY DEF TypeOK, LoadInv, Load, AutoDownloadsDoNotOverlap, Alone

LEMMA NextLoadInv == TypeOK /\ LoadInv /\ [Next]_vars => LoadInv'
<1> SUFFICES ASSUME TypeOK, LoadInv, [Next]_vars PROVE LoadInv'
  OBVIOUS
<1> USE DEF ProgressIsReal, AutoDownloadsDoNotOverlap, OneDownload, Alone
<1>1. CASE Check
  BY <1>1 DEF TypeOK, States, LoadInv, Check, loads
<1>2. CASE CheckAnswers
  BY <1>2 DEF TypeOK, States, LoadInv, CheckAnswers, loads, bounds
<1>3. ASSUME NEW clears \in BOOLEAN, Retry(clears) PROVE LoadInv'
  <2>1. retried' # 0
    BY <1>3 DEF TypeOK, Retry
  <2>2. ProgressIsReal'
    <3>1. CASE rendered.update # NoUpdate
      <4>1. loading'[rendered.update] > 0 /\ rendered.update \in Updates
        BY <1>3, <3>1 DEF TypeOK, States, Retry, Load
      <4> QED
        BY <4>1
    <3>2. CASE rendered.update = NoUpdate
      BY <1>3, <3>2 DEF TypeOK, States, LoadInv, Retry, loads
    <3> QED
      BY <3>1, <3>2
  <2> QED
    BY <2>1, <2>2 DEF LoadInv
<1>4. ASSUME NEW u \in Updates, Finished(u) PROVE LoadInv'
  BY <1>4 DEF TypeOK, States, LoadInv, Finished, bounds
<1>5. ASSUME NEW u \in Updates, Returns(u) PROVE LoadInv'
  BY <1>5 DEF LoadInv, Returns, bounds
<1>6. ASSUME NEW u \in Updates, DownloadFails(u) PROVE LoadInv'
  <2>1. loading[u] > 0 \/ rejected'
    BY <1>6 DEF DownloadFails
  <2>2. ~state'.downloading /\ retried' = retried
    BY <1>6 DEF TypeOK, States, DownloadFails, bounds
  <2>3. Alone' => Alone /\ \A w \in Updates : loading'[w] = 0
    <3>1. ASSUME Alone' PROVE Alone /\ loading' = [loading EXCEPT ![u] = @ - 1]
      BY <1>6, <2>2, <3>1 DEF TypeOK, DownloadFails
    <3>2. ASSUME Alone', NEW w \in Updates PROVE loading'[w] = 0
      <4>1. loading \in [Updates -> Nat] /\ loading[u] > 0
        BY <2>1, <3>2 DEF TypeOK
      <4>2. CASE w = u
        BY <3>1, <3>2, <4>1, <4>2 DEF LoadInv
      <4>3. CASE w # u
        BY <3>1, <3>2, <4>1, <4>3 DEF LoadInv
      <4> QED
        BY <4>2, <4>3
    <3> QED
      BY <3>1, <3>2
  <2> QED
    BY <2>2, <2>3 DEF LoadInv
<1>7. CASE Dismiss
  BY <1>7 DEF TypeOK, States, LoadInv, Dismiss, loads, bounds
<1>8. CASE Render
  BY <1>8 DEF TypeOK, States, LoadInv, Render, loads, bounds
<1>9. CASE Effects
  <2>1. CASE AutoDownloads
    <3>1. rendered.update \in Updates /\ Load(rendered.update)
      BY <1>9, <2>1 DEF TypeOK, States, Effects, AutoDownloads, Offered
    <3>2. Alone' => \A w \in Updates : loading[w] = 0
      BY <1>9, <2>1 DEF TypeOK, LoadInv, Effects, AutoDownloads, Idle, bounds
    <3>3. loading'[rendered.update] > 0 /\ AutoDownloadsDoNotOverlap'
      BY <3>1, <3>2, Starts
    <3>4. state'.downloading /\ due' = {}
      BY <1>9, <2>1 DEF TypeOK, States, Effects
    <3> QED
      BY <3>1, <3>3, <3>4 DEF LoadInv
  <2>2. CASE ~AutoDownloads
    BY <1>9, <2>2 DEF LoadInv, Effects, loads, bounds
  <2> QED
    BY <2>1, <2>2
<1>10. ASSUME NEW i \in Clicks, Click(i) PROVE LoadInv'
  BY <1>10 DEF LoadInv, Click, loads, bounds
<1>11. ASSUME NEW i \in Clicks, AbortInstall(i) PROVE LoadInv'
  BY <1>11 DEF TypeOK, States, LoadInv, AbortInstall, InstallWaits, loads, bounds
<1>12. ASSUME NEW i \in Clicks, Proceed(i) PROVE LoadInv'
  BY <1>12 DEF LoadInv, Proceed, InstallWaits, loads, bounds
<1>13. ASSUME NEW i \in Clicks, RunInstaller(i) PROVE LoadInv'
  BY <1>13 DEF LoadInv, RunInstaller, InstallWaits, loads, bounds
<1>14. CASE UNCHANGED vars
  BY <1>14 DEF LoadInv, vars, loads, bounds
<1> QED
  BY <1>1, <1>2, <1>3, <1>4, <1>5, <1>6, <1>7, <1>8, <1>9, <1>10, <1>11, <1>12,
     <1>13, <1>14 DEF Next, Downloads, InstallSteps

THEOREM Loading == Spec => []LoadInv
  BY InitTypeOK, NextTypeOK, InitLoadInv, NextLoadInv, PTL DEF Spec

\* Whatever overlaps, the progress bar always belongs to a download.
THEOREM ProgressAlwaysReal == Spec => []ProgressIsReal
  BY Loading, PTL DEF LoadInv

\* Automatic downloads never overlap, however many checks answer.
THEOREM AutoNeverOverlaps == Spec => []AutoDownloadsDoNotOverlap
  BY Loading, PTL DEF LoadInv

=============================================================================
