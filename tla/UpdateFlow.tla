------------------------------ MODULE UpdateFlow ------------------------------
(***************************************************************************)
(* The updater hook, ui/src/hooks/useUpdater.ts: one React state that      *)
(* overlapping checks, downloads, retries, dismissals and installs read    *)
(* and write.                                                              *)
(*                                                                         *)
(* Every setState, and the code between two awaits, is one action.  React  *)
(* renders the state some time after it has changed (Render), and runs the *)
(* effects of a rendering before the next one (Effects); the functions     *)
(* that the user calls meanwhile are those of the last rendering.  The     *)
(* `checking` and `progress` fields are for display only and left out.     *)
(***************************************************************************)
EXTENDS Naturals

CONSTANTS
  Updates,     \* the Update objects check() may return, each once
  Version,     \* the version each of them is of
  Clicks,      \* the calls of installAndRestart
  NoUpdate,    \* state.update = null
  MaxChecks,   \* bound on checkForUpdates
  MaxRetries   \* bound on the downloads the user asks for

ASSUME UpdatesAssumption ==
  /\ NoUpdate \notin Updates
  /\ Version \in [Updates -> Nat]
  /\ MaxChecks \in Nat /\ MaxRetries \in Nat

VARIABLES
  state,       \* the React state
  rendered,    \* the state of the last rendering
  due,         \* the effects of that rendering that are still to run
  initiated,   \* downloadInitiatedRef
  checks,      \* calls of check() under way
  loading,     \* downloads under way, by Update object
  verifying,   \* downloads that reported Finished and have not returned
  downloaded,  \* the Update objects whose download has returned
  install,     \* where each call of installAndRestart is
  target,      \* the update each of them installs
  checked,     \* how many checks were made
  retried,     \* how many downloads the user asked for
  tried,       \* history: the versions a download was started for
  rejected     \* history: whether a download failed after it had reported Finished

loads == <<loading, verifying, downloaded>>
installs == <<install, target>>
bounds == <<checked, retried>>
history == <<tried, rejected>>
vars == <<state, rendered, due, initiated, checks, loads, installs, bounds, history>>

States == [available : BOOLEAN, downloading : BOOLEAN, readyToInstall : BOOLEAN,
           error : BOOLEAN, update : Updates \cup {NoUpdate}]

TypeOK ==
  /\ {state, rendered} \subseteq States
  /\ due \subseteq {"download", "reset"}
  /\ initiated \in BOOLEAN
  /\ {loading, verifying} \subseteq [Updates -> Nat]
  /\ downloaded \subseteq Updates
  /\ install \in [Clicks -> {"idle", "backup", "prepare", "install", "exited"}]
  /\ target \in [Clicks -> Updates \cup {NoUpdate}]
  /\ \A i \in Clicks : install[i] = "idle" <=> target[i] = NoUpdate
  /\ checked \in 0 .. MaxChecks /\ checks \in 0 .. checked
  /\ retried \in 0 .. MaxRetries
  /\ tried \subseteq {Version[u] : u \in Updates}
  /\ rejected \in BOOLEAN

NoState == [available |-> FALSE, downloading |-> FALSE, readyToInstall |-> FALSE,
            error |-> FALSE, update |-> NoUpdate]

Init ==
  /\ state = NoState /\ rendered = NoState /\ due = {}
  /\ initiated = FALSE
  /\ checks = 0
  /\ loading = [u \in Updates |-> 0] /\ verifying = loading
  /\ downloaded = {}
  /\ install = [i \in Clicks |-> "idle"]
  /\ target = [i \in Clicks |-> NoUpdate]
  /\ checked = 0 /\ retried = 0
  /\ tried = {} /\ rejected = FALSE

\* The application is there until the installer has taken over.
Running == \A i \in Clicks : install[i] # "exited"

-----------------------------------------------------------------------------
(* checkForUpdates.                                                         *)

Check ==
  /\ Running /\ checked < MaxChecks
  /\ checked' = checked + 1
  /\ checks' = checks + 1
  /\ state' = [state EXCEPT !.error = FALSE]
  /\ UNCHANGED <<rendered, due, initiated, loads, installs, retried, history>>

\* Each answer is an object of its own.
Fresh(u) == u # state.update /\ loading[u] + verifying[u] = 0 /\ u \notin downloaded

CheckAnswers ==
  /\ Running /\ checks > 0
  /\ checks' = checks - 1
  /\ \/ \E u \in Updates :
          Fresh(u) /\ state' = [state EXCEPT !.available = TRUE, !.update = u]
     \/ state' = [state EXCEPT !.available = FALSE]
     \/ state' = [state EXCEPT !.error = TRUE]
  /\ UNCHANGED <<rendered, due, initiated, loads, installs, bounds, history>>

-----------------------------------------------------------------------------
(* downloadUpdate.                                                          *)

Load(u) ==
  /\ loading' = [loading EXCEPT ![u] = @ + 1]
  /\ tried' = tried \cup {Version[u]}
  /\ UNCHANGED <<verifying, downloaded>>

\* downloadUpdate called by the user, or retryDownload, which clears the error.
Retry(clears) ==
  /\ Running /\ retried < MaxRetries
  /\ retried' = retried + 1
  /\ state' = [state EXCEPT !.downloading = @ \/ rendered.update # NoUpdate,
                            !.error = @ /\ ~clears]
  /\ IF rendered.update # NoUpdate THEN Load(rendered.update)
                                   ELSE UNCHANGED <<loads, tried>>
  /\ UNCHANGED <<rendered, due, initiated, checks, installs, checked, rejected>>

\* The event Finished: everything is here, and the signature is to be verified.
Finished(u) ==
  /\ Running /\ loading[u] > 0
  /\ loading' = [loading EXCEPT ![u] = @ - 1]
  /\ verifying' = [verifying EXCEPT ![u] = @ + 1]
  /\ state' = [state EXCEPT !.downloading = FALSE, !.readyToInstall = TRUE]
  /\ UNCHANGED <<rendered, due, initiated, checks, downloaded, installs, bounds, history>>

Returns(u) ==
  /\ Running /\ verifying[u] > 0
  /\ verifying' = [verifying EXCEPT ![u] = @ - 1]
  /\ downloaded' = downloaded \cup {u}
  /\ UNCHANGED <<state, rendered, due, initiated, checks, loading, installs, bounds, history>>

\* Mutant of DownloadFails: the error is shown, and the progress bar stays.
DownloadFailsBusy(u) ==
  /\ Running /\ loading[u] > 0
  /\ loading' = [loading EXCEPT ![u] = @ - 1]
  /\ state' = [state EXCEPT !.error = TRUE]
  /\ UNCHANGED <<rendered, due, initiated, checks, verifying, downloaded, installs,
                 bounds, history>>

\* The download throws, on the way or at the signature.
DownloadFails(u) ==
  /\ Running
  /\ \/ /\ loading[u] > 0
        /\ loading' = [loading EXCEPT ![u] = @ - 1]
        /\ UNCHANGED <<verifying, rejected>>
     \/ /\ verifying[u] > 0
        /\ verifying' = [verifying EXCEPT ![u] = @ - 1]
        /\ rejected' = TRUE
        /\ UNCHANGED loading
  /\ state' = [state EXCEPT !.downloading = FALSE, !.error = TRUE]
  /\ UNCHANGED <<rendered, due, initiated, checks, downloaded, installs, bounds, tried>>

Dismiss ==
  /\ Running
  /\ state' = [state EXCEPT !.available = FALSE, !.readyToInstall = FALSE,
                            !.update = NoUpdate]
  /\ UNCHANGED <<rendered, due, initiated, checks, loads, installs, bounds, history>>

-----------------------------------------------------------------------------
(* Rendering, and the two effects that watch the state.                     *)

VersionOf(u) == IF u = NoUpdate THEN {} ELSE {Version[u]}

\* Mutant of Deps: the dependencies are those of the progress bar.
DepsShort(s) == <<s.downloading, s.readyToInstall, s.error>>

\* What the download effect depends on: the whole state but what is displayed.
Deps(s) == <<s.available, s.update, s.downloading, s.readyToInstall, s.error>>

Render ==
  /\ Running /\ due = {} /\ state # rendered
  /\ rendered' = state
  /\ due' = {e \in {"download", "reset"} :
               \/ e = "download" /\ Deps(state) # Deps(rendered)
               \/ e = "reset" /\ VersionOf(state.update) # VersionOf(rendered.update)}
  /\ UNCHANGED <<state, initiated, checks, loads, installs, bounds, history>>

Offered(s) == s.available /\ s.update # NoUpdate
Idle(s) == ~s.downloading /\ ~s.readyToInstall /\ ~s.error

\* Mutant of AutoDownloads: a download under way is no reason to wait.
AutoDownloadsAnyway ==
  /\ "download" \in due
  /\ Offered(rendered) /\ Idle([rendered EXCEPT !.downloading = FALSE])
  /\ ~initiated

AutoDownloads == "download" \in due /\ Offered(rendered) /\ Idle(rendered) /\ ~initiated

\* The effects run in the order they are declared: the first one starts the
\* download, and the second one may take the flag that says so back at once.
Effects ==
  /\ Running /\ due # {}
  /\ due' = {}
  /\ initiated' = ("reset" \notin due /\ (initiated \/ AutoDownloads))
  /\ IF AutoDownloads
       THEN Load(rendered.update) /\ state' = [state EXCEPT !.downloading = TRUE]
       ELSE UNCHANGED <<state, loads, tried>>
  /\ UNCHANGED <<rendered, checks, installs, bounds, rejected>>

-----------------------------------------------------------------------------
(* installAndRestart.                                                       *)

InstallGoes(i, from, to) ==
  /\ Running
  /\ install[i] = from
  /\ install' = [install EXCEPT ![i] = to]

\* Mutant of Click: there need not be an update.
ClickUnchecked(i) ==
  /\ InstallGoes(i, "idle", "backup")
  /\ target' = [target EXCEPT ![i] = rendered.update]
  /\ UNCHANGED <<state, rendered, due, initiated, checks, loads, bounds, history>>

Click(i) ==
  /\ InstallGoes(i, "idle", "backup")
  /\ rendered.update # NoUpdate
  /\ target' = [target EXCEPT ![i] = rendered.update]
  /\ UNCHANGED <<state, rendered, due, initiated, checks, loads, bounds, history>>

InstallWaits == <<rendered, due, initiated, checks, loads, bounds, history>>

\* Mutant of AbortInstall: the error of a later step is logged and not shown.
AbortUnseen(i) ==
  /\ \E from \in {"backup", "install"} : InstallGoes(i, from, "idle")
  /\ target' = [target EXCEPT ![i] = NoUpdate]
  /\ UNCHANGED <<state, InstallWaits>>

\* The backup fails, or install throws, as it always does for an update that
\* was not downloaded.
AbortInstall(i) ==
  /\ \E from \in {"backup", "install"} : InstallGoes(i, from, "idle")
  /\ target' = [target EXCEPT ![i] = NoUpdate]
  /\ state' = [state EXCEPT !.error = TRUE]
  /\ UNCHANGED InstallWaits

\* An error of prepare_for_update is only logged.
Proceed(i) ==
  /\ InstallGoes(i, "backup", "prepare") \/ InstallGoes(i, "prepare", "install")
  /\ UNCHANGED <<state, target, InstallWaits>>

RunInstaller(i) ==
  /\ InstallGoes(i, "install", "exited")
  /\ target[i] \in downloaded
  /\ UNCHANGED <<state, target, InstallWaits>>

-----------------------------------------------------------------------------
Downloads == \E u \in Updates : Finished(u) \/ Returns(u) \/ DownloadFails(u)
InstallSteps(i) == AbortInstall(i) \/ Proceed(i) \/ RunInstaller(i)

Next ==
  \/ Check \/ CheckAnswers
  \/ \E clears \in BOOLEAN : Retry(clears)
  \/ Downloads
  \/ Dismiss
  \/ Render \/ Effects
  \/ \E i \in Clicks : Click(i) \/ InstallSteps(i)

Spec == Init /\ [][Next]_vars

\* React renders and runs the effects, and an install ends, in success or in an
\* error.  A check or a download need not end: neither has a timeout.
FairSpec ==
  /\ Spec
  /\ WF_vars(Render) /\ WF_vars(Effects)
  /\ \A i \in Clicks : WF_vars(InstallSteps(i))

-----------------------------------------------------------------------------
(* Properties.                                                              *)

\* A progress bar always belongs to a download: whichever downloads overlap and
\* however they end, none leaves `downloading` behind, which would also keep
\* the hook from ever downloading again.
ProgressIsReal == state.downloading => \E u \in Updates : loading[u] > 0

\* "Auto-download when update available (with ref to prevent race conditions)"
\* (useUpdater.ts:192): unless the user starts one, no two downloads overlap,
\* however many checks answer meanwhile.  The exception is in the code: a
\* download whose signature is refused takes `downloading` back from the one
\* that was started after it; see the README.
AutoDownloadsDoNotOverlap ==
  (retried = 0 /\ ~rejected) =>
    /\ \A u \in Updates : loading[u] <= 1
    /\ \A u, w \in Updates : loading[u] > 0 /\ loading[w] > 0 => u = w

\* The same line again: an update that is offered while none was ever downloaded
\* is downloaded, or withdrawn, dismissed or replaced by an error.  A later
\* version need not be: see the README.
FirstUpdateIsDownloaded ==
  (Offered(state) /\ Idle(state) /\ tried = {})
    ~> (tried # {} \/ ~Offered(state) \/ state.error \/ ~Running)

\* The user who asked for an install gets the installer, or an error.
InstallIsAnswered ==
  \A i \in Clicks : install[i] = "backup" ~> (state.error \/ ~Running)

=============================================================================
