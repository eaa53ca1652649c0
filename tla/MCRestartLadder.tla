--------------------------- MODULE MCRestartLadder ---------------------------
(* A small instance of RestartLadder for TLC.                               *)
EXTENDS RestartLadder

ShortLadder == <<1, 2, 2>>

\* A ladder of failing spawns ends within the window, as 18 seconds do within
\* 300; without this a harness whose spawns fail is retried for ever.
ASSUME LadderFitsWindow == LadderTime <= Window

=============================================================================
