--------------------------- MODULE MCRestartHistory ---------------------------
(* Instances of RestartHistory for TLC. *)
EXTENDS RestartHistory, TLC

CONSTANTS app, uploader

MCPolicy == [p \in Procs |-> IF p = app THEN "ALWAYS" ELSE "NEVER"]

\* The behaviours in which nobody asks the daemon to stop: main() restarts nothing
\* once it was asked, and the time is better spent on more restarts.
LongRunSpec == HistoryInit /\ [][HistoryNext /\ "TERM" \notin pending']_<<vars, history>>
=============================================================================
