--------------------------- MODULE MCProcessManager ---------------------------
(* Instances of ProcessManager for TLC. *)
EXTENDS ProcessManager, TLC

CONSTANTS app, uploader

\* An "ON_FAILURE" process is restarted after some exits and not after others,
\* which takes in the behaviour of "ALWAYS".
MCPolicy == [p \in Procs |-> IF p = app THEN "ON_FAILURE" ELSE "NEVER"]

Symmetry == Permutations(Pids)

=============================================================================
