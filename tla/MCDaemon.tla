------------------------------- MODULE MCDaemon -------------------------------
(* Instances of Daemon for TLC. *)
EXTENDS Daemon

CONSTANTS app, uploader

\* One process of the kind of payload_app, one of the kind of video_uploader.
MCPolicy == [p \in Procs |-> IF p = app THEN "ALWAYS" ELSE "NEVER"]

MCMandatory == {app}

=============================================================================
