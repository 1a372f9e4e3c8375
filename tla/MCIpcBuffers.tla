---------------------------- MODULE MCIpcBuffers ----------------------------
(* An instance of IpcBuffers for TLC. *)
EXTENDS IpcBuffers
=============================================================================
