---------------------------- MODULE MCStateStore ----------------------------
(* The defaults and two other states. *)
EXTENDS StateStore

CONSTANTS defaults, running, fault

MCValues == {defaults, running, fault}
=============================================================================
