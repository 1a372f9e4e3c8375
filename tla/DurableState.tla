---------------------------- MODULE DurableState ----------------------------
(***************************************************************************)
(* What the state store promises its users, without files: the daemon has  *)
(* a current state in memory while it is up, and there is a set of states  *)
(* a restart may come back with.  A state enters that set only by being    *)
(* stored, and a finished store leaves it as the only one.  Neither a      *)
(* crash nor a power loss adds anything, the defaults included.            *)
(***************************************************************************)
CONSTANTS
    Values,     \* satellite_state_t
    Default,    \* state_defaults()
    Down        \* mem while no daemon runs

VARIABLES
    mem,        \* the daemon's copy of the state, or Down
    candidates  \* the states a restart may find

dvars == <<mem, candidates>>

DInit ==
    /\ mem = Down
    /\ \E v \in Values : candidates = {v}

\* DMSG_STATE_SET replaces the daemon's copy.
DSet ==
    /\ mem # Down
    /\ mem' \in Values
    /\ UNCHANGED candidates

\* From here on a restart may find the current state...
DMayPersist ==
    /\ mem # Down
    /\ candidates' = candidates \cup {mem}
    /\ UNCHANGED mem

\* ... and from here on it finds nothing else.
DPersist ==
    /\ mem # Down
    /\ candidates' = {mem}
    /\ UNCHANGED mem

\* The daemon stops, or is down: what a restart finds can only become more
\* definite.
DDown ==
    /\ mem' = Down
    /\ candidates' \in (SUBSET candidates) \ {{}}

\* A restart finds one of the candidates, and may settle on it.
DRecover ==
    /\ mem = Down
    /\ mem' \in candidates
    /\ candidates' \in {candidates, {mem'}}

DNext == DSet \/ DMayPersist \/ DPersist \/ DDown \/ DRecover

DSpec == DInit /\ [][DNext]_dvars
=============================================================================
