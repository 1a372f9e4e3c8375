----------------------------- MODULE StateStore -----------------------------
(***************************************************************************)
(* state.c: the daemon's persistent copy of satellite_state_t, written as  *)
(* a temporary file that is fsynced and renamed over the state file.       *)
(*                                                                         *)
(* Each system call of write_record_locked is a step that may fail, and    *)
(* the daemon may be killed or the power cut between any two.  The file    *)
(* system is modelled as far as POSIX promises: the contents of a file     *)
(* survive a power cut for sure only once fsynced, and a rename only once  *)
(* the directory is.  disk holds every file the state path may lead to     *)
(* after a power cut; state is what it leads to now.                       *)
(***************************************************************************)
CONSTANTS
    Values,     \* satellite_state_t
    Default,    \* state_defaults()
    Torn,       \* a record read_record_locked rejects: short, foreign, corrupt
    Absent,     \* no file
    Down,       \* mem while no daemon runs
    ReadFaults  \* open() or read() of a good state file may fail at start-up

ASSUME StoreAssumption ==
    /\ Default \in Values
    /\ Torn \notin Values /\ Absent \notin Values /\ Down \notin Values
    /\ Torn # Absent
    /\ ReadFaults \in BOOLEAN

VARIABLES
    pc,     \* "down", "up", or the call of write_record_locked that is next
    mem,    \* the daemon's satellite_state_t (state in main), or Down
    tmp,    \* the file at g_tmp_path
    state,  \* the file at g_state_path
    disk,   \* the files g_state_path may lead to after a power cut
    failed  \* the last write_record_locked, or flock, returned -1

storevars == <<pc, mem, tmp, state, disk, failed>>

File == [val : Values \cup {Torn, Absent}, synced : BOOLEAN]

NoFile == [val |-> Absent, synced |-> TRUE]

\* What read_record_locked accepts: the right size, magic, version, checksum.
Valid(f) == f.val \in Values

\* The record being written: the defaults while sat_state_init runs, the
\* daemon's copy in sat_state_store.
Record == IF mem = Down THEN Default ELSE mem

StoreInit ==
    /\ pc = "down"
    /\ mem = Down
    /\ tmp = NoFile
    /\ state \in {[val |-> v, synced |-> TRUE] : v \in Values \cup {Torn, Absent}}
    /\ disk = {state}
    /\ failed = FALSE

-----------------------------------------------------------------------------
(* sat_state_init: load a valid record, otherwise write the defaults.      *)

InitLoads ==
    /\ pc = "down"
    /\ Valid(state)
    /\ pc' = "up"
    /\ mem' = state.val
    /\ failed' = FALSE
    /\ UNCHANGED <<tmp, state, disk>>

\* Fault: the defaults are written on every start.
InitAlwaysResets ==
    /\ pc = "down"
    /\ pc' = "open"
    /\ UNCHANGED <<mem, tmp, state, disk, failed>>

InitResets ==
    /\ pc = "down"
    /\ Valid(state) => ReadFaults
    /\ pc' = "open"
    /\ UNCHANGED <<mem, tmp, state, disk, failed>>

(* DMSG_STATE_SET: replace the daemon's copy, then sat_state_store.        *)

Set(v) ==
    /\ pc = "up"
    /\ mem' = v
    /\ pc' = "open"
    /\ UNCHANGED <<tmp, state, disk, failed>>

\* sat_state_store returns -1 without the lock (flock fails).
SetUnlocked(v) ==
    /\ pc = "up"
    /\ mem' = v
    /\ failed' = TRUE
    /\ UNCHANGED <<pc, tmp, state, disk>>

-----------------------------------------------------------------------------
(* write_record_locked                                                     *)

\* Returning 0: sat_state_init hands out the record; a store has succeeded.
Succeed ==
    /\ pc' = "up"
    /\ mem' = Record
    /\ failed' = FALSE

\* Fault: a failed store returns 0.
FailSilently ==
    /\ pc' = IF mem = Down THEN "down" ELSE "up"
    /\ failed' = FALSE
    /\ UNCHANGED <<mem, state, disk>>

\* Returning -1: main gives up on a failed sat_state_init, handle_message
\* only logs a failed sat_state_store.
Fail ==
    /\ pc' = IF mem = Down THEN "down" ELSE "up"
    /\ failed' = TRUE
    /\ UNCHANGED <<mem, state, disk>>

\* open(g_tmp_path, O_CREAT | O_WRONLY | O_TRUNC)
OpenTmp ==
    /\ pc = "open"
    /\ \/ /\ pc' = "write"
          /\ tmp' = [val |-> Torn, synced |-> FALSE]
          /\ UNCHANGED <<mem, state, disk, failed>>
       \/ /\ Fail
          /\ UNCHANGED tmp

\* The write loop; an error unlinks the temporary file.
WriteTmp ==
    /\ pc = "write"
    /\ \/ /\ pc' = "fsync"
          /\ tmp' = [val |-> Record, synced |-> FALSE]
          /\ UNCHANGED <<mem, state, disk, failed>>
       \/ /\ Fail
          /\ tmp' = NoFile

\* Fault: no fsync before the rename.
FsyncTmpSkipped ==
    /\ pc = "fsync"
    /\ pc' = "rename"
    /\ UNCHANGED <<mem, tmp, state, disk, failed>>

FsyncTmp ==
    /\ pc = "fsync"
    /\ \/ /\ pc' = "rename"
          /\ tmp' = [val |-> tmp.val, synced |-> TRUE]
          /\ UNCHANGED <<mem, state, disk, failed>>
       \/ /\ Fail
          /\ tmp' = NoFile

Rename ==
    /\ pc = "rename"
    /\ \/ /\ pc' = "fsync_dir"
          /\ state' = tmp
          /\ disk' = disk \cup {tmp}
          /\ tmp' = NoFile
          /\ UNCHANGED <<mem, failed>>
       \/ /\ Fail
          /\ tmp' = NoFile

\* The fsync of the directory is best effort: its failure is not reported.
FsyncDir ==
    /\ pc = "fsync_dir"
    /\ disk' \in {disk, {state}}
    /\ Succeed
    /\ UNCHANGED <<tmp, state>>

-----------------------------------------------------------------------------
(* The daemon stops: sat_state_close and exit, or a crash at any step.  The *)
(* files stay as the operating system sees them.                           *)

Stop ==
    /\ pc # "down"
    /\ pc' = "down"
    /\ mem' = Down
    /\ UNCHANGED <<tmp, state, disk, failed>>

\* What is left of a file after a power cut.
Survivors(f) == IF f.synced THEN {f.val} ELSE {f.val, Torn}

PowerLoss ==
    /\ pc' = "down"
    /\ mem' = Down
    /\ tmp' = NoFile
    /\ \E f \in disk : \E v \in Survivors(f) :
          state' = [val |-> v, synced |-> TRUE]
    /\ disk' = {state'}
    /\ UNCHANGED failed

StoreNext ==
    \/ InitLoads \/ InitResets
    \/ \E v \in Values : Set(v) \/ SetUnlocked(v)
    \/ OpenTmp \/ WriteTmp \/ FsyncTmp \/ Rename \/ FsyncDir
    \/ Stop \/ PowerLoss

StoreSpec == StoreInit /\ [][StoreNext]_storevars

-----------------------------------------------------------------------------
(* Properties *)

\* Every variable keeps its type; the state path is one of the files it may
\* lead to after a power cut.
StoreTypeOK ==
    /\ pc \in {"down", "up", "open", "write", "fsync", "rename", "fsync_dir"}
    /\ mem \in Values \cup {Down}
    /\ tmp \in File
    /\ state \in disk
    /\ disk \subseteq File
    /\ failed \in BOOLEAN

\* write_record_locked never exposes an unsynced file under the state path:
\* whatever a power cut leaves there is a complete record (or what was there
\* before the first start).
OnlySyncedExposed == \A f \in disk : f.synced

\* While the daemon serves requests and its last store did not report an
\* error, the state it answers DMSG_STATE_GET with is the state that a killed
\* and restarted daemon would load.
ServesWhatItStored == pc = "up" /\ ~failed => state.val = mem

\* A record read_record_locked accepts as it is seen by a later start.
Loaded(f) == IF Valid(f) THEN f.val ELSE Default

D == INSTANCE DurableState WITH candidates <- {Loaded(f) : f \in disk}

\* The file protocol of state.c implements the durable state of DurableState:
\* over failed calls, crashes and power cuts, a restart comes back with a
\* state that was stored and not since replaced for good, and never falls
\* back to the defaults.
StoreIsDurable == D!DSpec
=============================================================================
