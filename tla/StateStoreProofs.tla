--------------------------- MODULE StateStoreProofs ---------------------------
(***************************************************************************)
(* Theorems about the state store, for any set of states.                  *)
(***************************************************************************)
EXTENDS StateStore, TLAPS

\* The provers' time limits, for the leaves that do not name a prover.
USE ZenonT(10), SMTT(60)

Writing == {"open", "write", "fsync", "rename"}

\* What each step of write_record_locked knows of the temporary file, of the
\* state file and of the daemon's copy.
WriterInv ==
    /\ pc = "down" => mem = Down
    /\ pc = "up" => mem # Down
    /\ pc = "fsync" => tmp.val = Record
    /\ pc = "rename" => tmp = [val |-> Record, synced |-> TRUE]
    /\ pc = "fsync_dir" => state.val = Record

\* sat_state_init writes the defaults only over a file that has no record.
ResetInv == ~ReadFaults /\ mem = Down /\ pc \in Writing => ~Valid(state)

StoreInv == StoreTypeOK /\ OnlySyncedExposed /\ ServesWhatItStored /\ WriterInv /\ ResetInv

USE StoreAssumption

\* No daemon runs and no write is in progress.
LEMMA StoreInvInit == StoreInit => StoreInv
<1> SUFFICES ASSUME StoreInit PROVE StoreInv
  OBVIOUS
<1>1. PICK v \in Values \cup {Torn, Absent} : state = [val |-> v, synced |-> TRUE]
  BY DEF StoreInit
<1>2. state \in File /\ state.synced
  BY <1>1 DEF File
<1> QED
  BY <1>2 DEF StoreInit, StoreInv, StoreTypeOK, OnlySyncedExposed, ServesWhatItStored,
      WriterInv, ResetInv, File, NoFile, Writing

\* write_record_locked returns -1: neither the state file nor the daemon's copy
\* has changed.
LEMMA FailStep == StoreInv /\ Fail /\ tmp' \in File => StoreInv'
<1> SUFFICES ASSUME StoreInv, Fail, tmp' \in File PROVE StoreInv'
  OBVIOUS
<1> USE DEF StoreInv, Fail
<1>1. StoreTypeOK'
  BY DEF StoreTypeOK
<1>2. OnlySyncedExposed'
  BY DEF OnlySyncedExposed
<1>3. ServesWhatItStored'
  BY DEF ServesWhatItStored
<1>4. WriterInv' /\ ResetInv'
  BY DEF WriterInv, ResetInv, Writing
<1> QED
  BY <1>1, <1>2, <1>3, <1>4

\* Each call of state.c, whether it succeeds or fails, a crash and a power cut
\* preserve the invariant.
LEMMA StoreInvStep == StoreInv /\ [StoreNext]_storevars => StoreInv'
<1> SUFFICES ASSUME StoreInv, [StoreNext]_storevars PROVE StoreInv'
  OBVIOUS
<1> USE DEF StoreInv, StoreTypeOK, OnlySyncedExposed, ServesWhatItStored, WriterInv,
        ResetInv, File, NoFile, Writing, Record, Valid
<1>1. CASE InitLoads
  BY <1>1 DEF InitLoads
<1>2. CASE InitResets
  BY <1>2 DEF InitResets
<1>3. ASSUME NEW v \in Values, Set(v) PROVE StoreInv'
  BY <1>3 DEF Set
<1>4. ASSUME NEW v \in Values, SetUnlocked(v) PROVE StoreInv'
  BY <1>4 DEF SetUnlocked
<1>5. CASE OpenTmp
  <2>1. CASE /\ pc' = "write" /\ tmp' = [val |-> Torn, synced |-> FALSE]
             /\ UNCHANGED <<mem, state, disk, failed>>
    BY <1>5, <2>1 DEF OpenTmp
  <2>2. CASE Fail /\ UNCHANGED tmp
    <3>1. tmp' \in File
      BY <2>2
    <3> QED
      BY <2>2, <3>1, FailStep
  <2> QED
    BY <1>5, <2>1, <2>2 DEF OpenTmp
<1>6. CASE WriteTmp
  <2>1. CASE /\ pc' = "fsync" /\ tmp' = [val |-> Record, synced |-> FALSE]
             /\ UNCHANGED <<mem, state, disk, failed>>
    BY <1>6, <2>1 DEF WriteTmp
  <2>2. CASE Fail /\ tmp' = NoFile
    <3>1. tmp' \in File
      BY <2>2
    <3> QED
      BY <2>2, <3>1, FailStep
  <2> QED
    BY <1>6, <2>1, <2>2 DEF WriteTmp
<1>7. CASE FsyncTmp
  <2>1. CASE /\ pc' = "rename" /\ tmp' = [val |-> tmp.val, synced |-> TRUE]
             /\ UNCHANGED <<mem, state, disk, failed>>
    BY <1>7, <2>1 DEF FsyncTmp
  <2>2. CASE Fail /\ tmp' = NoFile
    <3>1. tmp' \in File
      BY <2>2
    <3> QED
      BY <2>2, <3>1, FailStep
  <2> QED
    BY <1>7, <2>1, <2>2 DEF FsyncTmp
<1>8. CASE Rename
  <2>1. tmp \in File /\ tmp.synced /\ tmp.val = Record
    BY <1>8, SMTT(60) DEF Rename
  <2>2. CASE pc' = "fsync_dir" /\ state' = tmp /\ disk' = disk \cup {tmp} /\ tmp' = NoFile
             /\ UNCHANGED <<mem, failed>>
    <3>1. StoreTypeOK'
      BY <2>1, <2>2
    <3>2. OnlySyncedExposed'
      BY <2>1, <2>2
    <3>3. (ServesWhatItStored /\ WriterInv /\ ResetInv)'
      BY <2>1, <2>2
    <3> QED
      BY <3>1, <3>2, <3>3
  <2>3. CASE Fail /\ tmp' = NoFile
    BY <2>3, FailStep
  <2> QED
    BY <1>8, <2>2, <2>3 DEF Rename
<1>9. CASE FsyncDir
  BY <1>9 DEF FsyncDir, Succeed
<1>10. CASE Stop
  BY <1>10 DEF Stop
<1>11. CASE PowerLoss
  BY <1>11, SMTT(60) DEF PowerLoss, Survivors
<1>12. CASE UNCHANGED storevars
  BY <1>12 DEF storevars
<1> QED
  BY <1>1, <1>2, <1>3, <1>4, <1>5, <1>6, <1>7, <1>8, <1>9, <1>10, <1>11, <1>12
  DEF StoreNext

\* state.c never exposes an unsynced file under the state path, and what the
\* daemon serves after a store without an error is what it stored.
THEOREM StoreCorrect ==
    StoreSpec => [](StoreTypeOK /\ OnlySyncedExposed /\ ServesWhatItStored)
<1>1. StoreInv => StoreTypeOK /\ OnlySyncedExposed /\ ServesWhatItStored
  BY DEF StoreInv
<1> QED
  BY <1>1, StoreInvInit, StoreInvStep, PTL DEF StoreSpec

-----------------------------------------------------------------------------
(* The file protocol implements DurableState.                              *)

Candidates == {Loaded(f) : f \in disk}

\* A new state file adds the record it holds to what a restart may find.
LEMMA RenameCandidates ==
    ASSUME disk' = disk \cup {tmp} PROVE Candidates' = Candidates \cup {Loaded(tmp)}
BY DEF Candidates, Loaded, Valid

\* The state file is among the files a restart may find.
LEMMA CurrentCandidate == StoreTypeOK => Loaded(state) \in Candidates
BY DEF StoreTypeOK, Candidates

\* Before the first start a restart finds what is there, or the defaults.
LEMMA DurableInit == StoreInit => D!DInit
<1> SUFFICES ASSUME StoreInit PROVE D!DInit
  OBVIOUS
<1>1. Candidates = {Loaded(state)}
  BY DEF StoreInit, Candidates
<1>2. Loaded(state) \in Values
  BY DEF Loaded, Valid
<1> QED
  BY <1>1, <1>2 DEF StoreInit, D!DInit, Candidates

\* Each step of state.c is a step of DurableState or leaves it unchanged.
LEMMA DurableStep ==
    ASSUME ~ReadFaults, StoreInv, StoreInv', [StoreNext]_storevars
    PROVE  [D!DNext]_(D!dvars)
<1> USE DEF StoreInv, WriterInv, Record
<1>0. StoreTypeOK /\ StoreTypeOK' /\ Loaded(state) \in Candidates
  BY CurrentCandidate
<1>1. CASE InitLoads
  <2>1. mem = Down /\ mem' = Loaded(state) /\ UNCHANGED disk
    BY <1>1 DEF InitLoads, Loaded
  <2>2. UNCHANGED Candidates
    BY <2>1 DEF Candidates, Loaded, Valid
  <2> QED
    BY <1>0, <2>1, <2>2 DEF D!DNext, D!DRecover, Candidates
<1>2. CASE UNCHANGED <<mem, disk>>
  BY <1>2 DEF D!dvars, Loaded, Valid
<1>3. ASSUME NEW v \in Values, pc = "up", mem' = v, UNCHANGED disk
      PROVE  D!DNext
  <2>1. UNCHANGED Candidates
    BY <1>3 DEF Candidates, Loaded, Valid
  <2> QED
    BY <1>3, <2>1 DEF D!DNext, D!DSet, Candidates
<1>4. CASE Rename /\ disk' = disk \cup {tmp} /\ UNCHANGED mem
  <2>1. Candidates' = Candidates \cup {Record}
    <3>1. Record \in Values
      BY <1>0 DEF StoreTypeOK
    <3>2. Loaded(tmp) = Record
      BY <1>4, <3>1 DEF Rename, Loaded, Valid
    <3> QED
      BY <1>4, <3>2, RenameCandidates
  <2>2. CASE mem = Down
    <3>1. Loaded(state) = Record
      BY <1>4, <2>2 DEF Rename, ResetInv, Loaded, Writing
    <3>2. UNCHANGED Candidates
      BY <1>0, <2>1, <3>1
    <3> QED
      BY <1>4, <3>2 DEF D!dvars, Candidates
  <2>3. CASE mem # Down
    BY <1>4, <2>1, <2>3 DEF D!DNext, D!DMayPersist, Candidates
  <2> QED
    BY <2>2, <2>3
<1>5. CASE FsyncDir
  <2>1. Loaded(state) = Record
    BY <1>0, <1>5 DEF FsyncDir, StoreTypeOK, Loaded, Valid
  <2>2. UNCHANGED Candidates \/ Candidates' = {Record}
    BY <1>5, <2>1 DEF FsyncDir, Candidates, Loaded, Valid
  <2>3. mem' = Record
    BY <1>5 DEF FsyncDir, Succeed
  <2>4. CASE mem = Down
    BY <1>0, <2>1, <2>2, <2>3, <2>4 DEF D!DNext, D!DRecover, Candidates
  <2>5. CASE mem # Down
    BY <2>2, <2>3, <2>5 DEF D!DNext, D!DPersist, D!dvars, Candidates
  <2> QED
    BY <2>4, <2>5
<1>6. CASE Stop
  <2>1. mem' = Down /\ UNCHANGED Candidates
    BY <1>6 DEF Stop, Candidates, Loaded, Valid
  <2> QED
    BY <1>0, <2>1 DEF D!DNext, D!DDown, Candidates
<1>7. CASE PowerLoss
  <2>1. PICK f \in disk : \E v \in Survivors(f) : state' = [val |-> v, synced |-> TRUE]
    BY <1>7 DEF PowerLoss
  <2>2. f.synced
    BY <2>1 DEF OnlySyncedExposed
  <2>3. state'.val = f.val
    BY <2>1, <2>2 DEF Survivors
  <2>4. Candidates' = {Loaded(f)}
    BY <1>7, <2>3 DEF PowerLoss, Candidates, Loaded, Valid
  <2>5. Candidates' \in (SUBSET Candidates) \ {{}}
    BY <2>4 DEF Candidates
  <2> QED
    BY <1>7, <2>5 DEF PowerLoss, D!DNext, D!DDown, Candidates
<1>8. CASE InitResets \/ OpenTmp \/ WriteTmp \/ FsyncTmp \/ (Rename /\ Fail)
  BY <1>2, <1>8 DEF InitResets, OpenTmp, WriteTmp, FsyncTmp, Fail
<1>9. ASSUME NEW v \in Values, Set(v) \/ SetUnlocked(v) PROVE D!DNext
  BY <1>3, <1>9 DEF Set, SetUnlocked
<1>10. CASE UNCHANGED storevars
  BY <1>2, <1>10 DEF storevars
<1>11. CASE Rename
  BY <1>4, <1>8, <1>11 DEF Rename
<1> QED
  BY <1>1, <1>5, <1>6, <1>7, <1>8, <1>9, <1>10, <1>11 DEF StoreNext

\* Without read faults at start-up, state.c implements the durable state: what
\* a restart comes back with was stored, was not since replaced for good, and
\* is never a fall-back to the defaults.
THEOREM StoreImplementsDurable ==
    ASSUME ~ReadFaults PROVE StoreSpec => StoreIsDurable
<1>1. StoreInv /\ StoreInv' /\ [StoreNext]_storevars => [D!DNext]_(D!dvars)
  BY DurableStep
<1> QED
  BY <1>1, StoreInvInit, StoreInvStep, DurableInit, PTL
  DEF StoreSpec, StoreIsDurable, D!DSpec
=============================================================================
