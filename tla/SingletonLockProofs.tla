------------------------- MODULE SingletonLockProofs -------------------------
(***************************************************************************)
(* Theorems about the single-instance lock, for any number of launches and *)
(* inodes.                                                                 *)
(***************************************************************************)
EXTENDS SingletonLock, TLAPS

\* The provers' time limits, for the leaves that do not name a prover.
USE ZenonT(10), SMTT(60)

\* The pid descriptor is open exactly between open() and close(), and a launch
\* past flock() holds the lock of the inode it has open.
DescriptorInv ==
    \A i \in Instances :
        /\ Active(i) => fd[i] \in Inodes /\ lock[fd[i]] = i
        /\ pc[i] = "opened" => fd[i] \in Inodes
        /\ pc[i] \in {"idle", "closed", "gone", "refused"} => fd[i] = None

\* A lock is that of a launch that runs with the inode open, or that died and left
\* a child short of execv(); only a launch that got past flock() forks, and a clean
\* shutdown leaves no child.
LockHeld ==
    /\ \A n \in Inodes, j \in Instances : lock[n] = j =>
          \/ Active(j) /\ fd[j] = n
          \/ pc[j] = "gone" /\ j \in forked
    /\ \A j \in forked : Active(j) \/ pc[j] = "gone"

\* Before the first unlink everybody has the same inode open, the one the path
\* leads to.
SameInode == ~unlinked => \A i \in Instances : fd[i] # None => fd[i] = path

LockInv ==
    /\ LockTypeOK /\ LockHeld /\ DescriptorInv /\ SameInode
    /\ ~unlinked => SocketReachesServer

\* Every launch that is between taking the lock and giving it up before the
\* first unlink holds the lock of the same inode, so there is one at most.
LEMMA LockInvExclusive == LockInv => ExclusiveBeforeUnlink
BY LockAssumption, SMTT(60) DEF LockInv, LockTypeOK, DescriptorInv, SameInode,
    ExclusiveBeforeUnlink, AtMostOneDaemon, Active

\* Nobody has started: nothing is open and nothing is locked.
LEMMA LockInvInit == LockInit => LockInv
<1> SUFFICES ASSUME LockInit PROVE LockInv
  OBVIOUS
<1> USE LockAssumption DEF LockInit, Active
<1>1. LockTypeOK
  BY DEF LockTypeOK
<1>2. LockHeld
  <2>1. \A n \in Inodes, j \in Instances : lock[n] # j
    BY SMTT(60)
  <2> QED
    BY <2>1 DEF LockHeld
<1>3. DescriptorInv /\ SameInode /\ SocketReachesServer
  BY DEF DescriptorInv, SameInode, SocketReachesServer
<1> QED
  BY <1>1, <1>2, <1>3 DEF LockInv

\* Each system call of main() on the pid file and the socket path preserves
\* the invariant.
LEMMA LockInvStep == LockInv /\ [LockNext]_lockvars => LockInv'
<1> SUFFICES ASSUME LockInv, [LockNext]_lockvars PROVE LockInv'
  OBVIOUS
<1>0. ExclusiveBeforeUnlink
  BY LockInvExclusive
<1> USE LockAssumption DEF LockInv, LockTypeOK, DescriptorInv, SameInode, LockHeld,
        SocketReachesServer, Active
<1>1. ASSUME NEW i \in Instances, OpenPidFile(i) PROVE LockInv'
  BY <1>1, SMTT(60) DEF OpenPidFile, FreshInodes
<1>2. ASSUME NEW i \in Instances, Flock(i) PROVE LockInv'
  BY <1>2, SMTT(60) DEF Flock
<1>3. ASSUME NEW i \in Instances, FlockBusy(i) PROVE LockInv'
  BY <1>3, SMTT(60) DEF FlockBusy
<1>4. ASSUME NEW i \in Instances, CreateServer(i) PROVE LockInv'
  BY <1>0, <1>4, SMTT(60) DEF CreateServer, ExclusiveBeforeUnlink, AtMostOneDaemon
<1>5. ASSUME NEW i \in Instances, CreateFails(i) PROVE LockInv'
  BY <1>0, <1>5, SMTT(60) DEF CreateFails, ExclusiveBeforeUnlink, AtMostOneDaemon
<1>6. ASSUME NEW i \in Instances, DestroyServer(i) PROVE LockInv'
  BY <1>0, <1>6, SMTT(60) DEF DestroyServer, ExclusiveBeforeUnlink, AtMostOneDaemon
<1>7. ASSUME NEW i \in Instances, ClosePidFile(i) PROVE LockInv'
  BY <1>7, SMTT(60) DEF ClosePidFile, Released
<1>8. ASSUME NEW i \in Instances, UnlinkPidFile(i) PROVE LockInv'
  BY <1>8, SMTT(60) DEF UnlinkPidFile
<1>9. ASSUME NEW i \in Instances, Die(i) PROVE LockInv'
  BY <1>9, SMTT(60) DEF Die, Released
<1>10. ASSUME NEW i \in Instances, Fork(i) PROVE LockInv'
  BY <1>10, SMTT(60) DEF Fork
<1>11. ASSUME NEW i \in Instances, Exec(i) PROVE LockInv'
  BY <1>11, SMTT(60) DEF Exec, Released
<1>12. CASE UNCHANGED lockvars
  BY <1>12 DEF lockvars
<1> QED
  BY <1>1, <1>2, <1>3, <1>4, <1>5, <1>6, <1>7, <1>8, <1>9, <1>10, <1>11,
     <1>12 DEF LockNext

\* acquire_singleton_lock keeps daemons apart, and their socket in place, up to
\* the first clean shutdown.
THEOREM LockCorrect == LockSpec => [](LockTypeOK /\ ExclusiveBeforeUnlink)
<1>1. LockInv => LockTypeOK /\ ExclusiveBeforeUnlink
  BY LockInvExclusive DEF LockInv
<1> QED
  BY <1>1, LockInvInit, LockInvStep, PTL DEF LockSpec

\* "Another instance is already running" is said only while one runs, or while a
\* process that a killed one forked is on its way to execv(): every close of
\* pid_fd, by close(), by a death or by O_CLOEXEC, frees the lock it is the last
\* to hold.
THEOREM RefusalCorrect == LockSpec => RefusedOnlyByLive
<1> DEFINE Refusal ==
        \A i \in Instances : pc[i] = "opened" /\ pc'[i] = "refused" =>
           \E j \in Instances \ {i} : \/ Active(j) /\ fd[j] = fd[i]
                                      \/ pc[j] = "gone" /\ j \in forked
<1>1. LockInv /\ [LockNext]_lockvars => [Refusal]_lockvars
  <2> SUFFICES ASSUME LockInv, LockNext, NEW i \in Instances,
                      pc[i] = "opened", pc'[i] = "refused"
               PROVE  \E j \in Instances \ {i} : \/ Active(j) /\ fd[j] = fd[i]
                                                 \/ pc[j] = "gone" /\ j \in forked
    BY DEF Refusal
  <2>1. FlockBusy(i)
    BY SMTT(60) DEF LockInv, LockTypeOK, LockNext, OpenPidFile, Flock, FlockBusy, Fork, Exec,
       CreateServer, CreateFails, DestroyServer, ClosePidFile, UnlinkPidFile, Die
  <2>2. fd[i] \in Inodes /\ lock[fd[i]] \in Instances
    BY <2>1, SMTT(60) DEF LockInv, LockTypeOK, DescriptorInv, FlockBusy
  <2>3. \/ Active(lock[fd[i]]) /\ fd[lock[fd[i]]] = fd[i]
        \/ pc[lock[fd[i]]] = "gone" /\ lock[fd[i]] \in forked
    BY <2>2 DEF LockInv, LockHeld
  <2>4. lock[fd[i]] # i
    BY <2>3 DEF Active
  <2> QED
    BY <2>2, <2>3, <2>4
<1> QED
  BY <1>1, LockInvInit, LockInvStep, PTL DEF LockSpec, RefusedOnlyByLive
=============================================================================
