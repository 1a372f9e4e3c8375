---------------------------- MODULE SingletonLock ----------------------------
(***************************************************************************)
(* The daemon's single-instance discipline: acquire_singleton_lock and the *)
(* way main releases it, together with the socket path that the lock is    *)
(* meant to protect (ipc_server_create removes whatever is there).         *)
(*                                                                         *)
(* Several launches of daemond race over one pid file.  A flock belongs to *)
(* an open inode, while open(O_CREAT) and unlink act on the path, so the   *)
(* model keeps the two apart: path is the inode the pid path leads to, fd  *)
(* the inode each launch has open, and lock the holder of each inode.  The *)
(* flock is that of the open file description, which a process forked by   *)
(* start_one shares until execv() closes its copy of pid_fd.               *)
(***************************************************************************)
EXTENDS Integers, FiniteSets

CONSTANTS
    Instances,  \* launches of daemond
    Inodes,     \* inodes the file system can give to the pid file
    None        \* no inode, no holder, nobody

ASSUME LockAssumption == None \notin Instances \cup Inodes

VARIABLES
    pc,         \* where each launch is in main()
    fd,         \* the inode behind its pid_fd, None when closed
    path,       \* the inode the pid path leads to, None when unlinked
    forked,     \* launches with a child between fork() and execv()
    lock,       \* the launch whose open() holds the flock of each inode
    sock,       \* the launch whose listener the socket path leads to
    unlinked    \* history: some launch has unlinked the pid path

lockvars == <<pc, fd, path, forked, lock, sock, unlinked>>

\* Between taking the lock and closing pid_fd: the launch uses the state
\* file, supervises the processes and owns the socket path.
Active(i) == pc[i] \in {"locked", "serving", "stopping", "aborting"}

\* The file system gives a new file an inode that nothing refers to.
FreshInodes ==
    {n \in Inodes : n # path /\ lock[n] = None /\ \A i \in Instances : fd[i] # n}

\* The kernel drops a flock with the last copy of the descriptor it was taken
\* with: the launch has closed its own, and no child of it has one either.
Released(own, copies) ==
    [n \in Inodes |-> IF \E i \in Instances \ copies : lock[n] = i /\ own[i] = None
                      THEN None ELSE lock[n]]

LockInit ==
    /\ pc = [i \in Instances |-> "idle"]
    /\ fd = [i \in Instances |-> None]
    /\ path = None
    /\ forked = {}
    /\ lock = [n \in Inodes |-> None]
    /\ sock = None
    /\ unlinked = FALSE

\* open(pid_path, O_CREAT | O_RDWR | O_CLOEXEC)
OpenPidFile(i) ==
    /\ pc[i] = "idle"
    /\ pc' = [pc EXCEPT ![i] = "opened"]
    /\ \E n \in IF path = None THEN FreshInodes ELSE {path} :
          /\ path' = n
          /\ fd' = [fd EXCEPT ![i] = n]
    /\ UNCHANGED <<forked, lock, sock, unlinked>>

\* Fault: EWOULDBLOCK is not an error.
FlockAnyway(i) ==
    /\ pc[i] = "opened"
    /\ lock' = [lock EXCEPT ![fd[i]] = i]
    /\ pc' = [pc EXCEPT ![i] = "locked"]
    /\ UNCHANGED <<fd, path, forked, sock, unlinked>>

\* flock(fd, LOCK_EX | LOCK_NB) succeeds.
Flock(i) ==
    /\ pc[i] = "opened"
    /\ lock[fd[i]] = None
    /\ lock' = [lock EXCEPT ![fd[i]] = i]
    /\ pc' = [pc EXCEPT ![i] = "locked"]
    /\ UNCHANGED <<fd, path, forked, sock, unlinked>>

\* flock fails with EWOULDBLOCK: "another instance is already running".
FlockBusy(i) ==
    /\ pc[i] = "opened"
    /\ lock[fd[i]] # None
    /\ pc' = [pc EXCEPT ![i] = "refused"]
    /\ fd' = [fd EXCEPT ![i] = None]
    /\ UNCHANGED <<path, forked, lock, sock, unlinked>>

\* start_one in pm_start_all or pm_tick: fork() copies pid_fd.
Fork(i) ==
    /\ pc[i] \in {"locked", "serving"}
    /\ i \notin forked
    /\ forked' = forked \cup {i}
    /\ UNCHANGED <<pc, fd, path, lock, sock, unlinked>>

\* Fault: pid_fd is opened without O_CLOEXEC, and the managed process keeps it.
ExecInherits(i) ==
    /\ i \in forked
    /\ forked' = forked \ {i}
    /\ UNCHANGED <<pc, fd, path, lock, sock, unlinked>>

\* The child, and with it the last copy of pid_fd outside the launch, gets to
\* execv(), which closes the copy (O_CLOEXEC); or it ends before.  The launch may
\* be dead by then.
Exec(i) ==
    /\ i \in forked
    /\ forked' = forked \ {i}
    /\ lock' = Released(fd, forked')
    /\ UNCHANGED <<pc, fd, path, sock, unlinked>>

\* ipc_server_create: unlink whatever the socket path leads to, then bind.
CreateServer(i) ==
    /\ pc[i] = "locked"
    /\ pc' = [pc EXCEPT ![i] = "serving"]
    /\ sock' = i
    /\ UNCHANGED <<fd, path, forked, lock, unlinked>>

\* ipc_server_create fails before or after the unlink; main stops the managed
\* processes and returns 1.
CreateFails(i) ==
    /\ pc[i] = "locked"
    /\ pc' = [pc EXCEPT ![i] = "aborting"]
    /\ sock' \in {sock, None}
    /\ UNCHANGED <<fd, path, forked, lock, unlinked>>

\* ipc_server_destroy: close the listener, unlink the socket path.
DestroyServer(i) ==
    /\ pc[i] = "serving"
    /\ pc' = [pc EXCEPT ![i] = "stopping"]
    /\ sock' = None
    /\ UNCHANGED <<fd, path, forked, lock, unlinked>>

\* close(pid_fd), when pm_shutdown_all has returned and left no child.
ClosePidFile(i) ==
    /\ pc[i] = "stopping"
    /\ i \notin forked
    /\ pc' = [pc EXCEPT ![i] = "closed"]
    /\ fd' = [fd EXCEPT ![i] = None]
    /\ lock' = Released(fd', forked)
    /\ UNCHANGED <<path, forked, sock, unlinked>>

\* unlink(pid_path), whatever inode the path leads to by now.
UnlinkPidFile(i) ==
    /\ pc[i] = "closed"
    /\ pc' = [pc EXCEPT ![i] = "gone"]
    /\ path' = None
    /\ unlinked' = TRUE
    /\ UNCHANGED <<fd, forked, lock, sock>>

\* The launch ends anywhere else: it is killed, or main returns 1 because
\* ftruncate, sat_state_init, self_exe_dir or ipc_server_create failed.  The kernel
\* closes its descriptors, but not the copies of a child it has just forked; both
\* paths stay as they are.
Die(i) ==
    /\ pc[i] \in {"opened", "locked", "serving", "stopping", "aborting", "closed"}
    /\ pc' = [pc EXCEPT ![i] = "gone"]
    /\ fd' = [fd EXCEPT ![i] = None]
    /\ lock' = Released(fd', forked)
    /\ UNCHANGED <<path, forked, sock, unlinked>>

LockNext ==
    \E i \in Instances :
        \/ OpenPidFile(i) \/ Flock(i) \/ FlockBusy(i) \/ Fork(i) \/ Exec(i)
        \/ CreateServer(i) \/ CreateFails(i) \/ DestroyServer(i)
        \/ ClosePidFile(i) \/ UnlinkPidFile(i) \/ Die(i)

LockSpec == LockInit /\ [][LockNext]_lockvars

-----------------------------------------------------------------------------
(* Properties *)

\* Every variable keeps its type: descriptors and paths lead to inodes, locks
\* belong to launches of acquire_singleton_lock.
LockTypeOK ==
    /\ pc \in [Instances -> {"idle", "opened", "locked", "serving",
                             "stopping", "aborting", "closed", "gone", "refused"}]
    /\ fd \in [Instances -> Inodes \cup {None}]
    /\ path \in Inodes \cup {None}
    /\ forked \subseteq Instances
    /\ lock \in [Inodes -> Instances \cup {None}]
    /\ sock \in Instances \cup {None}
    /\ unlinked \in BOOLEAN

\* acquire_singleton_lock admits one launch at a time: no two launches are
\* ever between taking the lock and giving it up.
AtMostOneDaemon == \A i, j \in Instances : Active(i) /\ Active(j) => i = j

\* A serving launch is the one the socket path leads to: nobody else's
\* ipc_server_create or ipc_server_destroy has removed its socket.
SocketReachesServer == \A i \in Instances : pc[i] = "serving" => sock = i

\* As long as no clean shutdown has unlinked the pid file, the lock does what
\* ipc_server_create relies on: one daemon, and clients reach it.
ExclusiveBeforeUnlink ==
    ~unlinked => AtMostOneDaemon /\ SocketReachesServer

\* A launch is told "another instance is already running" only by a daemon that
\* has the same pid file open and is running, or by one that died while a process
\* it had forked was on its way to execv().  Once that process is there, the copy
\* of pid_fd is closed, and a dead daemon stands in nobody's way however long the
\* managed processes outlive it.
RefusedOnlyByLive ==
    [][\A i \in Instances : pc[i] = "opened" /\ pc'[i] = "refused" =>
          \E j \in Instances \ {i} : \/ Active(j) /\ fd[j] = fd[i]
                                     \/ pc[j] = "gone" /\ j \in forked]_lockvars
=============================================================================
