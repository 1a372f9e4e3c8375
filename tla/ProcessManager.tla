---------------------------- MODULE ProcessManager ----------------------------
(***************************************************************************)
(* The supervisor of the daemon (Daemon/src/process.c): the table of       *)
(* managed processes, the operations the single-threaded daemon calls on   *)
(* it, and the part of the kernel those operations observe, namely the     *)
(* process table with pid reuse and the wall clock time() reads.           *)
(*                                                                         *)
(* An operation that returns without waiting is one action.  pm_reap is    *)
(* one action per waitpid() that returns a child, and pm_shutdown_all one  *)
(* per child it collects, because children exit and time passes between    *)
(* two such calls; "call" says which of them is running.                   *)
(***************************************************************************)
EXTENDS Integers, FiniteSets

CONSTANTS
    Procs,               \* the processes a caller may register
    Pids,                \* the pids the kernel hands out
    Policy,              \* restart policy of each process
    MaxProcesses,        \* DAEMON_MAX_PROCESSES
    TicksPerSec,         \* clock ticks in a second; time() truncates to seconds
    BackoffTicks,        \* DAEMON_RESTART_BACKOFF_MS in ticks
    MaxAttempts,         \* DAEMON_RESTART_MAX_ATTEMPTS
    WindowSec,           \* DAEMON_RESTART_WINDOW_SEC
    KillTicks,           \* timeout_ms of pm_shutdown_one in ticks
    GraceTicks,          \* timeout_ms of pm_shutdown_all in ticks
    ReuseAfterShutdown,  \* may the caller use the table after pm_shutdown_all?
    ClockMaySet,         \* may the wall clock be set, forwards or backwards?
    MaxForeign,          \* bound of the model: foreign processes at one time
    MaxClock             \* bound of the model: the last tick of the clock

ASSUME PmAssumption ==
    /\ 0 \notin Pids
    /\ Policy \in [Procs -> {"ALWAYS", "ON_FAILURE", "NEVER"}]
    /\ MaxProcesses \in Nat
    /\ TicksPerSec \in Nat \ {0}
    /\ BackoffTicks \in Nat
    /\ MaxAttempts \in Nat
    /\ WindowSec \in Nat
    /\ KillTicks \in Nat
    /\ GraceTicks \in Nat
    /\ ReuseAfterShutdown \in BOOLEAN
    /\ ClockMaySet \in BOOLEAN
    /\ MaxForeign \in Nat
    /\ MaxClock \in Nat

VARIABLES
    registered,     \* the slots in use, procs[0 .. count-1]
    pid,            \* 0 if not currently running
    attempts,
    window_start,
    next_start,
    given_up,
    shutting_down,
    kill_deadline,
    kill_sent,
    proc,           \* kernel: what each pid is
    termed,         \* kernel: pids whose present holder was sent SIGTERM
    killed,         \* kernel: pids whose present holder was sent SIGKILL
    clock,          \* wall clock in ticks
    waited,         \* monotonic ticks since pm_shutdown_all sent SIGTERM
    call            \* the operation in progress

backoff == <<attempts, window_start, next_start>>
stopping == <<shutting_down, kill_deadline, kill_sent>>
slots == <<registered, pid, backoff, given_up, stopping>>
kernel == <<proc, termed, killed>>
time == <<clock, waited>>
pmvars == <<slots, kernel, time, call>>

-----------------------------------------------------------------------------
(* Vocabulary *)

\* "forked" is a child between fork() and execv(); a zombie is "exited"
\* (status 0) or "failed" (nonzero status or a signal); "foreign" is a
\* process the daemon did not start that holds the pid.
Live == {"forked", "running"}
Zombie == {"exited", "failed"}
Child == Live \cup Zombie

\* time(NULL): the clock truncated to whole seconds.
now == clock \div TicksPerSec

\* Fault: the delay is truncated to whole seconds.
CeilSecTruncated(ticks) == ticks \div TicksPerSec

\* (ms + 999) / 1000: a delay in ticks rounded up to whole seconds.
CeilSec(ticks) == (ticks + TicksPerSec - 1) \div TicksPerSec

\* pm_find_by_pid: the slots that hold k.
pm_find_by_pid(k) == {p \in registered : pid[p] = k}

Running == {p \in registered : pid[p] # 0}
FreePids == {k \in Pids : proc[k] = "free"}
Zombies == {k \in Pids : proc[k] \in Zombie}

\* The caller is single-threaded: it enters an operation only when the last
\* one has returned.
Idle == call = "none" \/ (call = "stopped" /\ ReuseAfterShutdown)

\* The outcomes of the fork()s that start the slots S: f[p] is the pid of
\* the child, or 0 where p is not in S or fork() failed.
ForkResults(S) ==
    {f \in [Procs -> FreePids \cup {0}] :
        /\ \A p \in Procs \ S : f[p] = 0
        /\ \A p, q \in S : f[p] = f[q] /\ f[p] # 0 => p = q}

Started(f) == {f[p] : p \in {q \in Procs : f[q] # 0}}

-----------------------------------------------------------------------------
(* Steps on the slots and on the kernel that several operations take *)

\* start_one for every slot f starts, with SIGKILL sent to the pids K in
\* the same pass over the table.
start_one(f, K) ==
    /\ pid' = [p \in Procs |-> IF f[p] # 0 THEN f[p] ELSE pid[p]]
    /\ proc' = [k \in Pids |-> IF k \in Started(f) THEN "forked" ELSE proc[k]]
    /\ termed' = termed \ Started(f)
    /\ killed' = (killed \ Started(f)) \cup K

\* Both pm_start_all and pm_start_one reset the restart bookkeeping.
ResetBackoff(S) ==
    /\ attempts' = [p \in Procs |-> IF p \in S THEN 0 ELSE attempts[p]]
    /\ window_start' = [p \in Procs |-> IF p \in S THEN now ELSE window_start[p]]
    /\ next_start' = [p \in Procs |-> IF p \in S THEN now ELSE next_start[p]]
    /\ given_up' = [p \in Procs |-> IF p \in S THEN FALSE ELSE given_up[p]]

\* waitpid() returned k: the kernel forgets it.
Collected(k) ==
    /\ proc' = [proc EXCEPT ![k] = "free"]
    /\ termed' = termed \ {k}
    /\ killed' = killed \ {k}

\* mp->pid = 0 in the slot that held k.
ClearPid(k) ==
    pid' = [p \in Procs |-> IF p \in pm_find_by_pid(k) THEN 0 ELSE pid[p]]

-----------------------------------------------------------------------------
(* Operations of process.c *)

\* pm_init, and a kernel that has no child of the daemon.
PmInit ==
    /\ registered = {}
    /\ pid = [p \in Procs |-> 0]
    /\ attempts = [p \in Procs |-> 0]
    /\ window_start = [p \in Procs |-> 0]
    /\ next_start = [p \in Procs |-> 0]
    /\ given_up = [p \in Procs |-> FALSE]
    /\ shutting_down = [p \in Procs |-> FALSE]
    /\ kill_deadline = [p \in Procs |-> 0]
    /\ kill_sent = [p \in Procs |-> FALSE]
    /\ proc = [k \in Pids |-> "free"]
    /\ termed = {}
    /\ killed = {}
    /\ clock = 0
    /\ waited = 0
    /\ call = "none"

pm_add(p) ==
    /\ Idle
    /\ p \notin registered
    /\ Cardinality(registered) < MaxProcesses
    /\ registered' = registered \cup {p}
    /\ UNCHANGED <<pid, backoff, given_up, stopping, kernel, time, call>>

pm_start_all ==
    /\ Idle
    /\ call' = "none"
    /\ ResetBackoff(registered)
    /\ \E f \in ForkResults({p \in registered : pid[p] = 0}) : start_one(f, {})
    /\ UNCHANGED <<registered, stopping, time>>

pm_start_one(p) ==
    /\ Idle
    /\ p \in registered
    /\ pid[p] = 0
    /\ call' = "none"
    /\ ResetBackoff({p})
    /\ \E f \in ForkResults({p}) : start_one(f, {})
    /\ UNCHANGED <<registered, stopping, time>>

\* Fault: the deadline is compared in slots nobody is shutting down.
OverdueUnchecked ==
    {p \in registered : pid[p] # 0 /\ ~kill_sent[p] /\ now >= kill_deadline[p]}

\* The slots pm_tick sends SIGKILL to, and those it starts.
Overdue ==
    {p \in registered : /\ shutting_down[p]
                        /\ pid[p] # 0
                        /\ ~kill_sent[p]
                        /\ now >= kill_deadline[p]}

\* Fault: a slot that is running is started once more.
DueUnchecked ==
    {p \in registered : ~shutting_down[p] /\ ~given_up[p] /\ now >= next_start[p]}

Due ==
    {p \in registered : /\ ~shutting_down[p]
                        /\ pid[p] = 0
                        /\ ~given_up[p]
                        /\ now >= next_start[p]}

pm_tick ==
    /\ Idle
    /\ kill_sent' = [p \in Procs |-> kill_sent[p] \/ p \in Overdue]
    /\ \E f \in ForkResults(Due) : start_one(f, {pid[p] : p \in Overdue})
    /\ call' = "none"
    /\ UNCHANGED <<registered, backoff, given_up, shutting_down, kill_deadline,
                   time>>

\* pm_reap, up to its first waitpid().
pm_reap ==
    /\ Idle
    /\ call' = "reap"
    /\ UNCHANGED <<slots, kernel, time>>

\* Fault: a failure is retried under every policy.
WantsRestartOnFailure(p, failed) == Policy[p] = "ALWAYS" \/ failed

\* The restart policy applied to a child that exited.
WantsRestart(p, failed) ==
    Policy[p] = "ALWAYS" \/ (Policy[p] = "ON_FAILURE" /\ failed)

NewWindow(p) == now - window_start[p] > WindowSec

\* Fault: attempts are not counted.
AttemptUncounted(p) == 1

Attempt(p) == (IF NewWindow(p) THEN 0 ELSE attempts[p]) + 1

\* One turn of pm_reap's loop: waitpid() returned k.  An intentional stop
\* ends here; any other exit is scheduled for a restart or given up on.
ReapOne(k) ==
    LET S == pm_find_by_pid(k)
        Stopped == {p \in S : shutting_down[p]}
        Again == {p \in S : ~shutting_down[p] /\ WantsRestart(p, proc[k] = "failed")}
        Quit == (S \ Stopped) \ Again
        Exhausted == {p \in Again : Attempt(p) > MaxAttempts}
    IN  /\ call = "reap"
        /\ k \in Zombies
        /\ ClearPid(k)
        /\ Collected(k)
        /\ shutting_down' = [p \in Procs |-> shutting_down[p] /\ p \notin Stopped]
        /\ kill_sent' = [p \in Procs |-> kill_sent[p] /\ p \notin Stopped]
        /\ window_start' = [p \in Procs |-> IF p \in Again /\ NewWindow(p)
                                            THEN now ELSE window_start[p]]
        /\ attempts' = [p \in Procs |-> IF p \in Again THEN Attempt(p)
                                                       ELSE attempts[p]]
        /\ given_up' = [p \in Procs |-> given_up[p] \/ p \in Quit \cup Exhausted]
        /\ next_start' = [p \in Procs |->
                            IF p \in Again \ Exhausted
                            THEN now + CeilSec(BackoffTicks * Attempt(p))
                            ELSE next_start[p]]
        /\ UNCHANGED <<registered, kill_deadline, time, call>>

\* waitpid() returned no child: pm_reap returns.
ReapEnd ==
    /\ call = "reap"
    /\ Zombies = {}
    /\ call' = "none"
    /\ UNCHANGED <<slots, kernel, time>>

\* pm_shutdown_all, up to its waiting loop: everything is given up and
\* every running child is sent SIGTERM.
pm_shutdown_all ==
    /\ Idle
    /\ call' = "stopping"
    /\ waited' = 0
    /\ given_up' = [p \in Procs |-> given_up[p] \/ p \in registered]
    /\ termed' = termed \cup {pid[p] : p \in Running}
    /\ UNCHANGED <<registered, pid, backoff, stopping, proc, killed, clock>>

\* One turn of the waiting loop in which waitpid() returned k.
ShutdownCollect(k) ==
    /\ call = "stopping"
    /\ Running # {}
    /\ k \in Zombies
    /\ ClearPid(k)
    /\ Collected(k)
    /\ UNCHANGED <<registered, backoff, given_up, stopping, time, call>>

\* A turn that finds nobody to collect after the grace period.
ShutdownTimeout ==
    /\ call = "stopping"
    /\ Running # {}
    /\ Zombies = {}
    /\ waited >= GraceTicks
    /\ call' = "killing"
    /\ UNCHANGED <<slots, kernel, time>>

\* Fault: the child is collected before it is killed.
ShutdownKillLate(p) ==
    /\ call = "killing"
    /\ p \in Running
    /\ ClearPid(pid[p])
    /\ proc' = [proc EXCEPT ![pid[p]] = "free"]
    /\ termed' = termed \ {pid[p]}
    /\ killed' = killed \cup {pid[p]}
    /\ UNCHANGED <<registered, backoff, given_up, stopping, time, call>>

\* kill(SIGKILL) followed by a waitpid() that blocks until p is collected.
ShutdownKill(p) ==
    /\ call = "killing"
    /\ p \in Running
    /\ ClearPid(pid[p])
    /\ Collected(pid[p])
    /\ UNCHANGED <<registered, backoff, given_up, stopping, time, call>>

\* Fault: the loop ends with the grace period, before SIGKILL.
ShutdownEndEarly ==
    /\ call = "stopping"
    /\ waited >= GraceTicks
    /\ call' = "stopped"
    /\ waited' = 0
    /\ UNCHANGED <<slots, kernel, clock>>

\* Nobody runs any more: pm_shutdown_all returns.
ShutdownEnd ==
    /\ call \in {"stopping", "killing"}
    /\ Running = {}
    /\ call' = "stopped"
    /\ waited' = 0
    /\ UNCHANGED <<slots, kernel, clock>>

\* Fault: a slot that is not running is marked as being shut down.
ShutdownOneUnchecked(p) ==
    /\ Idle
    /\ p \in registered
    /\ given_up' = [given_up EXCEPT ![p] = TRUE]
    /\ termed' = termed \cup ({pid[p]} \ {0})
    /\ shutting_down' = [shutting_down EXCEPT ![p] = TRUE]
    /\ kill_sent' = [kill_sent EXCEPT ![p] = FALSE]
    /\ kill_deadline' = [kill_deadline EXCEPT ![p] = now + CeilSec(KillTicks)]
    /\ UNCHANGED <<registered, pid, backoff, proc, killed, time, call>>

pm_shutdown_one(p) ==
    /\ Idle
    /\ p \in registered
    /\ given_up' = [given_up EXCEPT ![p] = TRUE]
    /\ IF pid[p] = 0
       THEN UNCHANGED <<stopping, termed>>
       ELSE /\ termed' = termed \cup {pid[p]}
            /\ shutting_down' = [shutting_down EXCEPT ![p] = TRUE]
            /\ kill_sent' = [kill_sent EXCEPT ![p] = FALSE]
            /\ kill_deadline' = [kill_deadline EXCEPT ![p] = now + CeilSec(KillTicks)]
    /\ UNCHANGED <<registered, pid, backoff, proc, killed, time, call>>

-----------------------------------------------------------------------------
(* The kernel and the children *)

\* execv() succeeds, or fails and the child leaves with status 127.
Exec(k) ==
    /\ proc[k] = "forked"
    /\ k \notin killed
    /\ \E s \in {"running", "failed"} : proc' = [proc EXCEPT ![k] = s]
    /\ UNCHANGED <<slots, termed, killed, time, call>>

\* A child exits by itself or by SIGTERM.  A SIGTERM may also be without
\* effect: before execv() the child still has the daemon's own handler.
ChildExit(k) ==
    /\ proc[k] = "running"
    /\ k \notin killed
    /\ \E s \in Zombie : proc' = [proc EXCEPT ![k] = s]
    /\ UNCHANGED <<slots, termed, killed, time, call>>

\* SIGKILL takes effect.
ChildKilled(k) ==
    /\ proc[k] \in Live
    /\ k \in killed
    /\ proc' = [proc EXCEPT ![k] = "failed"]
    /\ UNCHANGED <<slots, termed, killed, time, call>>

\* A process the daemon did not start takes a free pid, or gives it back.
ForeignFork(k) ==
    /\ proc[k] = "free"
    /\ Cardinality({j \in Pids : proc[j] = "foreign"}) < MaxForeign
    /\ proc' = [proc EXCEPT ![k] = "foreign"]
    /\ UNCHANGED <<slots, termed, killed, time, call>>

ForeignExit(k) ==
    /\ proc[k] = "foreign"
    /\ Collected(k)
    /\ UNCHANGED <<slots, time, call>>

\* Time passes, on both clocks; the wall clock stays at the bound once there,
\* the monotonic one counts as far as the grace period.
Tick ==
    /\ clock < MaxClock \/ (call = "stopping" /\ waited < GraceTicks)
    /\ clock' = IF clock < MaxClock THEN clock + 1 ELSE clock
    /\ waited' = IF call = "stopping" /\ waited < GraceTicks
                 THEN waited + 1 ELSE waited
    /\ UNCHANGED <<slots, kernel, call>>

\* time() reads the wall clock, which somebody may set.
ClockSet ==
    /\ ClockMaySet
    /\ clock' \in 0 .. MaxClock
    /\ UNCHANGED <<slots, kernel, waited, call>>

-----------------------------------------------------------------------------

Operation ==
    \/ \E p \in Procs : pm_add(p) \/ pm_start_one(p) \/ pm_shutdown_one(p)
    \/ pm_start_all
    \/ pm_tick
    \/ pm_reap
    \/ \E k \in Pids : ReapOne(k)
    \/ ReapEnd
    \/ pm_shutdown_all
    \/ \E k \in Pids : ShutdownCollect(k)
    \/ ShutdownTimeout
    \/ \E p \in Procs : ShutdownKill(p)
    \/ ShutdownEnd

World ==
    \/ \E k \in Pids : \/ Exec(k)
                       \/ ChildExit(k)
                       \/ ChildKilled(k)
                       \/ ForeignFork(k)
                       \/ ForeignExit(k)
    \/ Tick
    \/ ClockSet

PmNext == Operation \/ World

PmSpec == PmInit /\ [][PmNext]_pmvars

-----------------------------------------------------------------------------
(* Properties *)

\* The type of every slot field, of the kernel's table and of the clocks.
PmTypeOK ==
    /\ registered \subseteq Procs
    /\ pid \in [Procs -> Pids \cup {0}]
    /\ attempts \in [Procs -> Nat]
    /\ window_start \in [Procs -> Nat]
    /\ next_start \in [Procs -> Nat]
    /\ given_up \in [Procs -> BOOLEAN]
    /\ shutting_down \in [Procs -> BOOLEAN]
    /\ kill_deadline \in [Procs -> Nat]
    /\ kill_sent \in [Procs -> BOOLEAN]
    /\ proc \in [Pids -> Child \cup {"free", "foreign"}]
    /\ termed \subseteq Pids
    /\ killed \subseteq Pids
    /\ clock \in Nat
    /\ waited \in Nat
    /\ call \in {"none", "reap", "stopping", "killing", "stopped"}

\* Every child the daemon forked and has not collected is in exactly one
\* slot, and a slot's pid is always such a child: no child is forgotten,
\* none is started twice, and waitpid() never frees a pid a slot still has.
ChildTable ==
    /\ \A p \in Procs : pid[p] # 0 => p \in registered /\ proc[pid[p]] \in Child
    /\ \A p, q \in Procs : pid[p] = pid[q] /\ pid[p] # 0 => p = q
    /\ \A k \in Pids : proc[k] \in Child => \E p \in Procs : pid[p] = k

\* kill() in pm_tick, pm_shutdown_one and pm_shutdown_all only ever reaches
\* a child the daemon has not collected, although pids are reused by
\* processes it did not start.
OnlyChildrenSignalled == \A k \in termed \cup killed : proc[k] \in Child

\* When pm_shutdown_all has returned, and nothing was started since, no
\* child of the daemon is left, running or zombie.
ShutdownLeavesNobody ==
    call = "stopped" => \A k \in Pids : proc[k] \notin Child

\* shutting_down means what process.h says: pm_shutdown_one sent SIGTERM to
\* the process now in the slot, and until pm_shutdown_all takes over the
\* slot is not empty, so the flag never outlives the process it is about.
ShuttingDownMeansTermed ==
    \A p \in Procs : shutting_down[p] =>
        /\ call \in {"none", "reap"} => pid[p] # 0
        /\ pid[p] # 0 => pid[p] \in termed

\* SIGKILL is an escalation: a process is sent one only after a SIGTERM
\* went to that same incarnation of it.
KillAfterTerm == killed \subseteq termed

=============================================================================
