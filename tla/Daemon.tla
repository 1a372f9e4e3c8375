-------------------------------- MODULE Daemon --------------------------------
(***************************************************************************)
(* main() of the daemon (Daemon/src/main.c): start-up, the event loop with *)
(* its signal handler and self-pipe, and shutdown, driving the supervisor  *)
(* of ProcessManager.  The IPC server and the state store are modules of   *)
(* their own; here a turn of the loop only passes through them.            *)
(***************************************************************************)
EXTENDS ProcessManager

CONSTANT Mandatory  \* registered on every boot; the others depend on the build
                    \* (network) or on a file being there (video_uploader)

ASSUME DaemonAssumption == Mandatory \subseteq Procs

VARIABLES
    pc,           \* where main() is
    g_got_term,
    g_got_chld,
    sig_pipe,     \* is a byte in the self-pipe?
    revents,      \* did the last poll() report the self-pipe readable?
    pending       \* signals the kernel has not delivered to the daemon yet

main == <<pc, g_got_term, g_got_chld, sig_pipe, revents, pending>>
vars == <<pmvars, main>>

Init ==
    /\ PmInit
    /\ pc = "boot"
    /\ g_got_term = FALSE
    /\ g_got_chld = FALSE
    /\ sig_pipe = FALSE
    /\ revents = FALSE
    /\ pending = {}

Goto(from, to) == pc = from /\ pc' = to

-----------------------------------------------------------------------------
(* Start-up *)

\* The handlers are installed; lock, state store and executable path are
\* ready, or main() returns 1 with nothing started.
Boot ==
    /\ Goto("boot", "register") \/ Goto("boot", "exited")
    /\ UNCHANGED <<pmvars, g_got_term, g_got_chld, sig_pipe, revents, pending>>

\* register_payload_app, register_network, register_video_uploader.
Register(p) ==
    /\ Goto("register", "register")
    /\ pm_add(p)
    /\ UNCHANGED <<g_got_term, g_got_chld, sig_pipe, revents, pending>>

Start ==
    /\ Goto("register", "create")
    /\ Mandatory \subseteq registered
    /\ pm_start_all
    /\ UNCHANGED <<g_got_term, g_got_chld, sig_pipe, revents, pending>>

\* ipc_server_create succeeds, or fails and the children are stopped again.
Create ==
    /\ Goto("create", "loop")
    /\ UNCHANGED <<pmvars, g_got_term, g_got_chld, sig_pipe, revents, pending>>

\* Fault: main() returns without stopping the children.
CreateFailsAtOnce ==
    /\ Goto("create", "exited")
    /\ UNCHANGED <<pmvars, g_got_term, g_got_chld, sig_pipe, revents, pending>>

CreateFails ==
    /\ Goto("create", "stop")
    /\ pm_shutdown_all
    /\ UNCHANGED <<g_got_term, g_got_chld, sig_pipe, revents, pending>>

-----------------------------------------------------------------------------
(* The event loop *)

\* Fault: the loop condition is lost.
LoopForEver ==
    /\ Goto("loop", "poll")
    /\ UNCHANGED <<pmvars, g_got_term, g_got_chld, sig_pipe, revents, pending>>

\* while (!g_got_term)
Loop ==
    /\ \/ ~g_got_term /\ Goto("loop", "poll")
       \/ g_got_term /\ Goto("loop", "destroy")
    /\ UNCHANGED <<pmvars, g_got_term, g_got_chld, sig_pipe, revents, pending>>

\* poll() returns: a descriptor is ready or DAEMON_TICK_MS have passed.
Poll ==
    /\ Goto("poll", "drain")
    /\ revents' = sig_pipe
    /\ UNCHANGED <<pmvars, g_got_term, g_got_chld, sig_pipe, pending>>

\* poll() fails for a reason other than EINTR: the loop is left.
PollError ==
    /\ Goto("poll", "destroy")
    /\ UNCHANGED <<pmvars, g_got_term, g_got_chld, sig_pipe, revents, pending>>

\* The self-pipe is read until it is empty, if poll() found it readable.
Drain ==
    /\ Goto("drain", "chld")
    /\ sig_pipe' = (sig_pipe /\ ~revents)
    /\ UNCHANGED <<pmvars, g_got_term, g_got_chld, revents, pending>>

\* The flag is taken down before pm_reap makes its first waitpid().
TakeChld ==
    /\ Goto("chld", "reap")
    /\ g_got_chld
    /\ g_got_chld' = FALSE
    /\ pm_reap
    /\ UNCHANGED <<g_got_term, sig_pipe, revents, pending>>

NoChld ==
    /\ Goto("chld", "service")
    /\ ~g_got_chld
    /\ UNCHANGED <<pmvars, g_got_term, g_got_chld, sig_pipe, revents, pending>>

Reap(k) ==
    /\ Goto("reap", "reap")
    /\ ReapOne(k)
    /\ UNCHANGED <<g_got_term, g_got_chld, sig_pipe, revents, pending>>

ReapDone ==
    /\ Goto("reap", "service")
    /\ ReapEnd
    /\ UNCHANGED <<g_got_term, g_got_chld, sig_pipe, revents, pending>>

\* Fault: the flag is cleared after pm_reap instead of before.
ServiceClears ==
    /\ Goto("service", "tick")
    /\ g_got_chld' = FALSE
    /\ UNCHANGED <<pmvars, g_got_term, sig_pipe, revents, pending>>

\* ipc_server_service does not touch the process table.
Service ==
    /\ Goto("service", "tick")
    /\ UNCHANGED <<pmvars, g_got_term, g_got_chld, sig_pipe, revents, pending>>

\* Fault: pm_tick is called only when a signal woke the loop.
TickOnSignal ==
    /\ Goto("tick", "loop")
    /\ IF revents THEN pm_tick ELSE UNCHANGED pmvars
    /\ UNCHANGED <<g_got_term, g_got_chld, sig_pipe, revents, pending>>

TickProcesses ==
    /\ Goto("tick", "loop")
    /\ pm_tick
    /\ UNCHANGED <<g_got_term, g_got_chld, sig_pipe, revents, pending>>

-----------------------------------------------------------------------------
(* Shutdown *)

\* ipc_server_destroy, then pm_shutdown_all.
Destroy ==
    /\ Goto("destroy", "stop")
    /\ pm_shutdown_all
    /\ UNCHANGED <<g_got_term, g_got_chld, sig_pipe, revents, pending>>

\* The steps of pm_shutdown_all; a child it kills raises SIGCHLD as well.
Stop ==
    /\ Goto("stop", "stop")
    /\ \/ /\ \/ \E k \in Pids : ShutdownCollect(k)
             \/ ShutdownTimeout
             \/ ShutdownEnd
          /\ UNCHANGED pending
       \/ /\ \E p \in Procs : ShutdownKill(p)
          /\ pending' = pending \cup {"CHLD"}
    /\ UNCHANGED <<g_got_term, g_got_chld, sig_pipe, revents>>

\* sat_state_close, the lock is released, main() returns.
Exit ==
    /\ Goto("stop", "exited")
    /\ call = "stopped"
    /\ UNCHANGED <<pmvars, g_got_term, g_got_chld, sig_pipe, revents, pending>>

-----------------------------------------------------------------------------
(* Signals, children and time *)

\* Fault: the handler does not write to the self-pipe.
OnSignalSilent(s) ==
    /\ s \in pending
    /\ pc # "exited"
    /\ pending' = pending \ {s}
    /\ g_got_chld' = (g_got_chld \/ s = "CHLD")
    /\ g_got_term' = (g_got_term \/ s = "TERM")
    /\ UNCHANGED <<pmvars, pc, sig_pipe, revents>>

\* Fault: SIGCHLD only wakes the loop.
OnSignalNoChld(s) ==
    /\ s \in pending
    /\ pc # "exited"
    /\ pending' = pending \ {s}
    /\ g_got_term' = (g_got_term \/ s = "TERM")
    /\ sig_pipe' = TRUE
    /\ UNCHANGED <<pmvars, pc, g_got_chld, revents>>

\* on_signal interrupts main() between two of its steps.  In poll() the
\* interruption is EINTR, and the loop condition is tested again, unless
\* poll() had not begun to wait.
on_signal(s) ==
    /\ s \in pending
    /\ pc # "exited"
    /\ pending' = pending \ {s}
    /\ g_got_chld' = (g_got_chld \/ s = "CHLD")
    /\ g_got_term' = (g_got_term \/ s = "TERM")
    /\ sig_pipe' = TRUE
    /\ \/ pc' = pc
       \/ Goto("poll", "loop")
    /\ UNCHANGED <<pmvars, revents>>

\* Somebody asks the daemon to stop: SIGTERM or SIGINT.
SendTerm ==
    /\ "TERM" \notin pending
    /\ pc # "exited"
    /\ pending' = pending \cup {"TERM"}
    /\ UNCHANGED <<pmvars, pc, g_got_term, g_got_chld, sig_pipe, revents>>

\* A child that becomes a zombie raises SIGCHLD; signals of one kind merge.
Environment ==
    /\ World
    /\ pc # "exited"
    /\ pending' = IF \E k \in Pids : proc'[k] \in Zombie /\ proc[k] \notin Zombie
                  THEN pending \cup {"CHLD"} ELSE pending
    /\ UNCHANGED <<pc, g_got_term, g_got_chld, sig_pipe, revents>>

-----------------------------------------------------------------------------

Main ==
    \/ Boot \/ Start \/ Create \/ CreateFails
    \/ \E p \in Procs : Register(p)
    \/ Loop \/ Poll \/ PollError \/ Drain \/ TakeChld \/ NoChld
    \/ \E k \in Pids : Reap(k)
    \/ ReapDone \/ Service \/ TickProcesses
    \/ Destroy \/ Stop \/ Exit

Next ==
    \/ Main
    \/ \E s \in {"CHLD", "TERM"} : on_signal(s)
    \/ SendTerm
    \/ Environment

Spec == Init /\ [][Next]_vars

\* main() is never suspended for good, pending signals are delivered, time
\* passes.
Fairness ==
    /\ WF_vars(Main)
    /\ WF_vars(\E s \in {"CHLD", "TERM"} : on_signal(s))
    /\ WF_vars(Environment /\ Tick)

\* fork() does not fail for ever: a due slot that pm_tick visits again and
\* again is started some time.
ForkFairness ==
    \A p \in Procs : SF_vars(TickProcesses /\ p \in Due /\ pid'[p] # 0)

FairSpec == Spec /\ Fairness /\ ForkFairness

-----------------------------------------------------------------------------
(* Properties *)

\* The type of main()'s own state.
MainTypeOK ==
    /\ pc \in {"boot", "register", "create", "loop", "poll", "drain", "chld",
               "reap", "service", "tick", "destroy", "stop", "exited"}
    /\ g_got_term \in BOOLEAN
    /\ g_got_chld \in BOOLEAN
    /\ sig_pipe \in BOOLEAN
    /\ revents \in BOOLEAN
    /\ pending \subseteq {"CHLD", "TERM"}

\* Self-pipe: main() never goes to sleep in poll() on a signal that was
\* already delivered.  Whatever flag the handler has raised and the loop
\* has not acted on, the pipe is readable and poll() returns at once.
NoLostWakeup ==
    pc = "poll" /\ (g_got_term \/ g_got_chld) => sig_pipe

\* SIGCHLD: signals of children that exit together merge, and a child may
\* exit while pm_reap runs, but when the loop polls again no zombie is left
\* without a signal that announces it.
NoMissedExit ==
    pc = "poll" /\ Zombies # {} => "CHLD" \in pending \/ g_got_chld

\* main() returns only when every child it started is gone and collected,
\* on the ordinary way out and when ipc_server_create fails.
NoOrphans ==
    pc = "exited" => \A k \in Pids : proc[k] \notin Child

\* Every zombie is collected, in the loop by pm_reap or by pm_shutdown_all.
ZombiesCollected ==
    \A k \in Pids : proc[k] \in Zombie ~> proc[k] \notin Zombie

\* SIGTERM stops the daemon, whatever it and its children are doing.
TermStops == "TERM" \in pending ~> pc = "exited"

\* RESTART_NEVER: a one-shot process (video_uploader) that has run and was
\* collected is never started again, although pm_tick starts whatever is not
\* running and not given up, and although its first fork() may have failed.
OneShot ==
    \A p \in {q \in Procs : Policy[q] = "NEVER"} :
        [](pid[p] # 0 => [](pid[p] = 0 => [](pid[p] = 0)))

RestartPending(p) ==
    /\ pc = "loop"
    /\ p \in registered
    /\ pid[p] = 0
    /\ ~given_up[p]
    /\ next_start[p] * TicksPerSec <= MaxClock

\* A slot that is waiting for its backoff to elapse is started again, or
\* the daemon ends.  (Only restarts due before the end of the modelled time.)
RestartHappens ==
    \A p \in Procs : RestartPending(p) ~> (pid[p] # 0 \/ pc = "stop")

=============================================================================
