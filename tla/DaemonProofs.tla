----------------------------- MODULE DaemonProofs -----------------------------
(***************************************************************************)
(* Proofs about main(): it uses the supervisor only through its operations *)
(* (so everything proved about ProcessManager holds of the daemon), its    *)
(* event loop loses neither a signal nor an exited child, it leaves no     *)
(* child behind, and it restarts a child neither too early nor too often.  *)
(***************************************************************************)
EXTENDS RestartHistory, ProcessManagerProofs

\* The provers' time limits, for the leaves that do not name a prover.
USE ZenonT(10), SMTT(60)

\* Every step of main() is an operation of the supervisor or leaves the
\* supervisor alone.
LEMMA MainStep == Main => [Operation]_pmvars
<1> SUFFICES ASSUME Main PROVE [Operation]_pmvars
  OBVIOUS
<1>1. CASE Boot \/ Create \/ Loop \/ Poll \/ PollError \/ Drain \/ NoChld \/ Service
             \/ Exit
  BY <1>1 DEF Boot, Create, Loop, Poll, PollError, Drain, NoChld, Service, Exit
<1>2. CASE Start \/ CreateFails \/ TakeChld \/ ReapDone \/ TickProcesses \/ Destroy
  BY <1>2 DEF Start, CreateFails, TakeChld, ReapDone, TickProcesses, Destroy, Operation
<1>3. ASSUME NEW p \in Procs, Register(p) PROVE Operation
  BY <1>3 DEF Register, Operation
<1>4. ASSUME NEW k \in Pids, Reap(k) PROVE Operation
  BY <1>4 DEF Reap, Operation
<1>5. CASE Stop
  BY <1>5 DEF Stop, Operation
<1> QED
  BY <1>1, <1>2, <1>3, <1>4, <1>5 DEF Main

\* Every step of the daemon is a step of the supervisor, or none of its
\* business.
LEMMA DaemonStep == [Next]_vars => [PmNext]_pmvars
<1> SUFFICES ASSUME [Next]_vars PROVE [PmNext]_pmvars
  OBVIOUS
<1>1. CASE Main
  BY <1>1, MainStep DEF PmNext
<1>2. CASE \E s \in {"CHLD", "TERM"} : on_signal(s)
  BY <1>2 DEF on_signal
<1>3. CASE SendTerm
  BY <1>3 DEF SendTerm
<1>4. CASE Environment
  BY <1>4 DEF Environment, PmNext
<1>5. CASE UNCHANGED vars
  BY <1>5 DEF vars
<1> QED
  BY <1>1, <1>2, <1>3, <1>4, <1>5 DEF Next

\* The daemon is a caller of the supervisor: its specification implements
\* the one in which the operations are used in any order.
THEOREM DaemonUsesSupervisor == Spec => PmSpec
<1>1. Init => PmInit
  BY DEF Init
<1> QED
  BY <1>1, DaemonStep, PTL DEF Spec, PmSpec

\* What was proved of the supervisor holds of the daemon.
THEOREM DaemonSupervises ==
  Spec => [](PmTypeOK /\ ChildTable /\ OnlyChildrenSignalled /\ ShutdownLeavesNobody)
  BY DaemonUsesSupervisor, PmTypeCorrect, ChildTableCorrect, ShutdownCorrect, PTL

\* main()'s own variables keep their types.
THEOREM MainTypeCorrect == Spec => []MainTypeOK
<1>1. Init => MainTypeOK
  BY DEF Init, MainTypeOK
<1>2. MainTypeOK /\ [Next]_vars => MainTypeOK'
  <2> SUFFICES ASSUME MainTypeOK, [Next]_vars PROVE MainTypeOK'
    OBVIOUS
  <2> USE DEF MainTypeOK, Goto
  <2>1. CASE Main
    <3>1. CASE Boot \/ Start \/ Create \/ CreateFails \/ Loop \/ Poll \/ PollError
      BY <3>1 DEF Boot, Start, Create, CreateFails, Loop, Poll, PollError
    <3>2. CASE Drain \/ TakeChld \/ NoChld \/ ReapDone \/ Service \/ TickProcesses
      BY <3>2 DEF Drain, TakeChld, NoChld, ReapDone, Service, TickProcesses
    <3>3. CASE Destroy \/ Stop \/ Exit
      BY <3>3 DEF Destroy, Stop, Exit
    <3>4. CASE \E p \in Procs : Register(p)
      BY <3>4 DEF Register
    <3>5. CASE \E k \in Pids : Reap(k)
      BY <3>5 DEF Reap
    <3> QED
      BY <2>1, <3>1, <3>2, <3>3, <3>4, <3>5 DEF Main
  <2>2. CASE \E s \in {"CHLD", "TERM"} : on_signal(s)
    BY <2>2 DEF on_signal
  <2>3. CASE SendTerm
    BY <2>3 DEF SendTerm
  <2>4. CASE Environment
    BY <2>4 DEF Environment
  <2>5. CASE UNCHANGED vars
    BY <2>5 DEF vars, main
  <2> QED
    BY <2>1, <2>2, <2>3, <2>4, <2>5 DEF Next
<1> QED
  BY <1>1, <1>2, PTL DEF Spec

-----------------------------------------------------------------------------
(* The self-pipe *)

\* The inductive form of NoLostWakeup: between Drain and the test of
\* g_got_chld the pipe may be empty although the flag is up, and nowhere else.
WakeupInv ==
    /\ g_got_chld /\ pc # "chld" => sig_pipe
    /\ g_got_term /\ pc = "poll" => sig_pipe

\* main() never sleeps in poll() on a signal that was already delivered.
THEOREM WakeupCorrect == Spec => []NoLostWakeup
<1>1. Init => WakeupInv
  BY DEF Init, WakeupInv
<1>2. MainTypeOK /\ WakeupInv /\ [Next]_vars => WakeupInv'
  <2> SUFFICES ASSUME MainTypeOK, WakeupInv, [Next]_vars PROVE WakeupInv'
    OBVIOUS
  <2> USE DEF WakeupInv, Goto, MainTypeOK
  <2>1. CASE Main
    <3>1. CASE Boot \/ Start \/ Create \/ CreateFails \/ Loop \/ Poll \/ PollError
      BY <3>1 DEF Boot, Start, Create, CreateFails, Loop, Poll, PollError
    <3>2. CASE Drain \/ TakeChld \/ NoChld \/ ReapDone \/ Service \/ TickProcesses
      BY <3>2 DEF Drain, TakeChld, NoChld, ReapDone, Service, TickProcesses
    <3>3. CASE Destroy \/ Stop \/ Exit
      BY <3>3 DEF Destroy, Stop, Exit
    <3>4. CASE \E p \in Procs : Register(p)
      BY <3>4 DEF Register
    <3>5. CASE \E k \in Pids : Reap(k)
      BY <3>5 DEF Reap
    <3> QED
      BY <2>1, <3>1, <3>2, <3>3, <3>4, <3>5 DEF Main
  <2>2. CASE \E s \in {"CHLD", "TERM"} : on_signal(s)
    BY <2>2 DEF on_signal
  <2>3. CASE SendTerm
    BY <2>3 DEF SendTerm
  <2>4. CASE Environment
    BY <2>4 DEF Environment
  <2>5. CASE UNCHANGED vars
    BY <2>5 DEF vars, main
  <2> QED
    BY <2>1, <2>2, <2>3, <2>4, <2>5 DEF Next
<1>3. WakeupInv => NoLostWakeup
  BY DEF WakeupInv, NoLostWakeup
<1> QED
  BY <1>1, <1>2, <1>3, MainTypeCorrect, PTL DEF Spec

-----------------------------------------------------------------------------
(* SIGCHLD *)

\* The inductive form of NoMissedExit: a zombie is announced by a signal on
\* its way, by the flag, or pm_reap or pm_shutdown_all is at work on it.
ExitInv ==
    Zombies # {} => \/ "CHLD" \in pending
                    \/ g_got_chld
                    \/ pc \in {"reap", "stop", "exited"}

\* No operation of the supervisor makes a zombie.
LEMMA OperationMakesNoZombie ==
  ASSUME PmTypeOK, Operation PROVE Zombies' \subseteq Zombies
<1> USE DEF slots, kernel, time, backoff, stopping
<1> SUFFICES ASSUME NEW k \in Pids, proc'[k] \in Zombie PROVE proc[k] \in Zombie
  BY DEF Zombies
<1>1. ASSUME NEW p \in Procs, pm_add(p) \/ pm_shutdown_one(p)
      PROVE  proc[k] \in Zombie
  BY <1>1 DEF pm_add, pm_shutdown_one
<1>2. ASSUME NEW f, NEW K, start_one(f, K) PROVE proc[k] \in Zombie
  BY <1>2 DEF start_one, Zombie
<1>3. CASE pm_start_all \/ pm_tick
  BY <1>2, <1>3 DEF pm_start_all, pm_tick
<1>4. ASSUME NEW p \in Procs, pm_start_one(p) PROVE proc[k] \in Zombie
  BY <1>2, <1>4 DEF pm_start_one
<1>5. CASE pm_reap \/ ReapEnd \/ pm_shutdown_all \/ ShutdownTimeout \/ ShutdownEnd
  BY <1>5 DEF pm_reap, ReapEnd, pm_shutdown_all, ShutdownTimeout, ShutdownEnd
<1>6. ASSUME NEW j, Collected(j) PROVE proc[k] \in Zombie
  BY <1>6 DEF Collected, Zombie, PmTypeOK
<1>7. CASE \/ \E j \in Pids : ReapOne(j) \/ ShutdownCollect(j)
           \/ \E p \in Procs : ShutdownKill(p)
  BY <1>6, <1>7 DEF ReapOne, ShutdownCollect, ShutdownKill
<1> QED
  BY <1>1, <1>3, <1>4, <1>5, <1>7 DEF Operation

\* When the loop goes back to poll(), every zombie is still announced.
THEOREM ExitsNoticed == Spec => []NoMissedExit
<1>1. Init => ExitInv
  BY DEF Init, PmInit, ExitInv, Zombies, Zombie
<1>2. PmTypeOK /\ MainTypeOK /\ ExitInv /\ [Next]_vars => ExitInv'
  <2> SUFFICES ASSUME PmTypeOK, MainTypeOK, ExitInv, [Next]_vars PROVE ExitInv'
    OBVIOUS
  <2> USE DEF Goto, MainTypeOK
  <2>1. CASE Main
    <3>0. Zombies' \subseteq Zombies
      BY <2>1, MainStep, OperationMakesNoZombie
         DEF pmvars, kernel, Zombies
    <3> USE <3>0 DEF ExitInv
    <3>1. CASE Boot \/ Start \/ Create \/ CreateFails \/ Loop \/ Poll \/ PollError
      BY <3>1 DEF Boot, Start, Create, CreateFails, Loop, Poll, PollError
    <3>2. CASE Drain \/ TakeChld \/ NoChld \/ Service \/ TickProcesses
      BY <3>2 DEF Drain, TakeChld, NoChld, Service, TickProcesses
    <3>3. CASE ReapDone
      BY <3>3 DEF ReapDone, ReapEnd
    <3>4. CASE Destroy \/ Stop \/ Exit
      BY <3>4 DEF Destroy, Stop, Exit
    <3>5. CASE \E p \in Procs : Register(p)
      BY <3>5, SMTT(60) DEF Register
    <3>6. CASE \E k \in Pids : Reap(k)
      BY <3>6 DEF Reap
    <3> QED
      BY <2>1, <3>1, <3>2, <3>3, <3>4, <3>5, <3>6 DEF Main
  <2>2. CASE \E s \in {"CHLD", "TERM"} : on_signal(s)
    BY <2>2 DEF on_signal, ExitInv, Zombies, pmvars, kernel
  <2>3. CASE SendTerm
    BY <2>3 DEF SendTerm, ExitInv, Zombies, pmvars, kernel
  <2>4. CASE Environment
    BY <2>4 DEF Environment, ExitInv, Zombies
  <2>5. CASE UNCHANGED vars
    BY <2>5 DEF vars, main, ExitInv, Zombies, pmvars, kernel
  <2> QED
    BY <2>1, <2>2, <2>3, <2>4, <2>5 DEF Next
<1>3. ExitInv => NoMissedExit
  BY DEF ExitInv, NoMissedExit
<1> QED
  BY <1>1, <1>2, <1>3, DaemonSupervises, MainTypeCorrect, PTL DEF Spec

-----------------------------------------------------------------------------
(* The way out *)

\* The inductive form of NoOrphans: before pm_start_all and after main()
\* returned there is no child.
NobodyInv ==
    pc \in {"boot", "register", "exited"} => \A k \in Pids : proc[k] \notin Child

\* main() returns only when every child is gone and collected.
THEOREM NoOrphansLeft == Spec => []NoOrphans
<1>1. Init => NobodyInv
  BY DEF Init, PmInit, NobodyInv, Child, Live, Zombie
<1>2. PmTypeOK /\ ShutdownLeavesNobody /\ MainTypeOK /\ NobodyInv /\ [Next]_vars
        => NobodyInv'
  <2> SUFFICES ASSUME PmTypeOK, ShutdownLeavesNobody, MainTypeOK, NobodyInv,
                      [Next]_vars
               PROVE  NobodyInv'
    OBVIOUS
  <2> USE DEF Goto, NobodyInv
  <2>1. CASE Main
    <3>1. CASE Boot
      BY <3>1 DEF Boot, pmvars, kernel
    <3>2. CASE \E p \in Procs : Register(p)
      BY <3>2 DEF Register, pm_add, kernel
    <3>3. CASE Exit
      BY <3>3 DEF Exit, ShutdownLeavesNobody, pmvars, kernel
    <3>4. CASE Start \/ Create \/ CreateFails \/ Loop \/ Poll \/ PollError \/ Drain
      BY <3>4 DEF Start, Create, CreateFails, Loop, Poll, PollError, Drain
    <3>5. CASE TakeChld \/ NoChld \/ ReapDone \/ Service \/ TickProcesses \/ Destroy
                 \/ Stop
      BY <3>5 DEF TakeChld, NoChld, ReapDone, Service, TickProcesses, Destroy, Stop
    <3>6. CASE \E k \in Pids : Reap(k)
      BY <3>6 DEF Reap
    <3> QED
      BY <2>1, <3>1, <3>2, <3>3, <3>4, <3>5, <3>6 DEF Main
  <2>2. CASE \E s \in {"CHLD", "TERM"} : on_signal(s)
    BY <2>2 DEF on_signal, pmvars, kernel
  <2>3. CASE SendTerm
    BY <2>3 DEF SendTerm, pmvars, kernel
  <2>4. CASE Environment
    <3>1. \A k \in Pids : proc[k] \notin Child => proc'[k] \notin Child
      BY <2>4 DEF Environment, World, Exec, ChildExit, ChildKilled, ForeignFork,
                  ForeignExit, Collected, Tick, ClockSet, kernel, PmTypeOK,
                  Child, Live, Zombie
    <3> QED
      BY <2>4, <3>1 DEF Environment
  <2>5. CASE UNCHANGED vars
    BY <2>5 DEF vars, main, pmvars, kernel
  <2> QED
    BY <2>1, <2>2, <2>3, <2>4, <2>5 DEF Next
<1>3. NobodyInv => NoOrphans
  BY DEF NobodyInv, NoOrphans
<1> QED
  BY <1>1, <1>2, <1>3, DaemonSupervises, MainTypeCorrect, PTL DEF Spec

-----------------------------------------------------------------------------
(* What a step of the daemon does to one slot *)

\* Nobody but main() touches the table, and main() never calls
\* pm_shutdown_one: no slot is ever being shut down by itself, and before
\* pm_start_all every slot is as pm_add left it.  pm_shutdown_all gives up
\* on every slot before it collects anybody.
SlotsInv ==
    /\ \A p \in Procs : ~shutting_down[p]
    /\ pc \in {"boot", "register"} => \A p \in Procs : pid[p] = 0 /\ attempts[p] = 0
    /\ pc = "stop" => \A p \in registered : given_up[p]

\* The slot keeps its child and its bookkeeping; it may be given up on.
SlotKept(p) ==
    /\ pid'[p] = pid[p]
    /\ attempts'[p] = attempts[p]
    /\ window_start'[p] = window_start[p]
    /\ next_start'[p] = next_start[p]
    /\ given_up[p] => given_up'[p]
    /\ pc' \in {"boot", "register"} => pc \in {"boot", "register"}

\* pm_start_all resets the slot and tries to start it for the first time.
SlotReset(p) ==
    /\ pc = "register"
    /\ pc' = "create"
    /\ attempts'[p] = 0
    /\ window_start'[p] = now
    /\ next_start'[p] = now
    /\ clock' = clock

\* pm_tick starts the slot.
SlotStarted(p) ==
    /\ pc = "tick"
    /\ pc' = "loop"
    /\ p \in Due
    /\ pid'[p] # 0
    /\ attempts'[p] = attempts[p]
    /\ window_start'[p] = window_start[p]
    /\ next_start'[p] = next_start[p]
    /\ given_up'[p] = given_up[p]
    /\ clock' = clock

\* waitpid() returned the slot's child: a restart is scheduled, or the slot
\* is given up on.
SlotCollected(p) ==
    /\ pid[p] # 0
    /\ pid'[p] = 0
    /\ pc' = pc
    /\ clock' = clock
    /\ window_start'[p] \in {window_start[p], now}
    /\ \/ given_up'[p]
       \/ /\ Policy[p] # "NEVER"
          /\ given_up'[p] = given_up[p]
          /\ Attempt(p) <= MaxAttempts
          /\ attempts'[p] = Attempt(p)
          /\ window_start'[p] = IF NewWindow(p) THEN now ELSE window_start[p]
          /\ next_start'[p] = now + CeilSec(BackoffTicks * Attempt(p))

SlotStep(p) == SlotKept(p) \/ SlotReset(p) \/ SlotStarted(p) \/ SlotCollected(p)

\* A step of the world leaves every slot alone.
LEMMA WorldKeepsSlots == World => UNCHANGED slots
  BY DEF World, Exec, ChildExit, ChildKilled, ForeignFork, ForeignExit, Tick, ClockSet

\* What each step of the daemon does to a slot, and to SlotsInv.
LEMMA SlotSteps ==
  ASSUME PmTypeOK, ChildTable, MainTypeOK, SlotsInv, [Next]_vars
  PROVE  SlotsInv' /\ \A p \in Procs : SlotStep(p)
<1> USE DEF pmvars, slots, backoff, stopping, Goto, MainTypeOK
<1> DEFINE Result == SlotsInv' /\ \A p \in Procs : SlotStep(p)
<1>1. ASSUME UNCHANGED slots,
             pc' \in {"boot", "register"} => pc \in {"boot", "register"},
             pc' = "stop" => pc = "stop"
      PROVE  Result
  BY <1>1 DEF SlotsInv, SlotStep, SlotKept
<1>2. CASE Boot \/ Create \/ Loop \/ Poll \/ PollError \/ Drain \/ NoChld \/ Service
             \/ Exit
  BY <1>1, <1>2 DEF Boot, Create, Loop, Poll, PollError, Drain, NoChld, Service, Exit
<1>3. CASE TakeChld \/ ReapDone
  BY <1>1, <1>3 DEF TakeChld, pm_reap, ReapDone, ReapEnd
<1>4. ASSUME NEW q \in Procs, Register(q) PROVE Result
  BY <1>4 DEF Register, pm_add, SlotsInv, SlotStep, SlotKept
<1>5. CASE Start
  <2>1. SlotsInv'
    BY <1>5 DEF Start, pm_start_all, SlotsInv
  <2>2. ASSUME NEW p \in Procs PROVE SlotStep(p)
    <3>1. PICK f \in ForkResults({q \in registered : pid[q] = 0}) : start_one(f, {})
      BY <1>5 DEF Start, pm_start_all
    <3>2. CASE p \in registered
      BY <1>5, <3>2 DEF Start, pm_start_all, ResetBackoff, SlotStep, SlotReset, time
    <3>3. CASE p \notin registered
      <4>1. pid'[p] = pid[p]
        BY <3>1, <3>3, ForkFacts, SMTT(60) DEF start_one
      <4> QED
        BY <1>5, <3>3, <4>1 DEF Start, pm_start_all, ResetBackoff, SlotStep, SlotKept
    <3> QED
      BY <3>2, <3>3
  <2> QED
    BY <2>1, <2>2
<1>6. CASE TickProcesses
  <2>1. SlotsInv'
    BY <1>6 DEF TickProcesses, pm_tick, SlotsInv
  <2>2. ASSUME NEW p \in Procs PROVE SlotStep(p)
    <3>1. PICK f \in ForkResults(Due) : start_one(f, {pid[q] : q \in Overdue})
      BY <1>6 DEF TickProcesses, pm_tick
    <3>2. UNCHANGED <<attempts, window_start, next_start, given_up, clock>>
      BY <1>6 DEF TickProcesses, pm_tick, time
    <3>3. pc = "tick" /\ pc' = "loop"
      BY <1>6 DEF TickProcesses
    <3>4. pid'[p] = IF f[p] # 0 THEN f[p] ELSE pid[p]
      BY <3>1 DEF start_one
    <3>5. CASE f[p] # 0
      BY <3>1, <3>2, <3>3, <3>4, <3>5, ForkFacts DEF SlotStep, SlotStarted
    <3>6. CASE f[p] = 0
      BY <3>2, <3>3, <3>4, <3>6 DEF SlotStep, SlotKept
    <3> QED
      BY <3>5, <3>6
  <2> QED
    BY <2>1, <2>2
<1>7. ASSUME NEW k \in Pids, Reap(k) PROVE Result
  <2>1. SlotsInv'
    BY <1>7 DEF Reap, ReapOne, SlotsInv
  <2>2. ASSUME NEW p \in Procs PROVE SlotStep(p)
    <3>1. pc = "reap" /\ pc' = "reap" /\ clock' = clock
      BY <1>7 DEF Reap, ReapOne, time
    <3>2. CASE p \in pm_find_by_pid(k)
      <4>1. pid[p] # 0 /\ pid'[p] = 0
        BY <1>7, <3>2, PmAssumption DEF Reap, ReapOne, ClearPid, pm_find_by_pid
      <4>2. ~shutting_down[p]
        BY DEF SlotsInv
      <4>3. CASE WantsRestart(p, proc[k] = "failed") /\ ~(Attempt(p) > MaxAttempts)
        <5>1. Policy[p] # "NEVER"
          BY <4>3 DEF WantsRestart
        <5>2. Attempt(p) \in Nat
          BY SMTT(60) DEF Attempt, PmTypeOK
        <5>3. /\ given_up'[p] = given_up[p]
              /\ attempts'[p] = Attempt(p)
              /\ window_start'[p] = IF NewWindow(p) THEN now ELSE window_start[p]
              /\ next_start'[p] = now + CeilSec(BackoffTicks * Attempt(p))
          BY <1>7, <3>2, <4>2, <4>3 DEF Reap, ReapOne, PmTypeOK
        <5> QED
          BY <3>1, <4>1, <4>3, <5>1, <5>2, <5>3, PmAssumption, SMTT(60)
             DEF SlotStep, SlotCollected
      <4>4. CASE ~WantsRestart(p, proc[k] = "failed") \/ Attempt(p) > MaxAttempts
        <5>1. given_up'[p] /\ window_start'[p] \in {window_start[p], now}
          BY <1>7, <3>2, <4>2, <4>4 DEF Reap, ReapOne
        <5> QED
          BY <3>1, <4>1, <5>1 DEF SlotStep, SlotCollected
      <4> QED
        BY <4>3, <4>4
    <3>3. CASE p \notin pm_find_by_pid(k)
      BY <1>7, <3>1, <3>3 DEF Reap, ReapOne, ClearPid, SlotStep, SlotKept
    <3> QED
      BY <3>2, <3>3
  <2> QED
    BY <2>1, <2>2
<1>8. CASE CreateFails \/ Destroy
  <2>1. SlotsInv'
    BY <1>8, ZenonT(60) DEF CreateFails, Destroy, pm_shutdown_all, SlotsInv, PmTypeOK
  <2>2. \A p \in Procs : SlotStep(p)
    BY <1>8 DEF CreateFails, Destroy, pm_shutdown_all, SlotStep, SlotKept
  <2> QED
    BY <2>1, <2>2
<1>9. ASSUME pc = "stop", pc' = "stop", NEW k, ClearPid(k),
             UNCHANGED <<registered, backoff, given_up, stopping, clock>>
      PROVE  Result
  <2>1. SlotsInv'
    BY <1>9 DEF SlotsInv
  <2>2. ASSUME NEW p \in Procs PROVE SlotStep(p)
    <3>1. pid[p] # 0 => given_up'[p]
      BY <1>9 DEF ChildTable, SlotsInv
    <3>2. pid'[p] \in {pid[p], 0}
      BY <1>9 DEF ClearPid
    <3>3. CASE pid'[p] = pid[p]
      BY <1>9, <3>3 DEF SlotStep, SlotKept
    <3>4. CASE pid'[p] # pid[p]
      BY <1>9, <3>1, <3>2, <3>4 DEF SlotStep, SlotCollected
    <3> QED
      BY <3>3, <3>4
  <2> QED
    BY <2>1, <2>2
<1>10. CASE Stop
  <2>1. ASSUME NEW k \in Pids, ShutdownCollect(k) PROVE Result
    BY <1>9, <1>10, <2>1 DEF Stop, ShutdownCollect, time
  <2>2. ASSUME NEW q \in Procs, ShutdownKill(q) PROVE Result
    BY <1>9, <1>10, <2>2 DEF Stop, ShutdownKill, time
  <2>3. CASE ShutdownTimeout \/ ShutdownEnd
    BY <1>1, <1>10, <2>3 DEF Stop, ShutdownTimeout, ShutdownEnd
  <2> QED
    BY <1>10, <2>1, <2>2, <2>3 DEF Stop
<1>11. CASE \E s \in {"CHLD", "TERM"} : on_signal(s)
  BY <1>1, <1>11 DEF on_signal
<1>12. CASE SendTerm \/ UNCHANGED vars
  BY <1>1, <1>12 DEF SendTerm, vars, main
<1>13. CASE Environment
  BY <1>1, <1>13, WorldKeepsSlots DEF Environment
<1> QED
  BY <1>2, <1>3, <1>4, <1>5, <1>6, <1>7, <1>8, <1>10, <1>11, <1>12, <1>13
     DEF Next, Main

\* SlotsInv holds throughout.
LEMMA SlotsCorrect == Spec => []SlotsInv
<1>1. Init => SlotsInv
  BY DEF Init, PmInit, SlotsInv
<1>2. PmTypeOK /\ ChildTable /\ MainTypeOK /\ SlotsInv /\ [Next]_vars => SlotsInv'
  BY SlotSteps
<1> QED
  BY <1>1, <1>2, DaemonSupervises, MainTypeCorrect, PTL DEF Spec

-----------------------------------------------------------------------------
(* Seconds *)

\* Integer division, as time() and the rounding of delays use it.
LEMMA DivBounds ==
  ASSUME NEW a \in Nat, NEW t \in Nat \ {0}
  PROVE  a \div t \in Nat /\ t * (a \div t) <= a /\ a < t * (a \div t) + t
  OBVIOUS

\* Multiplying by a positive number keeps and reflects order.
LEMMA TimesMonotone ==
  ASSUME NEW a \in Int, NEW b \in Int, NEW t \in Nat \ {0}
  PROVE  a <= b <=> t * a <= t * b
  OBVIOUS

\* Multiplication distributes over addition.
LEMMA TimesPlus ==
  ASSUME NEW a \in Int, NEW b \in Int, NEW t \in Int
  PROVE  t * (a + b) = t * a + t * b
  OBVIOUS

\* Seconds do not go back when ticks do not.
LEMMA DivMonotone ==
  ASSUME NEW a \in Nat, NEW b \in Nat, NEW t \in Nat \ {0}, a <= b
  PROVE  a \div t <= b \div t
<1>1. t * (a \div t) < t * ((b \div t) + 1)
  BY DivBounds, SMTT(60)
<1> QED
  BY <1>1, DivBounds, TimesMonotone, SMTT(60)

\* The arithmetic of the backoff: c is the tick a child was collected at and
\* d the delay.  When the truncated time has reached the truncated c plus d
\* rounded up, less than a second of the delay is missing.
LEMMA BackoffArithmetic ==
  ASSUME NEW c \in Nat, NEW d \in Nat, clock \in Nat,
         now >= c \div TicksPerSec + CeilSec(d)
  PROVE  clock - c > d - TicksPerSec
<1> DEFINE T == TicksPerSec
           u == d + T - 1
<1>0. T \in Nat \ {0} /\ u \in Nat
  BY PmAssumption, SMTT(60)
<1> HIDE DEF u
<1>1. now \in Nat /\ T * now <= clock
  BY <1>0, DivBounds DEF now
<1>2. c \div T \in Nat /\ c < T * (c \div T) + T
  BY <1>0, DivBounds
<1>3. CeilSec(d) \in Nat /\ u < T * CeilSec(d) + T
  BY <1>0, DivBounds DEF CeilSec, u
<1>4. T * (c \div T + CeilSec(d)) <= T * now
  BY <1>0, <1>1, <1>2, <1>3, TimesMonotone, SMTT(60)
<1>5. T * (c \div T + CeilSec(d)) = T * (c \div T) + T * CeilSec(d)
  <2>1. T \in Int /\ c \div T \in Int /\ CeilSec(d) \in Int
    BY <1>0, <1>2, <1>3
  <2> QED
    BY <2>1, TimesPlus, ZenonT(60)
<1>6. T * (c \div T) \in Nat /\ T * CeilSec(d) \in Nat /\ T * now \in Nat
  BY <1>0, <1>1, <1>2, <1>3
<1>7. u = d + T - 1
  BY DEF u
<1>8. ASSUME NEW x \in Nat, NEW y \in Nat, NEW z \in Nat,
             z <= clock, c < x + T, u < y + T, x + y <= z
      PROVE  clock - c > d - T
  BY <1>0, <1>7, <1>8
<1> QED
  BY <1>1, <1>2, <1>3, <1>4, <1>5, <1>6, <1>8

-----------------------------------------------------------------------------
(* The restart history *)

\* p was collected and has not been started again since.
Waiting(p) == pid[p] = 0 /\ collected[p] # -1

HistoryTypeOK ==
    /\ collected \in [Procs -> Nat \cup {-1}]
    /\ restarts \in [Procs -> Seq(Nat)]

\* The inductive form of BackoffWithinASecond: next_start of a slot that
\* waits for a restart is the second its child was collected in, plus the
\* delay of the attempt, rounded up.
BackoffInv ==
    \A p \in Procs : Waiting(p) /\ ~given_up[p] =>
        next_start[p] = collected[p] \div TicksPerSec + CeilSec(Backoff(p))

\* Before pm_start_all nothing was collected or started again.
EarlyInv ==
    pc \in {"boot", "register"} =>
        \A p \in Procs : collected[p] = -1 /\ restarts[p] = <<>>

\* The restarts of p that its attempt counter stands for: all attempts but
\* the one it is waiting for.
Counted(p) == attempts[p] - (IF Waiting(p) THEN 1 ELSE 0)

\* The inductive form of RestartRate.  The restarts the counter does not
\* stand for were made before the window began, and all but the last
\* MaxAttempts of those more than WindowSec before it.
RateOK(p) ==
    LET r == restarts[p]
        n == Len(r)
    IN  /\ \A i \in 1 .. n : r[i] <= now
        /\ window_start[p] <= now
        /\ \A i \in 1 .. n - 2 * MaxAttempts : r[i + 2 * MaxAttempts] - r[i] > WindowSec
        /\ ~given_up[p] =>
            /\ attempts[p] <= MaxAttempts
            /\ Waiting(p) => attempts[p] >= 1
            /\ \A i \in 1 .. n - Counted(p) : r[i] <= window_start[p]
            /\ \A i \in 1 .. n - Counted(p) - MaxAttempts :
                  window_start[p] - r[i] > WindowSec

RateInv == \A p \in Procs : RateOK(p)

\* The observer only watches: its specification implements the daemon's.
LEMMA HistoryIsDaemon == HistorySpec => Spec
<1>1. HistoryInit => Init
  BY DEF HistoryInit
<1>2. [HistoryNext]_<<vars, history>> => [Next]_vars
  BY DEF HistoryNext
<1> QED
  BY <1>1, <1>2, PTL DEF HistorySpec, Spec

\* What a step records about one process.
LEMMA Observed ==
  ASSUME HistoryTypeOK, [HistoryNext]_<<vars, history>>, NEW p \in Procs
  PROVE  /\ collected'[p] = IF pid[p] # 0 /\ pid'[p] = 0 THEN clock ELSE collected[p]
         /\ restarts'[p] = IF StartedNow(p) /\ collected[p] # -1
                           THEN Append(restarts[p], now) ELSE restarts[p]
<1>1. CASE HistoryNext
  BY <1>1 DEF HistoryNext, Observe
<1>2. CASE UNCHANGED <<vars, history>>
  BY <1>2 DEF vars, history, pmvars, slots, StartedNow
<1> QED
  BY <1>1, <1>2

\* The observer's variables keep their types, and are empty before
\* pm_start_all.
LEMMA HistoryTyped == HistorySpec => [](HistoryTypeOK /\ EarlyInv)
<1>1. HistoryInit => HistoryTypeOK /\ EarlyInv
  BY DEF HistoryInit, HistoryTypeOK, EarlyInv
<1>2. PmTypeOK /\ ChildTable /\ MainTypeOK /\ SlotsInv /\ HistoryTypeOK /\ EarlyInv
        /\ [HistoryNext]_<<vars, history>> => (HistoryTypeOK /\ EarlyInv)'
  <2> SUFFICES ASSUME PmTypeOK, ChildTable, MainTypeOK, SlotsInv, HistoryTypeOK, EarlyInv,
                      [HistoryNext]_<<vars, history>>
               PROVE  HistoryTypeOK' /\ EarlyInv'
    OBVIOUS
  <2>1. HistoryTypeOK'
    <3>1. clock \in Nat /\ now \in Nat
      BY NowType DEF PmTypeOK
    <3>2. CASE HistoryNext
      <4>1. collected' \in [Procs -> Nat \cup {-1}]
        BY <3>1, <3>2 DEF HistoryNext, Observe, HistoryTypeOK
      <4>2. restarts' \in [Procs -> Seq(Nat)]
        BY <3>1, <3>2, SMTT(60) DEF HistoryNext, Observe, HistoryTypeOK
      <4> QED
        BY <4>1, <4>2 DEF HistoryTypeOK
    <3>3. CASE UNCHANGED <<vars, history>>
      BY <3>3 DEF history, HistoryTypeOK
    <3> QED
      BY <3>2, <3>3
  <2>2. EarlyInv'
    <3> SUFFICES ASSUME pc' \in {"boot", "register"}, NEW p \in Procs
                 PROVE  collected'[p] = -1 /\ restarts'[p] = <<>>
      BY DEF EarlyInv
    <3>1. SlotStep(p)
      BY SlotSteps DEF HistoryNext
    <3>2. pc \in {"boot", "register"} /\ pid'[p] = pid[p]
      BY <3>1 DEF SlotStep, SlotKept, SlotReset, SlotStarted, SlotCollected, SlotsInv
    <3> QED
      BY <3>2, Observed DEF EarlyInv, StartedNow
  <2> QED
    BY <2>1, <2>2
<1> QED
  BY <1>1, <1>2, HistoryIsDaemon, DaemonSupervises, MainTypeCorrect, SlotsCorrect, PTL
     DEF HistorySpec

\* pm_tick never restarts a process a second or more before its backoff has
\* elapsed, however the wall clock is set.
THEOREM BackoffRespected == HistorySpec => BackoffWithinASecond
<1> DEFINE Known == /\ PmTypeOK /\ ChildTable /\ MainTypeOK /\ SlotsInv
                    /\ HistoryTypeOK /\ EarlyInv
<1>1. HistoryInit => BackoffInv
  BY DEF HistoryInit, BackoffInv, Waiting
<1>2. Known /\ BackoffInv /\ [HistoryNext]_<<vars, history>> => BackoffInv'
  <2> SUFFICES ASSUME Known, BackoffInv, [HistoryNext]_<<vars, history>>,
                      NEW p \in Procs, Waiting(p)', ~given_up'[p]
               PROVE  next_start'[p] = collected'[p] \div TicksPerSec + CeilSec(Backoff(p)')
    BY DEF BackoffInv, CeilSec
  <2>1. SlotStep(p)
    BY SlotSteps DEF HistoryNext
  <2>2. collected'[p] = IF pid[p] # 0 /\ pid'[p] = 0 THEN clock ELSE collected[p]
    BY Observed
  <2>3. CASE SlotKept(p)
    BY <2>2, <2>3 DEF SlotKept, BackoffInv, Waiting, Backoff
  <2>4. CASE SlotReset(p)
    BY <2>2, <2>4 DEF SlotReset, EarlyInv, SlotsInv, Waiting
  <2>5. CASE SlotStarted(p)
    BY <2>5 DEF SlotStarted, Waiting
  <2>6. CASE SlotCollected(p)
    BY <2>2, <2>6 DEF SlotCollected, Backoff, now
  <2> QED
    BY <2>1, <2>3, <2>4, <2>5, <2>6 DEF SlotStep
<1>3. Known /\ BackoffInv /\ [HistoryNext]_<<vars, history>>
        => [\A p \in Procs : Restarted(p) =>
                clock - collected[p] > Backoff(p) - TicksPerSec]_vars
  <2> SUFFICES ASSUME Known, BackoffInv, [HistoryNext]_<<vars, history>>,
                      NEW p \in Procs, Restarted(p)
               PROVE  clock - collected[p] > Backoff(p) - TicksPerSec
    OBVIOUS
  <2>1. SlotStep(p)
    BY SlotSteps DEF HistoryNext
  <2>2. SlotStarted(p)
    BY <2>1 DEF SlotStep, SlotKept, SlotReset, SlotCollected, Restarted, StartedNow
  <2>3. next_start[p] = collected[p] \div TicksPerSec + CeilSec(Backoff(p))
    BY <2>2 DEF SlotStarted, Due, BackoffInv, Waiting, Restarted
  <2>4. now >= collected[p] \div TicksPerSec + CeilSec(Backoff(p))
    BY <2>2, <2>3 DEF SlotStarted, Due
  <2>5. collected[p] \in Nat /\ Backoff(p) \in Nat /\ clock \in Nat
    BY PmAssumption, SMTT(60) DEF Restarted, HistoryTypeOK, Backoff, PmTypeOK
  <2> QED
    BY <2>4, <2>5, BackoffArithmetic
<1> QED
  BY <1>1, <1>2, <1>3, HistoryIsDaemon, DaemonSupervises, MainTypeCorrect, SlotsCorrect,
     HistoryTyped, PTL DEF HistorySpec, BackoffWithinASecond

\* The wall clock does not go back unless somebody sets it.
LEMMA ClockForward ==
  ASSUME PmTypeOK, ~ClockMaySet, [Next]_vars
  PROVE  clock' \in Nat /\ now' \in Nat /\ now \in Nat /\ now <= now'
<1> USE DEF pmvars, time
<1>1. clock' = clock \/ Tick
  <2>1. [PmNext]_pmvars
    BY DaemonStep
  <2>2. Operation => clock' = clock
    BY DEF Operation, pm_add, pm_start_one, pm_shutdown_one, pm_start_all, pm_tick, pm_reap,
           ReapOne, ReapEnd, pm_shutdown_all, ShutdownCollect, ShutdownTimeout,
           ShutdownKill, ShutdownEnd
  <2>3. World => clock' = clock \/ Tick
    BY DEF World, Exec, ChildExit, ChildKilled, ForeignFork, ForeignExit, ClockSet
  <2> QED
    BY <2>1, <2>2, <2>3 DEF PmNext
<1>2. clock \in Nat /\ clock' \in Nat /\ clock <= clock'
  BY <1>1 DEF Tick, PmTypeOK
<1>3. clock \div TicksPerSec \in Nat /\ clock' \div TicksPerSec \in Nat
  BY <1>2, DivBounds, PmAssumption
<1>4. clock \div TicksPerSec <= clock' \div TicksPerSec
  BY <1>2, DivMonotone, PmAssumption
<1> QED
  BY <1>2, <1>3, <1>4 DEF now

\* The rate invariant of one process through one step.
LEMMA RateStep ==
  ASSUME PmTypeOK, PmTypeOK', ChildTable, MainTypeOK, SlotsInv, HistoryTypeOK, EarlyInv,
         ~ClockMaySet, [HistoryNext]_<<vars, history>>, NEW p \in Procs, RateOK(p)
  PROVE  RateOK(p)'
<1> DEFINE r == restarts[p]
           n == Len(r)
           M == MaxAttempts
           ws == window_start[p]
<1>0. /\ M \in Nat /\ WindowSec \in Nat /\ r \in Seq(Nat) /\ n \in Nat
      /\ ws \in Nat /\ attempts[p] \in Nat /\ attempts'[p] \in Nat
      /\ window_start'[p] \in Nat
      /\ \A i \in 1 .. n : r[i] \in Nat
  BY PmAssumption, SMTT(60) DEF PmTypeOK, HistoryTypeOK
<1>1. SlotStep(p)
  BY SlotSteps DEF HistoryNext
<1>2. now \in Nat /\ now' \in Nat /\ now <= now'
  BY ClockForward DEF HistoryNext
<1>3. /\ collected'[p] = IF pid[p] # 0 /\ pid'[p] = 0 THEN clock ELSE collected[p]
      /\ restarts'[p] = IF StartedNow(p) /\ collected[p] # -1 THEN Append(r, now) ELSE r
  BY Observed
<1>4. /\ \A i \in 1 .. n : r[i] <= now
      /\ ws <= now
      /\ \A i \in 1 .. n - 2 * M : r[i + 2 * M] - r[i] > WindowSec
  BY DEF RateOK
<1>5. ~given_up[p] =>
        /\ attempts[p] <= M
        /\ Waiting(p) => attempts[p] >= 1
        /\ \A i \in 1 .. n - Counted(p) : r[i] <= ws
        /\ \A i \in 1 .. n - Counted(p) - M : ws - r[i] > WindowSec
  BY DEF RateOK
<1>6. CASE SlotKept(p)
  <2>1. restarts'[p] = r /\ collected'[p] = collected[p]
    BY <1>3, <1>6 DEF SlotKept, StartedNow
  <2>2. Waiting(p)' = Waiting(p) /\ Counted(p)' = Counted(p)
    BY <1>6, <2>1 DEF SlotKept, Waiting, Counted
  <2>3. \A i \in 1 .. n : r[i] <= now'
    BY <1>0, <1>2, <1>4
  <2>4. ws <= now'
    BY <1>0, <1>2, <1>4
  <2> QED
    BY <1>4, <1>5, <1>6, <2>1, <2>2, <2>3, <2>4 DEF SlotKept, RateOK
<1>7. CASE SlotReset(p)
  <2>1. restarts'[p] = <<>> /\ collected'[p] = -1
    BY <1>3, <1>7 DEF SlotReset, EarlyInv, SlotsInv
  <2>2. ~Waiting(p)' /\ Counted(p)' = 0
    BY <1>7, <2>1 DEF SlotReset, Waiting, Counted
  <2>3. window_start'[p] = now /\ now' = now /\ attempts'[p] = 0
    BY <1>7 DEF SlotReset, now
  <2> QED
    BY <1>0, <1>2, <2>1, <2>2, <2>3 DEF RateOK
<1>8. CASE SlotStarted(p)
  <2>1. /\ pid[p] = 0 /\ pid'[p] # 0 /\ ~given_up[p]
        /\ window_start'[p] = ws /\ attempts'[p] = attempts[p] /\ now' = now
    BY <1>8 DEF SlotStarted, Due, now
  <2>2. ~Waiting(p)' /\ Counted(p)' = attempts[p]
    BY <1>0, <2>1 DEF Waiting, Counted
  <2>3. CASE collected[p] = -1
    <3>1. restarts'[p] = r /\ Counted(p) = attempts[p]
      BY <1>0, <1>3, <2>3 DEF Waiting, Counted
    <3> QED
      BY <1>4, <1>5, <2>1, <2>2, <3>1 DEF RateOK
  <2>4. CASE collected[p] # -1
    <3> DEFINE s == Append(r, now)
    <3>1. restarts'[p] = s
      BY <1>3, <2>1, <2>4 DEF StartedNow
    <3>2. attempts[p] >= 1 /\ Counted(p) = attempts[p] - 1
      BY <1>5, <2>1, <2>4 DEF Waiting, Counted
    <3>3. Len(s) = n + 1 /\ s[n + 1] = now /\ \A i \in 1 .. n : s[i] = r[i]
      BY <1>0, <1>2
    <3> HIDE DEF s, r, n, M, ws
    <3>4. ASSUME NEW i \in 1 .. n + 1 PROVE s[i] <= now
      <4>1. CASE i = n + 1
        BY <1>2, <3>3, <4>1
      <4>2. CASE i # n + 1
        <5>1. i \in 1 .. n
          BY <1>0, <4>2
        <5> QED
          BY <1>4, <3>3, <5>1
      <4> QED
        BY <4>1, <4>2
    <3>5. ASSUME NEW i \in 1 .. n + 1 - attempts[p] PROVE s[i] <= ws
      <4>1. i \in 1 .. n /\ i \in 1 .. n - Counted(p)
        BY <1>0, <3>2
      <4> QED
        BY <1>5, <2>1, <3>3, <4>1
    <3>6. ASSUME NEW i \in 1 .. n + 1 - attempts[p] - M PROVE ws - s[i] > WindowSec
      <4>1. i \in 1 .. n /\ i \in 1 .. n - Counted(p) - M
        BY <1>0, <3>2
      <4> QED
        BY <1>5, <2>1, <3>3, <4>1
    <3>7. \A i \in 1 .. n + 1 - 2 * M : s[i + 2 * M] - s[i] > WindowSec
      <4> SUFFICES ASSUME NEW i \in 1 .. n + 1 - 2 * M
                   PROVE  s[i + 2 * M] - s[i] > WindowSec
        OBVIOUS
      <4>1. M >= 1
        BY <1>0, <1>5, <2>1, <3>2
      <4>2. CASE i <= n - 2 * M
        <5>1. i \in 1 .. n /\ i + 2 * M \in 1 .. n /\ i \in 1 .. n - 2 * M
          BY <1>0, <4>2
        <5> QED
          BY <1>4, <3>3, <5>1
      <4>3. CASE i = n + 1 - 2 * M
        <5>1. i \in 1 .. n + 1 - attempts[p] - M
          BY <1>0, <1>5, <2>1, <4>3
        <5>2. ws - s[i] > WindowSec
          BY <3>6, <5>1
        <5>3. s[i + 2 * M] = now
          BY <1>0, <3>3, <4>3
        <5>4. s[i] \in Nat
          <6>1. i \in 1 .. n
            BY <1>0, <4>1, <4>3
          <6> QED
            BY <1>0, <3>3, <6>1
        <5> QED
          BY <1>0, <1>2, <1>4, <5>2, <5>3, <5>4
      <4> QED
        BY <1>0, <4>2, <4>3
    <3>8. /\ Len(restarts'[p]) = n + 1
          /\ \A i \in 1 .. n + 1 : restarts'[p][i] <= now'
          /\ \A i \in 1 .. n + 1 - 2 * M : restarts'[p][i + 2 * M] - restarts'[p][i] > WindowSec
          /\ \A i \in 1 .. n + 1 - Counted(p)' : restarts'[p][i] <= window_start'[p]
          /\ \A i \in 1 .. n + 1 - Counted(p)' - M :
                window_start'[p] - restarts'[p][i] > WindowSec
      BY <2>1, <2>2, <3>1, <3>3, <3>4, <3>5, <3>6, <3>7
    <3>9. window_start'[p] <= now' /\ attempts'[p] <= M /\ ~Waiting(p)'
      BY <1>4, <1>5, <2>1, <2>2
    <3> QED
      BY <1>0, <2>2, <3>8, <3>9 DEF RateOK, M
  <2> QED
    BY <2>3, <2>4
<1>9. CASE SlotCollected(p)
  <2>1. restarts'[p] = r /\ now' = now
    BY <1>3, <1>9 DEF SlotCollected, StartedNow, now
  <2>2. window_start'[p] <= now
    BY <1>2, <1>4, <1>9 DEF SlotCollected
  <2>3. CASE given_up'[p]
    BY <1>4, <2>1, <2>2, <2>3 DEF RateOK
  <2>4. CASE ~given_up'[p]
    <3>1. /\ ~given_up[p]
          /\ Attempt(p) <= M
          /\ attempts'[p] = Attempt(p)
          /\ window_start'[p] = IF NewWindow(p) THEN now ELSE ws
      BY <1>9, <2>4 DEF SlotCollected
    <3>2. Waiting(p)'
      BY <1>3, <1>9 DEF SlotCollected, Waiting, PmTypeOK
    <3>3. ~Waiting(p) /\ Counted(p) = attempts[p]
      BY <1>0, <1>9 DEF SlotCollected, Waiting, Counted
    <3>4. CASE NewWindow(p)
      <4>1. attempts'[p] = 1 /\ Counted(p)' = 0 /\ now - ws > WindowSec
        BY <3>1, <3>2, <3>4 DEF Attempt, Counted, NewWindow
      <4>2. ASSUME NEW i \in 1 .. n - M PROVE now - r[i] > WindowSec
        <5>1. i \in 1 .. n - Counted(p) /\ i \in 1 .. n
          BY <1>0, <1>5, <3>1, <3>3
        <5>2. r[i] <= ws /\ r[i] \in Nat
          BY <1>0, <1>5, <3>1, <5>1
        <5> HIDE DEF r, n, ws
        <5> QED
          BY <1>0, <1>2, <4>1, <5>2
      <4> QED
        BY <1>0, <1>4, <2>1, <2>2, <3>1, <3>4, <4>1, <4>2 DEF RateOK
    <3>5. CASE ~NewWindow(p)
      <4>1. attempts'[p] = attempts[p] + 1 /\ Counted(p)' = attempts[p]
        BY <1>0, <3>1, <3>2, <3>5 DEF Attempt, Counted
      <4> QED
        BY <1>0, <1>4, <1>5, <2>1, <2>2, <3>1, <3>3, <3>5, <4>1 DEF RateOK
    <3> QED
      BY <3>4, <3>5
  <2> QED
    BY <2>3, <2>4
<1> QED
  BY <1>1, <1>6, <1>7, <1>8, <1>9 DEF SlotStep

\* With a clock nobody sets, no process is restarted more than
\* 2 * MaxAttempts times in any WindowSec seconds, for every limit, window
\* and backoff, and whatever the children and fork() do.
THEOREM RestartRateBounded ==
  ASSUME ~ClockMaySet
  PROVE  HistorySpec => []RestartRate
<1>1. PmTypeOK /\ HistoryInit => RateInv
  <2> SUFFICES ASSUME PmTypeOK, HistoryInit, NEW p \in Procs PROVE RateOK(p)
    BY DEF RateInv
  <2>1. now \in Nat
    BY NowType DEF PmTypeOK
  <2> QED
    BY <2>1, PmAssumption, SMTT(60) DEF HistoryInit, Init, PmInit, RateOK, Waiting, Counted
<1>2. /\ PmTypeOK /\ PmTypeOK' /\ ChildTable /\ MainTypeOK /\ SlotsInv
      /\ HistoryTypeOK /\ EarlyInv /\ RateInv /\ [HistoryNext]_<<vars, history>>
      => RateInv'
  BY RateStep DEF RateInv
<1>3. RateInv => RestartRate
  BY DEF RateInv, RateOK, RestartRate, AtMostInWindow
<1> QED
  BY <1>1, <1>2, <1>3, HistoryIsDaemon, DaemonSupervises, MainTypeCorrect, SlotsCorrect,
     HistoryTyped, PTL DEF HistorySpec

-----------------------------------------------------------------------------
(* RESTART_NEVER *)

\* pm_start_all is behind the daemon, and p is not running and given up on.
Gone(p) == pid[p] = 0 /\ given_up[p] /\ pc \notin {"boot", "register"}

\* A one-shot process that was collected is never started again.
THEOREM OneShotCorrect == Spec => OneShot
<1> SUFFICES ASSUME NEW p \in {q \in Procs : Policy[q] = "NEVER"}
             PROVE  Spec => [](pid[p] # 0 => [](pid[p] = 0 => [](pid[p] = 0)))
  BY DEF OneShot
<1> DEFINE Known == PmTypeOK /\ ChildTable /\ MainTypeOK /\ SlotsInv
           Ran == pid[p] # 0 \/ Gone(p)
<1>1. Known /\ Gone(p) /\ [Next]_vars => Gone(p)'
  <2> SUFFICES ASSUME Known, Gone(p), [Next]_vars PROVE Gone(p)'
    OBVIOUS
  <2>1. SlotStep(p)
    BY SlotSteps
  <2> QED
    BY <2>1 DEF SlotStep, SlotKept, SlotReset, SlotStarted, SlotCollected, Due, Gone
<1>2. Known /\ pid[p] # 0 /\ [Next]_vars => Ran'
  <2> SUFFICES ASSUME Known, pid[p] # 0, [Next]_vars PROVE Ran'
    OBVIOUS
  <2>1. SlotStep(p)
    BY SlotSteps
  <2> QED
    BY <2>1 DEF SlotStep, SlotKept, SlotReset, SlotStarted, SlotCollected, Gone, SlotsInv
<1>3. Ran /\ pid[p] = 0 => Gone(p)
  OBVIOUS
<1>4. Gone(p) => pid[p] = 0
  BY DEF Gone
<1>5. pid[p] # 0 => Ran
  OBVIOUS
<1> HIDE DEF Ran
<1>6. Known /\ Ran /\ [Next]_vars => Ran'
  BY <1>1, <1>2 DEF Ran
<1> QED
  BY <1>1, <1>3, <1>4, <1>5, <1>6, DaemonSupervises, MainTypeCorrect, SlotsCorrect, PTL
     DEF Spec

=============================================================================
