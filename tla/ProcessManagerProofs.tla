------------------------- MODULE ProcessManagerProofs -------------------------
(***************************************************************************)
(* Proofs about ProcessManager, for every set of processes and pids, every *)
(* limit and every order in which a caller uses the operations.            *)
(***************************************************************************)
EXTENDS ProcessManager, TLAPS

\* The provers' time limits, for the leaves that do not name a prover.
USE ZenonT(10), SMTT(60)

\* What time() returns is a natural number.
LEMMA NowType == ASSUME clock \in Nat PROVE now \in Nat
  BY PmAssumption, SMTT(60) DEF now

\* A delay rounded up to whole seconds is a natural number.
LEMMA CeilSecType == ASSUME NEW t \in Nat PROVE CeilSec(t) \in Nat
  BY PmAssumption, SMTT(60) DEF CeilSec

\* The backoff of an attempt is a natural number of seconds.
LEMMA BackoffType ==
  ASSUME NEW a \in Nat PROVE CeilSec(BackoffTicks * a) \in Nat
<1>1. BackoffTicks * a \in Nat
  BY PmAssumption, SMTT(60)
<1> QED
  BY <1>1, CeilSecType

\* fork() gives each slot it starts a pid nobody holds, no two the same.
LEMMA ForkFacts ==
  ASSUME NEW S, NEW f \in ForkResults(S)
  PROVE  /\ f \in [Procs -> Pids \cup {0}]
         /\ \A p \in Procs : f[p] # 0 => p \in S /\ proc[f[p]] = "free"
         /\ \A p, q \in Procs : f[p] = f[q] /\ f[p] # 0 => p = q
  BY PmAssumption DEF ForkResults, FreePids

\* start_one keeps the types of what it changes.
LEMMA StartType ==
  ASSUME PmTypeOK, NEW S, NEW f \in ForkResults(S), NEW K \in SUBSET Pids,
         start_one(f, K)
  PROVE  /\ pid' \in [Procs -> Pids \cup {0}]
         /\ proc' \in [Pids -> Child \cup {"free", "foreign"}]
         /\ termed' \subseteq Pids
         /\ killed' \subseteq Pids
<1>1. f \in [Procs -> Pids \cup {0}]
  BY ForkFacts
<1> QED
  BY <1>1 DEF PmTypeOK, start_one, Child, Live

\* Every operation and every step of the world keeps the types.
LEMMA TypeStep == PmTypeOK /\ [PmNext]_pmvars => PmTypeOK'
<1> SUFFICES ASSUME PmTypeOK, [PmNext]_pmvars PROVE PmTypeOK'
  OBVIOUS
<1> USE DEF pmvars, slots, kernel, time, backoff, stopping
<1>0. now \in Nat
  BY NowType DEF PmTypeOK
<1>1. ASSUME NEW p \in Procs, pm_add(p) PROVE PmTypeOK'
  BY <1>1 DEF PmTypeOK, pm_add
<1>2. ASSUME NEW p \in Procs, pm_start_one(p) PROVE PmTypeOK'
  <2>1. PICK f \in ForkResults({p}) : start_one(f, {})
    BY <1>2 DEF pm_start_one
  <2>2. /\ pid' \in [Procs -> Pids \cup {0}]
        /\ proc' \in [Pids -> Child \cup {"free", "foreign"}]
        /\ termed' \subseteq Pids
        /\ killed' \subseteq Pids
    BY <2>1, StartType
  <2> QED
    BY <1>0, <1>2, <2>2 DEF PmTypeOK, pm_start_one, ResetBackoff
<1>3. CASE pm_start_all
  <2>1. PICK f \in ForkResults({p \in registered : pid[p] = 0}) : start_one(f, {})
    BY <1>3 DEF pm_start_all
  <2>2. /\ pid' \in [Procs -> Pids \cup {0}]
        /\ proc' \in [Pids -> Child \cup {"free", "foreign"}]
        /\ termed' \subseteq Pids
        /\ killed' \subseteq Pids
    BY <2>1, StartType
  <2> QED
    BY <1>0, <1>3, <2>2 DEF PmTypeOK, pm_start_all, ResetBackoff
<1>4. CASE pm_tick
  <2>1. PICK f \in ForkResults(Due) : start_one(f, {pid[p] : p \in Overdue})
    BY <1>4 DEF pm_tick
  <2>2. {pid[p] : p \in Overdue} \in SUBSET Pids
    BY SMTT(60) DEF PmTypeOK, Overdue
  <2>3. /\ pid' \in [Procs -> Pids \cup {0}]
        /\ proc' \in [Pids -> Child \cup {"free", "foreign"}]
        /\ termed' \subseteq Pids
        /\ killed' \subseteq Pids
    BY <2>1, <2>2, StartType
  <2>4. kill_sent' \in [Procs -> BOOLEAN]
    BY <1>4 DEF pm_tick
  <2> QED
    BY <1>4, <2>3, <2>4 DEF PmTypeOK, pm_tick
<1>5. CASE pm_reap
  BY <1>5 DEF PmTypeOK, pm_reap
<1>6. ASSUME NEW k \in Pids, ReapOne(k) PROVE PmTypeOK'
  <2>1. \A p \in Procs : Attempt(p) \in Nat
    BY SMTT(60) DEF Attempt, PmTypeOK
  <2>2. \A p \in Procs : CeilSec(BackoffTicks * Attempt(p)) \in Nat
    BY <2>1, BackoffType
  <2>3. attempts' \in [Procs -> Nat] /\ window_start' \in [Procs -> Nat]
    BY <1>0, <1>6, <2>1 DEF ReapOne, PmTypeOK
  <2>4. next_start' \in [Procs -> Nat]
    BY <1>0, <1>6, <2>2, SMTT(60) DEF ReapOne, PmTypeOK
  <2>5. /\ shutting_down' \in [Procs -> BOOLEAN]
        /\ kill_sent' \in [Procs -> BOOLEAN]
        /\ given_up' \in [Procs -> BOOLEAN]
    BY <1>6 DEF ReapOne
  <2>6. /\ pid' \in [Procs -> Pids \cup {0}]
        /\ proc' \in [Pids -> Child \cup {"free", "foreign"}]
        /\ termed' \subseteq Pids
        /\ killed' \subseteq Pids
    BY <1>6 DEF ReapOne, ClearPid, Collected, PmTypeOK
  <2> QED
    BY <1>6, <2>3, <2>4, <2>5, <2>6 DEF ReapOne, PmTypeOK
<1>7. CASE ReapEnd
  BY <1>7 DEF PmTypeOK, ReapEnd
<1>8. CASE pm_shutdown_all
  <2>1. given_up' \in [Procs -> BOOLEAN]
    BY <1>8 DEF pm_shutdown_all
  <2>2. termed' \subseteq Pids
    BY <1>8, SMTT(60) DEF pm_shutdown_all, PmTypeOK, Running
  <2> QED
    BY <1>8, <2>1, <2>2 DEF PmTypeOK, pm_shutdown_all
<1>9. ASSUME NEW k \in Pids, ShutdownCollect(k) PROVE PmTypeOK'
  BY <1>9 DEF PmTypeOK, ShutdownCollect, ClearPid, Collected
<1>10. CASE ShutdownTimeout
  BY <1>10 DEF PmTypeOK, ShutdownTimeout
<1>11. ASSUME NEW p \in Procs, ShutdownKill(p) PROVE PmTypeOK'
  BY <1>11 DEF PmTypeOK, ShutdownKill, ClearPid, Collected
<1>12. CASE ShutdownEnd
  BY <1>12 DEF PmTypeOK, ShutdownEnd
<1>13. ASSUME NEW p \in Procs, pm_shutdown_one(p) PROVE PmTypeOK'
  <2>1. now + CeilSec(KillTicks) \in Nat
    BY <1>0, CeilSecType, PmAssumption, SMTT(60)
  <2>2. given_up' \in [Procs -> BOOLEAN]
    BY <1>13 DEF PmTypeOK, pm_shutdown_one
  <2>3. CASE pid[p] = 0
    BY <1>13, <2>2, <2>3 DEF PmTypeOK, pm_shutdown_one
  <2>4. CASE pid[p] # 0
    <3>1. shutting_down' \in [Procs -> BOOLEAN] /\ kill_sent' \in [Procs -> BOOLEAN]
      BY <1>13, <2>4 DEF PmTypeOK, pm_shutdown_one
    <3>2. kill_deadline' \in [Procs -> Nat]
      BY <1>13, <2>1, <2>4 DEF PmTypeOK, pm_shutdown_one
    <3>3. termed' \subseteq Pids
      BY <1>13, <2>4, SMTT(60) DEF PmTypeOK, pm_shutdown_one
    <3> QED
      BY <1>13, <2>2, <3>1, <3>2, <3>3 DEF PmTypeOK, pm_shutdown_one
  <2> QED
    BY <2>3, <2>4
<1>14. ASSUME NEW k \in Pids,
              Exec(k) \/ ChildExit(k) \/ ChildKilled(k) \/ ForeignFork(k)
                \/ ForeignExit(k)
       PROVE  PmTypeOK'
  BY <1>14 DEF PmTypeOK, Exec, ChildExit, ChildKilled, ForeignFork, ForeignExit,
               Collected, Child, Live, Zombie
<1>15. CASE Tick
  BY <1>15, SMTT(60) DEF PmTypeOK, Tick
<1>16. CASE ClockSet
  BY <1>16, PmAssumption, SMTT(60) DEF PmTypeOK, ClockSet
<1>17. CASE UNCHANGED pmvars
  BY <1>17 DEF PmTypeOK
<1> QED
  BY <1>1, <1>2, <1>3, <1>4, <1>5, <1>6, <1>7, <1>8, <1>9, <1>10, <1>11, <1>12,
     <1>13, <1>14, <1>15, <1>16, <1>17 DEF PmNext, Operation, World

\* Type correctness of the process table and of the kernel's view of it.
THEOREM PmTypeCorrect == PmSpec => []PmTypeOK
<1>1. PmInit => PmTypeOK
  BY SMTT(60) DEF PmInit, PmTypeOK, Child
<1> QED
  BY <1>1, TypeStep, PTL DEF PmSpec

-----------------------------------------------------------------------------
(* The table of children *)

\* Starting slots that hold no child, and signalling slots that do, keeps
\* slots and children in one-to-one correspondence.
LEMMA StartTable ==
  ASSUME PmTypeOK, ChildTable, OnlyChildrenSignalled,
         NEW S \in SUBSET registered, \A p \in S : pid[p] = 0,
         NEW K \in SUBSET {pid[p] : p \in Running},
         NEW f \in ForkResults(S), start_one(f, K), registered' = registered
  PROVE  ChildTable' /\ OnlyChildrenSignalled'
<1>1. /\ f \in [Procs -> Pids \cup {0}]
      /\ \A p \in Procs : f[p] # 0 => p \in S /\ proc[f[p]] = "free"
      /\ \A p, q \in Procs : f[p] = f[q] /\ f[p] # 0 => p = q
  BY ForkFacts, SMTT(60)
<1>2. \A p \in Procs : pid'[p] = IF f[p] # 0 THEN f[p] ELSE pid[p]
  BY DEF start_one
<1>3. \A k \in Pids : k \in Started(f) <=> \E p \in Procs : f[p] = k
  BY PmAssumption DEF Started
<1>4. \A k \in Pids : proc'[k] = IF k \in Started(f) THEN "forked" ELSE proc[k]
  BY DEF start_one
<1>5. \A p \in Procs : pid[p] # 0 => pid[p] \in Pids /\ pid[p] \notin Started(f)
  BY <1>1, SMTT(60) DEF ChildTable, PmTypeOK, Started, Child, Live, Zombie
<1>6. \A p \in Procs : f[p] # 0 => f[p] \in Pids /\ f[p] \in Started(f)
  BY <1>1, <1>3
<1>7. \A p \in Procs : pid'[p] # 0 => p \in registered' /\ proc'[pid'[p]] \in Child
  <2> SUFFICES ASSUME NEW p \in Procs, pid'[p] # 0
               PROVE  p \in registered' /\ proc'[pid'[p]] \in Child
    OBVIOUS
  <2>1. CASE f[p] # 0
    BY <1>1, <1>2, <1>4, <1>6, <2>1 DEF Child, Live
  <2>2. CASE f[p] = 0
    BY <1>2, <1>4, <1>5, <2>2 DEF ChildTable
  <2> QED
    BY <2>1, <2>2
<1>8. \A p, q \in Procs : pid'[p] = pid'[q] /\ pid'[p] # 0 => p = q
  BY <1>1, <1>2, <1>5, <1>6, SMTT(60) DEF ChildTable
<1>9. \A k \in Pids : proc'[k] \in Child => \E p \in Procs : pid'[p] = k
  <2> SUFFICES ASSUME NEW k \in Pids, proc'[k] \in Child
               PROVE  \E p \in Procs : pid'[p] = k
    OBVIOUS
  <2>1. CASE k \in Started(f)
    BY <1>2, <1>3, <2>1, PmAssumption
  <2>2. CASE k \notin Started(f)
    <3>1. PICK p \in Procs : pid[p] = k
      BY <1>4, <2>2 DEF ChildTable
    <3>2. f[p] = 0
      BY <1>1, <3>1, PmAssumption
    <3> QED
      BY <1>2, <3>1, <3>2
  <2> QED
    BY <2>1, <2>2
<1>10. OnlyChildrenSignalled'
  <2> SUFFICES ASSUME NEW k \in termed' \cup killed' PROVE proc'[k] \in Child
    BY DEF OnlyChildrenSignalled
  <2>1. k \in Pids /\ k \notin Started(f)
    BY <1>5, SMTT(60) DEF start_one, PmTypeOK, Running
  <2>2. CASE k \in termed \cup killed
    BY <1>4, <2>1, <2>2 DEF OnlyChildrenSignalled
  <2>3. CASE k \in K
    <3>1. PICK p \in Running : pid[p] = k
      BY <2>3
    <3>2. proc[k] \in Child
      BY <3>1 DEF ChildTable, Running, PmTypeOK
    <3> QED
      BY <1>4, <2>1, <3>2
  <2> QED
    BY <2>2, <2>3 DEF start_one
<1> QED
  BY <1>7, <1>8, <1>9, <1>10 DEF ChildTable

\* Collecting a child empties exactly the slot that held it.
LEMMA CollectTable ==
  ASSUME PmTypeOK, ChildTable, OnlyChildrenSignalled,
         NEW k \in Pids, ClearPid(k), Collected(k), registered' = registered
  PROVE  ChildTable' /\ OnlyChildrenSignalled'
<1>1. \A p \in Procs : pid'[p] = IF pid[p] = k THEN 0 ELSE pid[p]
  BY PmAssumption DEF ClearPid, pm_find_by_pid, ChildTable
<1>2. \A j \in Pids : proc'[j] = IF j = k THEN "free" ELSE proc[j]
  BY DEF Collected, PmTypeOK
<1>3. "free" \notin Child
  BY DEF Child, Live, Zombie
<1>4. \A p \in Procs : pid'[p] # 0 => p \in registered' /\ proc'[pid'[p]] \in Child
  BY <1>1, <1>2, SMTT(60) DEF ChildTable, PmTypeOK
<1>5. \A p, q \in Procs : pid'[p] = pid'[q] /\ pid'[p] # 0 => p = q
  BY <1>1 DEF ChildTable
<1>6. \A j \in Pids : proc'[j] \in Child => \E p \in Procs : pid'[p] = j
  BY <1>1, <1>2, <1>3 DEF ChildTable
<1>7. OnlyChildrenSignalled'
  BY <1>2 DEF OnlyChildrenSignalled, Collected, PmTypeOK
<1> QED
  BY <1>4, <1>5, <1>6, <1>7 DEF ChildTable

\* Every operation and every step of the world keeps the table of children.
LEMMA TableStep ==
  ASSUME PmTypeOK, ChildTable, OnlyChildrenSignalled, [PmNext]_pmvars
  PROVE  ChildTable' /\ OnlyChildrenSignalled'
<1> USE DEF pmvars, slots, kernel, time, backoff, stopping
<1>1. ASSUME NEW p \in Procs, pm_add(p) PROVE ChildTable' /\ OnlyChildrenSignalled'
  BY <1>1 DEF ChildTable, OnlyChildrenSignalled, pm_add
<1>2. ASSUME NEW p \in Procs, pm_start_one(p)
      PROVE  ChildTable' /\ OnlyChildrenSignalled'
  <2>1. PICK f \in ForkResults({p}) : start_one(f, {})
    BY <1>2 DEF pm_start_one
  <2>2. {p} \in SUBSET registered /\ \A q \in {p} : pid[q] = 0
    BY <1>2 DEF pm_start_one
  <2>3. registered' = registered
    BY <1>2 DEF pm_start_one
  <2> QED
    BY <2>1, <2>2, <2>3, StartTable
<1>3. CASE pm_start_all
  <2> DEFINE S == {p \in registered : pid[p] = 0}
  <2>1. PICK f \in ForkResults(S) : start_one(f, {})
    BY <1>3 DEF pm_start_all
  <2>2. S \in SUBSET registered /\ \A q \in S : pid[q] = 0
    OBVIOUS
  <2>3. registered' = registered
    BY <1>3 DEF pm_start_all
  <2> HIDE DEF S
  <2> QED
    BY <2>1, <2>2, <2>3, StartTable
<1>4. CASE pm_tick
  <2> DEFINE K == {pid[p] : p \in Overdue}
  <2>1. PICK f \in ForkResults(Due) : start_one(f, K)
    BY <1>4 DEF pm_tick
  <2>2. Due \in SUBSET registered /\ \A q \in Due : pid[q] = 0
    BY DEF Due
  <2>3. K \in SUBSET {pid[p] : p \in Running}
    BY DEF Overdue, Running
  <2>4. registered' = registered
    BY <1>4 DEF pm_tick
  <2> HIDE DEF K
  <2> QED
    BY <2>1, <2>2, <2>3, <2>4, StartTable
<1>5. CASE pm_reap \/ ReapEnd \/ ShutdownTimeout \/ ShutdownEnd \/ Tick \/ ClockSet
  BY <1>5 DEF ChildTable, OnlyChildrenSignalled, pm_reap, ReapEnd, ShutdownTimeout,
              ShutdownEnd, Tick, ClockSet
<1>6. ASSUME NEW k \in Pids, ReapOne(k) \/ ShutdownCollect(k)
      PROVE  ChildTable' /\ OnlyChildrenSignalled'
  <2>1. ClearPid(k) /\ Collected(k) /\ registered' = registered
    BY <1>6 DEF ReapOne, ShutdownCollect
  <2> QED
    BY <2>1, CollectTable
<1>7. ASSUME NEW p \in Procs, ShutdownKill(p)
      PROVE  ChildTable' /\ OnlyChildrenSignalled'
  <2>1. pid[p] \in Pids
    BY <1>7 DEF ShutdownKill, Running, PmTypeOK
  <2>2. ClearPid(pid[p]) /\ Collected(pid[p]) /\ registered' = registered
    BY <1>7 DEF ShutdownKill
  <2> QED
    BY <2>1, <2>2, CollectTable
<1>8. CASE pm_shutdown_all
  BY <1>8, SMTT(60) DEF ChildTable, OnlyChildrenSignalled, pm_shutdown_all, Running, PmTypeOK
<1>9. ASSUME NEW p \in Procs, pm_shutdown_one(p)
      PROVE  ChildTable' /\ OnlyChildrenSignalled'
  BY <1>9, SMTT(60) DEF ChildTable, OnlyChildrenSignalled, pm_shutdown_one, PmTypeOK
<1>10. ASSUME NEW k \in Pids, Exec(k) \/ ChildExit(k) \/ ChildKilled(k)
       PROVE  ChildTable' /\ OnlyChildrenSignalled'
  <2>1. /\ proc[k] \in Child
        /\ proc'[k] \in Child
        /\ \A j \in Pids \ {k} : proc'[j] = proc[j]
    BY <1>10 DEF Exec, ChildExit, ChildKilled, Child, Live, Zombie, PmTypeOK
  <2>2. UNCHANGED <<pid, registered, termed, killed>>
    BY <1>10 DEF Exec, ChildExit, ChildKilled
  <2> QED
    BY <2>1, <2>2, SMTT(60) DEF ChildTable, OnlyChildrenSignalled, PmTypeOK
<1>11. ASSUME NEW k \in Pids, ForeignFork(k) \/ ForeignExit(k)
       PROVE  ChildTable' /\ OnlyChildrenSignalled'
  <2>1. /\ proc[k] \notin Child
        /\ proc'[k] \notin Child
        /\ \A j \in Pids \ {k} : proc'[j] = proc[j]
    BY <1>11 DEF ForeignFork, ForeignExit, Collected, Child, Live, Zombie, PmTypeOK
  <2>2. /\ UNCHANGED <<pid, registered>>
        /\ termed' \subseteq termed
        /\ killed' \subseteq killed
    BY <1>11 DEF ForeignFork, ForeignExit, Collected
  <2> QED
    BY <2>1, <2>2, SMTT(60) DEF ChildTable, OnlyChildrenSignalled, PmTypeOK
<1>12. CASE UNCHANGED pmvars
  BY <1>12 DEF ChildTable, OnlyChildrenSignalled
<1> QED
  BY <1>1, <1>2, <1>3, <1>4, <1>5, <1>6, <1>7, <1>8, <1>9, <1>10, <1>11, <1>12
     DEF PmNext, Operation, World

\* No child is ever forgotten, tracked twice or confused with another, and
\* kill() never reaches a process that is not an uncollected child of the
\* daemon, in whatever order the operations are used.
THEOREM ChildTableCorrect == PmSpec => [](ChildTable /\ OnlyChildrenSignalled)
<1>1. PmInit => ChildTable /\ OnlyChildrenSignalled
  BY DEF PmInit, ChildTable, OnlyChildrenSignalled, Child, Live, Zombie
<1>2. PmTypeOK /\ ChildTable /\ OnlyChildrenSignalled /\ [PmNext]_pmvars
        => ChildTable' /\ OnlyChildrenSignalled'
  BY TableStep
<1> QED
  BY <1>1, <1>2, PmTypeCorrect, PTL DEF PmSpec

-----------------------------------------------------------------------------
(* Shutdown *)

\* After pm_shutdown_all no child is left, for every table and every way the
\* children behave.
THEOREM ShutdownCorrect == PmSpec => []ShutdownLeavesNobody
<1> USE DEF pmvars, slots, kernel, time, backoff, stopping
<1>1. PmInit => ShutdownLeavesNobody
  BY DEF PmInit, ShutdownLeavesNobody
<1>2. PmTypeOK /\ ChildTable /\ ShutdownLeavesNobody /\ [PmNext]_pmvars
        => ShutdownLeavesNobody'
  <2> SUFFICES ASSUME PmTypeOK, ChildTable, ShutdownLeavesNobody, [PmNext]_pmvars
               PROVE  ShutdownLeavesNobody'
    OBVIOUS
  <2>1. CASE ShutdownEnd
    BY <2>1, PmAssumption, SMTT(60) DEF ShutdownEnd, ShutdownLeavesNobody, ChildTable, Running, PmTypeOK
  <2>2. ASSUME NEW p \in Procs, pm_add(p) \/ pm_shutdown_one(p)
        PROVE  ShutdownLeavesNobody'
    BY <2>2 DEF pm_add, pm_shutdown_one, ShutdownLeavesNobody
  <2>3. ASSUME NEW k \in Pids,
               Exec(k) \/ ChildExit(k) \/ ChildKilled(k) \/ ForeignFork(k)
                 \/ ForeignExit(k)
        PROVE  ShutdownLeavesNobody'
    <3>1. /\ proc[k] \notin Child => proc'[k] \notin Child
          /\ \A j \in Pids \ {k} : proc'[j] = proc[j]
          /\ call' = call
      BY <2>3 DEF Exec, ChildExit, ChildKilled, ForeignFork, ForeignExit, Collected,
                  Child, Live, Zombie, PmTypeOK
    <3> QED
      BY <3>1 DEF ShutdownLeavesNobody
  <2>4. CASE Tick \/ ClockSet \/ UNCHANGED pmvars
    BY <2>4 DEF Tick, ClockSet, ShutdownLeavesNobody
  <2>5. ASSUME call' # "stopped" PROVE ShutdownLeavesNobody'
    BY <2>5 DEF ShutdownLeavesNobody
  <2>6. CASE pm_start_all \/ pm_tick \/ pm_reap \/ ReapEnd \/ pm_shutdown_all
               \/ ShutdownTimeout
    BY <2>5, <2>6 DEF pm_start_all, pm_tick, pm_reap, ReapEnd, pm_shutdown_all,
                      ShutdownTimeout
  <2>7. ASSUME NEW p \in Procs, pm_start_one(p) \/ ShutdownKill(p)
        PROVE  ShutdownLeavesNobody'
    BY <2>5, <2>7 DEF pm_start_one, ShutdownKill
  <2>8. ASSUME NEW k \in Pids, ReapOne(k) \/ ShutdownCollect(k)
        PROVE  ShutdownLeavesNobody'
    BY <2>5, <2>8 DEF ReapOne, ShutdownCollect
  <2> QED
    BY <2>1, <2>2, <2>3, <2>4, <2>6, <2>7, <2>8 DEF PmNext, Operation, World
<1> QED
  BY <1>1, <1>2, PmTypeCorrect, ChildTableCorrect, PTL DEF PmSpec

\* Starting slots keeps SIGTERM and SIGKILL bookkeeping of the other slots.
LEMMA StartSignals ==
  ASSUME PmTypeOK, ChildTable, ShuttingDownMeansTermed, KillAfterTerm,
         call = "none", call' = "none", shutting_down' = shutting_down,
         NEW S \in SUBSET registered, \A p \in S : pid[p] = 0,
         NEW K \in SUBSET {pid[p] : p \in Running},
         K \subseteq termed,
         NEW f \in ForkResults(S), start_one(f, K)
  PROVE  ShuttingDownMeansTermed' /\ KillAfterTerm'
<1>1. /\ f \in [Procs -> Pids \cup {0}]
      /\ \A p \in Procs : f[p] # 0 => p \in S /\ proc[f[p]] = "free"
  BY ForkFacts
<1>2. \A p \in Procs : pid'[p] = IF f[p] # 0 THEN f[p] ELSE pid[p]
  BY DEF start_one
<1>3. \A p \in Procs : pid[p] # 0 => pid[p] \notin Started(f)
  BY <1>1, SMTT(60) DEF ChildTable, PmTypeOK, Started, Child, Live, Zombie
<1>4. \A p \in Procs : shutting_down[p] => pid[p] # 0 /\ pid[p] \in termed
  BY DEF ShuttingDownMeansTermed
<1>5. \A p \in Procs : shutting_down[p] => f[p] = 0
  BY <1>1, <1>4
<1>6. ShuttingDownMeansTermed'
  BY <1>2, <1>3, <1>4, <1>5 DEF ShuttingDownMeansTermed, start_one
<1>7. KillAfterTerm'
  BY <1>3, SMTT(60) DEF KillAfterTerm, start_one, Running, PmTypeOK
<1> QED
  BY <1>6, <1>7

\* A caller that does not use the table again after pm_shutdown_all, as
\* main() does not, never has SIGKILL sent to a process that was not sent
\* SIGTERM first, and never has a stop flag outlive the process.
THEOREM EscalationCorrect ==
  ASSUME ~ReuseAfterShutdown
  PROVE  PmSpec => [](ShuttingDownMeansTermed /\ KillAfterTerm)
<1> USE DEF pmvars, slots, kernel, time, backoff, stopping
<1> DEFINE Inv == ShuttingDownMeansTermed /\ KillAfterTerm
<1>1. PmInit => Inv
  BY DEF PmInit, ShuttingDownMeansTermed, KillAfterTerm
<1>2. PmTypeOK /\ ChildTable /\ Inv /\ [PmNext]_pmvars => Inv'
  <2> SUFFICES ASSUME PmTypeOK, ChildTable, ShuttingDownMeansTermed, KillAfterTerm,
                      [PmNext]_pmvars
               PROVE  Inv'
    OBVIOUS
  <2>1. ASSUME NEW p \in Procs, pm_add(p) PROVE Inv'
    BY <2>1 DEF pm_add, ShuttingDownMeansTermed, KillAfterTerm
  <2>2. ASSUME NEW p \in Procs, pm_start_one(p) PROVE Inv'
    <3>1. PICK f \in ForkResults({p}) : start_one(f, {})
      BY <2>2 DEF pm_start_one
    <3>2. {p} \in SUBSET registered /\ \A q \in {p} : pid[q] = 0
      BY <2>2 DEF pm_start_one
    <3>3. call = "none" /\ call' = "none" /\ shutting_down' = shutting_down
      BY <2>2 DEF pm_start_one, Idle
    <3> QED
      BY <3>1, <3>2, <3>3, StartSignals
  <2>3. CASE pm_start_all
    <3> DEFINE S == {p \in registered : pid[p] = 0}
    <3>1. PICK f \in ForkResults(S) : start_one(f, {})
      BY <2>3 DEF pm_start_all
    <3>2. S \in SUBSET registered /\ \A q \in S : pid[q] = 0
      OBVIOUS
    <3>3. call = "none" /\ call' = "none" /\ shutting_down' = shutting_down
      BY <2>3 DEF pm_start_all, Idle
    <3> HIDE DEF S
    <3> QED
      BY <3>1, <3>2, <3>3, StartSignals
  <2>4. CASE pm_tick
    <3> DEFINE K == {pid[p] : p \in Overdue}
    <3>1. PICK f \in ForkResults(Due) : start_one(f, K)
      BY <2>4 DEF pm_tick
    <3>2. Due \in SUBSET registered /\ \A q \in Due : pid[q] = 0
      BY DEF Due
    <3>3. call = "none" /\ call' = "none" /\ shutting_down' = shutting_down
      BY <2>4 DEF pm_tick, Idle
    <3>4. K \in SUBSET {pid[p] : p \in Running} /\ K \subseteq termed
      BY <3>3 DEF Overdue, Running, ShuttingDownMeansTermed, PmTypeOK
    <3> HIDE DEF K
    <3> QED
      BY <3>1, <3>2, <3>3, <3>4, StartSignals
  <2>5. CASE pm_reap \/ ReapEnd
    BY <2>5 DEF pm_reap, ReapEnd, Idle, ShuttingDownMeansTermed, KillAfterTerm
  <2>6. ASSUME NEW k \in Pids, ReapOne(k) PROVE Inv'
    <3>1. \A p \in Procs : pid'[p] = IF pid[p] = k THEN 0 ELSE pid[p]
      BY <2>6, PmAssumption DEF ReapOne, ClearPid, pm_find_by_pid, ChildTable
    <3>2. \A p \in Procs : shutting_down'[p] => shutting_down[p] /\ pid[p] # k
      BY <2>6, PmAssumption DEF ReapOne, pm_find_by_pid, ChildTable
    <3>3. termed' = termed \ {k} /\ killed' = killed \ {k} /\ call' = "reap" /\ call = "reap"
      BY <2>6 DEF ReapOne, Collected
    <3> QED
      BY <3>1, <3>2, <3>3 DEF ShuttingDownMeansTermed, KillAfterTerm
  <2>7. CASE pm_shutdown_all
    BY <2>7 DEF pm_shutdown_all, ShuttingDownMeansTermed, KillAfterTerm
  <2>8. ASSUME NEW k \in Pids, ShutdownCollect(k) PROVE Inv'
    <3>1. \A p \in Procs : pid'[p] = IF pid[p] = k THEN 0 ELSE pid[p]
      BY <2>8, PmAssumption DEF ShutdownCollect, ClearPid, pm_find_by_pid, ChildTable
    <3>2. /\ termed' = termed \ {k} /\ killed' = killed \ {k}
          /\ call' = "stopping" /\ shutting_down' = shutting_down
      BY <2>8 DEF ShutdownCollect, Collected
    <3> QED
      BY <3>1, <3>2 DEF ShuttingDownMeansTermed, KillAfterTerm
  <2>9. ASSUME NEW q \in Procs, ShutdownKill(q) PROVE Inv'
    <3>1. \A p \in Procs : pid'[p] = IF pid[p] = pid[q] THEN 0 ELSE pid[p]
      BY <2>9 DEF ShutdownKill, ClearPid, pm_find_by_pid, ChildTable, Running
    <3>2. /\ termed' = termed \ {pid[q]} /\ killed' = killed \ {pid[q]}
          /\ call' = "killing" /\ shutting_down' = shutting_down
      BY <2>9 DEF ShutdownKill, Collected
    <3> QED
      BY <3>1, <3>2 DEF ShuttingDownMeansTermed, KillAfterTerm
  <2>10. CASE ShutdownTimeout \/ ShutdownEnd
    BY <2>10 DEF ShutdownTimeout, ShutdownEnd, ShuttingDownMeansTermed, KillAfterTerm
  <2>11. ASSUME NEW p \in Procs, pm_shutdown_one(p) PROVE Inv'
    BY <2>11 DEF pm_shutdown_one, ShuttingDownMeansTermed, KillAfterTerm, PmTypeOK
  <2>12. ASSUME NEW k \in Pids, Exec(k) \/ ChildExit(k) \/ ChildKilled(k)
                                  \/ ForeignFork(k)
         PROVE  Inv'
    BY <2>12 DEF Exec, ChildExit, ChildKilled, ForeignFork, ShuttingDownMeansTermed,
                 KillAfterTerm
  <2>13. ASSUME NEW k \in Pids, ForeignExit(k) PROVE Inv'
    <3>1. \A p \in Procs : pid[p] # k
      BY <2>13, PmAssumption DEF ForeignExit, ChildTable, Child, Live, Zombie
    <3> QED
      BY <2>13, <3>1 DEF ForeignExit, Collected, ShuttingDownMeansTermed, KillAfterTerm
  <2>14. CASE Tick \/ ClockSet \/ UNCHANGED pmvars
    BY <2>14 DEF Tick, ClockSet, ShuttingDownMeansTermed, KillAfterTerm
  <2> QED
    BY <2>1, <2>2, <2>3, <2>4, <2>5, <2>6, <2>7, <2>8, <2>9, <2>10, <2>11, <2>12,
       <2>13, <2>14 DEF PmNext, Operation, World
<1> QED
  BY <1>1, <1>2, PmTypeCorrect, ChildTableCorrect, PTL DEF PmSpec

=============================================================================
