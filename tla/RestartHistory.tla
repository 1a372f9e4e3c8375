---------------------------- MODULE RestartHistory ----------------------------
(***************************************************************************)
(* The daemon, observed over time: when each process was collected and     *)
(* when it was started again.  The observer changes nothing; it is what    *)
(* the properties about restart rate and backoff are stated over.          *)
(***************************************************************************)
EXTENDS Daemon, Sequences

VARIABLES
    collected,    \* tick at which it was last collected, -1 if never
    restarts      \* seconds at which it was started again, oldest first

history == <<collected, restarts>>

HistoryInit ==
    /\ Init
    /\ collected = [p \in Procs |-> -1]
    /\ restarts = [p \in Procs |-> <<>>]

StartedNow(p) == pid[p] = 0 /\ pid'[p] # 0

Observe ==
    /\ collected' = [p \in Procs |-> IF pid[p] # 0 /\ pid'[p] = 0
                                     THEN clock ELSE collected[p]]
    /\ restarts' = [p \in Procs |-> IF StartedNow(p) /\ collected[p] # -1
                                    THEN Append(restarts[p], now) ELSE restarts[p]]

HistoryNext == Next /\ Observe

HistorySpec == HistoryInit /\ [][HistoryNext]_<<vars, history>>

-----------------------------------------------------------------------------
(* Properties *)

\* No run of n + 1 restarts fits in an interval of WindowSec seconds.
AtMostInWindow(n) ==
    \A p \in Procs : \A i \in 1 .. Len(restarts[p]) - n :
        restarts[p][i + n] - restarts[p][i] > WindowSec

\* The attempt counter starts again with each window, so what it guarantees
\* for an arbitrary interval of WindowSec seconds is twice the limit.
RestartRate == AtMostInWindow(2 * MaxAttempts)

\* The backoff of the restart p is waiting for, in ticks.
Backoff(p) == BackoffTicks * attempts[p]

Restarted(p) == pc = "tick" /\ StartedNow(p) /\ collected[p] # -1

\* time() truncates and the delay is rounded up to whole seconds: a restart
\* comes less than a second earlier than its backoff.
BackoffWithinASecond ==
    [][\A p \in Procs : Restarted(p) =>
            clock - collected[p] > Backoff(p) - TicksPerSec]_vars

=============================================================================
