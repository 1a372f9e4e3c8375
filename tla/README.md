# Verification of PiDaemon

PiDaemon runs the payload computer of a satellite. `daemond` supervises a few
processes, keeps the canonical `satellite_state_t` on disk and relays messages
between its clients over a Unix socket. One client is the bridge to the
on-board computer's serial link. This directory holds TLA+ models of the
daemon, TLC configurations that check them on small instances, and TLAPS proofs
of the main properties for every value of the constants.

## The system

| part | source (under `src/`) | state | operations | module |
|---|---|---|---|---|
| process supervisor | `Daemon/src/process.c` | the slots `procs[]`: pid, restart window, backoff, stop flags | `pm_add`, `pm_start_all`, `pm_start_one`, `pm_tick`, `pm_reap`, `pm_shutdown_one`, `pm_shutdown_all` | `ProcessManager` |
| main loop and signals | `Daemon/src/main.c` | `g_got_term`, `g_got_chld`, the self-pipe | start-up, one loop iteration, the signal handler, shutdown | `Daemon` |
| singleton lock | `Daemon/src/main.c`, socket path in `ipc_server.c` | pid file, its flock, the socket path | open, flock, bind, close, unlink | `SingletonLock` |
| state store | `Daemon/src/state.c` | state file, temporary file, the copy in memory | `sat_state_init`, `sat_state_store`, `sat_state_close` | `StateStore`, promise in `DurableState` |
| IPC server | `Daemon/src/ipc_server.c` | client table, receive and transmit buffers, poll results | accept, service a slot, each message handler, flush, close, destroy | `IpcServer` (frames), `IpcBuffers` (bytes) |
| client library | `Daemon/src/client.c`, `ipc.c` | a socket | connect, `get_state`, send, recv, close | clients of `IpcServer`, `IpcBuffers`, `PayloadSystem` |
| payload application | `Daemon/src/payload_app.c` | simulated state, two reassembly sessions | seeding, commands, ticks, bulk chunks | `BulkRx`, `BulkTx`, `PayloadSystem` |
| network bridge | `Network/src/main.c` | two descriptors, the frame decoder | open the port, relay both ways | `PayloadSystem` |
| video uploader | `Daemon/src/video_uploader.c` | position in the file | send every chunk, close | `BulkTx`, `PayloadSystem` |
| demo worker, paths, test tool | `demo_worker.c`, `config.c`, `util.c`, `obc_test.py` | none | | not modelled |

`main()` is single-threaded. It interleaves with its children, with signals,
with the clients of the socket, with other launches of `daemond`, with the
clock, and with crashes. Those interleavings are what the models explore.

## Modules

**ProcessManager.** The variables are the fields of `managed_process_t`, one
function over `Procs` each, plus the kernel: `proc` says what each pid is (free,
a child between fork and exec, running, a zombie, a foreign process), `termed`
and `killed` remember which signals the present holder of a pid was sent.
An operation that does not wait is one action. `pm_reap` and `pm_shutdown_all`
are one action per `waitpid()`, because children exit in between; `call` says
which is running. `fork()` and `execv()` may fail, pids are reused, and the wall
clock that `time()` truncates may be set. `PmSpec` allows a caller to use the
operations in any order.

**Daemon** extends it with `main()`: `pc` is the place in the loop, signals are
`pending` until `on_signal` runs between two steps, and SIGCHLDs merge. Poll,
drain, reap, service and tick follow the order of the source, as do the failing
start-up paths and the shutdown. `RestartHistory` adds observer variables (when
a process was collected and started again) and changes nothing.

**SingletonLock** keeps inodes apart from paths, since a flock belongs to the
former and `open` and `unlink` act on the latter. Any launch may die anywhere.
`start_one` runs in every launch that has the lock: a forked process has a copy of
the descriptor, and with it the lock, until `execv()` closes the copy (`O_CLOEXEC`).
`forked` is the set of launches with such a process; the kernel drops a lock when
neither the launch nor such a process of it has the file open (`Released`).

**StateStore** takes `write_record_locked` system call by system call. `disk` is
the set of files the state path may lead to after a power cut: it grows at
`rename` and shrinks to one at a directory fsync. A file that was not fsynced may
come back torn. `DurableState` is the promise: a set of states a restart may find,
entered only by storing and settled by a finished store.

**IpcServer** keeps streams as whole frames and the control of
`ipc_server_service` as it is: poll snapshot, accept, then slot by slot the
hang-up test, recv, each complete frame, flush and close. Clients connect,
write and close between any two steps. Sockets take as much as they like.

**IpcBuffers** is the level of bytes below it, for one sender and one receiver:
`wire` and `sock` are the two sockets, cut anywhere; `rxbuf`, `txbuf`, `tx_sent`
and `tx_cap` are the fields of `client_conn_t`. A byte knows its frame and its
offset, so a read that starts in the middle of a frame shows. The doubling and
the release of `txbuf`, failing `realloc`, the oversized-frame paths of the server
and of `daemon_recv`, and a receiver that goes away are all there.

**BulkRx** is `handle_bulk_chunk` with the fields of `bulk_rx_t`, which are not
cleared between transfers. Headers hold any numbers the sender likes: the code checks
them against its buffers only. **BulkTx** is the chunk arithmetic of `video_uploader`
and `send_bulk`, modulo `UMod` for 2^32.

**PayloadSystem** composes them: payload_app, the bridge and the uploader, each
through the client library, with the daemon between them. `pc` is the place in each
`main()`; `out` and `in` are the frames under way from and to a client. The daemon
is reduced to what `IpcServer` establishes: streams without gaps (`NoGaps`), one
connection per name (`UniqueNames`), a dead client's name that stays taken until
its hang-up is served, and a reader that is cut off when its backlog is full. The
processes are restarted when they end, which is `RestartHappens` of `Daemon`.
`daemon_client_get_state` is two steps, a request and the next frame whatever it
is, so that a relayed command can come between. A frame from the OBC is decoded or
dropped. `forwarded`, `answers` and `lost` count commands for the properties.

Module `M` is instantiated for TLC by `MCM`. Operators commented "Fault:" are
faulty variants of the definition after them, used to confirm that a property
notices the fault; no specification uses them.

## Runs

| run | configuration | result | shows |
|---|---|---|---|
| supervisor | MCProcessManager | holds | for callers that start nothing after a shutdown: the table mirrors the children; signals reach only children; SIGKILL follows SIGTERM, also when the wall clock jumps; shutdown leaves nobody |
| event_loop | MCDaemon | holds | no lost wake-up, no missed exit, no orphans; zombies are collected, SIGTERM ends the daemon, restarts happen, RESTART_NEVER means one launch |
| restarts | MCRestartHistory | holds | at most twice the limit in any window-long interval; a restart is early by less than a second of the wall clock |
| singleton | MCSingletonLock | holds | one reachable daemon until the pid file is unlinked; a launch is refused only by a daemon that runs, or while a process of a killed one is short of `execv()` |
| pid_file_unlinked | PidFileUnlinked | violated | finding 1 |
| state_store | MCStateStore | holds | only complete records are exposed; StateStore implements DurableState |
| ipc_naming | MCIpcNaming | holds | names and slots are unique; poll results reach the right connection; dead clients leave, requests do not wait for ever |
| ipc_requests | MCIpcRequests | holds | output without gaps; DELIVERs authentic, addressed, in order; every kind of request accounted for once |
| ipc_buffers | MCIpcBuffers | holds | copies stay in bounds; recv() always has room; only an oversized message costs a connection; frames arrive whole, in order, and all of them |
| payload | MCPayloadSystem | holds | payload_app and the daemon agree on the state; it changes one command at a time across restarts; every command is accounted for; consistently numbered transfers are put together, and files uploaded, whole; payload_app comes back, its heartbeat catches up |
| bridge_lost | BridgeLost | violated | finding 2 |
| fire_and_forget | FireAndForget | violated | finding 3 |

### Findings

1. The shutdown closes the pid file and then unlinks its path. A launch that
   opened the file in between locks an inode without a name, and a third launch
   can start beside it.
2. The bridge does not leave its loop when the daemon closes its connection, which
   happens when it is too slow for an upload. It is never restarted, and the link
   stays dead, although `main.c` counts on the restart.
3. POLLHUP suppresses the read, so what a client wrote just before closing may be
   lost. `video_uploader` works that way.

### Known limits

Where the code promises less than one might expect, the properties say so by an
exception or an assumption:

- `shutting_down` is cleared only by `pm_reap`. A process stopped by
  `pm_shutdown_one`, collected by `pm_shutdown_all` and started again gets SIGKILL
  from the next `pm_tick`. `daemond` starts nothing after `pm_shutdown_all`
  (`ReuseAfterShutdown` is FALSE); other callers of `process.h` might.
- `config.h` gives the backoff as 500 ms times the attempt count; whole-second
  truncation makes it shorter by up to a second (`BackoffWithinASecond`).
- A `daemond` killed while a process it started is between `fork()` and `execv()` leaves
  the lock held until that `execv()`; a launch in between is told that another
  instance is running (the exception of `RefusedOnlyByLive`).
- `DMSG_STATE_SET` is confirmed even when the store failed. Until a store succeeds, what is
  served and what a restart loads may differ (the exception of `ServesWhatItStored`), and
  after a failed fsync of the directory a power cut may bring back the record before
  (`DurableState` keeps both as candidates).
- Any read error at start-up, not only a missing or invalid file, replaces the
  state record by the defaults (`ReadFaults` is FALSE in `StoreIsDurable`).
- After a failed allocation for the rest of a half-sent frame, a later frame may
  follow in its middle before the connection is closed (`nomem`, `AllocMayFail`).
- A wall clock that is set forward begins a new restart window early, and one that is set
  back lets the restarts of that window fall among those of an earlier one. The rate is bounded
  only while nobody sets the clock (`ClockMaySet` is FALSE for `RestartRate`).
- A frame relayed to payload_app between its registration and the reply to
  `get_state` is thrown away, and payload_app goes on from defaults that its next
  push persists (the exception of `SatChangesByCommand`), although
  `payload_app.c:634` speaks of "before any peer traffic can arrive".
- A command is confirmed to the OBC before its effect is pushed to the daemon; a
  crash in between loses the effect.
- `handle_bulk_chunk` counts chunks, and looks neither at whether their numbers are below
  `total_chunks` nor at whether they agree on it. A transfer numbered otherwise may be
  acknowledged with places that an earlier one filled (`Consistent` in `AssembledAsSent`).
- A file within `MAX_CHUNK_DATA - 1` bytes of the 32-bit limit is reported complete
  after its first chunk (the exception of `WholeFileSent`).
- The heartbeat waits for a moment without traffic; a stream without a pause
  holds it up for ever (traffic is bounded in `HeartbeatCatchesUp`).

### Bounds

The supervisor has two processes (ON_FAILURE and NEVER), three pids and one foreign
process: enough for a pid to be freed and taken by a process of each kind. The
clock has two seconds and is set at will, so windows, backoffs and kill deadlines
expire early, late and repeatedly. The event loop has two processes (ALWAYS and NEVER)
and no foreign ones, since nothing in `main()` looks at pids and `Spec => PmSpec` is
proved. `MaxAttempts` 1 makes giving up reachable. `MCRestartHistory` counts half
seconds, so that truncation shows, and has time for two windows and a third restart,
the first that `RestartRate` says anything about; it leaves SIGTERM out (`LongRunSpec`),
after which `main()` restarts nothing. The lock needs
three launches for finding 1; there are four launches and four inodes. The store
has the defaults and two other values. The IPC runs have at most three connections
for two slots and two names, and a backlog of two or three units so that the limit is
reached. `IpcBuffers` has headers of two bytes, payloads of up to four, a
backlog limit of nine and a smallest buffer of two, so that three messages go through
every growth, the limit and the release, and one of the lengths is one too large.
`PayloadSystem` runs scenarios, each stressing one thing: commands with a crash or
a failure of the link, commands with the clock, chunks of three transfers (one of
them never complete, one inconsistently numbered and in part too large) in any order and repetition, chunks with a crash, uploads of files of every
residue including the largest size (2^32 is 8, a chunk has two bytes), and the clock
with a crash. A backlog of two frames makes every reader slow, two connection attempts make
giving up reachable, and ticks send every kind of frame within two seconds. Pids, launches and inodes are symmetric where only invariants are
checked. Deadlock checking is off because every model may come to rest: the clock
reaches its bound, the daemon exits, the clients have nothing to say.

### Fairness

`FairSpec`: `main()` keeps being scheduled, pending signals are delivered and
time passes (weak fairness); a slot that `pm_tick` tries to start again and again
is started some time (strong fairness of a successful fork). Children promise
nothing: they may ignore SIGTERM for ever. `IpcFairSpec`: the daemon's thread keeps
running, as poll() returns at the latest after `DAEMON_TICK_MS`. Clients promise
nothing. `BufFairSpec`: the daemon's thread runs and the receiver, while it lives,
reads. `SysFairSpec`: the daemon and the three processes run, and one that
ended is started again; with at most one fault per scenario the restart limit is
not reached. Crashes, the clock and the OBC promise nothing, and uploads may stall.

## Proofs

Every safety property that a passing run checks, invariant or action property, is also a
theorem. All theorems hold for any values of the constants (sets of processes, pids,
launches, inodes, connections, names, values, scenarios; sizes and limits) under
the named assumptions of the modules (`PmAssumption`, `DaemonAssumption`,
`LockAssumption`, `StoreAssumption`, `IpcAssumption`, `BuffersAssumption`,
`BulkRxAssumption`, `BulkTxAssumption`, `SystemAssumption`). These say that the
constants have their types and that model values differ where values of the code do (a
STATE_SET carries a state, `None` is not an APID). In particular nothing is assumed of the
chunks a sender numbers; `AssembledAsSent` itself names the transfers it is about.

Six theorems have a hypothesis of their own, because the property is false without it:

| theorem | hypothesis | in the code |
|---|---|---|
| `EscalationCorrect` | `~ReuseAfterShutdown` | `daemond` starts nothing after `pm_shutdown_all` |
| `RestartRateBounded` | `~ClockMaySet` | an assumption about the environment (known limits) |
| `StoreImplementsDurable` | `~ReadFaults` | an assumption about the environment (known limits) |
| `StreamsIntact`, `DeliveryCorrect` | `~AllocMayFail`, `TxLimit >= 2` | memory is an assumption (known limits); the limit is 256 KiB |
| `FramesCorrect` | `RxSize <= Limit` | 256 KiB against a header and `DAEMON_MAX_MSG_PAYLOAD` |

The type invariants `PmTypeOK`, `MainTypeOK`, `LockTypeOK`, `StoreTypeOK` and `SysTypeOK`
are part of the proofs and are not checked again by the runs.

**ProcessManagerProofs.** `PmTypeCorrect` is inductive alone. `ChildTableCorrect`
proves `ChildTable /\ OnlyChildrenSignalled`, inductive relative to the types. The
two lemmas that carry it say what starting slots (`StartTable`) and collecting a
child (`CollectTable`) do to the table. `ShutdownCorrect` follows: the shutdown
ends when no slot has a pid, and by `ChildTable` there is then no child.
`EscalationCorrect` proves `ShuttingDownMeansTermed` and `KillAfterTerm` assuming
`~ReuseAfterShutdown` (see the known limits).

**DaemonProofs.** `DaemonUsesSupervisor` proves `Spec => PmSpec`, so everything above
holds of the daemon (`DaemonSupervises`). `NoLostWakeup` speaks of poll() only and
needs `WakeupInv`: a raised `g_got_chld` keeps the pipe readable except between
draining and testing the flag. `NoMissedExit` needs `ExitInv`, which says that an
unannounced zombie exists only while `pm_reap` or `pm_shutdown_all` is yet to
collect it. `NoOrphans` needs `NobodyInv`: no child before the start nor after the
shutdown.

The theorems about restarts share a lemma (`SlotSteps`): a step of the daemon keeps a slot,
resets it, starts it or collects its child, and `SlotsInv` says that `main()` never has a
slot in `shutting_down`. `BackoffRespected`: `BackoffInv` fixes `next_start` by the time
of the collection while the slot waits, and the rest is the arithmetic of truncating one
and rounding up the other. `RestartRateBounded`: `RateOK` divides the history of a process at
its `window_start`. At most `attempts` restarts lie after it (one less while the next is being
waited for), and of those before it all but the last `MaxAttempts` lie more than a window
back, so that twice the limit covers both parts. `OneShotCorrect`: a slot that was given
up on without a child stays so (`Gone`) once `pm_start_all` is past.

**SingletonLockProofs.** `LockInv` adds that a launch past flock() holds the lock of the
inode it has open (`DescriptorInv`), that conversely a lock is that of a launch which
runs with the inode open, or which died and is in `forked` (`LockHeld`), and that before
any unlink all open descriptors share the inode of the path (`SameInode`). `LockCorrect`
follows from the first and the last, and `RefusalCorrect` (`RefusedOnlyByLive`) from `LockHeld`:
each of the three ways a descriptor is closed, `close()`, a death and an `execv()`, drops the
lock when it closes the last copy.

**StateStoreProofs.** `StoreInv` adds what the temporary file holds at each call
(`WriterInv`) and that without read faults a reset is under way only over an
invalid file (`ResetInv`). `StoreCorrect` proves the invariants and
`StoreImplementsDurable` the refinement: each step maps to a step of
`DurableState` or to a stutter.

**IpcServerProofs.** `TableSound` (`UniqueNames`, `OneSlotEach`, `SlotMapFresh`) rests
on `TableInv`, which adds that a connection in the listen queue has neither slot
nor name and one with a name has a slot or is closed (`BacklogOK`), and that the
poll results of slots already served are used up (`LoopOK`), so that a slot emptied in
the round has no result left, as one that accept fills had none. `StreamsIntact` and `DeliveryCorrect` assume that memory does not run out
(`~AllocMayFail`) and that the limit is at least two. `OutInv` relates, for each connection,
what was routed to it, what its socket took and what its buffer holds; the conjunct
that matters says that a frame is dropped only behind a backlog, so that nothing
sent later can overtake it. `OriginInv` adds that each frame with a sender stems from a
request of that sender which was handled (`Genuine`) and that those of one sender are
`InOrder`; it holds also when memory runs out. `TypesCorrect` (`IpcTypeOK`) adds the limits of
the backlogs (`OutLimits`). `RequestsAnswered` (`EveryRequestAnswered`) counts: `AnsweredInv`
says that the requests handled for a connection are as many as the answers queued for it and the
pairs of a receiver and a request of its own that was forwarded there. A request handled is new
to `OriginInv`, so handling it adds one answer or one pair, and not one that is counted.

**IpcBuffersProofs.** `BufInv` adds the types and `Len(rxbuf) <= RxSize`.
`BuffersSafe` then holds because a frame loop that stops has handled or refused
every frame that could fill `rxbuf`, and because the capacity is doubled
until it covers the bytes needed, and never cut below them. `StreamInv` is about the stream of all
bytes ever written: `off` tells where each frame begins in it, and `k` is the next frame to be
handled. `RxPart` says that `rxbuf` and `wire` are the consecutive bytes from the start of frame
`k`, so that a length is only ever read at the start of a frame (`ConformingCorrect`). `TxPart`
says that the receiver's socket and the unsent part of `txbuf` are the consecutive bytes from the
first frame it has not taken up to frame `k`, and that a receiver to be closed has output
left, so that nothing overtakes the frame it was given up for (`FramesCorrect`).

**BulkProofs.** `AssemblyCorrect`: in a session of a consistently numbered transfer
(`SessionOK`) every place seen holds that
chunk of the session's transfer, and the count is their number, so that a full count
means every place, whatever an earlier session left behind. `UploadCorrect`: the bytes sent are
`chunk * MaxChunkData` or the whole file, whichever is less.

**PayloadSystemProofs.** `SystemAgrees` (`SysTypeOK`, `StateAgrees`) needs `SysInv`: what
each kind of frame carries, that a payload_app which waits to be seeded has
pushed nothing on this connection, that the replies in its stream carry the
daemon's state while it waits, and that of a chain of pushes each follows from
the one before by one command. `StateHistory` (`SatChangesByCommand`) is read off
that chain. `SystemReassembles` and `SystemUploads` prove that every step of the system
is a step of `BulkRx` and of `BulkTx` or leaves them alone, and carry their theorems
over. `CommandsCorrect` (`CommandsAccounted`) needs `Balanced`: the equation over the queues of
all three clients, and that of what the uploader is sent nothing counts, nor of what a client
sends anything but a command from the bridge or an answer from payload_app. The lemmas before it
say what a queue that is read, written, relayed or dropped does to the sum (`CarriedParts`,
`UnderWayChange`), and each action moves a command between two terms of the equation or
adds one to both sides.

Only model-checked: the liveness properties `ZombiesCollected`, `TermStops`, `RestartHappens`,
`DeadClientsLeave`, `RequestsServed`, `AllArrive`, `AppComesBack` and `HeartbeatCatchesUp`,
because fairness and ENABLED are out of the prover's reach. The three findings are
counterexamples of TLC.

## Not modelled

- The CRC (a validity bit), packing and unpacking. Names and payloads are model
  values; the sizes of frames matter in `IpcBuffers` only.
- The codec of the serial link: a submodule that is not in the tree. The bridge's
  `send_*` functions, which nothing calls.
- `daemon_client_set_state` and the demo worker, its only caller. The worker keeps
  a counter and is not among the processes `daemond` registers.
- A restart of `daemond` under its running clients in `PayloadSystem`; `StateStore`
  and `SingletonLock` cover what such a restart finds.
- What the OBC does with what it is sent, so the reuse of transfer ids after a
  restart of payload_app, and uploads that start before the bridge has registered.
- Log output, paths, directory creation, the test tool.
