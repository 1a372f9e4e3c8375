---------------------------- MODULE PayloadSystem ----------------------------
(***************************************************************************)
(* The clients of the daemon at work together: payload_app.c, the bridge of *)
(* Network/src/main.c and video_uploader.c, each through client.c, with the *)
(* daemon between them and the on-board computer (OBC) at the far end of    *)
(* the bridge's serial link.  The processes are restarted when they end.    *)
(*                                                                         *)
(* The daemon is reduced to what module IpcServer shows of it: per client a *)
(* stream in each direction without gaps, one connection per name, one      *)
(* request handled at a time, and a connection given up when its reader is  *)
(* too slow.                                                               *)
(***************************************************************************)
EXTENDS BulkRx, BulkTx, Sequences

CONSTANTS
    Scenarios,     \* what is going on, and bounds on it: see Scenario
    Commands,      \* commands and ADCS responses of the OBC
    ExpIds,        \* number of values of active_experiment_id (2^8)
    TxLimit,       \* TX_BACKLOG_LIMIT and the socket's buffer, in frames
    SockLimit,     \* bound: frames a client can write ahead of the daemon
    Attempts,      \* connection attempts of main(), 10 in the code
    CmdEvery, BulkEvery,  \* ticks between ADCS requests and bulk transfers, 5 and 10
    DummyLen,      \* length of such a bulk transfer
    None

Procs == {"payload_app", "network", "video_uploader"}

\* CMD_RX messages have an opcode and an argument; those of ADCS_RESP_RX have
\* the request type and the status, written as one opcode.  SHORT has no opcode.
\* OTHER stands for every message that changes nothing of the state below: other
\* ADCS responses, ADCS telemetry, acknowledgements of bulk transfers.
CmdOps  == {"GRANT", "REVOKE", "TIME_SYNC", "RUN", "ABORT", "HALT", "UNKNOWN", "SHORT"}
AdcsOps == {"DCE_ACK", "DCE_NACK", "RELINQUISH_ACK", "RELINQUISH_NACK", "OTHER"}

\* The APIDs, apart from those of the inbound transfers, which name Sessions.
Apids == {"CMD", "CMD_RESP", "ADCS_REQ", "ADCS_RESP", "TELEM", "BULK", "BULK_ACK"}

\* What the application keeps of the satellite's state, apart from the time.
SimState == [op : {"IDLE", "RUNNING", "FAULT"}, exp : 0 .. ExpIds - 1, dce : BOOLEAN]
State(o, e, d) == [op |-> o, exp |-> e, dce |-> d]
Boot == State("IDLE", 0, FALSE)

\* What the OBC sends or that a file is uploaded, and bounds: the frames it
\* sends, the crashes and failed opens of the serial port, the seconds that pass.
Scenario == [traffic : {"commands", "bulk", "upload", "none"},
             frames : Nat, faults : Nat, seconds : Nat]

ASSUME SystemAssumption ==
    /\ Scenarios \subseteq Scenario /\ Sessions \cap Apids = {} /\ None \notin Apids
    /\ Commands \subseteq [op : CmdOps \cup AdcsOps, arg : Nat]
    /\ ExpIds \in Nat \ {0, 1} /\ CmdEvery \in Nat \ {0} /\ BulkEvery \in Nat \ {0}
    /\ {TxLimit, SockLimit, Attempts, DummyLen} \subseteq Nat

VARIABLES
    \* the daemon
    table,         \* the connection of each name: "free", "live", or "dead"
                   \* (the client's end is closed, which the daemon has not seen)
    out, in,       \* frames from and to each client that are under way
    sat,           \* the daemon's satellite_state_t
    \* the processes
    pc,            \* place in main(): "down", "connecting", "registered",
                   \* "seeding", "opening" (the serial port), "running"
    tries,         \* failed attempts to connect
    sim, seeded,   \* sim_state_t of payload_app, and whether get_state succeeded
    tick, owed,    \* its tick counter, and the seconds since the last deadline
    \* the environment: the rest of the scenario, and what it has seen
    traffic, frames, faults, seconds,
    forwarded,     \* commands the bridge has passed on
    answers,       \* responses to commands the bridge has written to the link
    lost           \* commands and responses that were dropped on the way

daemon == <<table, out, in, sat>>
app    == <<sim, seeded, tick, owed>>
env    == <<traffic, frames, faults, seconds>>
count  == <<forwarded, answers, lost>>
sysvars == <<daemon, pc, tries, app, env, count, bulkrx, bulktx>>

Frame(t, a, b) == [type |-> t, apid |-> a, body |-> b]
Send(a, b)     == Frame("SEND", a, b)

\* The daemon has closed a connection that its client still holds.
Lost(p) == pc[p] \notin {"down", "connecting"} /\ table[p] = "free"

\* The number of commands and responses among the frames of q.
Carried(q) == Cardinality({i \in DOMAIN q : q[i].apid \in {"CMD", "CMD_RESP"}})

\* Everyone sends to the bridge, which sends to payload_app.
Dest(p) == IF p = "network" THEN "payload_app" ELSE "network"

SysInit ==
    /\ table = [p \in Procs |-> "free"]
    /\ out = [p \in Procs |-> <<>>] /\ in = [p \in Procs |-> <<>>]
    /\ sat \in {Boot, State("RUNNING", 1, TRUE)}
    /\ pc = [p \in Procs |-> "down"] /\ tries = [p \in Procs |-> 0]
    /\ sim = Boot /\ seeded = FALSE /\ tick = 0 /\ owed = 0
    /\ \E s \in Scenarios : /\ traffic = s.traffic /\ frames = s.frames
                           /\ faults = s.faults /\ seconds = s.seconds
    /\ forwarded = 0 /\ answers = 0 /\ lost = 0
    /\ BulkRxInit /\ BulkTxInit

-----------------------------------------------------------------------------
(* The daemon, one request of one client at a time                         *)

\* The request at the head of p's stream is done, and f is queued for d.
\* A frame for a dead client is lost; one too many for a live client makes the
\* daemon close that connection, and what the socket had not taken is lost.
QueueSend(p, d, f) ==
    \/ /\ table[d] = "live" /\ Len(in[d]) < TxLimit
       /\ in' = [in EXCEPT ![d] = Append(@, f)]
       /\ out' = [out EXCEPT ![p] = Tail(@)]
       /\ UNCHANGED <<table, lost>>
    \/ /\ table[d] = "live" /\ Len(in[d]) >= TxLimit
       /\ \E k \in 0 .. Len(in[d]) :
             /\ in' = [in EXCEPT ![d] = SubSeq(@, 1, k)]
             /\ lost' = lost + Carried(SubSeq(in[d], k + 1, Len(in[d]))) + Carried(<<f>>)
                             + Carried(IF p = d THEN Tail(out[d]) ELSE out[d])
       /\ out' = [q \in Procs |-> CASE q = d -> <<>> [] q = p /\ q # d -> Tail(out[p])
                                    [] OTHER -> out[q]]
       /\ table' = [table EXCEPT ![d] = "free"]
    \/ /\ table[d] # "live"
       /\ out' = [out EXCEPT ![p] = Tail(@)]
       /\ lost' = lost + Carried(<<f>>)
       /\ UNCHANGED <<in, table>>

HandleRequest(p) ==
    LET f == Head(out[p]) IN
    /\ table[p] # "free" /\ out[p] # <<>>
    /\ \/ /\ f.type = "STATE_GET"
          /\ QueueSend(p, p, Frame("STATE_VALUE", None, sat))
          /\ UNCHANGED sat
       \/ /\ f.type = "STATE_SET"
          /\ sat' = f.body.val
          /\ QueueSend(p, p, Frame("STATE_VALUE", None, f.body.val))
       \/ /\ f.type = "SEND" /\ table[Dest(p)] # "free"
          /\ QueueSend(p, Dest(p), Frame("DELIVER", f.apid, f.body))
          /\ UNCHANGED sat
       \/ /\ f.type = "SEND" /\ table[Dest(p)] = "free"
          /\ QueueSend(p, p, Frame("ERROR", f.apid, None))
          /\ UNCHANGED sat
    /\ UNCHANGED <<pc, tries, app, env, forwarded, answers, bulkrx, bulktx>>

\* Fault: a hang-up is not noticed.
HangUpIgnored(p) == FALSE /\ UNCHANGED sysvars

\* Fault: the state does not survive the connection of payload_app.
HangUpResets(p) ==
    /\ table[p] = "dead"
    /\ table' = [table EXCEPT ![p] = "free"]
    /\ out' = [out EXCEPT ![p] = <<>>]
    /\ lost' = lost + Carried(out[p])
    /\ sat' = IF p = "payload_app" THEN Boot ELSE sat
    /\ UNCHANGED <<in, pc, tries, app, env, forwarded, answers, bulkrx, bulktx>>

\* The daemon notices that a client is gone, with whatever it had not read.
HangUp(p) ==
    /\ table[p] = "dead"
    /\ table' = [table EXCEPT ![p] = "free"]
    /\ out' = [out EXCEPT ![p] = <<>>]
    /\ lost' = lost + Carried(out[p])
    /\ UNCHANGED <<in, sat, pc, tries, app, env, forwarded, answers, bulkrx, bulktx>>

-----------------------------------------------------------------------------
(* The client library, and the part of main() the clients share            *)

\* daemon_send of the frames fs: the socket takes them, unless the daemon has
\* closed it (EPIPE, which the callers ignore; SIGPIPE is ignored since daemond).
Write(p, fs) == out' = [out EXCEPT ![p] = IF Lost(p) THEN @ ELSE @ \o fs]
CanWrite(p)  == Lost(p) \/ Len(out[p]) < SockLimit

\* The commands and responses that such a write loses.
LostBy(p, fs) == IF Lost(p) THEN Carried(fs) ELSE 0

\* daemond starts a process, or restarts one that ended.
Start(p) ==
    /\ pc[p] = "down"
    /\ p = "video_uploader" => upload = "sending"
    /\ pc' = [pc EXCEPT ![p] = "connecting"]
    /\ tries' = [tries EXCEPT ![p] = 0]
    /\ UNCHANGED <<daemon, app, env, count, bulkrx, bulktx>>

\* daemon_client_connect: the daemon registers the name, or answers NAME_TAKEN
\* because a dead client still has it; main() tries again a few times and exits.
Connect(p) ==
    /\ pc[p] = "connecting"
    /\ \/ /\ table[p] = "free"
          /\ table' = [table EXCEPT ![p] = "live"]
          /\ pc' = [pc EXCEPT ![p] = IF p = "video_uploader" THEN "running" ELSE "registered"]
          /\ in' = [in EXCEPT ![p] = <<>>]
          /\ lost' = lost + Carried(in[p])
          /\ UNCHANGED <<tries, bulktx>>
       \/ /\ table[p] # "free"
          /\ tries' = [tries EXCEPT ![p] = @ + 1]
          /\ \/ tries[p] + 1 < Attempts /\ UNCHANGED <<pc, bulktx>>
             \/ /\ tries[p] + 1 >= Attempts
                /\ pc' = [pc EXCEPT ![p] = "down"]
                /\ IF p = "video_uploader" THEN FailUpload ELSE UNCHANGED bulktx
          /\ UNCHANGED <<table, in, lost>>
    /\ UNCHANGED <<out, sat, app, env, forwarded, answers, bulkrx>>

\* The sim_state_t that main() of payload_app starts with.
Seed(p, s, ok) ==
    IF p = "payload_app" THEN sim' = s /\ seeded' = ok /\ tick' = 0 /\ owed' = 0
                         ELSE UNCHANGED app

\* The process p ends: its socket is closed and its memory is gone.
Ended(p) ==
    /\ Seed(p, Boot, FALSE)
    /\ IF p = "payload_app" THEN ForgetSessions ELSE UNCHANGED bulkrx
    /\ pc' = [pc EXCEPT ![p] = "down"]
    /\ table' = [table EXCEPT ![p] = IF @ = "live" THEN "dead" ELSE @]
    /\ in' = [in EXCEPT ![p] = <<>>]
    /\ lost' = lost + Carried(in[p])
    /\ UNCHANGED out

\* Where main() goes on after daemon_client_get_state.
Seeded(p) == pc' = [pc EXCEPT ![p] = IF p = "network" THEN "opening" ELSE "running"]

\* daemon_client_get_state, first half: the request, or a write that fails.
GetState(p) ==
    /\ pc[p] = "registered"
    /\ \/ /\ ~Lost(p)
          /\ pc' = [pc EXCEPT ![p] = "seeding"]
          /\ Write(p, <<Frame("STATE_GET", None, None)>>)
          /\ UNCHANGED app
       \/ /\ Lost(p)
          /\ Seeded(p) /\ Seed(p, Boot, FALSE)
          /\ UNCHANGED out
    /\ UNCHANGED <<table, in, sat, tries, env, count, bulkrx, bulktx>>

\* The next frame is the reply.
IsReply(p) == in[p] # <<>> /\ Head(in[p]).type = "STATE_VALUE"

\* What main() takes over from the reply.
SeedFrom(f) == f.body

\* Second half: the next frame is the reply, or get_state fails and that frame is
\* lost; it also fails when the connection is lost.  The bridge only prints it.
StateReply(p) ==
    /\ pc[p] = "seeding"
    /\ in[p] # <<>> \/ Lost(p)
    /\ Seeded(p)
    /\ \/ IsReply(p) /\ Seed(p, SeedFrom(Head(in[p])), TRUE)
       \/ ~IsReply(p) /\ Seed(p, Boot, FALSE)
    /\ in' = [in EXCEPT ![p] = IF @ = <<>> THEN @ ELSE Tail(@)]
    /\ lost' = lost + (IF in[p] = <<>> THEN 0 ELSE Carried(<<Head(in[p])>>))
    /\ UNCHANGED <<table, out, sat, tries, env, forwarded, answers, bulkrx, bulktx>>

\* A process dies.
Crash(p) ==
    /\ p \in {"payload_app", "network"} /\ pc[p] # "down"
    /\ faults > 0 /\ faults' = faults - 1
    /\ Ended(p)
    /\ UNCHANGED <<sat, tries, traffic, frames, seconds, forwarded, answers, bulktx>>

-----------------------------------------------------------------------------
(* payload_app                                                             *)

\* What a command or an ADCS response does to sim_state_t.  The argument of
\* RUN is cut to the width of active_experiment_id.
Effect(m, s) ==
    CASE m.op = "RUN"   -> State("RUNNING", m.arg % ExpIds, s.dce)
      [] m.op = "ABORT" -> State("IDLE", 0, s.dce)
      [] m.op = "HALT"  -> State("FAULT", s.exp, s.dce)
      [] m.op \in {"GRANT", "DCE_ACK"} -> State(s.op, s.exp, TRUE)
      [] m.op \in {"REVOKE", "DCE_NACK", "RELINQUISH_ACK"} -> State(s.op, s.exp, FALSE)
      [] OTHER -> s

\* push_state; whether the sender was seeded is a remark for the properties.
PushState(s) == Frame("STATE_SET", None, [val |-> s, seeded |-> seeded])

\* Fault: the response is not sent for an unknown command.
CommandFramesSome(m) ==
    IF m.op = "UNKNOWN" THEN <<PushState(Effect(m, sim))>>
    ELSE <<Send("CMD_RESP", None), PushState(Effect(m, sim))>>

\* Fault: the state is sent before it is changed.
CommandFramesEarly(m) == <<Send("CMD_RESP", None), PushState(sim)>>

\* handle_payload_command: the response, then the new state, whatever the opcode.
CommandFrames(m) == <<Send("CMD_RESP", None), PushState(Effect(m, sim))>>

\* handle_adcs_response pushes the state when it may have changed.
AdcsFrames(m) ==
    IF m.op \in {"DCE_ACK", "DCE_NACK", "RELINQUISH_ACK"} THEN <<PushState(Effect(m, sim))>>
                                                          ELSE <<>>

\* One frame read in the main loop, and handle_deliver.  Replies, errors and a
\* command without an opcode leave no trace.
AppReceive ==
    LET p == "payload_app"
        f == Head(in[p])
        writes(fs) == Write(p, fs) /\ lost' = lost + LostBy(p, fs)
    IN
    /\ pc[p] = "running" /\ in[p] # <<>> /\ CanWrite(p)
    /\ in' = [in EXCEPT ![p] = Tail(@)]
    /\ \/ /\ f.type = "DELIVER" /\ f.apid = "CMD" /\ f.body.op # "SHORT"
          /\ sim' = Effect(f.body, sim)
          /\ writes(CommandFrames(f.body))
          /\ UNCHANGED bulkrx
       \/ /\ f.type = "DELIVER" /\ f.apid = "ADCS_RESP"
          /\ sim' = Effect(f.body, sim)
          /\ writes(AdcsFrames(f.body))
          /\ UNCHANGED bulkrx
       \/ /\ f.type = "DELIVER" /\ f.apid \in Sessions
          /\ handle_bulk_chunk(f.apid, f.body)
          /\ writes(IF Completes(f.apid, f.body) THEN <<Send("BULK_ACK", None)>> ELSE <<>>)
          /\ UNCHANGED sim
       \/ /\ f.type # "DELIVER" \/ (f.apid = "CMD" /\ f.body.op = "SHORT")
          /\ lost' = lost + Carried(<<f>>)
          /\ UNCHANGED <<out, sim, bulkrx>>
    /\ UNCHANGED <<table, sat, pc, tries, seeded, tick, owed, env, forwarded, answers, bulktx>>

\* CLOCK_MONOTONIC passes another deadline.
Second ==
    /\ pc["payload_app"] = "running" /\ seconds > 0
    /\ owed' = owed + 1 /\ seconds' = seconds - 1
    /\ UNCHANGED <<daemon, pc, tries, sim, seeded, tick, traffic, frames, faults, count,
                   bulkrx, bulktx>>

\* send_dummy_command and send_dummy_bulk: which request it is, and which of the
\* three sources of data, makes no difference here.
DummyCommand == <<Send("ADCS_REQ", None)>>
DummyBulk    == [i \in 1 .. TotalChunks(DummyLen) |-> Send("BULK", None)]

\* The frames of the n-th tick.
TickFrames(n) ==
    <<Send("TELEM", None)>>
    \o (IF n % CmdEvery = 0 THEN DummyCommand ELSE <<>>)
    \o (IF n % BulkEvery = 0 THEN DummyBulk ELSE <<>>)

\* Fault: a negative remaining_ms is not made 0, and poll() waits for ever.
AppTickLate ==
    LET p == "payload_app" IN
    /\ pc[p] = "running" /\ in[p] = <<>> /\ ~Lost(p) /\ owed = 1 /\ CanWrite(p)
    /\ owed' = owed - 1
    /\ tick' = tick + 1
    /\ Write(p, TickFrames(tick + 1))
    /\ UNCHANGED <<table, in, sat, pc, tries, sim, seeded, env, count, bulkrx, bulktx>>

\* poll() timed out with nothing to read: the heartbeat.  A tick that was held
\* up is made good, because the deadline moves by one second at a time.
AppTick ==
    LET p == "payload_app" IN
    /\ pc[p] = "running" /\ in[p] = <<>> /\ ~Lost(p) /\ owed > 0 /\ CanWrite(p)
    /\ owed' = owed - 1
    /\ tick' = tick + 1
    /\ Write(p, TickFrames(tick + 1))
    /\ UNCHANGED <<table, in, sat, pc, tries, sim, seeded, env, count, bulkrx, bulktx>>

\* Reading fails: main() returns 0 and daemond restarts the process.
AppLosesDaemon ==
    /\ pc["payload_app"] = "running" /\ in["payload_app"] = <<>> /\ Lost("payload_app")
    /\ Ended("payload_app")
    /\ UNCHANGED <<sat, tries, env, forwarded, answers, bulktx>>

-----------------------------------------------------------------------------
(* The bridge                                                              *)

\* open_serial_port, after which the event loop is entered; or main() exits.
OpenSerial ==
    /\ pc["network"] = "opening"
    /\ \/ /\ pc' = [pc EXCEPT !["network"] = "running"]
          /\ UNCHANGED <<table, in, out, app, faults, lost, bulkrx>>
       \/ /\ faults > 0 /\ faults' = faults - 1
          /\ Ended("network")
    /\ UNCHANGED <<sat, tries, traffic, frames, seconds, forwarded, answers, bulktx>>

\* link_send: the frame is written to the link, or writing fails.
link_send(f) ==
    \/ answers' = answers + Carried(<<f>>) /\ UNCHANGED <<lost, faults>>
    \/ /\ faults > 0 /\ faults' = faults - 1
       /\ lost' = lost + Carried(<<f>>)
       /\ UNCHANGED answers

\* One frame from the daemon: handle_app_delivery, or it is only logged.
\* When the connection is lost and everything is read, nothing changes any more.
BridgeReceive ==
    LET f == Head(in["network"]) IN
    /\ pc["network"] = "running" /\ in["network"] # <<>>
    /\ in' = [in EXCEPT !["network"] = Tail(@)]
    /\ \/ f.type = "DELIVER" /\ link_send(f)
       \/ /\ f.type # "DELIVER"
          /\ lost' = lost + Carried(<<f>>)
          /\ UNCHANGED <<answers, faults>>
    /\ UNCHANGED <<table, out, sat, pc, tries, app, traffic, frames, seconds, forwarded,
                   bulkrx, bulktx>>

\* dispatch_from_obc and its handlers pass the frame on under its APID.
forward_to_app(f) ==
    /\ Write("network", <<f>>)
    /\ forwarded' = forwarded + Carried(<<f>>)
    /\ lost' = lost + LostBy("network", <<f>>)

\* The bytes of a frame arrive from the OBC.  It is dropped (bad CRC, a length
\* that does not fit, an unexpected APID) or dispatched.
ReceiveFromObc ==
    /\ pc["network"] = "running" /\ frames > 0 /\ CanWrite("network")
    /\ frames' = frames - 1
    /\ \/ UNCHANGED <<out, forwarded, lost>>
       \/ /\ traffic = "commands"
          /\ \E m \in Commands :
                forward_to_app(Send(IF m.op \in CmdOps THEN "CMD" ELSE "ADCS_RESP", m))
       \/ /\ traffic = "bulk"
          /\ \E s \in Sessions, c \in Chunks : forward_to_app(Send(s, c))
    /\ UNCHANGED <<table, in, sat, pc, tries, app, traffic, faults, seconds, answers,
                   bulkrx, bulktx>>

-----------------------------------------------------------------------------
(* The uploader, started when the file to upload is there                  *)

UploaderOpens ==
    /\ traffic = "upload"
    /\ \E len \in FileSizes : OpenFile(len)
    /\ UNCHANGED <<daemon, pc, tries, app, env, count, bulkrx>>

\* A chunk is written; or reading the file or writing the chunk fails.
UploaderSends ==
    LET p == "video_uploader" IN
    /\ pc[p] = "running" /\ chunk < chunk_total /\ CanWrite(p)
    /\ \/ /\ ~Lost(p)
          /\ SendChunk
          /\ Write(p, <<Send("BULK", None)>>)
          /\ UNCHANGED <<pc, table, in, app, lost, bulkrx>>
       \/ FailUpload /\ Ended(p)
    /\ UNCHANGED <<sat, tries, env, forwarded, answers>>

\* daemon_client_close and the report, without reading what came back.
UploaderEnds ==
    /\ pc["video_uploader"] = "running"
    /\ FinishUpload
    /\ Ended("video_uploader")
    /\ UNCHANGED <<sat, tries, env, forwarded, answers>>

Daemon == \E p \in Procs : HandleRequest(p) \/ HangUp(p)

Process == \/ \E p \in Procs : Start(p) \/ Connect(p)
           \/ \E p \in {"payload_app", "network"} : GetState(p) \/ StateReply(p)
           \/ AppReceive \/ AppTick \/ AppLosesDaemon
           \/ OpenSerial \/ BridgeReceive
           \/ UploaderOpens \/ UploaderSends \/ UploaderEnds

SysNext == Daemon \/ Process \/ Second \/ ReceiveFromObc
              \/ \E p \in Procs : Crash(p)

SysSpec == SysInit /\ [][SysNext]_sysvars

\* The daemon and the processes keep running; daemond restarts a process that
\* ended (module Daemon, RestartHappens), and the link takes what is written.
\* Crashes, the clock and the OBC promise nothing.
SysFairSpec ==
    /\ SysSpec
    /\ \A p \in Procs : WF_sysvars(HandleRequest(p)) /\ WF_sysvars(HangUp(p))
                       /\ WF_sysvars(Start(p)) /\ WF_sysvars(Connect(p))
    /\ \A p \in {"payload_app", "network"} : WF_sysvars(GetState(p)) /\ WF_sysvars(StateReply(p))
    /\ WF_sysvars(AppReceive) /\ WF_sysvars(AppTick) /\ WF_sysvars(AppLosesDaemon)
    /\ WF_sysvars(OpenSerial) /\ WF_sysvars(BridgeReceive)

-----------------------------------------------------------------------------
(* Properties *)

\* Every variable keeps its type.
SysTypeOK ==
    /\ table \in [Procs -> {"free", "live", "dead"}]
    /\ pc \in [Procs -> {"down", "connecting", "registered", "seeding", "opening", "running"}]
    /\ \A p \in Procs : Len(in[p]) <= TxLimit
    /\ sat \in SimState /\ sim \in SimState /\ seeded \in BOOLEAN
    /\ owed \in Nat /\ tick \in Nat

\* The state after the frames of q have been handled, when it is base before.
IsPush(f) == f.type = "STATE_SET"
LastIs(q, v, base) ==
    \/ v = base /\ \A i \in DOMAIN q : ~IsPush(q[i])
    \/ \E i \in DOMAIN q : /\ IsPush(q[i]) /\ q[i].body.val = v
                          /\ \A j \in DOMAIN q : IsPush(q[j]) => j <= i

\* A payload_app that was seeded and the daemon agree on the state as soon as
\* what push_state wrote has been handled, whatever happened before: earlier
\* incarnations, requests of theirs that were dropped, other traffic.
StateAgrees ==
    pc["payload_app"] = "running" /\ seeded /\ table["payload_app"] = "live" =>
        LastIs(out["payload_app"], sim, sat)

\* The frame at the head of q, if there is one.
FirstOf(q) == {q[i] : i \in DOMAIN q \cap {1}}

\* The daemon's state, the one that is persisted, changes by the effect of one
\* command or response of the OBC at a time, across crashes and restarts of
\* payload_app; unless a frame overtook the reply to daemon_client_get_state, so
\* that payload_app went on from its defaults.
SatChangesByCommand ==
    [][sat' # sat =>
          \/ \E m \in Commands : sat' = Effect(m, sat)
          \/ \E f \in FirstOf(out["payload_app"]) :
                 f.type = "STATE_SET" /\ ~f.body.seeded]_sysvars

\* Every command that the bridge passes on is answered once to the OBC, or is
\* under way, or was dropped in one of the ways the model names (counted by
\* lost); none is answered twice and none disappears otherwise.
CommandsAccounted ==
    forwarded = answers + lost
              + Carried(in["payload_app"]) + Carried(out["payload_app"])
              + Carried(in["network"]) + Carried(out["network"])

\* A payload_app that ended comes back and enters its main loop, although its
\* name is taken until the daemon has noticed that the old one is gone.
AppComesBack == pc["payload_app"] = "down" ~> pc["payload_app"] = "running"

\* The heartbeat catches up: once the OBC leaves payload_app time, every second
\* that passed has had its tick (or the process has ended).
HeartbeatCatchesUp ==
    owed > 0 ~> owed = 0 \/ pc["payload_app"] # "running"

\* register_network of main.c expects "that the link is re-established
\* automatically": a bridge that loses its connection is registered again.
LinkReestablished == Lost("network") ~> table["network"] = "live"
=============================================================================
