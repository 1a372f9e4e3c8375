------------------------------ MODULE IpcServer ------------------------------
(***************************************************************************)
(* ipc_server.c: the message bus of the daemon.  One thread polls, accepts  *)
(* and services connections slot by slot; the clients connect, send and    *)
(* close whenever they like, between any two steps of that thread.         *)
(*                                                                         *)
(* Streams are kept as whole frames.  sent[c] is everything client c wrote; *)
(* the first recvd[c] frames have left the socket and the first handled[c] *)
(* of those have been through handle_message, so the frames between the two *)
(* are the contents of rxbuf.  wire[c] is everything the kernel took for    *)
(* delivery to c, tx[c] the frames waiting in txbuf.                       *)
(***************************************************************************)
EXTENDS Naturals, Sequences, FiniteSets

CONSTANTS
    Conns,         \* connections the clients may open, each used once
    MaxClients,    \* DAEMON_MAX_CLIENTS
    Names,         \* names clients register
    Values,        \* satellite_state_t
    Requests,      \* Requests[c][n]: what client c may write as its n-th frame
    TxLimit,       \* TX_BACKLOG_LIMIT, in the units of Size
    AllocMayFail,  \* realloc() of the transmit buffer may fail
    None

Slots == 1 .. MaxClients

\* Frames the clients write.  name is the name to register or the
\* destination; val is the state to set.  A "BAD" frame has an unknown type or
\* the wrong length for its type, an "OVERSIZED" one a length above the limit.
Request == [type : {"REGISTER", "STATE_GET", "STATE_SET", "SEND", "PING",
                    "BAD", "OVERSIZED"},
            name : Names \cup {None}, val : Values \cup {None}]

ErrorCode == {"BAD_MESSAGE", "NOT_REGISTERED", "NAME_TAKEN", "UNKNOWN_DEST"}

\* Frames the daemon writes.  src is the name in a DELIVER; from and seq name
\* the SEND it came from (the frame itself carries the application's bytes).
Reply == [type : {"REGISTER_OK", "STATE_VALUE", "DELIVER", "PONG"} \cup ErrorCode,
          val : Values \cup {None}, src : Names \cup {None},
          from : Conns \cup {None}, seq : Nat]

ASSUME IpcAssumption ==
    /\ None \notin Conns \cup Names \cup Values
    /\ MaxClients \in Nat \ {0} /\ TxLimit \in Nat
    /\ \A c \in Conns : Requests[c] \in Seq(SUBSET Request)
    /\ \A c \in Conns : \A n \in DOMAIN Requests[c] : \A r \in Requests[c][n] :
          /\ r.type \in {"REGISTER", "SEND"} => r.name \in Names
          /\ r.type = "STATE_SET" => r.val \in Values
    /\ AllocMayFail \in BOOLEAN

VARIABLES
    \* the clients and the kernel
    client,        \* "new", "open" or "closed": the client's end of c
    sent, recvd, handled,
    backlog,       \* connections waiting in the listen queue
    wire,
    gone,          \* connections whose server end is closed
    \* the server
    clients,       \* the connection in each slot, None when not in_use
    name,          \* the name each connection registered, or None
    should_close,  \* connections marked for closing
    tx,
    sat,           \* the daemon's satellite_state_t
    routed,        \* history: every frame handed to queue_send for c
    \* the service loop
    pc,            \* "poll", "accept", "service", "handle", "down"
    slot_map,      \* the connection polled for each slot still to be serviced
    revents,       \* the slots for which poll reported POLLIN, and POLLHUP
    cur            \* the slot being serviced

clientvars == <<client, sent, backlog>>
stream     == <<recvd, handled>>
output     == <<wire, tx, routed>>
table      == <<clients, name, gone>>
loop       == <<slot_map, revents>>
ipcvars    == <<client, sent, recvd, handled, backlog, wire, gone, clients, name,
                should_close, tx, sat, routed, pc, slot_map, revents, cur>>

InUse(c) == \E s \in Slots : clients[s] = c

\* find_client_by_name: the registered connections called n.
CalledInTable(n) == {c \in Conns : InUse(c) /\ name[c] = n}

IpcInit ==
    /\ client = [c \in Conns |-> "new"]
    /\ sent = [c \in Conns |-> <<>>]
    /\ recvd = [c \in Conns |-> 0]
    /\ handled = [c \in Conns |-> 0]
    /\ backlog = <<>>
    /\ wire = [c \in Conns |-> <<>>]
    /\ gone = {}
    /\ clients = [s \in Slots |-> None]
    /\ name = [c \in Conns |-> None]
    /\ should_close = {}
    /\ tx = [c \in Conns |-> <<>>]
    /\ sat \in Values
    /\ routed = [c \in Conns |-> <<>>]
    /\ pc = "poll"
    /\ slot_map = [s \in Slots |-> None]
    /\ revents = [in |-> {}, hup |-> {}]
    /\ cur = 1

-----------------------------------------------------------------------------
(* Clients                                                                 *)

Connect(c) ==
    /\ client[c] = "new" /\ pc # "down"
    /\ Len(backlog) <= MaxClients
    /\ client' = [client EXCEPT ![c] = "open"]
    /\ backlog' = Append(backlog, c)
    /\ UNCHANGED <<sent, stream, output, table, should_close, sat, pc, loop, cur>>

Write(c, r) ==
    /\ client[c] = "open" /\ c \notin gone
    /\ Len(sent[c]) < Len(Requests[c])
    /\ r \in Requests[c][Len(sent[c]) + 1]
    /\ sent' = [sent EXCEPT ![c] = Append(@, r)]
    /\ UNCHANGED <<client, backlog, stream, output, table, should_close, sat, pc,
                   loop, cur>>

\* daemon_client_close, or the client's process ends.
Close(c) ==
    /\ client[c] = "open"
    /\ client' = [client EXCEPT ![c] = "closed"]
    /\ UNCHANGED <<sent, backlog, stream, output, table, should_close, sat, pc,
                   loop, cur>>

-----------------------------------------------------------------------------
(* collect_pollfds and poll                                                *)

\* Fault: neither POLLHUP nor the end of the stream is noticed.
HupIgnored(c) == FALSE

Hup(c) == client[c] = "closed"

\* Fault: POLLIN is not asked for.
ReadableAtEnd(c) == Hup(c)

Readable(c) == Hup(c) \/ recvd[c] < Len(sent[c])

CollectAndPoll ==
    /\ pc = "poll"
    /\ slot_map' = clients
    /\ revents' = [in |-> {s \in Slots : clients[s] # None /\ Readable(clients[s])},
                   hup |-> {s \in Slots : clients[s] # None /\ Hup(clients[s])}]
    /\ pc' = IF backlog # <<>> THEN "accept" ELSE "service"
    /\ UNCHANGED <<clientvars, stream, output, table, should_close, sat, cur>>

(* accept_new_connections, until the listen queue is empty: each connection *)
(* gets the first free slot, or is closed at once.                         *)

\* Fault: the slot of a client that hung up counts as free.
FreeSlotsEarly == {s \in Slots : clients[s] = None \/ Hup(clients[s])}

FreeSlots == {s \in Slots : clients[s] = None}

FirstFree(s) == s \in FreeSlots /\ \A t \in FreeSlots : s <= t

Accept ==
    /\ pc = "accept"
    /\ backlog # <<>>
    /\ backlog' = Tail(backlog)
    /\ \/ \E s \in FreeSlots :
             /\ FirstFree(s)
             /\ clients' = [clients EXCEPT ![s] = Head(backlog)]
             /\ UNCHANGED gone
       \/ /\ FreeSlots = {}
          /\ gone' = gone \cup {Head(backlog)}
          /\ UNCHANGED clients
    /\ pc' = IF Len(backlog) = 1 THEN "service" ELSE "accept"
    /\ UNCHANGED <<client, sent, stream, output, name, should_close, sat, loop, cur>>

-----------------------------------------------------------------------------
(* queue_send                                                              *)

\* A DELIVER carries application data and counts for two of the others.
Size(q) == Len(q) + Cardinality({i \in DOMAIN q : q[i].type = "DELIVER"})

\* Fault: the backlog is not limited.
AppendTxUnlimited(d, f) ==
    /\ tx' = [tx EXCEPT ![d] = Append(@, f)]
    /\ UNCHANGED <<wire, should_close>>

\* append_tx succeeds or fails.
AppendTx(d, f) ==
    \/ /\ Size(Append(tx[d], f)) <= TxLimit
       /\ tx' = [tx EXCEPT ![d] = Append(@, f)]
       /\ UNCHANGED <<wire, should_close>>
    \/ /\ AllocMayFail \/ Size(Append(tx[d], f)) > TxLimit
       /\ should_close' = should_close \cup {d}
       /\ UNCHANGED <<wire, tx>>

\* Fault: a frame overtakes the backlog.
QueueSendOvertakes(d, f) ==
    /\ routed' = [routed EXCEPT ![d] = Append(@, f)]
    /\ \/ /\ client[d] # "closed"
          /\ wire' = [wire EXCEPT ![d] = Append(@, f)]
          /\ UNCHANGED <<tx, should_close>>
       \/ AppendTx(d, f)

\* With nothing queued the frame goes straight to the socket, which takes it,
\* reports EAGAIN, or reports EPIPE once the client has closed.
queue_send(d, f) ==
    /\ routed' = [routed EXCEPT ![d] = Append(@, f)]
    /\ \/ /\ tx[d] = <<>> /\ client[d] # "closed"
          /\ wire' = [wire EXCEPT ![d] = Append(@, f)]
          /\ UNCHANGED <<tx, should_close>>
       \/ /\ tx[d] = <<>> /\ client[d] = "closed"
          /\ should_close' = should_close \cup {d}
          /\ UNCHANGED <<wire, tx>>
       \/ /\ tx[d] # <<>> \/ client[d] # "closed"
          /\ AppendTx(d, f)

Frame(t, v) == [type |-> t, val |-> v, src |-> None, from |-> None, seq |-> 0]

\* queue_send of an error to an unregistered connection, for which nothing has
\* been queued before, and should_close: the socket takes the frame now or it
\* is dropped with the connection.
Refuse(c, code) ==
    /\ routed' = [routed EXCEPT ![c] = Append(@, Frame(code, None))]
    /\ should_close' = should_close \cup {c}
    /\ \/ /\ client[c] # "closed"
          /\ wire' = [wire EXCEPT ![c] = Append(@, Frame(code, None))]
       \/ UNCHANGED wire
    /\ UNCHANGED tx

-----------------------------------------------------------------------------
(* handle_message, for the request r of connection c                       *)

\* Fault: the name is not looked up.
RegisterUnchecked(c, r) ==
    /\ name[c] = None
    /\ r.type = "REGISTER"
    /\ name' = [name EXCEPT ![c] = r.name]
    /\ queue_send(c, Frame("REGISTER_OK", None))
    /\ UNCHANGED sat

Register(c, r) ==
    /\ name[c] = None
    /\ \/ /\ r.type = "REGISTER" /\ CalledInTable(r.name) = {}
          /\ name' = [name EXCEPT ![c] = r.name]
          /\ queue_send(c, Frame("REGISTER_OK", None))
       \/ /\ r.type = "REGISTER" /\ CalledInTable(r.name) # {}
          /\ Refuse(c, "NAME_TAKEN")
          /\ UNCHANGED name
       \/ /\ r.type = "BAD"
          /\ \E code \in {"BAD_MESSAGE", "NOT_REGISTERED"} : Refuse(c, code)
          /\ UNCHANGED name
       \/ /\ r.type \notin {"REGISTER", "BAD"}
          /\ Refuse(c, "NOT_REGISTERED")
          /\ UNCHANGED name
    /\ UNCHANGED sat

StateGet(c, r) ==
    /\ r.type = "STATE_GET"
    /\ queue_send(c, Frame("STATE_VALUE", sat))
    /\ UNCHANGED sat

\* Whether the store succeeded makes no difference to the reply.
StateSet(c, r) ==
    /\ r.type = "STATE_SET"
    /\ sat' = r.val
    /\ queue_send(c, Frame("STATE_VALUE", r.val))

\* Fault: a SEND to an unknown name is dropped without an error.
SendToSilently(c, r) ==
    /\ r.type = "SEND"
    /\ \/ \E d \in CalledInTable(r.name) :
             queue_send(d, [type |-> "DELIVER", val |-> None, src |-> name[c],
                            from |-> c, seq |-> handled[c] + 1])
       \/ /\ CalledInTable(r.name) = {}
          /\ UNCHANGED <<output, should_close>>
    /\ UNCHANGED sat

\* Fault: the destination is left in place of the source.
SendToAsDest(c, r) ==
    /\ r.type = "SEND"
    /\ \/ \E d \in CalledInTable(r.name) :
             queue_send(d, [type |-> "DELIVER", val |-> None, src |-> r.name,
                            from |-> c, seq |-> handled[c] + 1])
       \/ /\ CalledInTable(r.name) = {}
          /\ queue_send(c, Frame("UNKNOWN_DEST", None))
    /\ UNCHANGED sat

SendTo(c, r) ==
    /\ r.type = "SEND"
    /\ \/ \E d \in CalledInTable(r.name) :
             queue_send(d, [type |-> "DELIVER", val |-> None, src |-> name[c],
                            from |-> c, seq |-> handled[c] + 1])
       \/ /\ CalledInTable(r.name) = {}
          /\ queue_send(c, Frame("UNKNOWN_DEST", None))
    /\ UNCHANGED sat

Ping(c, r) ==
    /\ r.type = "PING"
    /\ queue_send(c, Frame("PONG", None))
    /\ UNCHANGED sat

\* The default case; a second REGISTER ends up here too.
Unexpected(c, r) ==
    /\ r.type \in {"REGISTER", "BAD"}
    /\ queue_send(c, Frame("BAD_MESSAGE", None))
    /\ UNCHANGED sat

handle_message(c, r) ==
    \/ Register(c, r)
    \/ /\ name[c] # None
       /\ StateGet(c, r) \/ StateSet(c, r) \/ SendTo(c, r) \/ Ping(c, r)
             \/ Unexpected(c, r)
       /\ UNCHANGED name

-----------------------------------------------------------------------------
(* ipc_server_service, one slot after the other                            *)

\* The results of poll for this slot are used up.
Advance ==
    /\ IF cur = MaxClients THEN pc' = "poll" /\ cur' = 1
                           ELSE pc' = "service" /\ cur' = cur + 1
    /\ slot_map' = [slot_map EXCEPT ![cur] = None]
    /\ revents' = [in |-> revents.in \ {cur}, hup |-> revents.hup \ {cur}]

\* The slot was not polled, or now holds another connection.
SkipSlot ==
    /\ pc = "service"
    /\ slot_map[cur] = None \/ clients[cur] # slot_map[cur]
    /\ Advance
    /\ UNCHANGED <<clientvars, stream, output, table, should_close, sat>>

\* The hang-up test and the recv loop, which stops when the socket has no
\* more (and then notices the end of the stream) or when rxbuf is full (it
\* holds at least one frame).
ServiceSlot ==
    LET c == clients[cur] IN
    /\ pc = "service"
    /\ slot_map[cur] # None /\ c = slot_map[cur]
    /\ pc' = "handle"
    /\ \/ /\ cur \in revents.hup
          /\ should_close' = should_close \cup {c}
          /\ UNCHANGED recvd
       \/ /\ cur \notin revents.hup
          /\ c \in should_close \/ cur \notin revents.in
          /\ UNCHANGED <<should_close, recvd>>
       \/ /\ cur \in revents.in \ revents.hup /\ c \notin should_close
          /\ \/ /\ recvd' = [recvd EXCEPT ![c] = Len(sent[c])]
                /\ should_close' = IF Hup(c) THEN should_close \cup {c}
                                             ELSE should_close
             \/ /\ \E n \in recvd[c] + 1 .. Len(sent[c]) :
                      recvd' = [recvd EXCEPT ![c] = n]
                /\ UNCHANGED should_close
    /\ UNCHANGED <<clientvars, handled, output, table, sat, loop, cur>>

\* One complete frame of rxbuf.
HandleFrame ==
    LET c == clients[cur]
        r == sent[c][handled[c] + 1] IN
    /\ pc = "handle"
    /\ c \notin should_close /\ handled[c] < recvd[c]
    /\ \/ /\ r.type # "OVERSIZED"
          /\ handle_message(c, r)
          /\ handled' = [handled EXCEPT ![c] = @ + 1]
       \/ /\ r.type = "OVERSIZED"
          /\ should_close' = should_close \cup {c}
          /\ UNCHANGED <<handled, name, sat, output>>
    /\ UNCHANGED <<clientvars, recvd, clients, gone, pc, loop, cur>>

\* The loop over rxbuf is over, or did not start: no complete frame is left,
\* or the connection is to be closed.
FramesDone(c) == pc = "handle" /\ (c \in should_close \/ handled[c] = recvd[c])

\* flush_tx sends what the socket takes, in order.
FlushSlot ==
    LET c == clients[cur] IN
    /\ FramesDone(c)
    /\ c \notin should_close
    /\ client[c] # "closed" \/ tx[c] = <<>>
    /\ \E m \in 0 .. Len(tx[c]) :
          /\ wire' = [wire EXCEPT ![c] = @ \o SubSeq(tx[c], 1, m)]
          /\ tx' = [tx EXCEPT ![c] = SubSeq(@, m + 1, Len(@))]
    /\ Advance
    /\ UNCHANGED <<clientvars, stream, routed, table, should_close, sat>>

\* Fault: the slot is not cleared.
CloseSlotKept ==
    LET c == clients[cur] IN
    /\ FramesDone(c)
    /\ c \in should_close \/ (client[c] = "closed" /\ tx[c] # <<>>)
    /\ gone' = gone \cup {c}
    /\ should_close' = should_close \ {c}
    /\ tx' = [tx EXCEPT ![c] = <<>>]
    /\ Advance
    /\ UNCHANGED <<clientvars, stream, wire, routed, clients, name, sat>>

\* close_client, for a marked connection or one whose flush got EPIPE.
CloseSlot ==
    LET c == clients[cur] IN
    /\ FramesDone(c)
    /\ c \in should_close \/ (client[c] = "closed" /\ tx[c] # <<>>)
    /\ clients' = [clients EXCEPT ![cur] = None]
    /\ gone' = gone \cup {c}
    /\ should_close' = should_close \ {c}
    /\ tx' = [tx EXCEPT ![c] = <<>>]
    /\ Advance
    /\ UNCHANGED <<clientvars, stream, wire, routed, name, sat>>

\* ipc_server_destroy, when main leaves its loop.
Destroy ==
    /\ pc = "poll"
    /\ pc' = "down"
    /\ gone' = gone \cup {c \in Conns : InUse(c)} \cup {backlog[i] : i \in DOMAIN backlog}
    /\ clients' = [s \in Slots |-> None]
    /\ backlog' = <<>>
    /\ tx' = [c \in Conns |-> <<>>]
    /\ should_close' = {}
    /\ UNCHANGED <<client, sent, stream, wire, routed, name, sat, loop, cur>>

Clients ==
    \E c \in Conns :
        \/ Connect(c) \/ Close(c)
        \/ \E n \in DOMAIN Requests[c] : \E r \in Requests[c][n] : Write(c, r)

Server == \/ CollectAndPoll \/ Accept
          \/ SkipSlot \/ ServiceSlot \/ HandleFrame \/ FlushSlot \/ CloseSlot

IpcNext == Clients \/ Server \/ Destroy

IpcSpec == IpcInit /\ [][IpcNext]_ipcvars

\* The daemon's thread keeps running (poll returns at the latest after
\* DAEMON_TICK_MS); the clients promise nothing.
IpcFairSpec == IpcSpec /\ WF_ipcvars(Server)

-----------------------------------------------------------------------------
(* Properties *)

\* Every variable keeps its type; the positions in a client's stream are in
\* order, and append_tx keeps the backlog within TX_BACKLOG_LIMIT.
IpcTypeOK ==
    /\ client \in [Conns -> {"new", "open", "closed"}]
    /\ \A c \in Conns : /\ sent[c] \in Seq(Request)
                        /\ wire[c] \in Seq(Reply) /\ tx[c] \in Seq(Reply)
                        /\ handled[c] <= recvd[c] /\ recvd[c] <= Len(sent[c])
                        /\ Size(tx[c]) <= TxLimit
    /\ clients \in [Slots -> Conns \cup {None}]
    /\ name \in [Conns -> Names \cup {None}]
    /\ should_close \subseteq Conns /\ gone \subseteq Conns
    /\ sat \in Values
    /\ pc \in {"poll", "accept", "service", "handle", "down"}
    /\ cur \in Slots

\* find_client_by_name is unambiguous: no two connections in the table are
\* registered under the same name, however clients connect, close and reuse
\* names and slots.
UniqueNames ==
    \A s, t \in Slots :
        /\ clients[s] # None /\ clients[t] # None
        /\ name[clients[s]] # None /\ name[clients[s]] = name[clients[t]]
        => s = t

\* A connection is in one slot at most, and never in one after it was closed.
OneSlotEach ==
    \A s, t \in Slots :
        clients[s] # None =>
            /\ clients[s] = clients[t] => s = t
            /\ clients[s] \notin gone

\* The results of poll are applied to the connections they are about: a slot
\* that was polled and has not been serviced yet still holds the connection
\* that collect_pollfds found in it, whatever was accepted or closed since.
SlotMapFresh ==
    \A s \in Slots : slot_map[s] # None => clients[s] = slot_map[s]

\* What a client receives is what queue_send was given for it, from the first
\* frame on, without gaps, duplicates or reordering; and nothing is missing as
\* long as the connection has not been given up (should_close).
NoGaps ==
    \A c \in Conns :
        /\ Len(wire[c]) <= Len(routed[c])
        /\ wire[c] = SubSeq(routed[c], 1, Len(wire[c]))
        /\ InUse(c) /\ c \notin should_close => routed[c] = wire[c] \o tx[c]

\* A DELIVER that reaches a client stems from a SEND that was addressed to the
\* name this client registered, carries the name under which its sender is
\* registered, and arrives after the earlier ones of the same sender.
DeliveredAsSent ==
    \A c \in Conns : \A i \in DOMAIN wire[c] :
        LET f == wire[c][i] IN
        f.type = "DELIVER" =>
            /\ f.seq \in DOMAIN sent[f.from]
            /\ sent[f.from][f.seq].type = "SEND"
            /\ sent[f.from][f.seq].name = name[c]
            /\ f.src = name[f.from] /\ f.src # None
            /\ \A j \in 1 .. i - 1 : wire[c][j].from = f.from => wire[c][j].seq < f.seq

\* handle_message accounts for every request exactly once: each is answered
\* to its sender or, for a SEND, forwarded to one connection.
EveryRequestAnswered ==
    \A c \in Conns :
        handled[c] = Cardinality({i \in DOMAIN routed[c] : routed[c][i].type # "DELIVER"})
                   + Cardinality({p \in Conns \X (1 .. handled[c]) :
                         \E i \in DOMAIN routed[p[1]] :
                             routed[p[1]][i].from = c /\ routed[p[1]][i].seq = p[2]})

\* The slot of a client that closed its end is given back.
DeadClientsLeave == \A c \in Conns : client[c] = "closed" ~> ~InUse(c)

\* The request after the first n of connection c is waiting.
Waiting(c, n) == InUse(c) /\ handled[c] = n /\ n < Len(sent[c])

\* A request does not wait for ever: it is handled or the connection is
\* closed, whatever the other clients do.
RequestsServed ==
    \A c \in Conns : \A n \in 0 .. Len(Requests[c]) : Waiting(c, n) ~> ~Waiting(c, n)

=============================================================================
