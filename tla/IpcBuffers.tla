----------------------------- MODULE IpcBuffers -----------------------------
(***************************************************************************)
(* The bytes below the frames of module IpcServer: one client sends to      *)
(* another through the buffers of ipc_server.c.  Frames arrive in pieces,   *)
(* the receiver's socket takes pieces, and rxbuf and txbuf hold the rest.   *)
(* The service of the sender's connection is two kinds of steps, the recv() *)
(* loop and one turn of the frame loop; clients run in between.             *)
(***************************************************************************)
EXTENDS Naturals, Sequences

CONSTANTS
    Hdr, Body,     \* sizeof(daemon_hdr_t); sizeof of a send or deliver body
    MaxPayload,    \* DAEMON_MAX_MSG_PAYLOAD
    Limit, MinCap, \* TX_BACKLOG_LIMIT, TX_MIN_CAP
    DataLens,      \* lengths of data that are passed to daemon_client_send
    BufSizes,      \* sizes of the buffers that are passed to daemon_recv
    SockSize,      \* bytes the receiver's socket holds
    MaxMessages    \* bound: messages sent

ASSUME BuffersAssumption ==
    /\ {Hdr, Body, MinCap, SockSize} \subseteq Nat \ {0}
    /\ {MaxPayload, Limit, MaxMessages} \subseteq Nat
    /\ DataLens \subseteq Nat /\ BufSizes \subseteq Nat
    /\ Body <= MaxPayload

RxSize == Hdr + MaxPayload

VARIABLES
    sent,          \* lengths of the messages daemon_client_send accepted
    wire,          \* bytes on the way to the daemon
    sender,        \* the sender's connection: "open", "closed" by the daemon
    rxbuf,         \* the first rx_len bytes of its rxbuf
    svc,           \* the daemon is in "poll", or in the frame loop: "frames"
    txbuf,         \* the first tx_len bytes of the receiver's txbuf
    tx_sent, tx_cap,
    receiver,      \* its connection: "open", "closing" (should_close), "closed"
    gone,          \* the receiver has closed its socket
    nomem,         \* memory ran out in realloc or send
    sock,          \* bytes in the receiver's socket
    got            \* the frames the receiver took, and whether they fitted

tx == <<txbuf, tx_sent, tx_cap>>
bufvars == <<sent, wire, sender, rxbuf, svc, tx, receiver, gone, nomem, sock, got>>

\* The bytes of the id-th message, with a payload of len bytes.
FrameBytes(id, len) ==
    [i \in 1 .. Hdr + len |-> [id |-> id, len |-> len, pos |-> i - 1]]

\* What daemon_hdr_t at the start of b says; anything, if no frame starts there.
Lengths(b) == IF b[1].pos = 0 THEN {b[1].len} ELSE 0 .. MaxPayload + 1

BufInit ==
    /\ sent = <<>> /\ wire = <<>> /\ sender = "open" /\ rxbuf = <<>> /\ svc = "poll"
    /\ txbuf = <<>> /\ tx_sent = 0 /\ tx_cap = 0
    /\ receiver = "open" /\ gone = FALSE /\ nomem = FALSE /\ sock = <<>> /\ got = <<>>

-----------------------------------------------------------------------------
(* The clients                                                             *)

\* daemon_client_send refuses what its own buffer cannot hold.  daemon_send
\* writes header and payload; recv() below cuts the stream where it likes.
client_send(n) ==
    /\ Len(sent) < MaxMessages /\ n <= MaxPayload
    /\ sent' = Append(sent, n)
    /\ wire' = IF sender = "open" THEN wire \o FrameBytes(Len(sent) + 1, Body + n) ELSE wire
    /\ UNCHANGED <<sender, rxbuf, svc, tx, receiver, gone, nomem, sock, got>>

\* Fault: a payload that does not fit is left in the stream.
ConsumedHeaderOnly(len, size) == IF len > size THEN Hdr ELSE Hdr + len

\* What daemon_recv takes from the stream: a payload that does not fit is drained.
Consumed(len, size) == Hdr + len

daemon_recv(size) ==
    /\ ~gone /\ Len(sock) >= Hdr
    /\ \E len \in Lengths(sock) :
          /\ Len(sock) >= Hdr + len
          /\ got' = Append(got, [id |-> IF sock[1].pos = 0 THEN sock[1].id ELSE 0,
                                 ok |-> len <= size])
          /\ sock' = SubSeq(sock, Consumed(len, size) + 1, Len(sock))
    /\ UNCHANGED <<sent, wire, sender, rxbuf, svc, tx, receiver, gone, nomem>>

\* The receiver ends.
Close ==
    /\ ~gone /\ gone' = TRUE /\ sock' = <<>>
    /\ UNCHANGED <<sent, wire, sender, rxbuf, svc, tx, receiver, nomem, got>>

-----------------------------------------------------------------------------
(* Output buffering                                                        *)

\* The capacities that start, doubled until it is enough, can be: one.
Doubled(start, needed) ==
    {c \in 0 .. 2 * (Limit + MinCap) :
        /\ c >= needed /\ (c = start \/ c < 2 * needed)
        /\ \E i \in 0 .. Limit : c = start * 2^i}

\* Fault: the capacity is doubled once.
NewCapsOnce(needed) ==
    {IF needed <= tx_cap THEN tx_cap ELSE IF tx_cap = 0 THEN MinCap ELSE 2 * tx_cap}

\* The capacity for needed bytes: grown, or shrunk when three quarters are
\* idle (a realloc that fails to shrink is ignored), or as it is.
NewCaps(needed) ==
    IF needed > tx_cap THEN Doubled(IF tx_cap = 0 THEN MinCap ELSE 2 * tx_cap, needed)
    ELSE {tx_cap} \cup
         (IF tx_cap > MinCap /\ needed < tx_cap \div 4
          THEN {c \in Doubled(MinCap, needed) : c < tx_cap} ELSE {})

\* append_tx, and should_close of its callers when it fails.
append_tx(bytes) ==
    LET kept   == SubSeq(txbuf, tx_sent + 1, Len(txbuf))
        needed == Len(kept) + Len(bytes)
    IN
    /\ tx_sent' = 0
    /\ \/ /\ needed <= Limit
          /\ tx_cap' \in NewCaps(needed)
          /\ txbuf' = kept \o bytes
          /\ UNCHANGED <<receiver, nomem>>
       \/ /\ needed > Limit \/ needed > tx_cap
          /\ nomem' = (nomem \/ needed <= Limit)
          /\ receiver' = "closing"
          /\ txbuf' = kept
          /\ UNCHANGED tx_cap

\* Nothing pending: send at once, and buffer what the socket does not take.
queue_send(frame) ==
    \/ /\ tx_sent = Len(txbuf)
       /\ \/ /\ ~gone
             /\ \E n \in 0 .. Len(frame) :
                   /\ Len(sock) + n <= SockSize
                   /\ sock' = sock \o SubSeq(frame, 1, n)
                   /\ IF n = Len(frame) THEN UNCHANGED <<tx, receiver, nomem>>
                      ELSE append_tx(SubSeq(frame, n + 1, Len(frame)))
          \/ /\ nomem' = (nomem \/ ~gone)
             /\ receiver' = "closing"
             /\ UNCHANGED <<tx, sock>>
    \/ /\ tx_sent < Len(txbuf)
       /\ append_tx(frame)
       /\ UNCHANGED sock

\* The service of the receiver's connection, when it is its turn: flush_tx, or
\* close_client when it is doomed or has hung up.
FlushReceiver ==
    /\ svc = "poll"
    /\ \/ /\ receiver = "open" /\ ~gone
          /\ \E n \in 1 .. Len(txbuf) - tx_sent :
                /\ Len(sock) + n <= SockSize
                /\ sock' = sock \o SubSeq(txbuf, tx_sent + 1, tx_sent + n)
                /\ txbuf' = IF tx_sent + n = Len(txbuf) THEN <<>> ELSE txbuf
                /\ tx_sent' = IF tx_sent + n = Len(txbuf) THEN 0 ELSE tx_sent + n
          /\ UNCHANGED <<tx_cap, receiver>>
       \/ /\ receiver = "closing" \/ (receiver = "open" /\ gone)
          /\ receiver' = "closed"
          /\ txbuf' = <<>> /\ tx_sent' = 0 /\ tx_cap' = 0
          /\ UNCHANGED sock
    /\ UNCHANGED <<sent, wire, sender, rxbuf, svc, gone, nomem, got>>

-----------------------------------------------------------------------------
(* The service of the sender's connection                                  *)

\* The recv() loop: it ends when nothing more is there or rxbuf is full.  A
\* recv() of 0 bytes returns 0, like one at the end of the stream.
Receive ==
    /\ svc = "poll" /\ sender = "open" /\ wire # <<>>
    /\ \E k \in 0 .. Len(wire) :
          /\ Len(rxbuf) + k <= RxSize
          /\ k = 0 => Len(rxbuf) = RxSize
          /\ sender' = IF k = 0 THEN "closed" ELSE "open"
          /\ rxbuf' = rxbuf \o SubSeq(wire, 1, k)
          /\ wire' = SubSeq(wire, k + 1, Len(wire))
          /\ svc' = IF k = 0 THEN "poll" ELSE "frames"
    /\ UNCHANGED <<sent, tx, receiver, gone, nomem, sock, got>>

\* Fault: the test is off by one.
OversizedEqual(len) == len >= MaxPayload

Oversized(len) == len > MaxPayload

\* Fault: a frame that fills the buffer is taken for an incomplete one.
CompleteBeyond(len) == Len(rxbuf) > Hdr + len

Complete(len) == Len(rxbuf) >= Hdr + len

\* Fault: one frame per round.
AfterFrameOnce == "poll"

\* Where the frame loop goes on after a frame.
AfterFrame == "frames"

\* One turn of the frame loop: close, handle a DMSG_SEND and move the rest to
\* the front, or leave the loop.  Without the receiver the sender is told.
HandleFrame ==
    /\ svc = "frames"
    /\ \/ \E len \in IF Len(rxbuf) < Hdr THEN {} ELSE Lengths(rxbuf) :
             \/ /\ Oversized(len)
                /\ sender' = "closed" /\ rxbuf' = <<>> /\ wire' = <<>> /\ svc' = "poll"
                /\ UNCHANGED <<tx, receiver, nomem, sock>>
             \/ /\ ~Oversized(len) /\ Complete(len)
                /\ rxbuf' = SubSeq(rxbuf, Hdr + len + 1, Len(rxbuf))
                /\ svc' = AfterFrame
                /\ IF receiver = "closed" THEN UNCHANGED <<tx, receiver, nomem, sock>>
                   ELSE queue_send(SubSeq(rxbuf, 1, Hdr + len))
                /\ UNCHANGED <<wire, sender>>
             \/ /\ ~Oversized(len) /\ ~Complete(len)
                /\ svc' = "poll"
                /\ UNCHANGED <<wire, sender, rxbuf, tx, receiver, nomem, sock>>
       \/ /\ Len(rxbuf) < Hdr
          /\ svc' = "poll"
          /\ UNCHANGED <<wire, sender, rxbuf, tx, receiver, nomem, sock>>
    /\ UNCHANGED <<sent, gone, got>>

BufNext ==
    \/ \E n \in DataLens : client_send(n)
    \/ \E size \in BufSizes : daemon_recv(size)
    \/ Close \/ FlushReceiver \/ Receive \/ HandleFrame

BufSpec == BufInit /\ [][BufNext]_bufvars

\* The daemon's loop turns, and the receiver reads.
BufFairSpec ==
    /\ BufSpec
    /\ WF_bufvars(FlushReceiver) /\ WF_bufvars(Receive) /\ WF_bufvars(HandleFrame)
    /\ WF_bufvars(\E size \in BufSizes : daemon_recv(size))

-----------------------------------------------------------------------------
(* Properties *)

\* append_tx copies within the buffer it allocated, and what flush_tx sends is
\* within what was copied: tx_sent <= tx_len <= tx_cap and tx_len <= the limit.
TxInBounds ==
    /\ tx_sent <= Len(txbuf) /\ Len(txbuf) <= tx_cap /\ Len(txbuf) <= Limit

\* Whenever the service of a connection begins there is room in rxbuf: recv() is
\* never asked for 0 bytes, whose result would be taken for a hang-up.
RoomToReceive == svc = "poll" => Len(rxbuf) < RxSize

\* A connection is closed for an oversized frame only if its client passed more
\* to daemon_client_send than fits a frame with its destination.
ConformingKept == sender = "closed" => \E i \in DOMAIN sent : Body + sent[i] > MaxPayload

\* The receiver takes the sender's frames from its stream whole, in order and
\* without a gap, wherever the stream is cut, whether or not a frame fits its
\* buffer, and however its connection ends; unless memory ran out in between.
FramesIntact == ~nomem => \A i \in DOMAIN got : got[i].id = i

\* Every message arrives, or one of the two connections ends: none is left in
\* a buffer that nothing empties.
AllArrive ==
    \A k \in 1 .. MaxMessages :
        Len(sent) >= k ~> \/ Len(got) >= k \/ sender = "closed"
                          \/ receiver = "closed" \/ gone
=============================================================================
