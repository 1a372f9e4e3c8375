------------------------------- MODULE BulkRx -------------------------------
(***************************************************************************)
(* handle_bulk_chunk of payload_app.c: the reassembly of the bulk transfers *)
(* that arrive from the on-board computer, one session for experiment      *)
(* tables and one for control algorithms.                                  *)
(*                                                                         *)
(* A chunk is its header, which stands for the data as well: a chunk that  *)
(* is sent again carries the data it carried before.  The header holds     *)
(* whatever the sender wrote there; the code compares the sequence number  *)
(* with the size of its buffers, not with the total, and the totals of two *)
(* chunks not at all.  Chunks arrive in any order, any number of times,    *)
(* mixed with those of other transfers, or never.                          *)
(***************************************************************************)
EXTENDS Naturals, FiniteSets

CONSTANTS
    Sessions,      \* g_exp_table_rx and g_ctrl_algo_rx
    Chunks,        \* the chunks a sender may send
    MaxChunks,     \* BULK_RX_MAX_CHUNKS
    NoChunk

\* The header of a chunk; big says that its n exceeds MAX_CHUNK_DATA.
Header == [tid : Nat, seq : Nat, total : Nat, big : BOOLEAN]

ASSUME BulkRxAssumption ==
    /\ MaxChunks \in Nat
    /\ Chunks \subseteq Header /\ NoChunk \notin Chunks

VARIABLES
    \* bulk_rx_t of each session
    active, transfer_id, total_chunks, chunks_received, seen, data,
    assembled      \* history: what was assembled and acknowledged

session == <<active, transfer_id, total_chunks, chunks_received, seen, data>>
bulkrx  == <<session, assembled>>

Places == 0 .. MaxChunks - 1

\* Static storage: the sessions of a process that has just been started.
Each(v) == [s \in Sessions |-> v]
Empty   == [i \in Places |-> NoChunk]

BulkRxInit ==
    /\ active = Each(FALSE) /\ transfer_id = Each(0) /\ total_chunks = Each(0)
    /\ chunks_received = Each(0) /\ seen = Each({}) /\ data = Each(Empty)
    /\ assembled = {}

\* The chunk does not belong to the transfer under way.
Fresh(s, c) == ~active[s] \/ transfer_id[s] # c.tid

\* seen[], chunks_received and total_chunks when the chunk is looked at: a
\* fresh one has cleared them (but not data[]).
SeenAt(s, c)  == IF Fresh(s, c) THEN {} ELSE seen[s]
CountAt(s, c) == IF Fresh(s, c) THEN 0 ELSE chunks_received[s]
TotalAt(s, c) == IF Fresh(s, c) THEN c.total ELSE total_chunks[s]

ExceedsLimits(c) == c.seq >= MaxChunks \/ c.total > MaxChunks \/ c.big

\* Fault: a chunk that arrives twice is counted twice.
CountWithDuplicates(s, c) == CountAt(s, c) + 1

\* chunks_received after the chunk.
CountWith(s, c) == CountAt(s, c) + (IF c.seq \in SeenAt(s, c) THEN 0 ELSE 1)

\* data[] after the chunk.
DataWith(s, c) == IF c.seq \in SeenAt(s, c) THEN data[s] ELSE [data[s] EXCEPT ![c.seq] = c]

\* This chunk is the last one that was missing.
Completes(s, c) == ~ExceedsLimits(c) /\ CountWith(s, c) >= TotalAt(s, c)

\* The transfer as it is put together: the first total_chunks places of data[].
Assembly(s, c) == [tid |-> c.tid, total |-> TotalAt(s, c),
                   data |-> [i \in 0 .. TotalAt(s, c) - 1 |-> DataWith(s, c)[i]]]

handle_bulk_chunk(s, c) ==
    /\ transfer_id' = [transfer_id EXCEPT ![s] = c.tid]
    /\ total_chunks' = [total_chunks EXCEPT ![s] = TotalAt(s, c)]
    /\ active' = [active EXCEPT ![s] = ~ExceedsLimits(c) /\ ~Completes(s, c)]
    /\ \/ /\ ExceedsLimits(c)
          /\ chunks_received' = [chunks_received EXCEPT ![s] = CountAt(s, c)]
          /\ seen' = [seen EXCEPT ![s] = SeenAt(s, c)]
          /\ UNCHANGED data
       \/ /\ ~ExceedsLimits(c)
          /\ chunks_received' = [chunks_received EXCEPT ![s] = CountWith(s, c)]
          /\ seen' = [seen EXCEPT ![s] = SeenAt(s, c) \cup {c.seq}]
          /\ data' = [data EXCEPT ![s] = DataWith(s, c)]
    /\ assembled' = IF Completes(s, c) THEN assembled \cup {Assembly(s, c)}
                                       ELSE assembled

\* The process ends, and its successor starts with cleared sessions.
ForgetSessions ==
    /\ active' = Each(FALSE) /\ transfer_id' = Each(0) /\ total_chunks' = Each(0)
    /\ chunks_received' = Each(0) /\ seen' = Each({}) /\ data' = Each(Empty)
    /\ UNCHANGED assembled

BulkRxNext ==
    \/ \E s \in Sessions, c \in Chunks : handle_bulk_chunk(s, c)
    \/ ForgetSessions

BulkRxSpec == BulkRxInit /\ [][BulkRxNext]_bulkrx

-----------------------------------------------------------------------------
(* Properties *)

\* The sender numbers the chunks of transfer t as send_bulk does: below the
\* total, which is the same in each of them.
Consistent(t) ==
    \A c, d \in Chunks : c.tid = t /\ d.tid = t => c.seq < c.total /\ c.total = d.total

\* What handle_bulk_chunk puts together and acknowledges is the transfer that
\* was sent: all of its chunks, each in its place and none of another transfer
\* or of an earlier session, although the code only counts chunks and neither
\* data[] nor chunk_len[] is cleared between sessions.  This needs a transfer that
\* is consistently numbered, and holds for it whatever else arrives in between;
\* and however a transfer is numbered, no more than the places of data[] is read.
AssembledAsSent ==
    \A a \in assembled :
        /\ a.total <= MaxChunks
        /\ Consistent(a.tid) =>
              \A i \in 0 .. a.total - 1 :
                 /\ a.data[i] \in Chunks
                 /\ a.data[i].tid = a.tid /\ a.data[i].seq = i /\ a.data[i].total = a.total
=============================================================================
