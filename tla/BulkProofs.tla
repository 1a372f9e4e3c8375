----------------------------- MODULE BulkProofs -----------------------------
(***************************************************************************)
(* Theorems about bulk transfers, for any sender, any number of sessions    *)
(* and chunks, and integers of any width.                                  *)
(***************************************************************************)
EXTENDS BulkRx, BulkTx, FiniteSetTheorems, TLAPS

\* The provers' time limits, for the leaves that do not name a prover.
USE ZenonT(10), SMTT(60)

RxTypeOK ==
    /\ active \in [Sessions -> BOOLEAN]
    /\ transfer_id \in [Sessions -> Nat] /\ total_chunks \in [Sessions -> Nat]
    /\ chunks_received \in [Sessions -> Nat]
    /\ seen \in [Sessions -> SUBSET Places]
    /\ data \in [Sessions -> [Places -> Chunks \cup {NoChunk}]]

\* d is the q-th chunk of transfer t, which has n chunks.
ChunkOf(d, t, n, q) == d \in Chunks /\ d.tid = t /\ d.seq = q /\ d.total = n

\* A session under way is no larger than the buffers.  When its transfer is
\* consistently numbered: the transfer exists, the chunks that were seen are places
\* of it and are counted once each, and data[] holds them.
SessionOK(s) ==
    /\ total_chunks[s] <= MaxChunks
    /\ Consistent(transfer_id[s]) =>
          /\ \E c \in Chunks : c.tid = transfer_id[s] /\ c.total = total_chunks[s]
          /\ seen[s] \subseteq 0 .. total_chunks[s] - 1
          /\ chunks_received[s] = Cardinality(seen[s])
          /\ \A q \in seen[s] : ChunkOf(data[s][q], transfer_id[s], total_chunks[s], q)

RxInv ==
    /\ RxTypeOK
    /\ \A s \in Sessions : active[s] => SessionOK(s)
    /\ AssembledAsSent

-----------------------------------------------------------------------------

\* A chunk that is within the limits is stored within the buffers, whatever the
\* numbering: in a place of data[], in a session whose total is no larger.
LEMMA WithinBuffers ==
    ASSUME RxInv, NEW s \in Sessions, NEW c \in Chunks, ~ExceedsLimits(c)
    PROVE  /\ TotalAt(s, c) \in Nat /\ TotalAt(s, c) <= MaxChunks
           /\ SeenAt(s, c) \cup {c.seq} \in SUBSET Places
           /\ CountWith(s, c) \in Nat
           /\ DataWith(s, c) \in [Places -> Chunks \cup {NoChunk}]
<1> USE BulkRxAssumption
<1>1. c.tid \in Nat /\ c.seq \in Nat /\ c.total \in Nat
  BY DEF Header
<1>2. c.seq \in Places /\ c.total <= MaxChunks
  BY <1>1, SMTT(60) DEF ExceedsLimits, Places
<1>3. TotalAt(s, c) \in Nat /\ TotalAt(s, c) <= MaxChunks
  BY <1>1, <1>2, SMTT(60) DEF RxInv, RxTypeOK, TotalAt, Fresh, SessionOK
<1>4. SeenAt(s, c) \in SUBSET Places /\ CountAt(s, c) \in Nat
  BY DEF SeenAt, CountAt, RxInv, RxTypeOK
<1>5. CountWith(s, c) \in Nat
  BY <1>4, SMTT(60) DEF CountWith
<1>6. DataWith(s, c) \in [Places -> Chunks \cup {NoChunk}]
  <2>1. data[s] \in [Places -> Chunks \cup {NoChunk}]
    BY DEF RxInv, RxTypeOK
  <2> QED
    BY <1>2, <2>1 DEF DataWith
<1> QED
  BY <1>2, <1>3, <1>4, <1>5, <1>6

\* What handle_bulk_chunk knows of a chunk of a consistently numbered transfer that
\* is within the limits, after it has stored it: the count is that of the places
\* seen, each of which holds its chunk of this transfer, whether the session is new
\* or goes on.
LEMMA Stored ==
    ASSUME RxInv, NEW s \in Sessions, NEW c \in Chunks, ~ExceedsLimits(c), Consistent(c.tid)
    PROVE  LET S == SeenAt(s, c) \cup {c.seq}
           IN  /\ TotalAt(s, c) = c.total
               /\ S \subseteq 0 .. c.total - 1
               /\ CountWith(s, c) = Cardinality(S)
               /\ \A q \in S : ChunkOf(DataWith(s, c)[q], c.tid, c.total, q)
<1> DEFINE S == SeenAt(s, c) \cup {c.seq}
<1> USE BulkRxAssumption
<1>1. c.tid \in Nat /\ c.seq \in Nat /\ c.total \in Nat /\ c.seq < c.total
  BY DEF Header, Consistent
<1>2. c.seq \in Places /\ c.total <= MaxChunks
  BY <1>1, SMTT(60) DEF ExceedsLimits, Places
<1>3. TotalAt(s, c) = c.total
  BY SMTT(60) DEF RxInv, TotalAt, Fresh, SessionOK, Consistent
<1>4. /\ SeenAt(s, c) \subseteq 0 .. c.total - 1
      /\ CountAt(s, c) = Cardinality(SeenAt(s, c))
      /\ \A q \in SeenAt(s, c) : ChunkOf(data[s][q], c.tid, c.total, q)
  <2>1. CASE Fresh(s, c)
    BY <2>1, FS_EmptySet DEF SeenAt, CountAt
  <2>2. CASE ~Fresh(s, c)
    BY <2>2, <1>3 DEF SeenAt, CountAt, TotalAt, Fresh, RxInv, SessionOK
  <2> QED
    BY <2>1, <2>2
<1>5. S \subseteq 0 .. c.total - 1
  BY <1>1, <1>4, SMTT(60)
<1>6. S \in SUBSET Places
  BY WithinBuffers
<1>7. IsFiniteSet(SeenAt(s, c))
  <2>1. IsFiniteSet(0 .. c.total - 1)
    BY <1>1, FS_Interval, SMTT(60)
  <2> QED
    BY <2>1, <1>4, FS_Subset, ZenonT(60)
<1>8. CountWith(s, c) = Cardinality(S)
  <2>1. Cardinality(SeenAt(s, c)) \in Nat
    BY <1>7, FS_CardinalityType
  <2>2. Cardinality(S) = IF c.seq \in SeenAt(s, c) THEN Cardinality(SeenAt(s, c))
                                                   ELSE Cardinality(SeenAt(s, c)) + 1
    BY <1>7, FS_AddElement, ZenonT(60)
  <2> QED
    BY <2>1, <2>2, <1>4, SMTT(60) DEF CountWith
<1>9. data[s] \in [Places -> Chunks \cup {NoChunk}]
  BY DEF RxInv, RxTypeOK
<1>10. ASSUME NEW q \in S PROVE ChunkOf(DataWith(s, c)[q], c.tid, c.total, q)
  <2>1. CASE q \in SeenAt(s, c)
    <3>1. q \in Places
      BY <1>6
    <3>2. DataWith(s, c)[q] = data[s][q]
      BY <2>1, <3>1, <1>9, <1>2 DEF DataWith
    <3> QED
      BY <3>2, <2>1, <1>4
  <2>2. CASE q \notin SeenAt(s, c)
    <3>1. q = c.seq
      BY <2>2
    <3>2. DataWith(s, c)[q] = c
      BY <2>2, <3>1, <1>2, <1>9 DEF DataWith
    <3> QED
      BY <3>1, <3>2 DEF ChunkOf
  <2> QED
    BY <2>1, <2>2
<1> QED
  BY <1>3, <1>5, <1>8, <1>10

\* When the count reaches total_chunks no place can be missing, because the
\* places are distinct and below total_chunks: what is put together is the
\* transfer.
LEMMA CompleteIsWhole ==
    ASSUME RxInv, NEW s \in Sessions, NEW c \in Chunks, Completes(s, c), Consistent(c.tid)
    PROVE  \A i \in 0 .. Assembly(s, c).total - 1 :
              ChunkOf(Assembly(s, c).data[i], Assembly(s, c).tid, Assembly(s, c).total, i)
<1> DEFINE S == SeenAt(s, c) \cup {c.seq}
<1> USE BulkRxAssumption
<1>1. c.total \in Nat \ {0}
  BY SMTT(60) DEF Header, Consistent
<1>2. /\ TotalAt(s, c) = c.total /\ S \subseteq 0 .. c.total - 1
      /\ CountWith(s, c) = Cardinality(S) /\ CountWith(s, c) >= c.total
      /\ \A q \in S : ChunkOf(DataWith(s, c)[q], c.tid, c.total, q)
  BY Stored, ZenonT(60) DEF Completes
<1>3. IsFiniteSet(0 .. c.total - 1) /\ Cardinality(0 .. c.total - 1) = c.total
  <2>1. /\ IsFiniteSet(0 .. c.total - 1)
        /\ Cardinality(0 .. c.total - 1) = IF 0 > c.total - 1 THEN 0 ELSE (c.total - 1) - 0 + 1
    <3>1. 0 \in Int /\ c.total - 1 \in Int
      BY <1>1, SMTT(60)
    <3> QED
      BY <3>1, FS_Interval, ZenonT(60)
  <2> QED
    BY <1>1, <2>1, SMTT(60)
<1>4. Cardinality(S) \in Nat /\ Cardinality(S) <= c.total
  BY <1>2, <1>3, FS_Subset, FS_CardinalityType, SMTT(20)
<1>5. S = 0 .. c.total - 1
  <2>1. Cardinality(S) = Cardinality(0 .. c.total - 1)
    <3> HIDE DEF S
    <3> QED
      BY <1>1, <1>2, <1>3, <1>4, SMTT(60)
  <2> QED
    BY <2>1, <1>2, <1>3, FS_Subset, ZenonT(60)
<1> QED
  BY <1>2, <1>5 DEF Assembly

-----------------------------------------------------------------------------

\* The sessions of a new process are not active.
LEMMA RxInvInit == BulkRxInit => RxInv
BY BulkRxAssumption, SMTT(60) DEF BulkRxInit, RxInv, RxTypeOK, AssembledAsSent, Each, Empty, Places

\* handle_bulk_chunk preserves the invariant: of the session it works on, of the
\* other sessions, and of what was assembled.
LEMMA RxInvChunk ==
    ASSUME RxInv, NEW s \in Sessions, NEW c \in Chunks, handle_bulk_chunk(s, c)
    PROVE  RxInv'
<1> DEFINE S == SeenAt(s, c) \cup {c.seq}
<1>1. c.tid \in Nat /\ c.total \in Nat
  BY BulkRxAssumption DEF Header
<1>2. TotalAt(s, c) \in Nat /\ CountAt(s, c) \in Nat /\ SeenAt(s, c) \in SUBSET Places
  BY <1>1 DEF TotalAt, CountAt, SeenAt, RxInv, RxTypeOK
<1>3. CASE ExceedsLimits(c)
  <2>1. RxTypeOK'
    <3>1. active' \in [Sessions -> BOOLEAN]
      BY <1>3 DEF RxInv, RxTypeOK, handle_bulk_chunk, Completes
    <3> QED
      BY <3>1, <1>1, <1>2, <1>3, SMTT(60) DEF RxInv, RxTypeOK, handle_bulk_chunk
  <2>2. ~active'[s] /\ assembled' = assembled
    BY <1>3, ZenonT(60) DEF RxInv, RxTypeOK, handle_bulk_chunk, Completes
  <2>3. ASSUME NEW t \in Sessions, active'[t] PROVE SessionOK(t)'
    BY <2>2, <2>3, <1>3 DEF RxInv, RxTypeOK, handle_bulk_chunk, SessionOK
  <2> QED
    BY <2>1, <2>2, <2>3 DEF RxInv, AssembledAsSent
<1>4. CASE ~ExceedsLimits(c)
  <2>1. /\ TotalAt(s, c) \in Nat /\ TotalAt(s, c) <= MaxChunks
        /\ S \in SUBSET Places /\ CountWith(s, c) \in Nat
        /\ DataWith(s, c) \in [Places -> Chunks \cup {NoChunk}]
    BY <1>4, WithinBuffers, ZenonT(60)
  <2>2. /\ transfer_id'[s] = c.tid /\ total_chunks'[s] = TotalAt(s, c)
        /\ chunks_received'[s] = CountWith(s, c) /\ seen'[s] = S /\ data'[s] = DataWith(s, c)
    BY <2>1, <1>4 DEF RxInv, RxTypeOK, handle_bulk_chunk
  <2>3. RxTypeOK'
    <3>1. active' \in [Sessions -> BOOLEAN]
      BY DEF RxInv, RxTypeOK, handle_bulk_chunk, Completes
    <3>2. /\ transfer_id' \in [Sessions -> Nat] /\ total_chunks' \in [Sessions -> Nat]
          /\ chunks_received' \in [Sessions -> Nat]
      BY <2>1, <1>1, <1>4, SMTT(60) DEF RxInv, RxTypeOK, handle_bulk_chunk
    <3>3. seen' \in [Sessions -> SUBSET Places]
      BY <2>1, <1>4 DEF RxInv, RxTypeOK, handle_bulk_chunk
    <3>4. data' \in [Sessions -> [Places -> Chunks \cup {NoChunk}]]
      BY <2>1, <1>4 DEF RxInv, RxTypeOK, handle_bulk_chunk
    <3> QED
      BY <3>1, <3>2, <3>3, <3>4 DEF RxTypeOK
  <2>4. ASSUME NEW t \in Sessions, active'[t] PROVE SessionOK(t)'
    <3>1. CASE t = s
      <4>1. total_chunks'[s] <= MaxChunks
        BY <2>1, <2>2
      <4>2. ASSUME Consistent(c.tid)
            PROVE  /\ TotalAt(s, c) = c.total
                   /\ S \subseteq 0 .. c.total - 1
                   /\ CountWith(s, c) = Cardinality(S)
                   /\ \A q \in S : ChunkOf(DataWith(s, c)[q], c.tid, c.total, q)
        BY <4>2, <1>4, Stored, ZenonT(60)
      <4> QED
        BY <3>1, <4>1, <4>2, <2>2 DEF SessionOK, Consistent
    <3>2. CASE t # s
      <4>1. /\ active[t] /\ transfer_id'[t] = transfer_id[t]
            /\ total_chunks'[t] = total_chunks[t] /\ seen'[t] = seen[t]
            /\ chunks_received'[t] = chunks_received[t] /\ data'[t] = data[t]
        BY <3>2, <2>4, <1>4 DEF RxInv, RxTypeOK, handle_bulk_chunk
      <4> QED
        BY <4>1, SMTT(60) DEF RxInv, SessionOK, Consistent
    <3> QED
      BY <3>1, <3>2
  <2>5. AssembledAsSent'
    <3>1. CASE ~Completes(s, c)
      BY <3>1 DEF RxInv, AssembledAsSent, handle_bulk_chunk
    <3>2. CASE Completes(s, c)
      <4>1. Assembly(s, c).tid = c.tid /\ Assembly(s, c).total <= MaxChunks
        BY <2>1 DEF Assembly
      <4>2. ASSUME Consistent(c.tid)
            PROVE  \A i \in 0 .. Assembly(s, c).total - 1 :
                      ChunkOf(Assembly(s, c).data[i], c.tid, Assembly(s, c).total, i)
        BY <4>1, <4>2, <3>2, CompleteIsWhole
      <4>3. assembled' = assembled \cup {Assembly(s, c)}
        BY <3>2 DEF handle_bulk_chunk
      <4> QED
        BY <4>1, <4>2, <4>3, SMTT(60) DEF RxInv, AssembledAsSent, ChunkOf, Consistent
    <3> QED
      BY <3>1, <3>2
  <2> QED
    BY <2>3, <2>4, <2>5 DEF RxInv
<1> QED
  BY <1>3, <1>4

\* Every step of the receiver preserves the invariant.
LEMMA RxInvStep == RxInv /\ [BulkRxNext]_bulkrx => RxInv'
<1> SUFFICES ASSUME RxInv, [BulkRxNext]_bulkrx PROVE RxInv'
  OBVIOUS
<1>1. ASSUME NEW s \in Sessions, NEW c \in Chunks, handle_bulk_chunk(s, c) PROVE RxInv'
  BY <1>1, RxInvChunk
<1>2. CASE ForgetSessions
  BY <1>2, BulkRxAssumption
     DEF ForgetSessions, RxInv, RxTypeOK, AssembledAsSent, Each, Empty, Places
<1>3. CASE UNCHANGED bulkrx
  BY <1>3 DEF bulkrx, session, RxInv, RxTypeOK, SessionOK, AssembledAsSent
<1> QED
  BY <1>1, <1>2, <1>3 DEF BulkRxNext

\* Whatever order the chunks of any number of transfers arrive in, repeated,
\* interleaved or abandoned, across restarts: every consistently numbered transfer
\* that handle_bulk_chunk acknowledges was put together from exactly its own chunks,
\* also when other transfers are numbered at random.
THEOREM AssemblyCorrect == BulkRxSpec => []AssembledAsSent
<1>1. RxInv => AssembledAsSent
  BY DEF RxInv
<1> QED
  BY <1>1, RxInvInit, RxInvStep, PTL DEF BulkRxSpec

-----------------------------------------------------------------------------

\* The uploader between two chunks: full chunks were sent, or all of the file.
TxInv ==
    /\ upload \in {"ready", "sending", "done", "failed"}
    /\ total_len \in Nat /\ total_len < UMod
    /\ chunk_total \in Nat /\ chunk \in Nat /\ sent_bytes \in Nat
    /\ upload = "ready" => chunk = 0 /\ sent_bytes = 0
    /\ upload \in {"sending", "done"} => chunk_total = TotalChunks(total_len) /\ chunk <= chunk_total
    /\ upload = "done" => chunk = chunk_total
    /\ sent_bytes = IF chunk * MaxChunkData <= total_len THEN chunk * MaxChunkData ELSE total_len

\* The number of chunks, as far as the addition does not wrap: the division
\* rounded up, so that all chunks hold the data and all but the last are full.
LEMMA RoundsUp ==
    ASSUME NEW n \in Nat, n < UMod
    PROVE  /\ TotalChunks(n) \in Nat \ {0}
           /\ n + MaxChunkData <= UMod => TotalChunks(n) * MaxChunkData >= n
           /\ n > 0 => (TotalChunks(n) - 1) * MaxChunkData < n
<1> USE BulkTxAssumption
<1> DEFINE m == (n + (MaxChunkData - 1)) % UMod
           k == m \div MaxChunkData
<1>1. m \in Nat /\ m <= n + (MaxChunkData - 1) /\ m < UMod
  OBVIOUS
<1>2. n + MaxChunkData <= UMod => m = n + (MaxChunkData - 1)
  OBVIOUS
<1> HIDE DEF m
<1>3. k \in Nat /\ k * MaxChunkData <= m /\ m < k * MaxChunkData + MaxChunkData
  BY <1>1
<1> HIDE DEF k
<1>4. TotalChunks(n) = IF k = 0 THEN 1 ELSE k
  BY DEF TotalChunks, k, m
<1>5. CASE k = 0
  BY <1>1, <1>2, <1>3, <1>4, <1>5
<1>6. CASE k # 0
  <2>1. (k - 1) * MaxChunkData = k * MaxChunkData - MaxChunkData
    BY <1>3
  <2> QED
    BY <1>1, <1>2, <1>3, <1>4, <1>6, <2>1
<1> QED
  BY <1>5, <1>6

\* The first chunks hold no more than all of them.
LEMMA Monotone ==
    ASSUME NEW a \in Nat, NEW b \in Nat, a <= b, NEW m \in Nat
    PROVE  a * m <= b * m
<1>1. PICK d \in Nat : b = a + d
  BY b - a \in Nat
<1>2. b * m = a * m + d * m /\ d * m >= 0
  BY <1>1
<1> QED
  BY <1>2

\* Before main() has opened the file nothing was sent.
LEMMA TxInvInit == BulkTxInit => TxInv
BY BulkTxAssumption DEF BulkTxInit, TxInv

\* Each step of main() preserves the invariant.
LEMMA TxInvStep == TxInv /\ [BulkTxNext]_bulktx => TxInv'
<1> SUFFICES ASSUME TxInv, [BulkTxNext]_bulktx PROVE TxInv'
  OBVIOUS
<1> USE BulkTxAssumption DEF TxInv
<1>1. ASSUME NEW len \in FileSizes, OpenFile(len) PROVE TxInv'
  <2>1. len \in Nat
    OBVIOUS
  <2>2. CASE len < UMod /\ upload' = "sending" /\ total_len' = len
             /\ chunk_total' = TotalChunks(len) /\ UNCHANGED <<chunk, sent_bytes>>
    <3>1. TotalChunks(len) \in Nat
      BY <2>1, <2>2, RoundsUp
    <3>2. chunk * MaxChunkData = 0
      BY <1>1 DEF OpenFile
    <3> QED
      BY <1>1, <2>1, <2>2, <3>1, <3>2 DEF OpenFile
  <2>3. CASE upload' = "failed" /\ UNCHANGED <<total_len, chunk_total, chunk, sent_bytes>>
    BY <2>3
  <2> QED
    BY <1>1, <2>2, <2>3 DEF OpenFile
<1>2. CASE SendChunk
  <2>1. chunk' * MaxChunkData = chunk * MaxChunkData + MaxChunkData
    BY <1>2 DEF SendChunk
  <2>2. sent_bytes <= total_len
    OBVIOUS
  <2>3. sent_bytes' = IF chunk' * MaxChunkData <= total_len THEN chunk' * MaxChunkData
                                                            ELSE total_len
    BY <1>2, <2>1, <2>2, chunk * MaxChunkData \in Nat DEF SendChunk, ChunkLen
  <2> QED
    BY <1>2, <2>1, <2>3 DEF SendChunk
<1>3. CASE FailUpload
  BY <1>3 DEF FailUpload
<1>4. CASE FinishUpload
  BY <1>4 DEF FinishUpload
<1>5. CASE UNCHANGED bulktx
  BY <1>5 DEF bulktx
<1> QED
  BY <1>1, <1>2, <1>3, <1>4, <1>5 DEF BulkTxNext

\* For every file whose size plus a chunk fits the integer type, an upload that
\* main() reports complete has sent all of it, and every chunk carries data.
THEOREM UploadCorrect == BulkTxSpec => []WholeFileSent
<1>1. ASSUME TxInv PROVE WholeFileSent
  <2> USE <1>1, BulkTxAssumption DEF TxInv
  <2>1. ASSUME upload = "done", total_len + MaxChunkData <= UMod
        PROVE  sent_bytes = total_len
    <3>1. chunk * MaxChunkData >= total_len /\ chunk * MaxChunkData \in Nat
      BY <2>1, RoundsUp, SMTT(60)
    <3> QED
      BY <3>1
  <2>2. ASSUME upload = "sending", chunk < chunk_total, total_len > 0
        PROVE  ChunkLen > 0
    <3>1. TotalChunks(total_len) \in Nat \ {0} /\ (TotalChunks(total_len) - 1) * MaxChunkData < total_len
      BY <2>2, RoundsUp
    <3>2. chunk * MaxChunkData <= (TotalChunks(total_len) - 1) * MaxChunkData
      BY <2>2, <3>1, Monotone
    <3>3. sent_bytes < total_len
      BY <2>2, <3>1, <3>2, chunk * MaxChunkData \in Nat
    <3> QED
      BY <3>3 DEF ChunkLen
  <2> QED
    BY <2>1, <2>2 DEF WholeFileSent
<1> QED
  BY <1>1, TxInvInit, TxInvStep, PTL DEF BulkTxSpec
=============================================================================
