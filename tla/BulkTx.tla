------------------------------- MODULE BulkTx -------------------------------
(***************************************************************************)
(* The sending side of a bulk transfer: main() of video_uploader.c, and the *)
(* arithmetic that send_bulk of payload_app.c shares with it.  Lengths are  *)
(* uint32_t; UMod is 2^32, scaled down for model checking.                  *)
(***************************************************************************)
EXTENDS Naturals

CONSTANTS
    UMod,          \* UINT32_MAX + 1
    MaxChunkData,  \* MAX_CHUNK_DATA
    FileSizes      \* sizes of the file to upload

ASSUME BulkTxAssumption ==
    /\ UMod \in Nat /\ MaxChunkData \in Nat \ {0} /\ MaxChunkData < UMod
    /\ FileSizes \subseteq Nat

VARIABLES
    upload,        \* "ready", "sending", "done" (exit 0) or "failed" (exit 1)
    total_len, chunk_total, chunk, sent_bytes

bulktx == <<upload, total_len, chunk_total, chunk, sent_bytes>>

\* Fault: the division is not rounded up.
TotalChunksDown(len) == IF len \div MaxChunkData = 0 THEN 1 ELSE len \div MaxChunkData

\* The number of chunks of len bytes, at least one so that the session is seen.
TotalChunks(len) ==
    LET n == ((len + (MaxChunkData - 1)) % UMod) \div MaxChunkData
    IN  IF n = 0 THEN 1 ELSE n

\* The bytes that go into the next chunk.
ChunkLen == IF total_len - sent_bytes < MaxChunkData THEN total_len - sent_bytes
                                                     ELSE MaxChunkData

BulkTxInit ==
    /\ upload = "ready"
    /\ total_len = 0 /\ chunk_total = 0 /\ chunk = 0 /\ sent_bytes = 0

\* The file is opened and measured; it cannot be opened, or is too large.
OpenFile(len) ==
    /\ upload = "ready"
    /\ \/ /\ len < UMod
          /\ upload' = "sending"
          /\ total_len' = len
          /\ chunk_total' = TotalChunks(len)
          /\ UNCHANGED <<chunk, sent_bytes>>
       \/ /\ upload' = "failed"
          /\ UNCHANGED <<total_len, chunk_total, chunk, sent_bytes>>

\* One iteration of the loop.
SendChunk ==
    /\ upload = "sending" /\ chunk < chunk_total
    /\ sent_bytes' = sent_bytes + ChunkLen
    /\ chunk' = chunk + 1
    /\ UNCHANGED <<upload, total_len, chunk_total>>

\* No connection, a short read, or a failed write.
FailUpload ==
    /\ upload = "sending"
    /\ upload' = "failed"
    /\ UNCHANGED <<total_len, chunk_total, chunk, sent_bytes>>

\* The transfer is reported complete.
FinishUpload ==
    /\ upload = "sending" /\ chunk = chunk_total
    /\ upload' = "done"
    /\ UNCHANGED <<total_len, chunk_total, chunk, sent_bytes>>

BulkTxNext ==
    \/ \E len \in FileSizes : OpenFile(len)
    \/ SendChunk \/ FailUpload \/ FinishUpload

BulkTxSpec == BulkTxInit /\ [][BulkTxNext]_bulktx

-----------------------------------------------------------------------------
(* Properties *)

\* An upload that is reported complete has sent every byte of the file, and no
\* chunk but that of an empty file was empty.  The size has to leave room for
\* the rounding: a file within MAX_CHUNK_DATA - 1 bytes of UINT32_MAX passes the
\* size check of main() and is reported complete after its first chunk.
WholeFileSent ==
    /\ upload = "done" /\ total_len + MaxChunkData <= UMod => sent_bytes = total_len
    /\ upload = "sending" /\ chunk < chunk_total /\ total_len > 0 => ChunkLen > 0
=============================================================================
