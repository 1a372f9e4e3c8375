--------------------------- MODULE IpcBuffersProofs ---------------------------
(***************************************************************************)
(* Proofs about module IpcBuffers, for any sizes of headers, payloads,      *)
(* buffers and limits: the transmit buffer is never overrun, the receive    *)
(* buffer always has room when recv() is called, a connection is closed     *)
(* only for a frame that is too long, and the receiver takes the sender's   *)
(* frames whole and in order.                                              *)
(***************************************************************************)
EXTENDS IpcBuffers, SequenceTheorems, TLAPS

\* The provers' time limits, for the leaves that do not name a prover.
USE ZenonT(10), SMTT(60)

Byte == [id : Nat, len : Nat, pos : Nat]

BufTypeOK ==
    /\ sent \in Seq(Nat)
    /\ wire \in Seq(Byte) /\ rxbuf \in Seq(Byte) /\ txbuf \in Seq(Byte)
    /\ tx_sent \in Nat /\ tx_cap \in Nat

\* While the frame loop runs rxbuf may be full, never more.
BufInv == BufTypeOK /\ TxInBounds /\ RoomToReceive /\ Len(rxbuf) <= RxSize

-----------------------------------------------------------------------------

\* The sizes are natural numbers and rxbuf holds more than a header's start.
LEMMA Sizes ==
    /\ Hdr \in Nat \ {0} /\ Body \in Nat /\ MaxPayload \in Nat /\ Limit \in Nat /\ MinCap \in Nat
    /\ RxSize \in Nat /\ Hdr <= RxSize /\ RxSize = Hdr + MaxPayload
  BY BuffersAssumption DEF RxSize

\* Pieces and concatenations of byte strings are byte strings, with the
\* lengths that the code computes.
LEMMA Pieces ==
    ASSUME NEW b \in Seq(Byte), NEW d \in Seq(Byte), NEW k \in 0 .. Len(b)
    PROVE  /\ SubSeq(b, 1, k) \in Seq(Byte) /\ Len(SubSeq(b, 1, k)) = k
           /\ SubSeq(b, k + 1, Len(b)) \in Seq(Byte) /\ Len(SubSeq(b, k + 1, Len(b))) = Len(b) - k
           /\ b \o d \in Seq(Byte) /\ Len(b \o d) = Len(b) + Len(d)
  OBVIOUS

\* Two byte strings make a byte string.
LEMMA Cat ==
    ASSUME NEW b \in Seq(Byte), NEW d \in Seq(Byte)
    PROVE  b \o d \in Seq(Byte) /\ Len(b \o d) = Len(b) + Len(d)
  OBVIOUS

\* Whatever capacity append_tx decides for, it holds the needed bytes.
LEMMA CapHolds ==
    ASSUME NEW needed \in Nat, tx_cap \in Nat, NEW cap \in NewCaps(needed)
    PROVE  cap \in Nat /\ needed <= cap
  <1>1. \A start, c : c \in Doubled(start, needed) => c \in Nat /\ needed <= c
    BY Sizes, SMTT(60) DEF Doubled
  <1>2. CASE needed > tx_cap
    BY <1>1, <1>2 DEF NewCaps
  <1>3. CASE ~(needed > tx_cap)
    BY <1>1, <1>3 DEF NewCaps
  <1>. QED  BY <1>2, <1>3

\* append_tx keeps the transmit buffer within its bounds.
LEMMA AppendOK ==
    ASSUME BufTypeOK, TxInBounds, NEW bytes \in Seq(Byte), append_tx(bytes)
    PROVE  txbuf' \in Seq(Byte) /\ tx_sent' \in Nat /\ tx_cap' \in Nat /\ TxInBounds'
  <1>. DEFINE kept == SubSeq(txbuf, tx_sent + 1, Len(txbuf))
              needed == Len(kept) + Len(bytes)
  <1>1. /\ kept \in Seq(Byte) /\ Len(kept) = Len(txbuf) - tx_sent
        /\ kept \o bytes \in Seq(Byte) /\ Len(kept \o bytes) = needed
        /\ needed \in Nat /\ Len(kept) \in Nat /\ Len(kept) <= Len(txbuf)
    BY DEF BufTypeOK, TxInBounds
  <1>2. /\ tx_sent' = 0
        /\ \/ needed <= Limit /\ tx_cap' \in NewCaps(needed) /\ txbuf' = kept \o bytes
           \/ txbuf' = kept /\ tx_cap' = tx_cap
    BY ZenonT(60) DEF append_tx
  <1>. HIDE DEF kept, needed
  <1>3. CASE needed <= Limit /\ tx_cap' \in NewCaps(needed) /\ txbuf' = kept \o bytes
    <2>1. tx_cap' \in Nat /\ needed <= tx_cap'
      BY <1>1, <1>3, CapHolds DEF BufTypeOK
    <2>. QED  BY <1>1, <1>2, <1>3, <2>1 DEF TxInBounds
  <1>4. CASE txbuf' = kept /\ tx_cap' = tx_cap
    BY <1>1, <1>2, <1>4, Sizes DEF BufTypeOK, TxInBounds
  <1>. QED  BY <1>2, <1>3, <1>4

\* So does queue_send.
LEMMA SendOK ==
    ASSUME BufTypeOK, TxInBounds, NEW frame \in Seq(Byte), queue_send(frame)
    PROVE  txbuf' \in Seq(Byte) /\ tx_sent' \in Nat /\ tx_cap' \in Nat /\ TxInBounds'
  <1>1. CASE UNCHANGED tx
    BY <1>1 DEF tx, BufTypeOK, TxInBounds
  <1>2. CASE append_tx(frame)
    BY <1>2, AppendOK
  <1>3. CASE \E n \in 0 .. Len(frame) : append_tx(SubSeq(frame, n + 1, Len(frame)))
    <2>1. PICK n \in 0 .. Len(frame) : append_tx(SubSeq(frame, n + 1, Len(frame)))
      BY <1>3
    <2>2. SubSeq(frame, n + 1, Len(frame)) \in Seq(Byte)
      BY Pieces
    <2>. QED  BY <2>1, <2>2, AppendOK, ZenonT(60)
  <1>. QED  BY <1>1, <1>2, <1>3 DEF queue_send

\* The frame loop keeps the invariant: it is left with a complete header and an
\* incomplete payload, or without a header, and then rxbuf is not full.
LEMMA HandleFrameOK == BufInv /\ HandleFrame => BufInv'
  <1>. SUFFICES ASSUME BufInv, HandleFrame PROVE BufInv'
    OBVIOUS
  <1>. BufTypeOK /\ TxInBounds /\ RoomToReceive /\ Len(rxbuf) <= RxSize /\ Len(rxbuf) \in Nat
    BY DEF BufInv, BufTypeOK
  <1>0. UNCHANGED <<sent, gone, got>>
    BY DEF HandleFrame
  <1>1. CASE /\ Len(rxbuf) < Hdr /\ UNCHANGED <<wire, rxbuf, tx>>
    BY <1>0, <1>1, Sizes DEF BufInv, BufTypeOK, TxInBounds, RoomToReceive, tx
  <1>2. ASSUME NEW len \in Lengths(rxbuf), Len(rxbuf) >= Hdr,
               \/ /\ Oversized(len)
                  /\ sender' = "closed" /\ rxbuf' = <<>> /\ wire' = <<>> /\ svc' = "poll"
                  /\ UNCHANGED <<tx, receiver, nomem, sock>>
               \/ /\ ~Oversized(len) /\ Complete(len)
                  /\ rxbuf' = SubSeq(rxbuf, Hdr + len + 1, Len(rxbuf))
                  /\ svc' = AfterFrame
                  /\ IF receiver = "closed" THEN UNCHANGED <<tx, receiver, nomem, sock>>
                     ELSE queue_send(SubSeq(rxbuf, 1, Hdr + len))
                  /\ UNCHANGED <<wire, sender>>
               \/ /\ ~Oversized(len) /\ ~Complete(len)
                  /\ svc' = "poll"
                  /\ UNCHANGED <<wire, sender, rxbuf, tx, receiver, nomem, sock>>
        PROVE  BufInv'
    <2>1. len \in Nat
      <3>1. rxbuf[1] \in Byte
        BY <1>2, Sizes DEF BufTypeOK
      <3>. QED  BY <1>2, <3>1, Sizes, SMTT(60) DEF Lengths, Byte
    <2>2. CASE Oversized(len) /\ rxbuf' = <<>> /\ wire' = <<>> /\ UNCHANGED tx
      BY <1>0, <2>2, Sizes DEF BufInv, BufTypeOK, TxInBounds, RoomToReceive, tx
    <2>3. CASE /\ ~Oversized(len) /\ Complete(len) /\ svc' = AfterFrame /\ UNCHANGED wire
               /\ rxbuf' = SubSeq(rxbuf, Hdr + len + 1, Len(rxbuf))
               /\ UNCHANGED tx \/ queue_send(SubSeq(rxbuf, 1, Hdr + len))
      <3>1. Hdr + len \in 0 .. Len(rxbuf)
        BY <2>1, <2>3, Sizes DEF Complete
      <3>2. SubSeq(rxbuf, 1, Hdr + len) \in Seq(Byte)
        BY <3>1, Pieces DEF BufTypeOK
      <3>3. rxbuf' \in Seq(Byte) /\ Len(rxbuf') <= Len(rxbuf) /\ Len(rxbuf') \in Nat
        BY <2>1, <2>3, <3>1, Pieces, Sizes, SMTT(60) DEF BufTypeOK
      <3>4. txbuf' \in Seq(Byte) /\ tx_sent' \in Nat /\ tx_cap' \in Nat /\ TxInBounds'
        <4>1. CASE UNCHANGED tx
          BY <4>1 DEF tx, BufTypeOK, TxInBounds
        <4>2. CASE queue_send(SubSeq(rxbuf, 1, Hdr + len))
          BY <3>2, <4>2, SendOK, ZenonT(60)
        <4>. QED  BY <2>3, <4>1, <4>2
      <3>5. RoomToReceive'
        BY <2>3 DEF RoomToReceive, AfterFrame
      <3>. QED  BY <1>0, <2>3, <3>3, <3>4, <3>5, Sizes DEF BufInv, BufTypeOK
    <2>4. CASE ~Oversized(len) /\ ~Complete(len) /\ UNCHANGED <<wire, rxbuf, tx>>
      <3>1. Len(rxbuf) < RxSize
        BY <2>1, <2>4, Sizes DEF Oversized, Complete
      <3>. QED  BY <1>0, <2>4, <3>1 DEF BufInv, BufTypeOK, TxInBounds, RoomToReceive, tx
    <2>. QED  BY <1>2, <2>2, <2>3, <2>4
  <1>. QED  BY <1>1, <1>2, Sizes DEF HandleFrame

\* Every step keeps the invariant.
LEMMA BufStep == BufInv /\ [BufNext]_bufvars => BufInv'
  <1>. SUFFICES ASSUME BufInv, [BufNext]_bufvars PROVE BufInv'
    OBVIOUS
  <1>. BufTypeOK /\ TxInBounds /\ RoomToReceive /\ Len(rxbuf) <= RxSize /\ Len(rxbuf) \in Nat
    BY DEF BufInv, BufTypeOK
  <1>1. ASSUME NEW n \in DataLens, client_send(n) PROVE BufInv'
    <2>1. n \in Nat /\ Len(sent) + 1 \in Nat
      BY BuffersAssumption DEF BufTypeOK
    <2>2. FrameBytes(Len(sent) + 1, Body + n) \in Seq(Byte)
      <3>1. \A i \in 1 .. Hdr + (Body + n) : i - 1 \in Nat
        OBVIOUS
      <3>2. \A i \in 1 .. Hdr + (Body + n) :
               [id |-> Len(sent) + 1, len |-> Body + n, pos |-> i - 1] \in Byte
        BY <2>1, <3>1, Sizes DEF Byte
      <3>. DEFINE z == Hdr + (Body + n)
      <3>3. z \in Nat
        BY <2>1, Sizes
      <3>. QED  BY <3>2, <3>3, IsASeq, SMTT(60) DEF FrameBytes
    <2>3. wire' \in Seq(Byte) /\ sent' \in Seq(Nat)
      BY <1>1, <2>1, <2>2 DEF client_send, BufTypeOK
    <2>4. UNCHANGED <<rxbuf, svc, txbuf, tx_sent, tx_cap>>
      BY <1>1 DEF client_send, tx
    <2>. QED  BY <2>3, <2>4 DEF BufInv, BufTypeOK, TxInBounds, RoomToReceive
  <1>2. CASE (\E size \in BufSizes : daemon_recv(size)) \/ Close \/ UNCHANGED bufvars
    <2>1. UNCHANGED <<sent, wire, rxbuf, svc, txbuf, tx_sent, tx_cap>>
      BY <1>2 DEF daemon_recv, Close, bufvars, tx
    <2>. QED  BY <2>1 DEF BufInv, BufTypeOK, TxInBounds, RoomToReceive
  <1>3. CASE FlushReceiver
    <2>1. UNCHANGED <<sent, wire, rxbuf, svc>>
      BY <1>3 DEF FlushReceiver
    <2>2. CASE \E n \in 1 .. Len(txbuf) - tx_sent :
                  /\ txbuf' = IF tx_sent + n = Len(txbuf) THEN <<>> ELSE txbuf
                  /\ tx_sent' = IF tx_sent + n = Len(txbuf) THEN 0 ELSE tx_sent + n
                  /\ UNCHANGED tx_cap
      BY <2>1, <2>2, Sizes DEF BufInv, BufTypeOK, TxInBounds, RoomToReceive
    <2>3. CASE txbuf' = <<>> /\ tx_sent' = 0 /\ tx_cap' = 0
      BY <2>1, <2>3, Sizes DEF BufInv, BufTypeOK, TxInBounds, RoomToReceive
    <2>. QED  BY <1>3, <2>2, <2>3 DEF FlushReceiver
  <1>4. CASE Receive
    <2>1. UNCHANGED <<sent, txbuf, tx_sent, tx_cap>>
      BY <1>4 DEF Receive, tx
    <2>2. PICK k \in 0 .. Len(wire) :
             /\ Len(rxbuf) + k <= RxSize /\ (k = 0 => Len(rxbuf) = RxSize)
             /\ rxbuf' = rxbuf \o SubSeq(wire, 1, k)
             /\ wire' = SubSeq(wire, k + 1, Len(wire))
             /\ svc' = IF k = 0 THEN "poll" ELSE "frames"
      BY <1>4, ZenonT(60) DEF Receive
    <2>3. k # 0 /\ svc' = "frames"
      BY <1>4, <2>2, Sizes DEF Receive, RoomToReceive
    <2>4. wire' \in Seq(Byte) /\ rxbuf' \in Seq(Byte) /\ Len(rxbuf') = Len(rxbuf) + k
      BY <2>2 DEF BufTypeOK
    <2>. QED  BY <2>1, <2>2, <2>3, <2>4 DEF BufInv, BufTypeOK, TxInBounds, RoomToReceive
  <1>. QED  BY <1>1, <1>2, <1>3, <1>4, HandleFrameOK DEF BufNext

\* For any sizes and limits: append_tx never writes beyond the buffer it
\* allocated, flush_tx never sends beyond what was written, and ipc_server_service
\* never calls recv() with a full rxbuf.
THEOREM BuffersSafe == BufSpec => [](TxInBounds /\ RoomToReceive)
  <1>1. BufInit => BufInv
    BY Sizes DEF BufInit, BufInv, BufTypeOK, TxInBounds, RoomToReceive
  <1>2. BufInv => TxInBounds /\ RoomToReceive
    BY DEF BufInv
  <1>. QED  BY <1>1, <1>2, BufStep, PTL DEF BufSpec

-----------------------------------------------------------------------------
(* The stream as a whole *)

\* Where the frames of messages of the lengths lens begin in the stream of all
\* bytes the sender ever wrote, and where that stream ends.
Layout(lens, off) ==
    /\ off \in [1 .. Len(lens) + 1 -> Nat]
    /\ off[1] = 0
    /\ \A i \in 1 .. Len(lens) : off[i + 1] = off[i] + Hdr + Body + lens[i]
    /\ \A i, j \in 1 .. Len(lens) + 1 : i < j => off[i + 1] <= off[j]

\* z is the byte at place g of that stream.
At(lens, off, z, g) ==
    /\ z.id \in 1 .. Len(lens)
    /\ z.len = Body + lens[z.id]
    /\ z.pos < Hdr + z.len
    /\ off[z.id] + z.pos = g

\* b is the part of the stream that begins at place g.
Run(lens, off, b, g) == \A i \in 1 .. Len(b) : At(lens, off, b[i], g + i - 1)

\* The rest of the receiver's output that is still to be sent.
Unsent == SubSeq(txbuf, tx_sent + 1, Len(txbuf))

\* The sender's side: rxbuf begins with the k-th frame, and the bytes on the way
\* go on where rxbuf ends.
RxPart(off, k) ==
    /\ sender \in {"open", "closed"}
    /\ sender = "open" =>
        /\ Run(sent, off, rxbuf, off[k])
        /\ Run(sent, off, wire, off[k] + Len(rxbuf))
        /\ off[k] + Len(rxbuf) + Len(wire) = off[Len(sent) + 1]
    /\ sender = "closed" => rxbuf = <<>> /\ wire = <<>>
    /\ ConformingKept

\* The receiver's side: its socket begins with the first frame it has not taken;
\* its output goes on where the socket ends, up to the k-th frame; and when it is
\* doomed there is output left, so that nothing more goes to its socket.
TxPart(off, k) ==
    /\ \A i \in DOMAIN got : got[i].id = i
    /\ ~gone =>
        /\ Len(got) <= Len(sent)
        /\ Run(sent, off, sock, off[Len(got) + 1])
        /\ receiver = "open" =>
            /\ Run(sent, off, Unsent, off[Len(got) + 1] + Len(sock))
            /\ off[Len(got) + 1] + Len(sock) + Len(Unsent) = off[k]
        /\ receiver = "closing" => tx_sent < Len(txbuf)

StreamOK(off, k) ==
    /\ Layout(sent, off)
    /\ k \in 1 .. Len(sent) + 1
    /\ RxPart(off, k)
    /\ RxSize <= Limit /\ ~nomem => TxPart(off, k)

SinkTypeOK ==
    /\ sock \in Seq(Byte)
    /\ got \in Seq([id : Nat, ok : BOOLEAN])
    /\ receiver \in {"open", "closing", "closed"}
    /\ gone \in BOOLEAN /\ nomem \in BOOLEAN

\* The inductive form of FramesIntact and ConformingKept.
StreamInv == SinkTypeOK /\ \E off, k : StreamOK(off, k)

\* Parts of the stream that follow each other make one part.
LEMMA RunCat ==
    ASSUME NEW lens, NEW off, NEW b \in Seq(Byte), NEW d \in Seq(Byte), NEW g \in Nat,
           Run(lens, off, b, g), Run(lens, off, d, g + Len(b))
    PROVE  Run(lens, off, b \o d, g)
  <1>. SUFFICES ASSUME NEW i \in 1 .. Len(b \o d) PROVE At(lens, off, (b \o d)[i], g + i - 1)
    BY DEF Run
  <1>1. CASE i <= Len(b)
    <2>1. i \in 1 .. Len(b) /\ (b \o d)[i] = b[i]
      BY <1>1
    <2>. QED  BY <2>1 DEF Run
  <1>2. CASE i > Len(b)
    <2>1. i - Len(b) \in 1 .. Len(d) /\ (b \o d)[i] = d[i - Len(b)]
      BY <1>2
    <2>2. g + Len(b) + (i - Len(b)) - 1 = g + i - 1
      OBVIOUS
    <2>3. At(lens, off, d[i - Len(b)], g + Len(b) + (i - Len(b)) - 1)
      BY <2>1 DEF Run
    <2>. QED  BY <2>1, <2>2, <2>3
  <1>. QED  BY <1>1, <1>2

\* The two halves of a part are parts.
LEMMA RunSplit ==
    ASSUME NEW lens, NEW off, NEW b \in Seq(Byte), NEW g \in Nat, NEW m \in 0 .. Len(b),
           Run(lens, off, b, g)
    PROVE  /\ Run(lens, off, SubSeq(b, 1, m), g)
           /\ Run(lens, off, SubSeq(b, m + 1, Len(b)), g + m)
  <1>1. Run(lens, off, SubSeq(b, 1, m), g)
    <2>. SUFFICES ASSUME NEW i \in 1 .. Len(SubSeq(b, 1, m))
                  PROVE  At(lens, off, SubSeq(b, 1, m)[i], g + i - 1)
      BY DEF Run
    <2>1. i \in 1 .. Len(b) /\ SubSeq(b, 1, m)[i] = b[i]
      OBVIOUS
    <2>. QED  BY <2>1 DEF Run
  <1>2. Run(lens, off, SubSeq(b, m + 1, Len(b)), g + m)
    <2>. SUFFICES ASSUME NEW i \in 1 .. Len(SubSeq(b, m + 1, Len(b)))
                  PROVE  At(lens, off, SubSeq(b, m + 1, Len(b))[i], g + m + i - 1)
      BY DEF Run
    <2>1. m + i \in 1 .. Len(b) /\ SubSeq(b, m + 1, Len(b))[i] = b[m + i]
      OBVIOUS
    <2>2. At(lens, off, b[m + i], g + (m + i) - 1)
      BY <2>1 DEF Run
    <2>3. g + (m + i) - 1 = g + m + i - 1
      OBVIOUS
    <2>. QED  BY <2>1, <2>2, <2>3
  <1>. QED  BY <1>1, <1>2

\* The byte at the place where the k-th frame begins is the first of that frame.
LEMMA FrameStart ==
    ASSUME NEW lens \in Seq(Nat), NEW off, Layout(lens, off), NEW k \in 1 .. Len(lens) + 1,
           NEW z \in Byte, At(lens, off, z, off[k])
    PROVE  /\ z.pos = 0 /\ z.id = k /\ k \in 1 .. Len(lens) /\ z.len = Body + lens[k]
           /\ off[k + 1] = off[k] + Hdr + z.len
  <1>. DEFINE j == z.id
              s(i) == Hdr + (Body + lens[i])
  <1>1. /\ j \in 1 .. Len(lens) /\ z.pos \in Nat /\ z.len = Body + lens[j]
        /\ z.pos < Hdr + z.len /\ off[j] + z.pos = off[k]
    BY DEF At, Byte
  <1>2. \A i \in 1 .. Len(lens) + 1 : off[i] \in Nat
    BY DEF Layout
  <1>3. \A i \in 1 .. Len(lens) : s(i) \in Nat \ {0} /\ off[i + 1] = off[i] + s(i)
    <2>. SUFFICES ASSUME NEW i \in 1 .. Len(lens)
                  PROVE  s(i) \in Nat \ {0} /\ off[i + 1] = off[i] + s(i)
      OBVIOUS
    <2>1. lens[i] \in Nat /\ off[i] \in Nat /\ off[i + 1] = off[i] + Hdr + Body + lens[i]
      BY <1>2, SMTT(60) DEF Layout
    <2>2. ASSUME NEW a \in Nat, NEW c \in Nat
          PROVE  a + Hdr + Body + c = a + (Hdr + (Body + c)) /\ Hdr + (Body + c) \in Nat \ {0}
      BY Sizes
    <2>. QED  BY <2>1, <2>2, ZenonT(60)
  <1>4. (j < k => off[j + 1] <= off[k]) /\ (k < j => off[k + 1] <= off[j])
    <2>1. j \in 1 .. Len(lens) + 1
      BY <1>1
    <2>. QED  BY <2>1 DEF Layout
  <1>5. off[j] \in Nat /\ off[k] \in Nat /\ s(j) \in Nat \ {0} /\ off[j + 1] = off[j] + s(j)
    <2>1. j \in 1 .. Len(lens) + 1
      BY <1>1
    <2>. QED  BY <1>1, <1>2, <1>3, <2>1
  <1>6. z.pos < s(j)
    BY <1>1
  <1>7. k < j => k \in 1 .. Len(lens)
    BY <1>1
  <1>. HIDE DEF s, j
  <1>8. ~(j < k)
    BY <1>1, <1>4, <1>5, <1>6
  <1>9. ~(k < j)
    <2>. SUFFICES ASSUME k < j PROVE FALSE
      OBVIOUS
    <2>1. s(k) \in Nat \ {0} /\ off[k + 1] = off[k] + s(k) /\ off[k + 1] <= off[j]
      BY <1>3, <1>4, <1>7
    <2>2. off[k] + s(k) <= off[j] /\ off[j] + z.pos = off[k]
      BY <1>1, <2>1
    <2>3. ASSUME NEW a \in Nat, NEW b \in Nat, NEW c \in Nat, NEW d \in Nat \ {0},
                 a + d <= b, b + c = a
          PROVE  FALSE
      BY <2>3
    <2>. QED  BY <1>1, <1>5, <2>1, <2>2, <2>3, ZenonT(60)
  <1>10. j = k
    BY <1>1, <1>8, <1>9
  <1>11. z.pos = 0
    BY <1>1, <1>5, <1>10
  <1>12. off[k + 1] = off[k] + Hdr + z.len
    <2>1. lens[k] \in Nat /\ z.len = Body + lens[k]
      BY <1>1, <1>10
    <2>. QED  BY <1>5, <1>10, <2>1, Sizes DEF s
  <1>. QED  BY <1>1, <1>10, <1>11, <1>12 DEF j

\* A run that begins with the k-th frame and holds a header: the header says how
\* long the frame is.
LEMMA FirstFrame ==
    ASSUME NEW lens \in Seq(Nat), NEW off, Layout(lens, off), NEW k \in 1 .. Len(lens) + 1,
           NEW b \in Seq(Byte), Len(b) >= Hdr, Run(lens, off, b, off[k])
    PROVE  /\ b[1].pos = 0 /\ b[1].id = k /\ Lengths(b) = {Body + lens[k]}
           /\ k \in 1 .. Len(lens) /\ Body + lens[k] \in Nat
           /\ off[k + 1] = off[k] + Hdr + (Body + lens[k])
  <1>0. off[k] \in Nat
    BY DEF Layout
  <1>1. 1 \in 1 .. Len(b) /\ b[1] \in Byte /\ off[k] \in Nat
    BY <1>0, Sizes
  <1>2. At(lens, off, b[1], off[k] + 1 - 1)
    BY <1>1 DEF Run
  <1>3. At(lens, off, b[1], off[k])
    BY <1>1, <1>2
  <1>4. /\ b[1].pos = 0 /\ b[1].id = k /\ k \in 1 .. Len(lens) /\ b[1].len = Body + lens[k]
        /\ off[k + 1] = off[k] + Hdr + b[1].len
    BY <1>1, <1>3, FrameStart, SMTT(60)
  <1>. QED  BY <1>4, Sizes, SMTT(60) DEF Lengths

\* One more message extends the layout, and leaves every place as it is.
LEMMA ExtendLayout ==
    ASSUME NEW lens \in Seq(Nat), NEW off, Layout(lens, off), NEW n \in Nat
    PROVE  \E o : /\ Layout(Append(lens, n), o)
                  /\ \A i \in 1 .. Len(lens) + 1 : o[i] = off[i]
                  /\ o[Len(lens) + 2] = off[Len(lens) + 1] + Hdr + Body + n
                  /\ \A b, g : Run(lens, off, b, g) => Run(Append(lens, n), o, b, g)
  <1>. DEFINE l == Len(lens)
              end == off[l + 1] + Hdr + Body + n
              o == [i \in 1 .. l + 2 |-> IF i <= l + 1 THEN off[i] ELSE end]
              more == Append(lens, n)
  <1>1. /\ l \in Nat /\ Len(more) = l + 1 /\ more \in Seq(Nat) /\ more[l + 1] = n
        /\ \A i \in 1 .. l : more[i] = lens[i]
    OBVIOUS
  <1>2. /\ off \in [1 .. l + 1 -> Nat] /\ off[1] = 0
        /\ \A i \in 1 .. l : off[i + 1] = off[i] + Hdr + Body + lens[i]
        /\ \A i, j \in 1 .. l + 1 : i < j => off[i + 1] <= off[j]
    BY DEF Layout
  <1>. HIDE DEF l, more
  <1>2a. end \in Nat
    <2>1. off[l + 1] \in Nat
      BY <1>1, <1>2, SMTT(60)
    <2>. QED  BY <2>1, Sizes
  <1>. HIDE DEF end
  <1>3. /\ \A i \in 1 .. l + 1 : o[i] = off[i]
        /\ o[l + 2] = end
    BY <1>1, SMTT(60)
  <1>4. o \in [1 .. l + 2 -> Nat]
    BY <1>1, <1>2, <1>2a, SMTT(60)
  <1>. HIDE DEF o, end, more, l
  <1>5. ASSUME NEW i \in 1 .. l + 1 PROVE o[i + 1] = o[i] + Hdr + Body + more[i]
    <2>1. CASE i = l + 1
      BY <1>1, <1>3, <2>1, SMTT(60) DEF end
    <2>2. CASE i # l + 1
      <3>1. i \in 1 .. l /\ i \in 1 .. l + 1 /\ i + 1 \in 1 .. l + 1
        BY <1>1, <2>2
      <3>. QED  BY <1>1, <1>2, <1>3, <3>1
    <2>. QED  BY <2>1, <2>2
  <1>6. ASSUME NEW i \in 1 .. l + 2, NEW j \in 1 .. l + 2, i < j PROVE o[i + 1] <= o[j]
    <2>1. i \in 1 .. l + 1
      BY <1>1, <1>6, SMTT(60)
    <2>2. CASE j \in 1 .. l + 1
      <3>1. i + 1 \in 1 .. l + 1
        BY <1>1, <1>6, <2>2, SMTT(60)
      <3>. QED  BY <1>2, <1>3, <1>6, <2>1, <2>2, <3>1
    <2>3. CASE j = l + 2 /\ i = l + 1
      BY <1>2, <1>2a, <1>3, <1>1, <2>3, SMTT(60)
    <2>4. CASE j = l + 2 /\ i # l + 1
      <3>1. i + 1 \in 1 .. l + 1 /\ l + 1 \in 1 .. l + 1 /\ i < l + 1
        BY <1>1, <2>1, <2>4
      <3>2. o[i + 1] <= off[l + 1] /\ off[l + 1] \in Nat /\ o[i + 1] \in Nat
        BY <1>2, <1>3, <2>1, <3>1
      <3>. QED  BY <1>2, <1>2a, <1>3, <2>4, <3>2, Sizes, SMTT(60) DEF end
    <2>. QED  BY <1>1, <2>2, <2>3, <2>4, SMTT(60)
  <1>7. Layout(more, o)
    BY <1>1, <1>2, <1>3, <1>4, <1>5, <1>6, SMTT(60) DEF Layout
  <1>8. ASSUME NEW b, NEW g, Run(lens, off, b, g) PROVE Run(more, o, b, g)
    <2>. SUFFICES ASSUME NEW i \in 1 .. Len(b) PROVE At(more, o, b[i], g + i - 1)
      BY DEF Run
    <2>1. At(lens, off, b[i], g + i - 1)
      BY <1>8 DEF Run
    <2>2. b[i].id \in 1 .. l /\ b[i].id \in 1 .. l + 1
      BY <1>1, <2>1, SMTT(60) DEF At, l
    <2>. QED  BY <1>1, <1>3, <2>1, <2>2 DEF At
  <1>. QED  BY <1>3, <1>7, <1>8 DEF more, l, end

\* The bytes of a frame are the part of the stream that begins at its place.
LEMMA FrameRun ==
    ASSUME NEW lens \in Seq(Nat), NEW off, Layout(lens, off), NEW k \in 1 .. Len(lens)
    PROVE  /\ Run(lens, off, FrameBytes(k, Body + lens[k]), off[k])
           /\ FrameBytes(k, Body + lens[k]) \in Seq(Byte)
           /\ Len(FrameBytes(k, Body + lens[k])) = Hdr + (Body + lens[k])
  <1>. DEFINE z == Hdr + (Body + lens[k])
              f == FrameBytes(k, Body + lens[k])
  <1>0. off[k] \in Nat
    BY SMTT(60) DEF Layout
  <1>1. z \in Nat /\ Body + lens[k] \in Nat /\ lens[k] \in Nat
    BY Sizes
  <1>2. ASSUME NEW i \in 1 .. z PROVE [id |-> k, len |-> Body + lens[k], pos |-> i - 1] \in Byte
    BY <1>1 DEF Byte
  <1>3. f = [i \in 1 .. z |-> [id |-> k, len |-> Body + lens[k], pos |-> i - 1]]
    BY DEF FrameBytes
  <1>. HIDE DEF f, z
  <1>4. f \in Seq(Byte) /\ Len(f) = z
    BY <1>1, <1>2, <1>3, IsASeq
  <1>5. ASSUME NEW i \in 1 .. z PROVE At(lens, off, f[i], off[k] + i - 1)
    <2>1. f[i] = [id |-> k, len |-> Body + lens[k], pos |-> i - 1]
      BY <1>3
    <2>2. f[i].id = k /\ f[i].len = Body + lens[k] /\ f[i].pos = i - 1
      BY <2>1
    <2>3. i - 1 < Hdr + (Body + lens[k])
      BY <1>1 DEF z
    <2>4. off[k] + (i - 1) = off[k] + i - 1
      BY <1>0, <1>1
    <2>. QED  BY <2>2, <2>3, <2>4 DEF At
  <1>. QED  BY <1>4, <1>5 DEF Run, f, z

-----------------------------------------------------------------------------
(* Output buffering and the stream *)

\* What is still to be sent, and when there is any.
LEMMA UnsentFacts ==
    ASSUME BufTypeOK, TxInBounds
    PROVE  /\ Unsent \in Seq(Byte) /\ Len(Unsent) = Len(txbuf) - tx_sent
           /\ tx_sent = Len(txbuf) => Unsent = <<>>
  BY DEF BufTypeOK, TxInBounds, Unsent

\* append_tx adds the bytes to what is still to be sent, or adds nothing and
\* dooms the receiver.
LEMMA AppendUnsent ==
    ASSUME BufTypeOK, TxInBounds, NEW bytes \in Seq(Byte), append_tx(bytes)
    PROVE  /\ tx_sent' = 0 /\ txbuf' = Unsent' /\ Unsent' \in Seq(Byte)
           /\ \/ Unsent' = Unsent \o bytes /\ receiver' = receiver /\ nomem' = nomem
              \/ /\ Unsent' = Unsent /\ receiver' = "closing"
                 /\ nomem' = (nomem \/ Len(Unsent) + Len(bytes) <= Limit)
  <1>0. Unsent \in Seq(Byte) /\ Unsent \o bytes \in Seq(Byte)
    BY UnsentFacts
  <1>1. /\ tx_sent' = 0
        /\ \/ txbuf' = Unsent \o bytes /\ receiver' = receiver /\ nomem' = nomem
           \/ /\ txbuf' = Unsent /\ receiver' = "closing"
              /\ nomem' = (nomem \/ Len(Unsent) + Len(bytes) <= Limit)
    BY ZenonT(60) DEF append_tx, Unsent
  <1>2. txbuf' \in Seq(Byte)
    BY <1>0, <1>1, ZenonT(60)
  <1>3. Unsent' = txbuf'
    BY <1>1, <1>2 DEF Unsent
  <1>. QED  BY <1>1, <1>2, <1>3

\* queue_send of the k-th frame to a receiver that is still there.
LEMMA SendStream ==
    ASSUME BufInv, SinkTypeOK, NEW off, NEW k, Layout(sent, off), k \in 1 .. Len(sent),
           NEW frame \in Seq(Byte), Run(sent, off, frame, off[k]),
           off[k + 1] = off[k] + Len(frame), Len(frame) <= RxSize,
           queue_send(frame), receiver # "closed",
           UNCHANGED <<sent, gone, got>>,
           RxSize <= Limit /\ ~nomem => TxPart(off, k)
    PROVE  SinkTypeOK' /\ (RxSize <= Limit /\ ~nomem' => TxPart(off, k + 1)')
  <1>. DEFINE Goal == SinkTypeOK' /\ (RxSize <= Limit /\ ~nomem' => TxPart(off, k + 1)')
  <1>0. /\ BufTypeOK /\ TxInBounds /\ Unsent \in Seq(Byte) /\ sock \in Seq(Byte)
        /\ tx_sent = Len(txbuf) => Unsent = <<>>
        /\ Len(Unsent) = Len(txbuf) - tx_sent
        /\ Len(sock) \in Nat /\ Len(Unsent) \in Nat /\ Len(frame) \in Nat
        /\ off[k] \in Nat /\ off[k + 1] \in Nat
    <2>1. BufTypeOK /\ TxInBounds
      BY DEF BufInv
    <2>2. off[k] \in Nat /\ off[k + 1] \in Nat
      <3>1. k \in 1 .. Len(sent) + 1 /\ k + 1 \in 1 .. Len(sent) + 1
        BY <2>1 DEF BufTypeOK
      <3>. QED  BY <3>1 DEF Layout
    <2>. QED  BY <2>1, <2>2, UnsentFacts DEF SinkTypeOK
  <1>1. gone \in BOOLEAN /\ nomem \in BOOLEAN /\ receiver \in {"open", "closing"}
    BY DEF SinkTypeOK
  <1>2. ASSUME RxSize <= Limit, ~nomem, ~gone
        PROVE  /\ Len(got) <= Len(sent) /\ off[Len(got) + 1] \in Nat
               /\ Run(sent, off, sock, off[Len(got) + 1])
               /\ receiver = "open" =>
                    /\ Run(sent, off, Unsent, off[Len(got) + 1] + Len(sock))
                    /\ off[Len(got) + 1] + Len(sock) + Len(Unsent) = off[k]
               /\ receiver = "closing" => tx_sent < Len(txbuf)
    <2>1. TxPart(off, k)
      BY <1>2
    <2>2. Len(got) \in Nat /\ Len(sent) \in Nat
      BY <1>0 DEF SinkTypeOK, BufTypeOK
    <2>3. off[Len(got) + 1] \in Nat
      BY <1>2, <2>1, <2>2, SMTT(60) DEF TxPart, Layout
    <2>. QED  BY <1>2, <2>1, <2>3 DEF TxPart
  <1>3. RxSize <= Limit /\ ~nomem => \A i \in DOMAIN got : got[i].id = i
    BY DEF TxPart
  <1>. HIDE DEF Goal
  \* The socket takes the first n bytes; what it does not take is buffered.
  <1>4. ASSUME tx_sent = Len(txbuf), ~gone, NEW n \in 0 .. Len(frame),
               sock' = sock \o SubSeq(frame, 1, n),
               IF n = Len(frame) THEN UNCHANGED <<tx, receiver, nomem>>
               ELSE append_tx(SubSeq(frame, n + 1, Len(frame)))
        PROVE  Goal
    <2>. DEFINE head == SubSeq(frame, 1, n)
                rest == SubSeq(frame, n + 1, Len(frame))
    <2>1. /\ head \in Seq(Byte) /\ Len(head) = n /\ rest \in Seq(Byte)
          /\ Len(rest) = Len(frame) - n /\ sock' \in Seq(Byte) /\ Len(sock') = Len(sock) + n
          /\ n = Len(frame) => rest = <<>>
      <3>1. /\ head \in Seq(Byte) /\ Len(head) = n /\ rest \in Seq(Byte)
            /\ Len(rest) = Len(frame) - n
        BY Pieces
      <3>2. n = Len(frame) => rest = <<>>
        BY <3>1
      <3>. HIDE DEF head, rest
      <3>3. sock \o head \in Seq(Byte) /\ Len(sock \o head) = Len(sock) + n
        BY <1>0, <3>1, Cat, ZenonT(60)
      <3>4. sock' = sock \o head
        BY <1>4 DEF head
      <3>. QED  BY <3>1, <3>2, <3>3, <3>4
    <2>2. Run(sent, off, head, off[k]) /\ Run(sent, off, rest, off[k] + n)
      BY <1>0, RunSplit
    <2>3. Unsent = <<>> /\ Len(Unsent) = 0
      BY <1>0, <1>4
    <2>4. \/ Unsent' = rest /\ receiver' = receiver /\ nomem' = nomem
          \/ receiver' = "closing" /\ nomem' \in BOOLEAN /\ (RxSize <= Limit => nomem')
      <3>1. CASE n = Len(frame)
        BY <1>4, <2>1, <2>3, <3>1 DEF tx, Unsent
      <3>2. CASE n # Len(frame)
        <4>1. append_tx(rest)
          BY <1>4, <3>2
        <4>. HIDE DEF rest
        <4>2. \/ Unsent' = Unsent \o rest /\ receiver' = receiver /\ nomem' = nomem
              \/ /\ receiver' = "closing"
                 /\ nomem' = (nomem \/ Len(Unsent) + Len(rest) <= Limit)
          BY <1>0, <2>1, <4>1, AppendUnsent, ZenonT(60)
        <4>3. Unsent \o rest = rest
          BY <2>1, <2>3
        <4>4. RxSize <= Limit => Len(Unsent) + Len(rest) <= Limit
          BY <1>0, <2>1, <2>3, Sizes
        <4>. QED  BY <1>1, <4>2, <4>3, <4>4, ZenonT(60)
      <3>. QED  BY <3>1, <3>2
    <2>5. SinkTypeOK'
      BY <1>1, <2>1, <2>4 DEF SinkTypeOK
    <2>. HIDE DEF head, rest
    <2>6. ASSUME RxSize <= Limit, ~nomem' PROVE TxPart(off, k + 1)'
      <3>1. Unsent' = rest /\ receiver' = receiver /\ ~nomem
        BY <2>4, <2>6
      <3>2. receiver = "open"
        BY <1>0, <1>1, <1>2, <1>4, <2>6, <3>1
      <3>3. off[Len(got) + 1] + Len(sock) = off[k] /\ Run(sent, off, sock, off[Len(got) + 1])
        BY <1>0, <1>2, <1>4, <2>3, <2>6, <3>1, <3>2
      <3>4. Run(sent, off, sock \o head, off[Len(got) + 1])
        BY <1>0, <1>2, <1>4, <2>1, <2>2, <2>6, <3>1, <3>3, RunCat
      <3>5. /\ off[Len(got) + 1] + Len(sock') = off[k] + n
            /\ off[Len(got) + 1] + Len(sock') + Len(rest) = off[k + 1]
        <4>. DEFINE a == off[Len(got) + 1]
                    q == off[k]
                    s == off[k + 1]
        <4>1. a \in Nat /\ a + Len(sock) = q /\ q \in Nat /\ s = q + Len(frame)
          BY <1>0, <1>2, <1>4, <2>6, <3>1, <3>3
        <4>. HIDE DEF a, q, s
        <4>2. ASSUME NEW x \in Nat, NEW y \in Nat, NEW m \in 0 .. y, a \in Nat, a + x = q, s = q + y
              PROVE  a + (x + m) = q + m /\ a + (x + m) + (y - m) = s
          BY <4>2
        <4>3. a + (Len(sock) + n) = q + n /\ a + (Len(sock) + n) + (Len(frame) - n) = s
          BY <1>0, <4>1, <4>2, ZenonT(60)
        <4>. QED  BY <2>1, <4>3, ZenonT(60) DEF a, q, s
      <3>6. sock' = sock \o head
        BY <1>4 DEF head
      <3>7. Run(sent, off, sock', off[Len(got) + 1])
        BY <3>4, <3>6
      <3>8. Run(sent, off, rest, off[Len(got) + 1] + Len(sock'))
        BY <2>2, <3>5
      <3>9. Len(got) <= Len(sent)
        BY <1>2, <1>4, <2>6, <3>1
      <3>. QED  BY <1>3, <1>4, <2>6, <3>1, <3>2, <3>5, <3>7, <3>8, <3>9 DEF TxPart
    <2>. QED  BY <2>5, <2>6 DEF Goal
  \* send() fails.
  <1>5. ASSUME nomem' = (nomem \/ ~gone), receiver' = "closing", UNCHANGED <<tx, sock>>
        PROVE  Goal
    <2>1. SinkTypeOK'
      BY <1>0, <1>1, <1>5 DEF SinkTypeOK
    <2>2. ASSUME RxSize <= Limit, ~nomem' PROVE TxPart(off, k + 1)'
      BY <1>1, <1>3, <1>5, <2>2, ZenonT(60) DEF TxPart
    <2>. QED  BY <2>1, <2>2 DEF Goal
  \* Something is pending: the whole frame is buffered.
  <1>6. ASSUME tx_sent < Len(txbuf), append_tx(frame), UNCHANGED sock
        PROVE  Goal
    <2>1. /\ tx_sent' = 0 /\ txbuf' = Unsent' /\ Unsent' \in Seq(Byte)
          /\ \/ Unsent' = Unsent \o frame /\ receiver' = receiver /\ nomem' = nomem
             \/ /\ Unsent' = Unsent /\ receiver' = "closing"
                /\ nomem' = (nomem \/ Len(Unsent) + Len(frame) <= Limit)
      BY <1>0, <1>6, AppendUnsent
    <2>2. SinkTypeOK'
      BY <1>0, <1>1, <1>6, <2>1, ZenonT(60) DEF SinkTypeOK
    <2>3. Len(Unsent) > 0 /\ Len(Unsent \o frame) = Len(Unsent) + Len(frame)
      <3>1. Len(txbuf) \in Nat /\ tx_sent \in Nat
        BY <1>0 DEF BufTypeOK
      <3>2. Len(Unsent \o frame) = Len(Unsent) + Len(frame)
        BY <1>0, Cat, ZenonT(60)
      <3>. QED  BY <1>0, <1>6, <3>1, <3>2
    <2>4. tx_sent' < Len(txbuf')
      BY <1>0, <2>1, <2>3
    <2>5. ASSUME RxSize <= Limit, ~nomem' PROVE TxPart(off, k + 1)'
      <3>1. ~nomem
        BY <2>1, <2>5, ZenonT(60)
      <3>2. ASSUME ~gone, receiver' = "open"
            PROVE  /\ Run(sent, off, Unsent', off[Len(got) + 1] + Len(sock))
                   /\ off[Len(got) + 1] + Len(sock) + Len(Unsent') = off[k + 1]
        <4>1. Unsent' = Unsent \o frame /\ receiver = "open"
          BY <2>1, <3>2
        <4>. DEFINE g == off[Len(got) + 1] + Len(sock)
        <4>2. /\ g \in Nat /\ g + Len(Unsent) = off[k]
              /\ Run(sent, off, Unsent, g)
          <5>1. off[Len(got) + 1] \in Nat
            BY <1>2, <2>5, <3>1, <3>2
          <5>2. g + Len(Unsent) = off[k] /\ Run(sent, off, Unsent, g)
            BY <1>2, <2>5, <3>1, <3>2, <4>1
          <5>. QED  BY <1>0, <5>1, <5>2
        <4>. HIDE DEF g
        <4>3. Run(sent, off, Unsent \o frame, g)
          BY <1>0, <4>2, RunCat, ZenonT(60)
        <4>4. g + Len(Unsent \o frame) = off[k + 1]
          BY <1>0, <2>3, <4>2
        <4>. QED  BY <4>1, <4>3, <4>4 DEF g
      <3>. QED  BY <1>2, <1>3, <1>6, <2>4, <2>5, <3>1, <3>2 DEF TxPart
    <2>. QED  BY <2>2, <2>5 DEF Goal
  <1>7. Goal
    BY <1>4, <1>5, <1>6, ZenonT(60) DEF queue_send
  <1>. QED  BY <1>7 DEF Goal

-----------------------------------------------------------------------------
(* Every step keeps the stream *)

\* Types and places that every step below starts from.
LEMMA StreamFacts ==
    ASSUME BufInv, SinkTypeOK, NEW off, NEW k, StreamOK(off, k)
    PROVE  /\ sent \in Seq(Nat) /\ Len(sent) \in Nat /\ wire \in Seq(Byte) /\ rxbuf \in Seq(Byte)
           /\ sock \in Seq(Byte) /\ Unsent \in Seq(Byte)
           /\ Len(wire) \in Nat /\ Len(rxbuf) \in Nat /\ Len(sock) \in Nat /\ Len(got) \in Nat
           /\ Len(Unsent) \in Nat /\ Layout(sent, off)
           /\ k \in 1 .. Len(sent) + 1 /\ off[k] \in Nat
           /\ \A i \in 1 .. Len(sent) + 1 : off[i] \in Nat
  <1>1. BufTypeOK /\ TxInBounds
    BY DEF BufInv
  <1>2. Layout(sent, off) /\ k \in 1 .. Len(sent) + 1
    BY DEF StreamOK
  <1>3. \A i \in 1 .. Len(sent) + 1 : off[i] \in Nat
    BY <1>2 DEF Layout
  <1>4. Unsent \in Seq(Byte)
    BY <1>1, UnsentFacts
  <1>. QED  BY <1>1, <1>2, <1>3, <1>4 DEF BufTypeOK, SinkTypeOK

\* daemon_client_send writes the next frame of the stream.
LEMMA ClientSendStream ==
    ASSUME BufInv, SinkTypeOK, NEW off, NEW k, StreamOK(off, k),
           NEW n \in DataLens, client_send(n)
    PROVE  SinkTypeOK' /\ \E o : StreamOK(o, k)'
  <1>0. n \in Nat
    BY BuffersAssumption
  <1>. DEFINE l == Len(sent)
              frame == FrameBytes(l + 1, Body + n)
  <1>1. /\ sent \in Seq(Nat) /\ l \in Nat /\ wire \in Seq(Byte) /\ rxbuf \in Seq(Byte)
        /\ Len(wire) \in Nat /\ Len(rxbuf) \in Nat /\ Len(got) \in Nat
        /\ Layout(sent, off) /\ k \in 1 .. l + 1 /\ off[k] \in Nat
        /\ \A i \in 1 .. l + 1 : off[i] \in Nat
    BY StreamFacts
  <1>2. /\ sent' = Append(sent, n)
        /\ wire' = IF sender = "open" THEN wire \o frame ELSE wire
        /\ UNCHANGED <<sender, rxbuf, txbuf, tx_sent, receiver, gone, nomem, sock, got>>
    BY DEF client_send, tx
  <1>3. PICK o : /\ Layout(sent', o)
                 /\ \A i \in 1 .. l + 1 : o[i] = off[i]
                 /\ o[l + 2] = off[l + 1] + Hdr + Body + n
                 /\ \A b, g : Run(sent, off, b, g) => Run(sent', o, b, g)
    BY <1>0, <1>1, <1>2, ExtendLayout, ZenonT(60)
  <1>4. /\ Len(sent') = l + 1 /\ sent' \in Seq(Nat) /\ sent'[l + 1] = n
        /\ \A i \in 1 .. l : sent'[i] = sent[i]
        /\ l + 1 \in 1 .. Len(sent') /\ k \in 1 .. Len(sent') + 1
    BY <1>0, <1>1, <1>2
  <1>. HIDE DEF l
  <1>5. /\ Run(sent', o, frame, o[l + 1]) /\ frame \in Seq(Byte)
        /\ Len(frame) = Hdr + (Body + n)
    BY <1>3, <1>4, FrameRun, ZenonT(60)
  <1>. HIDE DEF frame
  <1>6. o[k] = off[k] /\ o[l + 1] = off[l + 1] /\ off[l + 1] \in Nat
    BY <1>1, <1>3, SMTT(60)
  <1>7. RxPart(off, k)
    BY DEF StreamOK
  <1>8. RxPart(o, k)'
    <2>1. ConformingKept'
      <3>1. CASE sender = "closed"
        <4>1. PICK i \in DOMAIN sent : Body + sent[i] > MaxPayload
          BY <1>7, <3>1 DEF RxPart, ConformingKept
        <4>2. i \in 1 .. l
          BY <1>1, <4>1 DEF l
        <4>3. i \in DOMAIN sent' /\ sent'[i] = sent[i]
          BY <1>1, <1>4, <4>2
        <4>. QED  BY <1>2, <4>1, <4>3 DEF ConformingKept
      <3>2. CASE sender # "closed"
        BY <1>2, <3>2 DEF ConformingKept
      <3>. QED  BY <3>1, <3>2
    <2>2. ASSUME sender = "open"
          PROVE  /\ Run(sent', o, rxbuf, o[k])
                 /\ Run(sent', o, wire', o[k] + Len(rxbuf))
                 /\ o[k] + Len(rxbuf) + Len(wire') = o[Len(sent') + 1]
      <3>1. /\ Run(sent, off, rxbuf, off[k])
            /\ Run(sent, off, wire, off[k] + Len(rxbuf))
            /\ off[k] + Len(rxbuf) + Len(wire) = off[l + 1]
        BY <1>7, <2>2 DEF RxPart, l
      <3>2. Run(sent', o, rxbuf, o[k]) /\ Run(sent', o, wire, o[k] + Len(rxbuf))
        BY <1>3, <1>6, <3>1
      <3>. DEFINE g == o[k] + Len(rxbuf)
      <3>3. g \in Nat /\ g + Len(wire) = o[l + 1]
        BY <1>1, <1>6, <3>1
      <3>. HIDE DEF g
      <3>4. Run(sent', o, wire \o frame, g)
        BY <1>1, <1>5, <3>2, <3>3, RunCat DEF g
      <3>5. wire' = wire \o frame /\ Len(wire') = Len(wire) + (Hdr + (Body + n))
        BY <1>1, <1>2, <1>5, <2>2, Cat, ZenonT(60)
      <3>6. o[Len(sent') + 1] = o[l + 1] + (Hdr + (Body + n))
        <4>1. Len(sent') + 1 = l + 2
          BY <1>1, <1>4, SMTT(60)
        <4>2. o[l + 2] = off[l + 1] + Hdr + Body + n
          BY <1>3
        <4>. QED  BY <1>0, <1>6, <4>1, <4>2, Sizes
      <3>7. g + Len(wire') = o[Len(sent') + 1]
        <4>1. ASSUME NEW x \in Nat, NEW y \in Nat, NEW z \in Nat PROVE x + (y + z) = x + y + z
          OBVIOUS
        <4>2. Hdr + (Body + n) \in Nat
          BY <1>0, Sizes
        <4>. QED  BY <1>1, <3>3, <3>5, <3>6, <4>1, <4>2, SMTT(60)
      <3>. QED  BY <3>2, <3>4, <3>5, <3>7 DEF g
    <2>3. sender' \in {"open", "closed"} /\ (sender' = "closed" => rxbuf' = <<>> /\ wire' = <<>>)
      BY <1>2, <1>7 DEF RxPart
    <2>. QED  BY <1>2, <2>1, <2>2, <2>3 DEF RxPart
  <1>9. RxSize <= Limit /\ ~nomem' => TxPart(o, k)'
    <2>. SUFFICES ASSUME RxSize <= Limit, ~nomem' PROVE TxPart(o, k)'
      OBVIOUS
    <2>1. TxPart(off, k)
      BY <1>2 DEF StreamOK
    <2>2. Unsent' = Unsent
      BY <1>2 DEF Unsent
    <2>3. ASSUME ~gone PROVE Len(got) <= Len(sent') /\ o[Len(got) + 1] = off[Len(got) + 1]
      <3>1. Len(got) <= l
        BY <2>1, <2>3 DEF TxPart, l
      <3>2. Len(got) + 1 \in 1 .. l + 1
        BY <1>1, <3>1
      <3>. QED  BY <1>1, <1>3, <1>4, <3>1, <3>2
    <2>. QED  BY <1>2, <1>3, <1>6, <2>1, <2>2, <2>3 DEF TxPart
  <1>10. SinkTypeOK'
    BY <1>2 DEF SinkTypeOK
  <1>. QED  BY <1>3, <1>4, <1>8, <1>9, <1>10 DEF StreamOK

\* daemon_recv takes the first frame of what the socket holds.
LEMMA RecvStream ==
    ASSUME BufInv, SinkTypeOK, NEW off, NEW k, StreamOK(off, k),
           NEW size \in BufSizes, daemon_recv(size)
    PROVE  SinkTypeOK' /\ StreamOK(off, k)'
  <1>1. /\ sent \in Seq(Nat) /\ Len(sent) \in Nat /\ sock \in Seq(Byte) /\ Len(sock) \in Nat
        /\ Len(got) \in Nat /\ Layout(sent, off) /\ k \in 1 .. Len(sent) + 1
        /\ \A i \in 1 .. Len(sent) + 1 : off[i] \in Nat
    BY StreamFacts
  <1>2. PICK len \in Lengths(sock) :
           /\ Len(sock) >= Hdr + len
           /\ got' = Append(got, [id |-> IF sock[1].pos = 0 THEN sock[1].id ELSE 0,
                                  ok |-> len <= size])
           /\ sock' = SubSeq(sock, Hdr + len + 1, Len(sock))
    BY ZenonT(60) DEF daemon_recv, Consumed
  <1>3. /\ UNCHANGED <<sent, wire, sender, rxbuf, txbuf, tx_sent, receiver, gone, nomem>>
        /\ ~gone /\ Len(sock) >= Hdr
    BY DEF daemon_recv, tx
  <1>4. sock[1] \in Byte
    BY <1>1, <1>3, Sizes
  <1>5. len \in Nat
    BY <1>2, <1>4, Sizes, SMTT(60) DEF Lengths, Byte
  <1>6. Hdr + len \in 0 .. Len(sock)
    BY <1>1, <1>2, <1>5, Sizes
  <1>7. sock' \in Seq(Byte) /\ Len(sock') = Len(sock) - (Hdr + len)
    BY <1>1, <1>2, <1>6, Pieces
  <1>. DEFINE frame == [id |-> IF sock[1].pos = 0 THEN sock[1].id ELSE 0, ok |-> len <= size]
  <1>8. frame \in [id : Nat, ok : BOOLEAN]
    BY <1>4 DEF Byte
  <1>9. SinkTypeOK'
    <2>1. got \in Seq([id : Nat, ok : BOOLEAN])
      BY DEF SinkTypeOK
    <2>. HIDE DEF frame
    <2>2. got' \in Seq([id : Nat, ok : BOOLEAN])
      BY <1>2, <1>8, <2>1, SMTT(60) DEF frame
    <2>. QED  BY <1>3, <1>7, <2>2 DEF SinkTypeOK
  <1>10. RxPart(off, k)'
    BY <1>3 DEF StreamOK, RxPart, ConformingKept
  <1>11. ASSUME RxSize <= Limit, ~nomem' PROVE TxPart(off, k)'
    <2>. DEFINE c == Len(got) + 1
    <2>1. TxPart(off, k)
      BY <1>3, <1>11 DEF StreamOK
    <2>2. Len(got) <= Len(sent) /\ Run(sent, off, sock, off[c])
      BY <1>3, <2>1 DEF TxPart
    <2>3. c \in 1 .. Len(sent) + 1 /\ c \in Nat
      BY <1>1, <2>2
    <2>. HIDE DEF c
    <2>4. /\ sock[1].pos = 0 /\ sock[1].id = c /\ Lengths(sock) = {Body + sent[c]}
          /\ c \in 1 .. Len(sent) /\ off[c + 1] = off[c] + Hdr + (Body + sent[c])
      BY <1>1, <1>3, <2>2, <2>3, FirstFrame, SMTT(60)
    <2>5. len = Body + sent[c]
      BY <1>2, <2>4
    <2>6. off[c] \in Nat /\ off[c + 1] = off[c] + (Hdr + len)
      <3>1. off[c] \in Nat
        BY <1>1, <2>3
      <3>. QED  BY <1>5, <2>4, <2>5, <3>1, Sizes
    <2>7. Run(sent, off, sock', off[c] + (Hdr + len))
      BY <1>1, <1>2, <1>6, <2>2, <2>6, RunSplit
    <2>8. got' = Append(got, frame) /\ frame.id = c
      BY <1>2, <2>4
    <2>. HIDE DEF frame
    <2>9. got \in Seq([id : Nat, ok : BOOLEAN])
      BY DEF SinkTypeOK
    <2>10. /\ Len(got') = c /\ got'[c] = frame
           /\ DOMAIN got' = 1 .. c /\ \A i \in 1 .. Len(got) : got'[i] = got[i]
      BY <1>8, <2>8, <2>9, SMTT(60) DEF c
    <2>11. \A i \in DOMAIN got' : got'[i].id = i
      <3>. SUFFICES ASSUME NEW i \in 1 .. c PROVE got'[i].id = i
        BY <2>10
      <3>1. CASE i = c
        BY <2>8, <2>10, <3>1
      <3>2. CASE i # c
        <4>1. i \in 1 .. Len(got) /\ i \in DOMAIN got
          BY <1>1, <2>9, <3>2 DEF c
        <4>. QED  BY <2>1, <2>10, <4>1 DEF TxPart
      <3>. QED  BY <3>1, <3>2
    <2>12. Len(got') <= Len(sent')
      BY <1>3, <2>4, <2>10, SMTT(60)
    <2>13. Unsent' = Unsent
      BY <1>3 DEF Unsent
    <2>14. Run(sent, off, sock', off[Len(got') + 1])
      BY <2>6, <2>7, <2>10
    <2>15. off[Len(got') + 1] + Len(sock') = off[c] + Len(sock)
      <3>1. off[Len(got') + 1] = off[c] + (Hdr + len)
        BY <2>6, <2>10
      <3>2. ASSUME NEW x \in Nat, NEW y \in Nat, NEW z \in 0 .. y PROVE x + z + (y - z) = x + y
        OBVIOUS
      <3>. QED  BY <1>1, <1>6, <1>7, <2>6, <3>1, <3>2, SMTT(60)
    <2>16. receiver = "open" =>
              /\ Run(sent, off, Unsent, off[c] + Len(sock))
              /\ off[c] + Len(sock) + Len(Unsent) = off[k]
      BY <1>3, <2>1 DEF TxPart, c
    <2>17. receiver = "closing" => tx_sent < Len(txbuf)
      BY <1>3, <2>1 DEF TxPart
    <2>. QED  BY <1>3, <2>11, <2>12, <2>13, <2>14, <2>15, <2>16, <2>17 DEF TxPart
  <1>. QED  BY <1>1, <1>3, <1>9, <1>10, <1>11 DEF StreamOK

\* flush_tx moves the next bytes of the output to the socket.
LEMMA FlushStream ==
    ASSUME BufInv, SinkTypeOK, NEW off, NEW k, StreamOK(off, k), FlushReceiver
    PROVE  SinkTypeOK' /\ StreamOK(off, k)'
  <1>1. /\ sent \in Seq(Nat) /\ Len(sent) \in Nat /\ sock \in Seq(Byte) /\ Len(sock) \in Nat
        /\ Len(got) \in Nat /\ Layout(sent, off) /\ k \in 1 .. Len(sent) + 1
        /\ \A i \in 1 .. Len(sent) + 1 : off[i] \in Nat /\ Unsent \in Seq(Byte)
    BY StreamFacts
  <1>2. UNCHANGED <<sent, wire, sender, rxbuf, gone, nomem, got>>
    BY DEF FlushReceiver
  <1>3. RxPart(off, k)'
    BY <1>2 DEF StreamOK, RxPart, ConformingKept
  <1>4. BufTypeOK /\ TxInBounds /\ Unsent \in Seq(Byte) /\ Len(Unsent) = Len(txbuf) - tx_sent
    BY UnsentFacts DEF BufInv
  <1>5. CASE receiver' = "closed" /\ UNCHANGED sock
    <2>1. SinkTypeOK'
      BY <1>2, <1>5 DEF SinkTypeOK
    <2>2. RxSize <= Limit /\ ~nomem' => TxPart(off, k)'
      BY <1>2, <1>5 DEF StreamOK, TxPart
    <2>. QED  BY <1>1, <1>2, <1>3, <2>1, <2>2 DEF StreamOK
  <1>6. ASSUME receiver = "open", ~gone, NEW n \in 1 .. Len(txbuf) - tx_sent,
               sock' = sock \o SubSeq(txbuf, tx_sent + 1, tx_sent + n),
               txbuf' = IF tx_sent + n = Len(txbuf) THEN <<>> ELSE txbuf,
               tx_sent' = IF tx_sent + n = Len(txbuf) THEN 0 ELSE tx_sent + n,
               UNCHANGED <<tx_cap, receiver>>
        PROVE  SinkTypeOK' /\ StreamOK(off, k)'
    <2>. DEFINE head == SubSeq(Unsent, 1, n)
                rest == SubSeq(Unsent, n + 1, Len(Unsent))
    <2>0. Len(txbuf) \in Nat /\ tx_sent \in Nat /\ txbuf \in Seq(Byte) /\ tx_sent <= Len(txbuf)
      BY <1>4 DEF BufTypeOK, TxInBounds
    <2>1. n \in 0 .. Len(Unsent) /\ n \in Nat
      BY <1>4, <2>0
    <2>2. /\ head \in Seq(Byte) /\ Len(head) = n /\ rest \in Seq(Byte)
          /\ Len(rest) = Len(Unsent) - n
      BY <1>4, <2>1, Pieces
    <2>3. SubSeq(txbuf, tx_sent + 1, tx_sent + n) = head
      BY <2>0, <2>1 DEF Unsent
    <2>4. Unsent' = rest
      <3>1. CASE tx_sent + n = Len(txbuf)
        <4>1. Unsent' = <<>>
          BY <1>6, <3>1 DEF Unsent
        <4>2. Len(rest) = 0
          BY <1>4, <2>0, <2>1, <2>2, <3>1
        <4>. HIDE DEF rest
        <4>. QED  BY <2>2, <4>1, <4>2
      <3>2. CASE tx_sent + n # Len(txbuf)
        <4>1. Unsent' = SubSeq(txbuf, tx_sent + n + 1, Len(txbuf))
          BY <1>6, <3>2 DEF Unsent
        <4>2. rest = SubSeq(Unsent, n + 1, Len(txbuf) - tx_sent)
          BY <1>4
        <4>3. SubSeq(Unsent, n + 1, Len(txbuf) - tx_sent) = SubSeq(txbuf, tx_sent + n + 1, Len(txbuf))
          BY <2>0, <2>1 DEF Unsent
        <4>. QED  BY <4>1, <4>2, <4>3, ZenonT(60)
      <3>. QED  BY <3>1, <3>2
    <2>. HIDE DEF head, rest
    <2>5. sock' = sock \o head /\ sock' \in Seq(Byte) /\ Len(sock') = Len(sock) + n
      BY <1>1, <1>6, <2>2, <2>3, Cat, ZenonT(60)
    <2>6. SinkTypeOK'
      BY <1>2, <1>6, <2>5 DEF SinkTypeOK
    <2>7. ASSUME RxSize <= Limit, ~nomem' PROVE TxPart(off, k)'
      <3>. DEFINE a == off[Len(got) + 1]
                  g == a + Len(sock)
      <3>1. TxPart(off, k)
        BY <1>2, <2>7 DEF StreamOK
      <3>2. /\ Len(got) <= Len(sent) /\ Run(sent, off, sock, a)
            /\ Run(sent, off, Unsent, g) /\ g + Len(Unsent) = off[k]
        BY <1>6, <3>1 DEF TxPart
      <3>3. a \in Nat /\ g \in Nat
        <4>1. Len(got) + 1 \in 1 .. Len(sent) + 1
          BY <1>1, <3>2
        <4>2. a \in Nat
          BY <1>1, <4>1
        <4>. QED  BY <1>1, <4>2
      <3>. HIDE DEF a
      <3>4. Run(sent, off, head, g) /\ Run(sent, off, rest, g + n)
        BY <1>4, <2>1, <3>2, <3>3, RunSplit, ZenonT(60) DEF head, rest
      <3>5. Run(sent, off, sock', a)
        BY <1>1, <2>2, <2>5, <3>2, <3>3, <3>4, RunCat
      <3>6. a + Len(sock') = g + n /\ g + n + Len(rest) = off[k]
        <4>1. a + Len(sock') = g + n
          BY <1>1, <2>1, <2>5, <3>3
        <4>2. g + n + Len(rest) = g + Len(Unsent)
          BY <1>4, <2>0, <2>1, <2>2, <3>3
        <4>. QED  BY <3>2, <4>1, <4>2
      <3>7. Run(sent, off, rest, a + Len(sock')) /\ a + Len(sock') + Len(rest) = off[k]
        BY <3>4, <3>6
      <3>. QED  BY <1>2, <1>6, <2>4, <3>1, <3>2, <3>5, <3>7, ZenonT(60) DEF TxPart, a
    <2>. QED  BY <1>1, <1>2, <1>3, <2>6, <2>7 DEF StreamOK
  <1>. QED  BY <1>5, <1>6, ZenonT(60) DEF FlushReceiver

\* recv() moves the next bytes on the way to rxbuf.
LEMMA ReceiveStream ==
    ASSUME BufInv, SinkTypeOK, NEW off, NEW k, StreamOK(off, k), Receive
    PROVE  SinkTypeOK' /\ StreamOK(off, k)'
  <1>1. /\ wire \in Seq(Byte) /\ rxbuf \in Seq(Byte) /\ Len(wire) \in Nat /\ Len(rxbuf) \in Nat
        /\ Layout(sent, off) /\ k \in 1 .. Len(sent) + 1 /\ off[k] \in Nat
    BY StreamFacts
  <1>2. /\ UNCHANGED <<sent, txbuf, tx_sent, receiver, gone, nomem, sock, got>>
        /\ sender = "open" /\ svc = "poll"
    BY DEF Receive, tx
  <1>3. PICK n \in 0 .. Len(wire) :
           /\ n = 0 => Len(rxbuf) = RxSize
           /\ sender' = IF n = 0 THEN "closed" ELSE "open"
           /\ rxbuf' = rxbuf \o SubSeq(wire, 1, n)
           /\ wire' = SubSeq(wire, n + 1, Len(wire))
    BY ZenonT(60) DEF Receive
  <1>4. sender' = "open" /\ n \in Nat
    BY <1>1, <1>2, <1>3, Sizes DEF BufInv, RoomToReceive
  <1>. DEFINE head == SubSeq(wire, 1, n)
              g == off[k] + Len(rxbuf)
  <1>5. /\ head \in Seq(Byte) /\ Len(head) = n /\ wire' \in Seq(Byte)
        /\ Len(wire') = Len(wire) - n
    BY <1>1, <1>3, Pieces
  <1>6. g \in Nat
    BY <1>1
  <1>. HIDE DEF head
  <1>7. rxbuf' = rxbuf \o head /\ Len(rxbuf') = Len(rxbuf) + n
    BY <1>1, <1>3, <1>5, Cat DEF head
  <1>8. /\ Run(sent, off, rxbuf, off[k]) /\ Run(sent, off, wire, g)
        /\ g + Len(wire) = off[Len(sent) + 1]
    BY <1>2 DEF StreamOK, RxPart
  <1>9. Run(sent, off, head, g) /\ Run(sent, off, wire', g + n)
    BY <1>1, <1>3, <1>6, <1>8, RunSplit, ZenonT(60) DEF head
  <1>10. Run(sent, off, rxbuf', off[k])
    BY <1>1, <1>5, <1>7, <1>8, <1>9, RunCat
  <1>11. off[k] + Len(rxbuf') = g + n /\ g + n + Len(wire') = g + Len(wire)
    BY <1>1, <1>4, <1>5, <1>6, <1>7
  <1>12. RxPart(off, k)'
    BY <1>2, <1>4, <1>8, <1>9, <1>10, <1>11 DEF RxPart, ConformingKept
  <1>13. SinkTypeOK'
    BY <1>2 DEF SinkTypeOK
  <1>14. RxSize <= Limit /\ ~nomem' => TxPart(off, k)'
    BY <1>2, ZenonT(60) DEF StreamOK, TxPart, Unsent
  <1>. QED  BY <1>1, <1>2, <1>12, <1>13, <1>14 DEF StreamOK

\* The frame loop takes the frames off the front of rxbuf, one at a time, and
\* closes the connection only at a frame longer than the buffer admits.
LEMMA HandleFrameStream ==
    ASSUME BufInv, SinkTypeOK, NEW off, NEW k, StreamOK(off, k), HandleFrame
    PROVE  SinkTypeOK' /\ \E l : StreamOK(off, l)'
  <1>1. /\ sent \in Seq(Nat) /\ Len(sent) \in Nat /\ rxbuf \in Seq(Byte)
        /\ Len(wire) \in Nat /\ Len(rxbuf) \in Nat
        /\ Layout(sent, off) /\ k \in 1 .. Len(sent) + 1 /\ off[k] \in Nat
    BY StreamFacts
  <1>2. UNCHANGED <<sent, gone, got>>
    BY DEF HandleFrame
  <1>3. RxPart(off, k) /\ (RxSize <= Limit /\ ~nomem => TxPart(off, k))
    BY DEF StreamOK
  <1>4. CASE UNCHANGED <<wire, sender, rxbuf, tx, receiver, nomem, sock>>
    <2>1. RxPart(off, k)'
      BY <1>2, <1>3, <1>4 DEF RxPart, ConformingKept
    <2>2. RxSize <= Limit /\ ~nomem' => TxPart(off, k)'
      BY <1>2, <1>3, <1>4, ZenonT(60) DEF TxPart, Unsent, tx
    <2>3. SinkTypeOK'
      BY <1>2, <1>4 DEF SinkTypeOK
    <2>. QED  BY <1>1, <1>2, <2>1, <2>2, <2>3 DEF StreamOK
  <1>5. ASSUME Len(rxbuf) >= Hdr, NEW len \in Lengths(rxbuf)
        PROVE  /\ sender = "open" /\ k \in 1 .. Len(sent) /\ k \in Nat /\ sent[k] \in Nat
               /\ len = Body + sent[k] /\ len \in Nat /\ off[k + 1] = off[k] + (Hdr + len)
    <2>1. sender = "open"
      BY <1>3, <1>5, Sizes DEF RxPart
    <2>2. Run(sent, off, rxbuf, off[k])
      BY <1>3, <2>1 DEF RxPart
    <2>3. /\ Lengths(rxbuf) = {Body + sent[k]} /\ k \in 1 .. Len(sent)
          /\ off[k + 1] = off[k] + Hdr + (Body + sent[k])
      BY <1>1, <1>5, <2>2, FirstFrame, SMTT(60)
    <2>4. sent[k] \in Nat /\ len = Body + sent[k]
      BY <1>1, <1>5, <2>3
    <2>5. len \in Nat
      BY <2>4, Sizes
    <2>6. off[k + 1] = off[k] + Hdr + len
      BY <2>3, <2>4
    <2>7. off[k] + Hdr + len = off[k] + (Hdr + len)
      BY <1>1, <2>5, Sizes
    <2>8. k \in Nat
      BY <1>1
    <2>. QED  BY <2>1, <2>3, <2>4, <2>5, <2>6, <2>7, <2>8
  <1>6. ASSUME Len(rxbuf) >= Hdr, NEW len \in Lengths(rxbuf), Oversized(len),
               sender' = "closed", rxbuf' = <<>>, wire' = <<>>,
               UNCHANGED <<tx, receiver, nomem, sock>>
        PROVE  SinkTypeOK' /\ StreamOK(off, k)'
    <2>1. k \in 1 .. Len(sent) /\ Body + sent[k] > MaxPayload
      BY <1>5, <1>6 DEF Oversized
    <2>2. ConformingKept'
      BY <1>1, <1>2, <2>1 DEF ConformingKept
    <2>3. RxPart(off, k)'
      BY <1>6, <2>2 DEF RxPart
    <2>4. RxSize <= Limit /\ ~nomem' => TxPart(off, k)'
      BY <1>2, <1>3, <1>6, ZenonT(60) DEF TxPart, Unsent, tx
    <2>5. SinkTypeOK'
      BY <1>2, <1>6 DEF SinkTypeOK
    <2>. QED  BY <1>1, <1>2, <2>3, <2>4, <2>5 DEF StreamOK
  <1>7. ASSUME Len(rxbuf) >= Hdr, NEW len \in Lengths(rxbuf), ~Oversized(len), Complete(len),
               rxbuf' = SubSeq(rxbuf, Hdr + len + 1, Len(rxbuf)),
               IF receiver = "closed" THEN UNCHANGED <<tx, receiver, nomem, sock>>
               ELSE queue_send(SubSeq(rxbuf, 1, Hdr + len)),
               UNCHANGED <<wire, sender>>
        PROVE  SinkTypeOK' /\ StreamOK(off, k + 1)'
    <2>. DEFINE frame == SubSeq(rxbuf, 1, Hdr + len)
    <2>1. /\ sender = "open" /\ k \in 1 .. Len(sent) /\ k \in Nat /\ len \in Nat
          /\ off[k + 1] = off[k] + (Hdr + len)
      BY <1>5, <1>7
    <2>2. Hdr + len \in 0 .. Len(rxbuf) /\ Hdr + len \in Nat /\ Hdr + len <= RxSize
      BY <1>1, <1>7, <2>1, Sizes DEF Complete, Oversized, RxSize
    <2>3. /\ frame \in Seq(Byte) /\ Len(frame) = Hdr + len
          /\ rxbuf' \in Seq(Byte) /\ Len(rxbuf') = Len(rxbuf) - (Hdr + len)
      BY <1>1, <1>7, <2>2, Pieces
    <2>4. /\ Run(sent, off, rxbuf, off[k])
          /\ Run(sent, off, wire, off[k] + Len(rxbuf))
          /\ off[k] + Len(rxbuf) + Len(wire) = off[Len(sent) + 1]
      BY <1>3, <2>1 DEF RxPart
    <2>5. Run(sent, off, frame, off[k]) /\ Run(sent, off, rxbuf', off[k] + (Hdr + len))
      BY <1>1, <1>7, <2>2, <2>4, RunSplit
    <2>. HIDE DEF frame
    <2>6. off[k + 1] + Len(rxbuf') = off[k] + Len(rxbuf)
      <3>1. ASSUME NEW x \in Nat, NEW y \in Nat, NEW z \in 0 .. y PROVE x + z + (y - z) = x + y
        OBVIOUS
      <3>. QED  BY <1>1, <2>1, <2>2, <2>3, <3>1, SMTT(60)
    <2>7. RxPart(off, k + 1)'
      BY <1>2, <1>3, <1>7, <2>1, <2>4, <2>5, <2>6, ZenonT(60) DEF RxPart, ConformingKept
    <2>8. k + 1 \in 1 .. Len(sent') + 1
      BY <1>1, <1>2, <2>1
    <2>9. CASE receiver = "closed"
      <3>1. SinkTypeOK'
        BY <1>2, <1>7, <2>9 DEF SinkTypeOK
      <3>2. RxSize <= Limit /\ ~nomem' => TxPart(off, k + 1)'
        BY <1>2, <1>3, <1>7, <2>9 DEF TxPart
      <3>. QED  BY <1>1, <1>2, <2>7, <2>8, <3>1, <3>2 DEF StreamOK
    <2>10. CASE receiver # "closed"
      <3>1. queue_send(frame)
        BY <1>7, <2>10 DEF frame
      <3>2. off[k + 1] = off[k] + Len(frame) /\ Len(frame) <= RxSize
        BY <2>1, <2>2, <2>3
      <3>3. SinkTypeOK' /\ (RxSize <= Limit /\ ~nomem' => TxPart(off, k + 1)')
        BY <1>1, <1>2, <1>3, <2>1, <2>3, <2>5, <2>10, <3>1, <3>2, SendStream, ZenonT(60)
      <3>. QED  BY <1>1, <1>2, <2>7, <2>8, <3>3 DEF StreamOK
    <2>. QED  BY <2>9, <2>10
  <1>8. CASE Len(rxbuf) < Hdr
    BY <1>4, <1>8 DEF HandleFrame
  <1>9. CASE ~(Len(rxbuf) < Hdr)
    <2>1. Len(rxbuf) >= Hdr
      BY <1>1, <1>9, Sizes
    <2>2. PICK len \in Lengths(rxbuf) :
             \/ /\ Oversized(len)
                /\ sender' = "closed" /\ rxbuf' = <<>> /\ wire' = <<>>
                /\ UNCHANGED <<tx, receiver, nomem, sock>>
             \/ /\ ~Oversized(len) /\ Complete(len)
                /\ rxbuf' = SubSeq(rxbuf, Hdr + len + 1, Len(rxbuf))
                /\ IF receiver = "closed" THEN UNCHANGED <<tx, receiver, nomem, sock>>
                   ELSE queue_send(SubSeq(rxbuf, 1, Hdr + len))
                /\ UNCHANGED <<wire, sender>>
             \/ UNCHANGED <<wire, sender, rxbuf, tx, receiver, nomem, sock>>
      BY <1>9 DEF HandleFrame
    <2>. QED  BY <1>4, <1>6, <1>7, <2>1, <2>2
  <1>. QED  BY <1>8, <1>9

\* The stream starts empty.
LEMMA StreamInit == BufInit => StreamInv
  <1>. SUFFICES ASSUME BufInit PROVE StreamInv
    OBVIOUS
  <1>. DEFINE off == [i \in 1 .. 1 |-> 0]
  <1>1. SinkTypeOK
    <2>1. <<>> \in Seq(Nat) /\ <<>> \in Seq(Byte) /\ <<>> \in Seq([id : Nat, ok : BOOLEAN])
      BY EmptySeq
    <2>. QED  BY <2>1, ZenonT(60) DEF BufInit, SinkTypeOK
  <1>2. Layout(sent, off) /\ 1 \in 1 .. Len(sent) + 1 /\ off[1] = 0 /\ off[Len(sent) + 1] = 0
    BY DEF BufInit, Layout
  <1>3. \A g : Run(sent, off, <<>>, g)
    BY DEF Run
  <1>. HIDE DEF off
  <1>4. RxPart(off, 1)
    BY <1>2, <1>3 DEF BufInit, RxPart, ConformingKept
  <1>5. Unsent = <<>> /\ Len(Unsent) = 0
    BY DEF BufInit, Unsent
  <1>6. TxPart(off, 1)
    BY <1>2, <1>3, <1>5 DEF BufInit, TxPart
  <1>. QED  BY <1>1, <1>2, <1>4, <1>6 DEF StreamInv, StreamOK

\* Every step keeps StreamInv.
LEMMA StreamStep == BufInv /\ StreamInv /\ [BufNext]_bufvars => StreamInv'
  <1>. SUFFICES ASSUME BufInv, StreamInv, [BufNext]_bufvars PROVE StreamInv'
    OBVIOUS
  <1>0. SinkTypeOK
    BY DEF StreamInv
  <1>1. PICK off, k : StreamOK(off, k)
    BY DEF StreamInv
  <1>2. ASSUME NEW n \in DataLens, client_send(n) PROVE StreamInv'
    BY <1>0, <1>1, <1>2, ClientSendStream DEF StreamInv
  <1>3. ASSUME NEW size \in BufSizes, daemon_recv(size) PROVE StreamInv'
    BY <1>0, <1>1, <1>3, RecvStream DEF StreamInv
  <1>4. CASE FlushReceiver
    BY <1>0, <1>1, <1>4, FlushStream DEF StreamInv
  <1>5. CASE Receive
    BY <1>0, <1>1, <1>5, ReceiveStream DEF StreamInv
  <1>6. CASE HandleFrame
    BY <1>0, <1>1, <1>6, HandleFrameStream DEF StreamInv
  <1>7. CASE Close
    <2>1. SinkTypeOK'
      BY <1>0, <1>7, SMTT(60) DEF Close, SinkTypeOK
    <2>2. RxPart(off, k)'
      BY <1>1, <1>7 DEF Close, StreamOK, RxPart, ConformingKept
    <2>3. RxSize <= Limit /\ ~nomem' => TxPart(off, k)'
      BY <1>1, <1>7 DEF Close, StreamOK, TxPart
    <2>4. Layout(sent', off) /\ k \in 1 .. Len(sent') + 1
      BY <1>1, <1>7 DEF Close, StreamOK
    <2>. QED  BY <2>1, <2>2, <2>3, <2>4 DEF StreamInv, StreamOK
  <1>8. CASE UNCHANGED bufvars
    <2>1. SinkTypeOK'
      BY <1>0, <1>8 DEF bufvars, SinkTypeOK
    <2>2. RxPart(off, k)'
      BY <1>1, <1>8 DEF bufvars, StreamOK, RxPart, ConformingKept
    <2>3. RxSize <= Limit /\ ~nomem' => TxPart(off, k)'
      BY <1>1, <1>8, ZenonT(60) DEF bufvars, tx, StreamOK, TxPart, Unsent
    <2>4. Layout(sent', off) /\ k \in 1 .. Len(sent') + 1
      BY <1>1, <1>8 DEF bufvars, StreamOK
    <2>. QED  BY <2>1, <2>2, <2>3, <2>4 DEF StreamInv, StreamOK
  <1>. QED  BY <1>2, <1>3, <1>4, <1>5, <1>6, <1>7, <1>8 DEF BufNext

\* Both invariants hold of every state, for all sizes.
LEMMA StreamCorrect == BufSpec => [](BufInv /\ StreamInv)
  <1>1. BufInit => BufInv
    BY Sizes DEF BufInit, BufInv, BufTypeOK, TxInBounds, RoomToReceive, RxSize
  <1>. QED  BY <1>1, BufStep, StreamInit, StreamStep, PTL DEF BufSpec

\* service_client closes the sender's connection for a frame too long only if
\* daemon_client_send was given more than fits with the destination: whatever
\* pieces the stream arrives in, no byte inside a frame is ever read as the
\* length of another.  No assumption on the sizes beyond BuffersAssumption.
THEOREM ConformingCorrect == BufSpec => []ConformingKept
  <1>1. StreamInv => ConformingKept
    BY DEF StreamInv, StreamOK, RxPart
  <1>. QED  BY <1>1, StreamCorrect, PTL

\* The receiver takes the frames whole, in order and without a gap, when one
\* frame fits the backlog (256 KiB in the code, against a frame of at most a
\* header and DAEMON_MAX_MSG_PAYLOAD).  A frame that never fits would be skipped
\* by append_tx, and the next one delivered in its place.
THEOREM FramesCorrect ==
    ASSUME RxSize <= Limit
    PROVE  BufSpec => []FramesIntact
  <1>1. StreamInv => FramesIntact
    BY DEF StreamInv, StreamOK, TxPart, FramesIntact
  <1>. QED  BY <1>1, StreamCorrect, PTL

=============================================================================
