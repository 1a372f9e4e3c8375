------------------------- MODULE PayloadSystemProofs -------------------------
(***************************************************************************)
(* Proofs about module PayloadSystem, for any OBC traffic, any number of   *)
(* crashes and any size of the buffers: its part of handle_bulk_chunk and  *)
(* of the uploader behaves as modules BulkRx and BulkTx specify; the state *)
(* of payload_app and the daemon's agree; the daemon's state changes by the *)
(* effect of a command; and every command is answered, under way or lost   *)
(* where the account says so.                                              *)
(***************************************************************************)
EXTENDS PayloadSystem, BulkProofs

\* The provers' time limits, for the leaves that do not name a prover.
USE ZenonT(10), SMTT(60)

App == "payload_app"
Uploader == "video_uploader"

\* The frames that travel between the processes.
Pushed == [val : SimState, seeded : BOOLEAN]
AnyFrame == [type : {"SEND", "DELIVER", "ERROR", "STATE_GET", "STATE_VALUE", "STATE_SET"},
             apid : Apids \cup Sessions \cup {None},
             body : Commands \cup Chunks \cup SimState \cup Pushed \cup {None}]
FrameSet ==
    {f \in AnyFrame :
        /\ f.type \in {"SEND", "DELIVER"} =>
              /\ f.apid \in Sessions => f.body \in Chunks
              /\ f.apid = "CMD" => f.body \in Commands /\ f.body.op \in CmdOps
              /\ f.apid = "ADCS_RESP" => f.body \in Commands /\ f.body.op \notin CmdOps
        /\ f.type = "STATE_SET" => f.body \in Pushed
        /\ f.type = "STATE_VALUE" => f.body \in SimState}

\* A client other than payload_app does not push a state.
FramesOf(p) == {f \in FrameSet : IsPush(f) => p = App}

\* The frames that count: commands and responses.
Counts(f) == f.apid \in {"CMD", "CMD_RESP"}

\* Commands and responses are requests to send, never a request about the state,
\* and the uploader has nothing to do with them.
Requests(p) == {f \in FrameSet : Counts(f) => f.type = "SEND" /\ p # Uploader}
Silent      == {f \in FrameSet : ~Counts(f)}

\* Each state pushed by a seeded payload_app is the effect of a command on the
\* one pushed before it, or on the daemon's when there is none.
Chain(q, base) ==
    \A i \in DOMAIN q : IsPush(q[i]) /\ q[i].body.seeded =>
        \E m \in Commands :
            \/ /\ \A j \in 1 .. i - 1 : ~IsPush(q[j])
               /\ q[i].body.val = Effect(m, base)
            \/ \E j \in 1 .. i - 1 :
                  /\ IsPush(q[j]) /\ \A k \in j + 1 .. i - 1 : ~IsPush(q[k])
                  /\ q[i].body.val = Effect(m, q[j].body.val)

\* The connection t, place c, requests o and replies i of payload_app, the
\* daemon's state b, and s and x for sim and seeded.
AppOK(t, c, o, i, b, s, x) ==
    /\ t = "free" => o = <<>>
    /\ t = "live" => c \notin {"down", "connecting"}
    /\ t = "dead" => c \in {"down", "connecting"}
    /\ t = "live" /\ c = "registered" =>
          o = <<>> /\ \A n \in DOMAIN i : i[n].type # "STATE_VALUE"
    /\ t = "live" /\ c = "seeding" =>
          /\ \A n \in DOMAIN o : ~IsPush(o[n])
          /\ \A n \in DOMAIN i : i[n].type = "STATE_VALUE" => i[n].body = b
    /\ t = "live" /\ c = "running" /\ x => LastIs(o, s, b)
    /\ Chain(o, b)

QueuesOK ==
    /\ in \in [Procs -> Seq(FrameSet)]
    /\ out \in [Procs -> Seq(FrameSet)]
    /\ \A p \in Procs : out[p] \in Seq(FramesOf(p))

AppInv == AppOK(table[App], pc[App], out[App], in[App], sat, sim, seeded)

SysInv == SysTypeOK /\ QueuesOK /\ AppInv

-----------------------------------------------------------------------------
(* Frames and states *)

\* Every frame the processes and the daemon make is in FrameSet.
LEMMA Framed ==
    /\ \A a \in Apids \ {"CMD", "ADCS_RESP"} : Send(a, None) \in FrameSet
    /\ \A s \in Sessions, c \in Chunks : Send(s, c) \in FrameSet
    /\ \A m \in Commands :
           Send(IF m.op \in CmdOps THEN "CMD" ELSE "ADCS_RESP", m) \in FrameSet
    /\ \A a, b : ~IsPush(Send(a, b))
    /\ \A s \in SimState : Frame("STATE_VALUE", None, s) \in FrameSet
    /\ \A s \in SimState, x \in BOOLEAN :
          Frame("STATE_SET", None, [val |-> s, seeded |-> x]) \in FrameSet
    /\ Frame("STATE_GET", None, None) \in FrameSet
    /\ ~IsPush(Frame("STATE_GET", None, None))
    /\ \A f \in FrameSet : /\ Frame("ERROR", f.apid, None) \in FrameSet
                           /\ f.type = "SEND" => Frame("DELIVER", f.apid, f.body) \in FrameSet
  <1>. Sessions \cap Apids = {}
    BY SystemAssumption
  <1>1. \A a \in Apids \ {"CMD", "ADCS_RESP"} : Send(a, None) \in FrameSet
    BY DEF Send, Frame, FrameSet, AnyFrame
  <1>2. \A s \in Sessions, c \in Chunks : Send(s, c) \in FrameSet
    BY DEF Send, Frame, FrameSet, AnyFrame, Apids
  <1>3. \A m \in Commands :
           Send(IF m.op \in CmdOps THEN "CMD" ELSE "ADCS_RESP", m) \in FrameSet
    BY DEF Send, Frame, FrameSet, AnyFrame, Apids
  <1>4. \A a, b : ~IsPush(Send(a, b))
    BY DEF Send, Frame, IsPush
  <1>5. \A s \in SimState : Frame("STATE_VALUE", None, s) \in FrameSet
    BY DEF Frame, FrameSet, AnyFrame
  <1>6. \A s \in SimState, x \in BOOLEAN :
            Frame("STATE_SET", None, [val |-> s, seeded |-> x]) \in FrameSet
    <2>1. \A s \in SimState, x \in BOOLEAN : [val |-> s, seeded |-> x] \in Pushed
      BY DEF Pushed
    <2>. QED  BY <2>1 DEF Frame, FrameSet, AnyFrame
  <1>7. /\ Frame("STATE_GET", None, None) \in FrameSet
        /\ ~IsPush(Frame("STATE_GET", None, None))
    BY DEF Frame, FrameSet, AnyFrame, IsPush
  <1>8. \A f \in FrameSet :
            /\ Frame("ERROR", f.apid, None) \in FrameSet
            /\ f.type = "SEND" => Frame("DELIVER", f.apid, f.body) \in FrameSet
    BY DEF Frame, FrameSet, AnyFrame
  <1>. QED  BY <1>1, <1>2, <1>3, <1>4, <1>5, <1>6, <1>7, <1>8

\* A command leaves a state of payload_app a state.
LEMMA EffectType == \A m \in Commands, s \in SimState : Effect(m, s) \in SimState
  <1>. SUFFICES ASSUME NEW m \in Commands, NEW s \in SimState
                PROVE  Effect(m, s) \in SimState
    OBVIOUS
  <1>1. m.arg \in Nat /\ ExpIds \in Nat \ {0, 1}
    BY SystemAssumption
  <1>2. m.arg % ExpIds \in 0 .. ExpIds - 1 /\ 0 \in 0 .. ExpIds - 1
    BY <1>1
  <1>3. \A o \in {"IDLE", "RUNNING", "FAULT"}, e \in 0 .. ExpIds - 1, d \in BOOLEAN :
            State(o, e, d) \in SimState
    BY DEF State, SimState
  <1>4. s.op \in {"IDLE", "RUNNING", "FAULT"} /\ s.exp \in 0 .. ExpIds - 1 /\ s.dce \in BOOLEAN
    BY DEF SimState
  <1>. QED  BY <1>2, <1>3, <1>4, ZenonT(60) DEF Effect

-----------------------------------------------------------------------------
(* Sequences of requests *)

\* The state b of the daemon after the request at the head of q.
After(q, b) == IF IsPush(Head(q)) THEN Head(q).body.val ELSE b

\* Handling the request at the head keeps what the last push will leave.
LEMMA LastTail ==
    ASSUME NEW q \in Seq(FrameSet), q # <<>>, NEW v, NEW b, LastIs(q, v, b)
    PROVE  LastIs(Tail(q), v, After(q, b))
  <1>1. /\ Len(q) \in Nat \ {0} /\ DOMAIN q = 1 .. Len(q)
        /\ DOMAIN Tail(q) = 1 .. Len(q) - 1
        /\ \A i \in 1 .. Len(q) - 1 : Tail(q)[i] = q[i + 1]
        /\ Head(q) = q[1]
    OBVIOUS
  <1>2. CASE v = b /\ \A i \in DOMAIN q : ~IsPush(q[i])
    <2>1. After(q, b) = b
      BY <1>1, <1>2, SMTT(60) DEF After
    <2>2. \A i \in DOMAIN Tail(q) : ~IsPush(Tail(q)[i])
      BY <1>1, <1>2
    <2>. QED  BY <1>2, <2>1, <2>2 DEF LastIs
  <1>3. ASSUME NEW i \in DOMAIN q, IsPush(q[i]), q[i].body.val = v,
               \A j \in DOMAIN q : IsPush(q[j]) => j <= i
        PROVE  LastIs(Tail(q), v, After(q, b))
    <2>1. CASE i = 1
      <3>1. After(q, b) = v
        BY <1>1, <1>3, <2>1 DEF After
      <3>2. \A j \in DOMAIN Tail(q) : ~IsPush(Tail(q)[j])
        BY <1>1, <1>3, <2>1
      <3>. QED  BY <3>1, <3>2 DEF LastIs
    <2>2. CASE i # 1
      <3>1. i - 1 \in DOMAIN Tail(q) /\ Tail(q)[i - 1] = q[i]
        BY <1>1, <2>2, SMTT(60)
      <3>2. \A j \in DOMAIN Tail(q) : IsPush(Tail(q)[j]) => j <= i - 1
        BY <1>1, <1>3
      <3>. QED  BY <1>3, <3>1, <3>2 DEF LastIs
    <2>. QED  BY <2>1, <2>2
  <1>. QED  BY <1>2, <1>3 DEF LastIs

\* Requests that push nothing do not change what the last push will leave.
LEMMA LastAppend ==
    ASSUME NEW q \in Seq(FrameSet), NEW r \in Seq(FrameSet), NEW v, NEW b, LastIs(q, v, b),
           \A i \in DOMAIN r : ~IsPush(r[i])
    PROVE  LastIs(q \o r, v, b)
  <1>1. /\ Len(q) \in Nat /\ DOMAIN q = 1 .. Len(q) /\ Len(r) \in Nat /\ DOMAIN r = 1 .. Len(r)
        /\ DOMAIN (q \o r) = 1 .. Len(q) + Len(r)
        /\ \A i \in 1 .. Len(q) : (q \o r)[i] = q[i]
        /\ \A i \in Len(q) + 1 .. Len(q) + Len(r) : (q \o r)[i] = r[i - Len(q)]
    OBVIOUS
  <1>2. \A i \in DOMAIN (q \o r) : IsPush((q \o r)[i]) => i \in DOMAIN q
    <2>. SUFFICES ASSUME NEW i \in DOMAIN (q \o r), i \notin DOMAIN q
                  PROVE  ~IsPush((q \o r)[i])
      OBVIOUS
    <2>1. i - Len(q) \in DOMAIN r /\ (q \o r)[i] = r[i - Len(q)]
      BY <1>1
    <2>. QED  BY <2>1
  <1>3. CASE v = b /\ \A i \in DOMAIN q : ~IsPush(q[i])
    BY <1>1, <1>2, <1>3 DEF LastIs
  <1>4. ASSUME NEW i \in DOMAIN q, IsPush(q[i]), q[i].body.val = v,
               \A j \in DOMAIN q : IsPush(q[j]) => j <= i
        PROVE  LastIs(q \o r, v, b)
    <2>1. i \in DOMAIN (q \o r) /\ (q \o r)[i] = q[i]
      BY <1>1
    <2>2. \A j \in DOMAIN (q \o r) : IsPush((q \o r)[j]) => j <= i
      BY <1>1, <1>2, <1>4
    <2>. QED  BY <1>4, <2>1, <2>2 DEF LastIs
  <1>. QED  BY <1>3, <1>4 DEF LastIs

\* A push is the last one.
LEMMA LastPush ==
    ASSUME NEW q \in Seq(FrameSet), NEW f \in FrameSet, IsPush(f), NEW b
    PROVE  LastIs(Append(q, f), f.body.val, b)
  <1>1. /\ Len(q) + 1 \in DOMAIN Append(q, f)
        /\ Append(q, f)[Len(q) + 1] = f
        /\ \A j \in DOMAIN Append(q, f) : j <= Len(q) + 1
    OBVIOUS
  <1>. QED  BY <1>1 DEF LastIs

\* The chain without the request at its head starts from the state that leaves.
LEMMA ChainTail ==
    ASSUME NEW q \in Seq(FrameSet), q # <<>>, NEW b, Chain(q, b)
    PROVE  Chain(Tail(q), After(q, b))
  <1>1. /\ Len(q) \in Nat \ {0} /\ DOMAIN q = 1 .. Len(q)
        /\ DOMAIN Tail(q) = 1 .. Len(q) - 1
        /\ \A i \in 1 .. Len(q) - 1 : Tail(q)[i] = q[i + 1]
        /\ Head(q) = q[1]
    OBVIOUS
  <1>. SUFFICES ASSUME NEW i \in DOMAIN Tail(q), IsPush(Tail(q)[i]), Tail(q)[i].body.seeded
                PROVE  \E m \in Commands :
                          \/ /\ \A j \in 1 .. i - 1 : ~IsPush(Tail(q)[j])
                             /\ Tail(q)[i].body.val = Effect(m, After(q, b))
                          \/ \E j \in 1 .. i - 1 :
                                /\ IsPush(Tail(q)[j])
                                /\ \A k \in j + 1 .. i - 1 : ~IsPush(Tail(q)[k])
                                /\ Tail(q)[i].body.val = Effect(m, Tail(q)[j].body.val)
    BY ZenonT(60) DEF Chain
  <1>2. i \in Nat \ {0} /\ i + 1 \in DOMAIN q /\ Tail(q)[i] = q[i + 1] /\ (i + 1) - 1 = i
    BY <1>1
  <1>3. PICK m \in Commands :
            \/ /\ \A j \in 1 .. i : ~IsPush(q[j])
               /\ q[i + 1].body.val = Effect(m, b)
            \/ \E j \in 1 .. i :
                  /\ IsPush(q[j]) /\ \A k \in j + 1 .. i : ~IsPush(q[k])
                  /\ q[i + 1].body.val = Effect(m, q[j].body.val)
    BY <1>2 DEF Chain
  <1>4. \A j \in 1 .. i - 1 : Tail(q)[j] = q[j + 1] /\ j + 1 \in 2 .. i
    BY <1>1, <1>2
  <1>5. CASE (\A j \in 1 .. i : ~IsPush(q[j])) /\ q[i + 1].body.val = Effect(m, b)
    <2>1. After(q, b) = b
      BY <1>1, <1>2, <1>5, SMTT(60) DEF After
    <2>2. \A j \in 1 .. i - 1 : ~IsPush(Tail(q)[j])
      BY <1>4, <1>5
    <2>. QED  BY <1>2, <1>5, <2>1, <2>2
  <1>6. ASSUME NEW j \in 1 .. i, IsPush(q[j]), \A k \in j + 1 .. i : ~IsPush(q[k]),
               q[i + 1].body.val = Effect(m, q[j].body.val)
        PROVE  \/ /\ \A l \in 1 .. i - 1 : ~IsPush(Tail(q)[l])
                  /\ Tail(q)[i].body.val = Effect(m, After(q, b))
               \/ \E l \in 1 .. i - 1 :
                     /\ IsPush(Tail(q)[l])
                     /\ \A k \in l + 1 .. i - 1 : ~IsPush(Tail(q)[k])
                     /\ Tail(q)[i].body.val = Effect(m, Tail(q)[l].body.val)
    <2>1. CASE j = 1
      <3>1. After(q, b) = q[1].body.val
        BY <1>1, <1>6, <2>1 DEF After
      <3>2. \A l \in 1 .. i - 1 : ~IsPush(Tail(q)[l])
        BY <1>2, <1>4, <1>6, <2>1
      <3>. QED  BY <1>2, <1>6, <2>1, <3>1, <3>2
    <2>2. CASE j # 1
      <3>1. j - 1 \in 1 .. i - 1 /\ Tail(q)[j - 1] = q[j]
        BY <1>1, <1>2, <2>2
      <3>2. \A k \in (j - 1) + 1 .. i - 1 : ~IsPush(Tail(q)[k])
        BY <1>2, <1>4, <1>6
      <3>. QED  BY <1>2, <1>6, <3>1, <3>2
    <2>. QED  BY <2>1, <2>2, ZenonT(60)
  <1>. QED  BY <1>3, <1>5, <1>6, ZenonT(60)

\* The last of the frames that are written is the last of all.
LEMMA AppendLast ==
    ASSUME NEW q \in Seq(FrameSet), NEW r \in Seq(FrameSet), NEW g \in FrameSet
    PROVE  q \o Append(r, g) = Append(q \o r, g)
  <1>. DEFINE x == q \o Append(r, g)
              y == Append(q \o r, g)
  <1>1. x \in Seq(FrameSet) /\ y \in Seq(FrameSet) /\ Len(x) = Len(q) + Len(r) + 1 /\ Len(y) = Len(x)
    OBVIOUS
  <1>2. ASSUME NEW i \in 1 .. Len(q) + Len(r) + 1  PROVE x[i] = y[i]
    <2>1. CASE i \in 1 .. Len(q)
      BY <2>1
    <2>2. CASE i \in Len(q) + 1 .. Len(q) + Len(r)
      BY <2>2
    <2>3. CASE i = Len(q) + Len(r) + 1
      BY <2>3
    <2>. QED  BY <2>1, <2>2, <2>3
  <1>. QED  BY <1>1, <1>2

\* A chain that is continued at its end is a chain.
LEMMA ChainAppend ==
    ASSUME NEW q \in Seq(FrameSet), NEW f \in FrameSet, NEW b, Chain(q, b),
           IsPush(f) /\ f.body.seeded =>
               \E u, m : m \in Commands /\ LastIs(q, u, b) /\ f.body.val = Effect(m, u)
    PROVE  Chain(Append(q, f), b)
  <1>. DEFINE r == Append(q, f)
  <1>1. /\ Len(q) \in Nat /\ DOMAIN q = 1 .. Len(q) /\ DOMAIN r = 1 .. Len(q) + 1
        /\ \A i \in 1 .. Len(q) : r[i] = q[i]
        /\ r[Len(q) + 1] = f
    OBVIOUS
  <1>. HIDE DEF r
  <1>. SUFFICES ASSUME NEW i \in DOMAIN r, IsPush(r[i]), r[i].body.seeded
                PROVE  \E m \in Commands :
                          \/ /\ \A j \in 1 .. i - 1 : ~IsPush(r[j])
                             /\ r[i].body.val = Effect(m, b)
                          \/ \E j \in 1 .. i - 1 :
                                /\ IsPush(r[j]) /\ \A k \in j + 1 .. i - 1 : ~IsPush(r[k])
                                /\ r[i].body.val = Effect(m, r[j].body.val)
    BY ZenonT(60) DEF Chain, r
  <1>2. \A j \in 1 .. i - 1 : r[j] = q[j] /\ j \in DOMAIN q
    BY <1>1
  <1>3. CASE i \in DOMAIN q
    <2>1. PICK m \in Commands :
            \/ /\ \A j \in 1 .. i - 1 : ~IsPush(q[j])
               /\ q[i].body.val = Effect(m, b)
            \/ \E j \in 1 .. i - 1 :
                  /\ IsPush(q[j]) /\ \A k \in j + 1 .. i - 1 : ~IsPush(q[k])
                  /\ q[i].body.val = Effect(m, q[j].body.val)
      BY <1>1, <1>3 DEF Chain
    <2>2. r[i] = q[i]
      BY <1>1, <1>3
    <2>3. \A j \in 1 .. i - 1 : \A k \in j + 1 .. i - 1 : k \in 1 .. i - 1
      BY <1>1, <1>3, SMTT(60)
    <2>. QED  BY <1>2, <2>1, <2>2, <2>3
  <1>4. CASE i = Len(q) + 1
    <2>1. PICK u, m : m \in Commands /\ LastIs(q, u, b) /\ f.body.val = Effect(m, u)
      BY <1>1, <1>4
    <2>2. 1 .. i - 1 = DOMAIN q
      BY <1>1, <1>4
    <2>3. CASE u = b /\ \A j \in DOMAIN q : ~IsPush(q[j])
      BY <1>1, <1>2, <1>4, <2>1, <2>2, <2>3
    <2>4. ASSUME NEW j \in DOMAIN q, IsPush(q[j]), q[j].body.val = u,
                 \A k \in DOMAIN q : IsPush(q[k]) => k <= j
          PROVE  \E l \in 1 .. i - 1 :
                     /\ IsPush(r[l]) /\ \A k \in l + 1 .. i - 1 : ~IsPush(r[k])
                     /\ r[i].body.val = Effect(m, r[l].body.val)
      <3>1. \A k \in j + 1 .. i - 1 : ~IsPush(r[k])
        BY <1>1, <1>2, <1>4, <2>2, <2>4
      <3>. QED  BY <1>1, <1>2, <1>4, <2>1, <2>2, <2>4, <3>1
    <2>. QED  BY <2>1, <2>3, <2>4 DEF LastIs
  <1>. QED  BY <1>1, <1>3, <1>4

\* Requests that push nothing leave a chain a chain.
LEMMA ChainOther ==
    ASSUME NEW q \in Seq(FrameSet), NEW r \in Seq(FrameSet), NEW b, Chain(q, b),
           \A i \in DOMAIN r : ~IsPush(r[i])
    PROVE  Chain(q \o r, b)
  <1>. DEFINE t == q \o r
  <1>1. /\ Len(q) \in Nat /\ DOMAIN q = 1 .. Len(q) /\ Len(r) \in Nat /\ DOMAIN r = 1 .. Len(r)
        /\ DOMAIN t = 1 .. Len(q) + Len(r)
        /\ \A i \in 1 .. Len(q) : t[i] = q[i]
        /\ \A i \in Len(q) + 1 .. Len(q) + Len(r) : t[i] = r[i - Len(q)]
    OBVIOUS
  <1>. HIDE DEF t
  <1>2. \A i \in DOMAIN t : IsPush(t[i]) => i \in DOMAIN q
    <2>. SUFFICES ASSUME NEW i \in DOMAIN t, i \notin DOMAIN q
                  PROVE  ~IsPush(t[i])
      OBVIOUS
    <2>1. i - Len(q) \in DOMAIN r /\ t[i] = r[i - Len(q)]
      BY <1>1
    <2>. QED  BY <2>1
  <1>. SUFFICES ASSUME NEW i \in DOMAIN t, IsPush(t[i]), t[i].body.seeded
                PROVE  \E m \in Commands :
                          \/ /\ \A j \in 1 .. i - 1 : ~IsPush(t[j])
                             /\ t[i].body.val = Effect(m, b)
                          \/ \E j \in 1 .. i - 1 :
                                /\ IsPush(t[j]) /\ \A k \in j + 1 .. i - 1 : ~IsPush(t[k])
                                /\ t[i].body.val = Effect(m, t[j].body.val)
    BY DEF Chain, t
  <1>3. i \in DOMAIN q /\ t[i] = q[i] /\ \A j \in 1 .. i - 1 : t[j] = q[j]
    BY <1>1, <1>2, SMTT(60)
  <1>4. PICK m \in Commands :
            \/ /\ \A j \in 1 .. i - 1 : ~IsPush(q[j])
               /\ q[i].body.val = Effect(m, b)
            \/ \E j \in 1 .. i - 1 :
                  /\ IsPush(q[j]) /\ \A k \in j + 1 .. i - 1 : ~IsPush(q[k])
                  /\ q[i].body.val = Effect(m, q[j].body.val)
    BY <1>3 DEF Chain
  <1>5. \A j \in 1 .. i - 1 : \A k \in j + 1 .. i - 1 : k \in 1 .. i - 1
    BY <1>1, <1>3, SMTT(60)
  <1>. QED  BY <1>3, <1>4, <1>5

-----------------------------------------------------------------------------
(* What the steps do to payload_app and its connection *)

\* The daemon has closed the connection.
LEMMA AppClosed == \A c, i, b, s, x : AppOK("free", c, <<>>, i, b, s, x)
  <1>1. \A b : Chain(<<>>, b)
    BY DEF Chain
  <1>. QED  BY <1>1 DEF AppOK

\* The daemon has handled a request of payload_app.
LEMMA AppHandled ==
    ASSUME NEW t \in {"live", "dead"}, NEW c, NEW q \in Seq(FrameSet), NEW i \in Seq(FrameSet),
           NEW b, NEW s, NEW x, AppOK(t, c, q, i, b, s, x), q # <<>>,
           NEW j, \/ j = i
                  \/ \E g \in FrameSet : /\ j = Append(i, g)
                                         /\ g.type = "STATE_VALUE" => g.body = After(q, b)
    PROVE  AppOK(t, c, Tail(q), j, After(q, b), s, x)
  <1>1. Chain(Tail(q), After(q, b))
    BY ChainTail DEF AppOK
  <1>2. t = "live" /\ c = "running" /\ x => LastIs(Tail(q), s, After(q, b))
    BY LastTail DEF AppOK
  <1>3. ASSUME t = "live", c = "seeding"
        PROVE  /\ \A n \in DOMAIN Tail(q) : ~IsPush(Tail(q)[n])
               /\ \A n \in DOMAIN j : j[n].type = "STATE_VALUE" => j[n].body = After(q, b)
    <2>1. /\ \A n \in DOMAIN q : ~IsPush(q[n])
          /\ \A n \in DOMAIN i : i[n].type = "STATE_VALUE" => i[n].body = b
      BY <1>3 DEF AppOK
    <2>2. \A n \in DOMAIN Tail(q) : n + 1 \in DOMAIN q /\ Tail(q)[n] = q[n + 1]
      OBVIOUS
    <2>3. Head(q) = q[1] /\ 1 \in DOMAIN q
      OBVIOUS
    <2>4. After(q, b) = b
      BY <2>1, <2>3 DEF After
    <2>5. ASSUME NEW g \in FrameSet, j = Append(i, g), g.type = "STATE_VALUE" => g.body = b
          PROVE  \A n \in DOMAIN j : j[n].type = "STATE_VALUE" => j[n].body = b
      <3>1. \A n \in DOMAIN j : (n \in DOMAIN i /\ j[n] = i[n]) \/ j[n] = g
        BY <2>5
      <3>. QED  BY <2>1, <2>5, <3>1
    <2>. QED  BY <2>1, <2>2, <2>4, <2>5
  <1>. QED  BY <1>1, <1>2, <1>3 DEF AppOK

\* Something other than the daemon's state is delivered to payload_app.
LEMMA AppDelivered ==
    ASSUME NEW t, NEW c, NEW q, NEW i \in Seq(FrameSet), NEW b, NEW s, NEW x,
           AppOK(t, c, q, i, b, s, x), NEW g \in FrameSet, g.type # "STATE_VALUE"
    PROVE  AppOK(t, c, q, Append(i, g), b, s, x)
  <1>1. \A n \in DOMAIN Append(i, g) :
            (n \in DOMAIN i /\ Append(i, g)[n] = i[n]) \/ Append(i, g)[n] = g
    OBVIOUS
  <1>. QED  BY <1>1 DEF AppOK

\* payload_app reads a frame.
LEMMA AppReads ==
    ASSUME NEW t, NEW c, NEW q, NEW i \in Seq(FrameSet), i # <<>>, NEW b, NEW s, NEW x,
           AppOK(t, c, q, i, b, s, x)
    PROVE  AppOK(t, c, q, Tail(i), b, s, x)
  <1>1. \A n \in DOMAIN Tail(i) : n + 1 \in DOMAIN i /\ Tail(i)[n] = i[n + 1]
    OBVIOUS
  <1>. QED  BY <1>1 DEF AppOK

\* payload_app ends.
LEMMA AppEnded ==
    ASSUME NEW t, NEW c, NEW q, NEW i, NEW b, NEW s, NEW x, AppOK(t, c, q, i, b, s, x),
           NEW u, NEW y
    PROVE  AppOK(IF t = "live" THEN "dead" ELSE t, "down", q, <<>>, b, u, y)
  BY DEF AppOK

-----------------------------------------------------------------------------
(* The steps of the daemon *)

\* The queues after a step in which one of each kind may have changed.
LEMMA QueuesKept ==
    ASSUME QueuesOK, NEW d \in Procs, NEW i \in Seq(FrameSet), NEW p \in Procs,
           NEW q \in Seq(FramesOf(p)),
           in' = in \/ in' = [in EXCEPT ![d] = i],
           out' = out \/ out' = [out EXCEPT ![p] = q]
    PROVE  QueuesOK'
  <1>1. in' \in [Procs -> Seq(FrameSet)]
    BY ZenonT(60) DEF QueuesOK
  <1>2. q \in Seq(FrameSet)
    BY SMTT(60) DEF FramesOf
  <1>3. out' \in [Procs -> Seq(FrameSet)]
    BY <1>2, ZenonT(60) DEF QueuesOK
  <1>4. \A r \in Procs : out'[r] \in Seq(FramesOf(r))
    BY ZenonT(60) DEF QueuesOK
  <1>. QED  BY <1>1, <1>3, <1>4 DEF QueuesOK, FramesOf, IsPush

\* What QueueSend leaves of the queues, the table and payload_app's part of them.
LEMMA QueueSendOK ==
    ASSUME SysTypeOK, QueuesOK, NEW p \in Procs, NEW d \in Procs, NEW f \in FrameSet,
           out[p] # <<>>, QueueSend(p, d, f)
    PROVE  /\ QueuesOK'
           /\ table' \in [Procs -> {"free", "live", "dead"}]
           /\ \A r \in Procs : Len(in'[r]) <= TxLimit
           /\ \/ /\ table'[App] = table[App]
                 /\ out'[App] = IF p = App THEN Tail(out[App]) ELSE out[App]
                 /\ in'[App] = in[App] \/ (d = App /\ in'[App] = Append(in[App], f))
              \/ table'[App] = "free" /\ out'[App] = <<>>
  <1>. App \in Procs
    BY DEF App, Procs
  <1>1. /\ out[p] \in Seq(FramesOf(p)) /\ in[d] \in Seq(FrameSet)
        /\ Tail(out[p]) \in Seq(FramesOf(p)) /\ Append(in[d], f) \in Seq(FrameSet)
        /\ \A r \in Procs : in[r] \in Seq(FrameSet) /\ Len(in[r]) <= TxLimit
        /\ TxLimit \in Nat
    BY SystemAssumption, SMTT(60) DEF QueuesOK, SysTypeOK
  <1>2. CASE /\ table[d] = "live" /\ Len(in[d]) < TxLimit
             /\ in' = [in EXCEPT ![d] = Append(@, f)]
             /\ out' = [out EXCEPT ![p] = Tail(@)]
             /\ UNCHANGED <<table, lost>>
    <2>1. in' = [in EXCEPT ![d] = Append(in[d], f)] /\ out' = [out EXCEPT ![p] = Tail(out[p])]
      BY <1>2
    <2>2. QueuesOK'
      BY <1>1, <2>1, QueuesKept, ZenonT(60)
    <2>3. Len(Append(in[d], f)) <= TxLimit
      BY <1>1, <1>2
    <2>4. \A r \in Procs : Len(in'[r]) <= TxLimit
      BY <1>1, <2>1, <2>3 DEF QueuesOK
    <2>. QED  BY <1>2, <2>1, <2>2, <2>4 DEF QueuesOK, SysTypeOK
  <1>3. CASE /\ table[d] = "live" /\ Len(in[d]) >= TxLimit
             /\ \E k \in 0 .. Len(in[d]) : in' = [in EXCEPT ![d] = SubSeq(@, 1, k)]
             /\ out' = [q \in Procs |-> CASE q = d -> <<>> [] q = p /\ q # d -> Tail(out[p])
                                          [] OTHER -> out[q]]
             /\ table' = [table EXCEPT ![d] = "free"]
    <2>1. PICK k \in 0 .. Len(in[d]) : in' = [in EXCEPT ![d] = SubSeq(in[d], 1, k)]
      BY <1>3, ZenonT(60)
    <2>2. SubSeq(in[d], 1, k) \in Seq(FrameSet) /\ Len(SubSeq(in[d], 1, k)) <= TxLimit
      BY <1>1, <2>1
    <2>3. \A r \in Procs : in'[r] \in Seq(FrameSet) /\ Len(in'[r]) <= TxLimit
      BY <1>1, <2>1, <2>2 DEF QueuesOK
    <2>4. in' \in [Procs -> Seq(FrameSet)]
      BY <2>1, <2>2 DEF QueuesOK
    <2>5. \A r \in Procs : out'[r] = IF r = d THEN <<>>
                                     ELSE IF r = p THEN Tail(out[p]) ELSE out[r]
      BY <1>3
    <2>6. \A r \in Procs : out'[r] \in Seq(FramesOf(r))
      <3>. SUFFICES ASSUME NEW r \in Procs  PROVE out'[r] \in Seq(FramesOf(r))
        OBVIOUS
      <3>1. out[r] \in Seq(FramesOf(r)) /\ <<>> \in Seq(FramesOf(r))
        BY DEF QueuesOK
      <3>. QED  BY <1>1, <2>5, <3>1, ZenonT(60)
    <2>7. \A r \in Procs : out'[r] \in Seq(FrameSet)
      <3>. SUFFICES ASSUME NEW r \in Procs  PROVE out'[r] \in Seq(FrameSet)
        OBVIOUS
      <3>1. out'[r] \in Seq(FramesOf(r)) /\ FramesOf(r) \subseteq FrameSet
        BY <2>6 DEF FramesOf
      <3>. QED  BY <3>1
    <2>8. out' \in [Procs -> Seq(FrameSet)]
      BY <1>3, <2>7
    <2>9. QueuesOK'
      BY <2>4, <2>6, <2>8 DEF QueuesOK, FramesOf, IsPush
    <2>10. table' \in [Procs -> {"free", "live", "dead"}]
      BY <1>3 DEF SysTypeOK
    <2>11. d # App => /\ table'[App] = table[App] /\ in'[App] = in[App]
                      /\ out'[App] = IF p = App THEN Tail(out[App]) ELSE out[App]
      BY <1>3, <2>1, <2>5 DEF QueuesOK, SysTypeOK
    <2>12. d = App => table'[App] = "free" /\ out'[App] = <<>>
      BY <1>3, <2>5 DEF SysTypeOK
    <2>. QED  BY <2>3, <2>9, <2>10, <2>11, <2>12
  <1>4. CASE /\ table[d] # "live"
             /\ out' = [out EXCEPT ![p] = Tail(@)]
             /\ UNCHANGED <<in, table>>
    <2>1. in' = in /\ out' = [out EXCEPT ![p] = Tail(out[p])]
      BY <1>4
    <2>2. QueuesOK'
      BY <1>1, <2>1, QueuesKept, ZenonT(60)
    <2>. QED  BY <1>1, <1>4, <2>1, <2>2 DEF QueuesOK, SysTypeOK
  <1>. QED  BY <1>2, <1>3, <1>4 DEF QueueSend

\* Handling a request keeps the invariant.
LEMMA HandleRequestOK ==
    ASSUME SysInv, NEW p \in Procs, HandleRequest(p)
    PROVE  SysInv'
  <1>. DEFINE f == Head(out[p])
  <1>. SysTypeOK /\ QueuesOK /\ AppInv /\ App \in Procs /\ Dest(p) \in Procs
    BY DEF SysInv, App, Procs, Dest
  <1>1. /\ out[p] # <<>> /\ out[p] \in Seq(FramesOf(p)) /\ f \in FramesOf(p) /\ f \in FrameSet
        /\ out[App] \in Seq(FrameSet) /\ in[App] \in Seq(FrameSet) /\ table[p] # "free"
    BY SMTT(60) DEF HandleRequest, QueuesOK, FramesOf
  <1>. HIDE DEF f
  <1>2. PICK d \in Procs, g \in FrameSet :
            /\ QueueSend(p, d, g)
            /\ sat' = (IF IsPush(f) THEN f.body.val ELSE sat)
            /\ sat' \in SimState
            /\ p = App /\ d = App /\ g.type = "STATE_VALUE" => g.body = sat'
            /\ p # App /\ d = App => g.type # "STATE_VALUE"
    <2>1. CASE /\ f.type = "STATE_GET"
               /\ QueueSend(p, p, Frame("STATE_VALUE", None, sat)) /\ UNCHANGED sat
      <3>1. Frame("STATE_VALUE", None, sat) \in FrameSet /\ sat \in SimState
        BY Framed DEF SysTypeOK
      <3>2. Frame("STATE_VALUE", None, sat).body = sat
        BY DEF Frame
      <3>. QED  BY <2>1, <3>1, <3>2 DEF IsPush
    <2>2. CASE /\ f.type = "STATE_SET" /\ sat' = f.body.val
               /\ QueueSend(p, p, Frame("STATE_VALUE", None, f.body.val))
      <3>1. f.body.val \in SimState
        BY <1>1, <2>2 DEF FrameSet, Pushed
      <3>2. /\ Frame("STATE_VALUE", None, f.body.val) \in FrameSet
            /\ Frame("STATE_VALUE", None, f.body.val).body = f.body.val
        BY <3>1, Framed DEF Frame
      <3>. QED  BY <2>2, <3>1, <3>2 DEF IsPush
    <2>3. CASE /\ f.type = "SEND"
               /\ QueueSend(p, Dest(p), Frame("DELIVER", f.apid, f.body)) /\ UNCHANGED sat
      <3>1. /\ Frame("DELIVER", f.apid, f.body) \in FrameSet /\ sat \in SimState
            /\ Frame("DELIVER", f.apid, f.body).type # "STATE_VALUE"
        BY <1>1, <2>3, Framed, ZenonT(60) DEF SysTypeOK, Frame
      <3>. QED  BY <2>3, <3>1 DEF IsPush
    <2>4. CASE /\ f.type = "SEND"
               /\ QueueSend(p, p, Frame("ERROR", f.apid, None)) /\ UNCHANGED sat
      <3>1. /\ Frame("ERROR", f.apid, None) \in FrameSet /\ sat \in SimState
            /\ Frame("ERROR", f.apid, None).type # "STATE_VALUE"
        BY <1>1, Framed, ZenonT(60) DEF SysTypeOK, Frame
      <3>. QED  BY <2>4, <3>1 DEF IsPush
    <2>. QED  BY <2>1, <2>2, <2>3, <2>4 DEF HandleRequest, f
  <1>3. /\ QueuesOK' /\ table' \in [Procs -> {"free", "live", "dead"}]
        /\ \A r \in Procs : Len(in'[r]) <= TxLimit
        /\ \/ /\ table'[App] = table[App]
              /\ out'[App] = IF p = App THEN Tail(out[App]) ELSE out[App]
              /\ in'[App] = in[App] \/ (d = App /\ in'[App] = Append(in[App], g))
           \/ table'[App] = "free" /\ out'[App] = <<>>
    BY <1>1, <1>2, QueueSendOK
  <1>4. UNCHANGED <<pc, sim, seeded, tick, owed>>
    BY DEF HandleRequest, app
  <1>5. SysTypeOK'
    BY <1>2, <1>3, <1>4 DEF SysTypeOK
  <1>6. AppInv'
    <2>1. CASE table'[App] = "free" /\ out'[App] = <<>>
      BY <2>1, AppClosed DEF AppInv, App
    <2>2. CASE p = App /\ ~(table'[App] = "free" /\ out'[App] = <<>>)
      <3>1. sat' = After(out[App], sat)
        BY <1>2, <2>2 DEF After, f
      <3>2. AppOK(table[App], pc[App], Tail(out[App]), in'[App], sat', sim, seeded)
        BY <1>1, <1>2, <1>3, <2>2, <3>1, AppHandled, ZenonT(60) DEF AppInv, SysTypeOK
      <3>. QED  BY <1>3, <1>4, <2>2, <3>2 DEF AppInv, App
    <2>3. CASE p # App /\ ~(table'[App] = "free" /\ out'[App] = <<>>)
      <3>1. sat' = sat
        BY <1>1, <1>2, <2>3 DEF FramesOf
      <3>2. AppOK(table[App], pc[App], out[App], in'[App], sat, sim, seeded)
        BY <1>1, <1>2, <1>3, <2>3, AppDelivered DEF AppInv
      <3>. QED  BY <1>3, <1>4, <2>3, <3>1, <3>2 DEF AppInv, App
    <2>. QED  BY <2>1, <2>2, <2>3
  <1>. QED  BY <1>3, <1>5, <1>6 DEF SysInv

\* Giving up a connection keeps the invariant.
LEMMA HangUpOK ==
    ASSUME SysInv, NEW p \in Procs, HangUp(p)
    PROVE  SysInv'
  <1>. SysTypeOK /\ QueuesOK /\ AppInv /\ App \in Procs /\ <<>> \in Seq(FramesOf(p))
    BY DEF SysInv, App, Procs
  <1>1. /\ table' = [table EXCEPT ![p] = "free"] /\ out' = [out EXCEPT ![p] = <<>>]
        /\ UNCHANGED <<in, sat, pc, sim, seeded, tick, owed>>
    BY DEF HangUp, app
  <1>2. QueuesOK'
    BY <1>1, QueuesKept DEF QueuesOK
  <1>3. SysTypeOK'
    BY <1>1 DEF SysTypeOK
  <1>4. AppInv'
    <2>1. CASE p = App
      <3>1. table'[App] = "free" /\ out'[App] = <<>>
        BY <1>1, <2>1 DEF SysTypeOK, QueuesOK
      <3>. QED  BY <3>1, AppClosed DEF AppInv, App
    <2>2. CASE p # App
      <3>1. table'[App] = table[App] /\ out'[App] = out[App]
        BY <1>1, <2>2 DEF SysTypeOK, QueuesOK
      <3>. QED  BY <1>1, <3>1 DEF AppInv, App
    <2>. QED  BY <2>1, <2>2
  <1>. QED  BY <1>2, <1>3, <1>4 DEF SysInv

-----------------------------------------------------------------------------
(* The steps of the processes *)

\* The state payload_app boots with is one.
LEMMA BootType == Boot \in SimState
  BY SystemAssumption, SMTT(60) DEF Boot, State, SimState

\* The end of a process keeps the invariant.
LEMMA EndedOK ==
    ASSUME SysInv, NEW p \in Procs, Ended(p), UNCHANGED sat
    PROVE  SysInv'
  <1>. SysTypeOK /\ QueuesOK /\ AppInv /\ App \in Procs /\ <<>> \in Seq(FrameSet)
    BY DEF SysInv, App, Procs
  <1>1. /\ pc' = [pc EXCEPT ![p] = "down"] /\ in' = [in EXCEPT ![p] = <<>>]
        /\ table' = [table EXCEPT ![p] = IF table[p] = "live" THEN "dead" ELSE table[p]]
        /\ UNCHANGED out
    BY DEF Ended
  <1>2. QueuesOK'
    BY <1>1, QueuesKept DEF QueuesOK
  <1>3. /\ sim' \in SimState /\ seeded' \in BOOLEAN /\ owed' \in Nat /\ tick' \in Nat
        /\ p # App => UNCHANGED <<sim, seeded>>
    <2>1. CASE p = App
      <3>1. sim' = Boot /\ seeded' = FALSE /\ tick' = 0 /\ owed' = 0
        BY <2>1, ZenonT(60) DEF Ended, Seed, App
      <3>. QED  BY <2>1, <3>1, BootType, ZenonT(60)
    <2>2. CASE p # App
      <3>1. UNCHANGED <<sim, seeded, tick, owed>>
        BY <2>2 DEF Ended, Seed, App, app
      <3>. QED  BY <3>1 DEF SysTypeOK
    <2>. QED  BY <2>1, <2>2
  <1>4. SysTypeOK'
    <2>1. \A r \in Procs : Len(in'[r]) <= TxLimit
      BY <1>1, SystemAssumption, SMTT(60) DEF SysTypeOK, QueuesOK
    <2>. QED  BY <1>1, <1>3, <2>1 DEF SysTypeOK
  <1>5. AppInv'
    <2>1. CASE p = App
      <3>1. /\ table'[App] = IF table[App] = "live" THEN "dead" ELSE table[App]
            /\ pc'[App] = "down" /\ in'[App] = <<>> /\ out'[App] = out[App]
        BY <1>1, <2>1 DEF SysTypeOK, QueuesOK
      <3>2. AppOK(table'[App], "down", out[App], <<>>, sat, sim', seeded')
        BY <3>1, AppEnded, SMTT(60) DEF AppInv
      <3>. QED  BY <3>1, <3>2 DEF AppInv, App
    <2>2. CASE p # App
      <3>1. /\ table'[App] = table[App] /\ out'[App] = out[App] /\ in'[App] = in[App]
            /\ pc'[App] = pc[App]
        BY <1>1, <2>2 DEF SysTypeOK, QueuesOK
      <3>. QED  BY <1>3, <2>2, <3>1 DEF AppInv, App
    <2>. QED  BY <2>1, <2>2
  <1>. QED  BY <1>2, <1>4, <1>5 DEF SysInv

\* Starting a process keeps the invariant.
LEMMA StartOK ==
    ASSUME SysInv, NEW p \in Procs, Start(p)
    PROVE  SysInv'
  <1>. SysTypeOK /\ QueuesOK /\ AppInv /\ App \in Procs
    BY DEF SysInv, App, Procs
  <1>1. /\ pc[p] = "down" /\ pc' = [pc EXCEPT ![p] = "connecting"]
        /\ UNCHANGED <<table, out, in, sat, sim, seeded, tick, owed>>
    BY DEF Start, daemon, app
  <1>2. QueuesOK'
    BY <1>1 DEF QueuesOK, FramesOf, IsPush
  <1>3. SysTypeOK'
    BY <1>1 DEF SysTypeOK
  <1>4. AppInv'
    <2>1. CASE p = App
      <3>1. pc'[App] = "connecting" /\ pc[App] = "down"
        BY <1>1, <2>1 DEF SysTypeOK
      <3>2. AppOK(table[App], "connecting", out[App], in[App], sat, sim, seeded)
        BY <3>1 DEF AppInv, AppOK
      <3>. QED  BY <1>1, <3>1, <3>2 DEF AppInv, App
    <2>2. CASE p # App
      <3>1. pc'[App] = pc[App]
        BY <1>1, <2>2 DEF SysTypeOK
      <3>. QED  BY <1>1, <3>1 DEF AppInv, App
    <2>. QED  BY <2>1, <2>2
  <1>. QED  BY <1>2, <1>3, <1>4 DEF SysInv

\* Connecting keeps the invariant: the name is free only once the requests of
\* the previous process are gone.
LEMMA ConnectOK ==
    ASSUME SysInv, NEW p \in Procs, Connect(p)
    PROVE  SysInv'
  <1>. SysTypeOK /\ QueuesOK /\ AppInv /\ App \in Procs /\ <<>> \in Seq(FrameSet)
    BY DEF SysInv, App, Procs
  <1>1. pc[p] = "connecting" /\ UNCHANGED <<out, sat, sim, seeded, tick, owed>>
    BY DEF Connect, app
  <1>2. CASE /\ table[p] = "free" /\ table' = [table EXCEPT ![p] = "live"]
             /\ pc' = [pc EXCEPT ![p] = IF p = "video_uploader" THEN "running" ELSE "registered"]
             /\ in' = [in EXCEPT ![p] = <<>>]
    <2>1. QueuesOK'
      BY <1>1, <1>2, QueuesKept DEF QueuesOK
    <2>2. \A r \in Procs : Len(in'[r]) <= TxLimit
      BY <1>2, SystemAssumption, SMTT(60) DEF SysTypeOK, QueuesOK
    <2>3. SysTypeOK'
      BY <1>1, <1>2, <2>2 DEF SysTypeOK
    <2>4. CASE p = App
      <3>1. table'[App] = "live" /\ pc'[App] = "registered" /\ in'[App] = <<>> /\ table[App] = "free"
        BY <1>2, <2>4 DEF SysTypeOK, QueuesOK, App
      <3>2. AppOK("live", "registered", out[App], <<>>, sat, sim, seeded)
        BY <3>1 DEF AppInv, AppOK
      <3>3. AppInv'
        BY <1>1, <3>1, <3>2 DEF AppInv, App
      <3>. QED  BY <2>1, <2>3, <3>3 DEF SysInv
    <2>5. CASE p # App
      <3>1. table'[App] = table[App] /\ pc'[App] = pc[App] /\ in'[App] = in[App]
        BY <1>2, <2>5 DEF SysTypeOK, QueuesOK
      <3>2. AppInv'
        BY <1>1, <3>1 DEF AppInv, App
      <3>. QED  BY <2>1, <2>3, <3>2 DEF SysInv
    <2>. QED  BY <2>4, <2>5
  <1>3. CASE UNCHANGED <<table, in>> /\ (UNCHANGED pc \/ pc' = [pc EXCEPT ![p] = "down"])
    <2>1. QueuesOK'
      BY <1>1, <1>3 DEF QueuesOK, FramesOf, IsPush
    <2>2. SysTypeOK'
      BY <1>1, <1>3 DEF SysTypeOK
    <2>3. pc'[App] = pc[App] \/ (pc'[App] = "down" /\ pc[App] = "connecting")
      BY <1>1, <1>3 DEF SysTypeOK
    <2>4. AppOK(table[App], pc'[App], out[App], in[App], sat, sim, seeded)
      BY <2>3 DEF AppInv, AppOK
    <2>5. AppInv'
      BY <1>1, <1>3, <2>4 DEF AppInv, App
    <2>. QED  BY <2>1, <2>2, <2>5 DEF SysInv
  <1>. QED  BY <1>2, <1>3 DEF Connect

\* The queues when p writes the frames fs.
LEMMA WriteOK ==
    ASSUME QueuesOK, NEW p \in Procs, NEW fs \in Seq(FramesOf(p)), Write(p, fs)
    PROVE  /\ in' \in [Procs -> Seq(FrameSet)] => QueuesOK'
           /\ out'[p] = IF Lost(p) THEN out[p] ELSE out[p] \o fs
           /\ \A r \in Procs \ {p} : out'[r] = out[r]
  <1>. DEFINE q == IF Lost(p) THEN out[p] ELSE out[p] \o fs
  <1>1. out' = [out EXCEPT ![p] = q]
    BY DEF Write
  <1>2. q \in Seq(FramesOf(p)) /\ q \in Seq(FrameSet)
    BY SMTT(60) DEF QueuesOK, FramesOf
  <1>. HIDE DEF q
  <1>3. out' \in [Procs -> Seq(FrameSet)] /\ \A r \in Procs : out'[r] \in Seq(FramesOf(r))
    BY <1>1, <1>2 DEF QueuesOK
  <1>4. out'[p] = q /\ \A r \in Procs \ {p} : out'[r] = out[r]
    BY <1>1 DEF QueuesOK
  <1>. QED  BY <1>3, <1>4 DEF QueuesOK, FramesOf, IsPush, q

\* The first half of daemon_client_get_state keeps the invariant.
LEMMA GetStateOK ==
    ASSUME SysInv, NEW p \in {"payload_app", "network"}, GetState(p)
    PROVE  SysInv'
  <1>. SysTypeOK /\ QueuesOK /\ AppInv /\ App \in Procs /\ p \in Procs
    BY DEF SysInv, App, Procs
  <1>. DEFINE g == Frame("STATE_GET", None, None)
  <1>1. pc[p] = "registered" /\ UNCHANGED <<table, in, sat>>
    BY DEF GetState
  <1>2. g \in FramesOf(p) /\ ~IsPush(g) /\ <<g>> \in Seq(FramesOf(p))
    BY Framed, SMTT(60) DEF FramesOf
  <1>. HIDE DEF g
  <1>3. CASE ~Lost(p) /\ pc' = [pc EXCEPT ![p] = "seeding"] /\ Write(p, <<g>>) /\ UNCHANGED app
    <2>1. QueuesOK' /\ out'[p] = out[p] \o <<g>> /\ \A r \in Procs \ {p} : out'[r] = out[r]
      BY <1>1, <1>2, <1>3, WriteOK, ZenonT(60) DEF QueuesOK
    <2>2. UNCHANGED <<sim, seeded, tick, owed>>
      BY <1>3 DEF app
    <2>3. SysTypeOK'
      BY <1>1, <1>3, <2>2 DEF SysTypeOK
    <2>4. CASE p = App
      <3>1. table[App] = "live" /\ pc[App] = "registered" /\ pc'[App] = "seeding"
        BY <1>1, <1>3, <2>4 DEF Lost, SysTypeOK, AppInv, AppOK
      <3>2. out[App] = <<>> /\ \A n \in DOMAIN in[App] : in[App][n].type # "STATE_VALUE"
        BY <3>1 DEF AppInv, AppOK
      <3>3. out'[App] = <<g>>
        BY <2>1, <2>4, <3>2
      <3>4. Chain(<<g>>, sat) /\ \A n \in DOMAIN <<g>> : ~IsPush(<<g>>[n])
        BY <1>2 DEF Chain
      <3>5. AppOK("live", "seeding", <<g>>, in[App], sat, sim, seeded)
        BY <3>2, <3>4 DEF AppOK
      <3>6. AppInv'
        BY <1>1, <2>2, <3>1, <3>3, <3>5 DEF AppInv, App
      <3>. QED  BY <2>1, <2>3, <3>6 DEF SysInv
    <2>5. CASE p # App
      <3>1. pc'[App] = pc[App] /\ out'[App] = out[App]
        BY <1>3, <2>1, <2>5, ZenonT(60) DEF SysTypeOK
      <3>2. AppInv'
        BY <1>1, <2>2, <3>1 DEF AppInv, App
      <3>. QED  BY <2>1, <2>3, <3>2 DEF SysInv
    <2>. QED  BY <2>4, <2>5
  <1>4. CASE Lost(p) /\ Seeded(p) /\ Seed(p, Boot, FALSE) /\ UNCHANGED out
    <2>1. QueuesOK'
      BY <1>1, <1>4 DEF QueuesOK, FramesOf, IsPush
    <2>2. /\ pc' \in [Procs -> {"down", "connecting", "registered", "seeding", "opening", "running"}]
          /\ p # App => pc'[App] = pc[App]
      BY <1>4 DEF Seeded, SysTypeOK
    <2>3. CASE p = App
      <3>1. sim' = Boot /\ seeded' = FALSE /\ tick' = 0 /\ owed' = 0
        BY <1>4, <2>3, ZenonT(60) DEF Seed, App
      <3>2. SysTypeOK'
        BY <1>1, <2>2, <3>1, BootType, ZenonT(60) DEF SysTypeOK
      <3>3. table[App] = "free" /\ out[App] = <<>>
        BY <1>4, <2>3 DEF Lost, AppInv, AppOK
      <3>4. AppInv'
        BY <1>1, <1>4, <3>3, AppClosed DEF AppInv, App
      <3>. QED  BY <2>1, <3>2, <3>4 DEF SysInv
    <2>4. CASE p # App
      <3>1. UNCHANGED <<sim, seeded, tick, owed>>
        BY <1>4, <2>4 DEF Seed, App, app
      <3>2. SysTypeOK'
        BY <1>1, <2>2, <3>1 DEF SysTypeOK
      <3>3. AppInv'
        BY <1>1, <1>4, <2>2, <2>4, <3>1 DEF AppInv, App
      <3>. QED  BY <2>1, <3>2, <3>3 DEF SysInv
    <2>. QED  BY <2>3, <2>4
  <1>. QED  BY <1>3, <1>4, ZenonT(60) DEF GetState, g

\* The queues when p reads a frame.
LEMMA ReadOK ==
    ASSUME SysTypeOK, QueuesOK, NEW p \in Procs, in[p] # <<>>,
           in' = [in EXCEPT ![p] = Tail(in[p])]
    PROVE  /\ in' \in [Procs -> Seq(FrameSet)]
           /\ \A r \in Procs : Len(in'[r]) <= TxLimit
           /\ \A r \in Procs \ {p} : in'[r] = in[r]
           /\ in'[p] = Tail(in[p]) /\ Head(in[p]) \in FrameSet
  <1>1. in[p] \in Seq(FrameSet) /\ Len(in[p]) <= TxLimit /\ TxLimit \in Nat
    BY SystemAssumption DEF SysTypeOK, QueuesOK
  <1>2. Tail(in[p]) \in Seq(FrameSet) /\ Len(Tail(in[p])) <= TxLimit /\ Head(in[p]) \in FrameSet
    BY <1>1
  <1>. QED  BY <1>2 DEF QueuesOK, SysTypeOK

\* The second half of daemon_client_get_state keeps the invariant: the reply is
\* the daemon's state, and payload_app has not pushed any yet.
LEMMA StateReplyOK ==
    ASSUME SysInv, NEW p \in {"payload_app", "network"}, StateReply(p)
    PROVE  SysInv'
  <1>. SysTypeOK /\ QueuesOK /\ AppInv /\ App \in Procs /\ p \in Procs
    BY DEF SysInv, App, Procs
  <1>1. /\ pc[p] = "seeding" /\ Seeded(p) /\ UNCHANGED <<table, out, sat>>
        /\ in' = [in EXCEPT ![p] = IF in[p] = <<>> THEN in[p] ELSE Tail(in[p])]
    BY DEF StateReply
  <1>2. /\ in' \in [Procs -> Seq(FrameSet)]
        /\ \A r \in Procs : Len(in'[r]) <= TxLimit
        /\ p # App => in'[App] = in[App]
    <2>1. CASE in[p] = <<>>
      <3>1. in' = in
        BY <1>1, <2>1 DEF QueuesOK
      <3>. QED  BY <3>1 DEF QueuesOK, SysTypeOK
    <2>2. CASE in[p] # <<>>
      BY <1>1, <2>2, ReadOK, ZenonT(60)
    <2>. QED  BY <2>1, <2>2
  <1>3. QueuesOK'
    BY <1>1, <1>2 DEF QueuesOK, FramesOf, IsPush
  <1>4. /\ pc' \in [Procs -> {"down", "connecting", "registered", "seeding", "opening", "running"}]
        /\ p # App => pc'[App] = pc[App]
        /\ p = App => pc'[App] = "running"
    BY <1>1 DEF Seeded, SysTypeOK, App
  <1>5. CASE p = App
    <2>1. \/ /\ IsReply(App) /\ sim' = Head(in[App]).body /\ seeded' = TRUE
             /\ tick' = 0 /\ owed' = 0
          \/ sim' = Boot /\ seeded' = FALSE /\ tick' = 0 /\ owed' = 0
      BY <1>5, ZenonT(60) DEF StateReply, Seed, SeedFrom, App
    <2>2. IsReply(App) => /\ 1 \in DOMAIN in[App] /\ Head(in[App]) = in[App][1]
                          /\ Head(in[App]).type = "STATE_VALUE" /\ Head(in[App]) \in FrameSet
      BY SMTT(60) DEF IsReply, QueuesOK
    <2>3. IsReply(App) => Head(in[App]).body \in SimState
      BY <2>2 DEF FrameSet
    <2>4. SysTypeOK'
      <3>1. sim' \in SimState
        BY <2>1, <2>3, BootType, ZenonT(60)
      <3>2. seeded' \in BOOLEAN
        BY <2>1, ZenonT(60)
      <3>3. tick' = 0 /\ owed' = 0
        BY <2>1, ZenonT(60)
      <3>. QED  BY <1>1, <1>2, <1>4, <3>1, <3>2, <3>3 DEF SysTypeOK
    <2>5. CASE table[App] = "live"
      <3>1. /\ Chain(out[App], sat) /\ \A n \in DOMAIN out[App] : ~IsPush(out[App][n])
            /\ \A n \in DOMAIN in[App] : in[App][n].type = "STATE_VALUE" => in[App][n].body = sat
        BY <1>1, <1>5, <2>5 DEF AppInv, AppOK
      <3>2. seeded' => LastIs(out[App], sim', sat)
        BY <2>1, <2>2, <3>1 DEF LastIs
      <3>3. AppOK("live", "running", out[App], in'[App], sat, sim', seeded')
        BY <3>1, <3>2, <2>5 DEF AppInv, AppOK
      <3>4. AppInv'
        BY <1>1, <1>4, <1>5, <2>5, <3>3 DEF AppInv, App
      <3>. QED  BY <1>3, <2>4, <3>4 DEF SysInv
    <2>6. CASE table[App] # "live"
      <3>1. table[App] = "free" /\ out[App] = <<>>
        BY <1>1, <1>5, <2>6 DEF AppInv, AppOK, SysTypeOK
      <3>2. AppInv'
        BY <1>1, <3>1, AppClosed DEF AppInv, App
      <3>. QED  BY <1>3, <2>4, <3>2 DEF SysInv
    <2>. QED  BY <2>5, <2>6
  <1>6. CASE p # App
    <2>1. UNCHANGED <<sim, seeded, tick, owed>>
      BY <1>6 DEF StateReply, Seed, App, app
    <2>2. SysTypeOK'
      BY <1>1, <1>2, <1>4, <2>1 DEF SysTypeOK
    <2>3. AppInv'
      BY <1>1, <1>2, <1>4, <1>6, <2>1 DEF AppInv, App
    <2>. QED  BY <1>3, <2>2, <2>3 DEF SysInv
  <1>. QED  BY <1>5, <1>6

\* payload_app, in its main loop, writes requests that push nothing.
LEMMA AppWritesOther ==
    ASSUME NEW t \in {"live", "free", "dead"}, NEW q \in Seq(FrameSet), NEW i, NEW b, NEW s, NEW x,
           AppOK(t, "running", q, i, b, s, x),
           NEW fs \in Seq(FrameSet), \A n \in DOMAIN fs : ~IsPush(fs[n])
    PROVE  AppOK(t, "running", IF t = "free" THEN q ELSE q \o fs, i, b, s, x)
  <1>1. CASE t = "free"
    BY <1>1
  <1>2. CASE t # "free"
    <2>1. Chain(q \o fs, b)
      BY ChainOther DEF AppOK
    <2>2. t = "live" /\ x => LastIs(q \o fs, s, b)
      BY LastAppend DEF AppOK
    <2>. QED  BY <1>2, <2>1, <2>2 DEF AppOK
  <1>. QED  BY <1>1, <1>2

\* payload_app, in its main loop, writes its new state, maybe after a response.
LEMMA AppWritesState ==
    ASSUME NEW t \in {"live", "free", "dead"}, NEW q \in Seq(FrameSet), NEW i, NEW b, NEW s, NEW x,
           AppOK(t, "running", q, i, b, s, x),
           NEW m \in Commands, NEW fs \in Seq(FrameSet), NEW g \in FrameSet,
           \A n \in DOMAIN fs : ~IsPush(fs[n]),
           IsPush(g), g.body.val = Effect(m, s), g.body.seeded = x
    PROVE  AppOK(t, "running", IF t = "free" THEN q ELSE Append(q \o fs, g), i, b, Effect(m, s), x)
  <1>1. CASE t = "free"
    BY <1>1 DEF AppOK
  <1>2. CASE t = "dead"
    BY <1>2 DEF AppOK
  <1>3. CASE t = "live"
    <2>0. Chain(q, b) /\ (x => LastIs(q, s, b))
      BY <1>3, ZenonT(60) DEF AppOK
    <2>1. Chain(q \o fs, b) /\ q \o fs \in Seq(FrameSet)
      <3>1. Chain(q \o fs, b)
        BY <2>0, ChainOther, ZenonT(60)
      <3>2. q \o fs \in Seq(FrameSet)
        OBVIOUS
      <3>. QED  BY <3>1, <3>2
    <2>2. x => LastIs(q \o fs, s, b)
      BY <2>0, LastAppend
    <2>3. Chain(Append(q \o fs, g), b)
      BY <2>1, <2>2, ChainAppend, ZenonT(60)
    <2>4. LastIs(Append(q \o fs, g), Effect(m, s), b)
      BY <2>1, LastPush, ZenonT(60)
    <2>. QED  BY <1>3, <2>3, <2>4 DEF AppOK
  <1>. QED  BY <1>1, <1>2, <1>3

\* Handling a frame in the main loop keeps the invariant: a state that changes
\* is pushed in the same step.
LEMMA AppReceiveOK ==
    ASSUME SysInv, AppReceive
    PROVE  SysInv'
  <1>. DEFINE f == Head(in[App])
              m == f.body
  <1>. SysTypeOK /\ QueuesOK /\ AppInv /\ App \in Procs
    BY DEF SysInv, App, Procs
  <1>1. /\ pc[App] = "running" /\ in[App] # <<>> /\ in' = [in EXCEPT ![App] = Tail(in[App])]
        /\ UNCHANGED <<table, sat, pc, seeded, tick, owed>>
    BY DEF AppReceive, App
  <1>2. /\ in' \in [Procs -> Seq(FrameSet)] /\ \A r \in Procs : Len(in'[r]) <= TxLimit
        /\ in'[App] = Tail(in[App]) /\ f \in FrameSet
        /\ in[App] \in Seq(FrameSet) /\ out[App] \in Seq(FrameSet)
    BY <1>1, ReadOK, ZenonT(60) DEF QueuesOK
  <1>3. FramesOf(App) = FrameSet /\ (Lost(App) <=> table[App] = "free")
    BY <1>1 DEF FramesOf, Lost
  <1>4. AppOK(table[App], "running", out[App], in'[App], sat, sim, seeded)
    BY <1>1, <1>2, AppReads DEF AppInv
  <1>5. table[App] \in {"live", "free", "dead"} /\ sim \in SimState /\ seeded \in BOOLEAN
    BY DEF SysTypeOK
  <1>6. SUFFICES /\ QueuesOK' /\ sim' \in SimState
                 /\ AppOK(table[App], "running", out'[App], in'[App], sat, sim', seeded)
    <2>1. SysTypeOK'
      BY <1>1, <1>2, <1>6 DEF SysTypeOK
    <2>2. AppInv'
      BY <1>1, <1>6 DEF AppInv, App
    <2>. QED  BY <1>6, <2>1, <2>2 DEF SysInv
  <1>. HIDE DEF f
  <1>7. ASSUME NEW fs \in Seq(FrameSet), \A n \in DOMAIN fs : ~IsPush(fs[n]),
               Write(App, fs), sim' = sim
        PROVE  /\ QueuesOK' /\ sim' \in SimState
               /\ AppOK(table[App], "running", out'[App], in'[App], sat, sim', seeded)
    <2>1. QueuesOK' /\ out'[App] = IF table[App] = "free" THEN out[App] ELSE out[App] \o fs
      BY <1>2, <1>3, <1>7, WriteOK
    <2>2. AppOK(table[App], "running", out'[App], in'[App], sat, sim, seeded)
      BY <1>2, <1>4, <1>5, <1>7, <2>1, AppWritesOther
    <2>. QED  BY <1>5, <1>7, <2>1, <2>2
  <1>8. ASSUME NEW fs \in Seq(FrameSet), \A n \in DOMAIN fs : ~IsPush(fs[n]), m \in Commands,
               Write(App, Append(fs, PushState(Effect(m, sim)))), sim' = Effect(m, sim)
        PROVE  /\ QueuesOK' /\ sim' \in SimState
               /\ AppOK(table[App], "running", out'[App], in'[App], sat, sim', seeded)
    <2>. DEFINE g == PushState(Effect(m, sim))
    <2>1. Effect(m, sim) \in SimState
      BY <1>5, <1>8, EffectType
    <2>2. g \in FrameSet /\ IsPush(g) /\ g.body.val = Effect(m, sim) /\ g.body.seeded = seeded
      BY <1>5, <2>1, Framed DEF PushState, IsPush, Frame
    <2>. HIDE DEF g
    <2>3. Append(fs, g) \in Seq(FrameSet)
      BY <2>2
    <2>4. out[App] \o Append(fs, g) = Append(out[App] \o fs, g)
      BY <1>2, <2>2, AppendLast, ZenonT(60)
    <2>5. QueuesOK' /\ out'[App] = IF table[App] = "free" THEN out[App]
                                                         ELSE Append(out[App] \o fs, g)
      BY <1>2, <1>3, <1>8, <2>3, <2>4, WriteOK DEF g
    <2>6. AppOK(table[App], "running", out'[App], in'[App], sat, Effect(m, sim), seeded)
      <3>1. AppOK(table[App], "running", IF table[App] = "free" THEN out[App]
                                                                 ELSE Append(out[App] \o fs, g),
                  in'[App], sat, Effect(m, sim), seeded)
        BY <1>2, <1>4, <1>5, <1>8, <2>2, AppWritesState, ZenonT(60)
      <3>. QED  BY <2>5, <3>1, ZenonT(60)
    <2>. QED  BY <1>8, <2>1, <2>5, <2>6
  <1>9. <<>> \in Seq(FrameSet) /\ \A n \in DOMAIN <<>> : ~IsPush(<<>>[n])
    OBVIOUS
  <1>10. CASE /\ f.type = "DELIVER" /\ f.apid = "CMD"
             /\ sim' = Effect(m, sim) /\ Write(App, CommandFrames(m))
    <2>1. m \in Commands
      BY <1>2, <1>10 DEF FrameSet
    <2>2. Send("CMD_RESP", None) \in FrameSet /\ ~IsPush(Send("CMD_RESP", None))
      BY Framed DEF Apids
    <2>3. CommandFrames(m) = Append(<<Send("CMD_RESP", None)>>, PushState(Effect(m, sim)))
      BY DEF CommandFrames
    <2>4. /\ <<Send("CMD_RESP", None)>> \in Seq(FrameSet)
          /\ \A n \in DOMAIN <<Send("CMD_RESP", None)>> : ~IsPush(<<Send("CMD_RESP", None)>>[n])
      BY <2>2
    <2>. QED  BY <1>8, <1>10, <2>1, <2>3, <2>4
  <1>11. CASE /\ f.type = "DELIVER" /\ f.apid = "ADCS_RESP"
              /\ sim' = Effect(m, sim) /\ Write(App, AdcsFrames(m))
    <2>1. m \in Commands /\ m.op \in AdcsOps
      BY <1>2, <1>11, SystemAssumption DEF FrameSet
    <2>2. CASE m.op \in {"DCE_ACK", "DCE_NACK", "RELINQUISH_ACK"}
      <3>1. Append(<<>>, PushState(Effect(m, sim))) = <<PushState(Effect(m, sim))>>
        OBVIOUS
      <3>2. AdcsFrames(m) = <<PushState(Effect(m, sim))>>
        BY <2>2 DEF AdcsFrames
      <3>3. Write(App, Append(<<>>, PushState(Effect(m, sim))))
        BY <1>11, <3>1, <3>2, ZenonT(60)
      <3>. QED  BY <1>8, <1>11, <1>9, <2>1, <3>3, ZenonT(60)
    <2>3. CASE m.op \notin {"DCE_ACK", "DCE_NACK", "RELINQUISH_ACK"}
      <3>1. AdcsFrames(m) = <<>>
        BY <2>3 DEF AdcsFrames
      <3>2. Effect(m, sim) = sim
        BY <2>1, <2>3, ZenonT(60) DEF Effect, AdcsOps
      <3>3. Write(App, <<>>) /\ sim' = sim
        BY <1>11, <3>1, <3>2, ZenonT(60)
      <3>. QED  BY <1>7, <1>9, <3>3, ZenonT(60)
    <2>. QED  BY <2>2, <2>3
  <1>12. CASE Write(App, IF Completes(f.apid, m) THEN <<Send("BULK_ACK", None)>> ELSE <<>>)
              /\ UNCHANGED sim
    <2>1. Send("BULK_ACK", None) \in FrameSet /\ ~IsPush(Send("BULK_ACK", None))
      BY Framed DEF Apids
    <2>2. CASE Completes(f.apid, m)
      <3>1. /\ <<Send("BULK_ACK", None)>> \in Seq(FrameSet)
            /\ \A n \in DOMAIN <<Send("BULK_ACK", None)>> : ~IsPush(<<Send("BULK_ACK", None)>>[n])
        BY <2>1
      <3>2. Write(App, <<Send("BULK_ACK", None)>>) /\ sim' = sim
        BY <1>12, <2>2, ZenonT(60)
      <3>. QED  BY <1>7, <3>1, <3>2, ZenonT(60)
    <2>3. CASE ~Completes(f.apid, m)
      <3>1. Write(App, <<>>) /\ sim' = sim
        BY <1>12, <2>3, ZenonT(60)
      <3>. QED  BY <1>7, <1>9, <3>1, ZenonT(60)
    <2>. QED  BY <2>2, <2>3
  <1>13. CASE UNCHANGED <<out, sim>>
    BY <1>2, <1>4, <1>5, <1>13 DEF QueuesOK, FramesOf, IsPush
  <1>. QED  BY <1>10, <1>11, <1>12, <1>13 DEF AppReceive, f, App

\* The frames of the heartbeat are frames, push no state, and are no responses.
LEMMA TickFramesOK ==
    ASSUME NEW n \in Nat
    PROVE  /\ TickFrames(n) \in Seq(FrameSet) /\ TickFrames(n) \in Seq(Silent)
           /\ \A i \in DOMAIN TickFrames(n) : ~IsPush(TickFrames(n)[i])
  <1>. DEFINE S == {f \in Silent : ~IsPush(f)}
  <1>1. \A a \in {"TELEM", "ADCS_REQ", "BULK"} : Send(a, None) \in S
    <2>1. \A a \in {"TELEM", "ADCS_REQ", "BULK"} : Send(a, None) \in FrameSet /\ ~IsPush(Send(a, None))
      BY Framed, SMTT(60) DEF Apids
    <2>2. \A a \in {"TELEM", "ADCS_REQ", "BULK"} : ~Counts(Send(a, None))
      BY SMTT(60) DEF Counts, Send, Frame
    <2>. QED  BY <2>1, <2>2 DEF Silent
  <1>. HIDE DEF S
  <1>2. TotalChunks(DummyLen) \in Nat
    <2>1. DummyLen \in Nat /\ MaxChunkData \in Nat \ {0} /\ UMod \in Nat \ {0}
      BY SystemAssumption, BulkTxAssumption, SMTT(60)
    <2>2. (DummyLen + (MaxChunkData - 1)) % UMod \in Nat
      BY <2>1
    <2>. QED  BY <2>1, <2>2 DEF TotalChunks
  <1>3. <<Send("TELEM", None)>> \in Seq(S) /\ DummyCommand \in Seq(S) /\ <<>> \in Seq(S)
    BY <1>1 DEF DummyCommand
  <1>4. DummyBulk \in Seq(S)
    BY <1>1, <1>2 DEF DummyBulk
  <1>5. TickFrames(n) \in Seq(S)
    <2>1. (IF n % CmdEvery = 0 THEN DummyCommand ELSE <<>>) \in Seq(S)
      BY <1>3
    <2>2. (IF n % BulkEvery = 0 THEN DummyBulk ELSE <<>>) \in Seq(S)
      BY <1>3, <1>4
    <2>. QED  BY <1>3, <2>1, <2>2 DEF TickFrames
  <1>. HIDE DEF TickFrames
  <1>6. \A i \in DOMAIN TickFrames(n) : TickFrames(n)[i] \in S
    BY <1>5
  <1>7. S \subseteq Silent /\ S \subseteq FrameSet
    BY DEF S, Silent
  <1>8. TickFrames(n) \in Seq(FrameSet) /\ TickFrames(n) \in Seq(Silent)
    BY <1>5, <1>7
  <1>. QED  BY <1>6, <1>8 DEF S

\* The heartbeat keeps the invariant.
LEMMA AppTickOK ==
    ASSUME SysInv, AppTick
    PROVE  SysInv'
  <1>. DEFINE fs == TickFrames(tick + 1)
  <1>. SysTypeOK /\ QueuesOK /\ AppInv /\ App \in Procs
    BY DEF SysInv, App, Procs
  <1>1. /\ pc[App] = "running" /\ owed > 0 /\ owed' = owed - 1 /\ tick' = tick + 1 /\ Write(App, fs)
        /\ UNCHANGED <<table, in, sat, pc, sim, seeded>>
    BY DEF AppTick, App
  <1>2. fs \in Seq(FrameSet) /\ \A i \in DOMAIN fs : ~IsPush(fs[i])
    BY TickFramesOK, SMTT(60) DEF SysTypeOK
  <1>. HIDE DEF fs
  <1>3. FramesOf(App) = FrameSet /\ (Lost(App) <=> table[App] = "free")
    BY <1>1 DEF FramesOf, Lost
  <1>4. QueuesOK' /\ out'[App] = IF table[App] = "free" THEN out[App] ELSE out[App] \o fs
    BY <1>1, <1>2, <1>3, WriteOK DEF QueuesOK
  <1>5. /\ out[App] \in Seq(FrameSet) /\ table[App] \in {"live", "free", "dead"}
        /\ AppOK(table[App], "running", out[App], in[App], sat, sim, seeded)
    BY <1>1 DEF QueuesOK, SysTypeOK, AppInv
  <1>6. AppOK(table[App], "running", out'[App], in[App], sat, sim, seeded)
    BY <1>2, <1>4, <1>5, AppWritesOther
  <1>7. AppInv'
    BY <1>1, <1>6 DEF AppInv, App
  <1>8. SysTypeOK'
    BY <1>1, SMTT(60) DEF SysTypeOK
  <1>. QED  BY <1>4, <1>7, <1>8 DEF SysInv

\* Writing frames of another process, the rest being left alone or no part of
\* the invariant, keeps it.
LEMMA OtherWritesOK ==
    ASSUME SysInv, NEW p \in Procs \ {App}, NEW f \in FrameSet, ~IsPush(f), Write(p, <<f>>),
           UNCHANGED <<table, in, sat, pc, sim, seeded, tick, owed>>
    PROVE  SysInv'
  <1>. SysTypeOK /\ QueuesOK /\ AppInv /\ App \in Procs
    BY DEF SysInv, App, Procs
  <1>1. <<f>> \in Seq(FramesOf(p))
    BY DEF FramesOf
  <1>2. QueuesOK' /\ out'[App] = out[App]
    BY <1>1, WriteOK, ZenonT(60) DEF QueuesOK
  <1>3. SysTypeOK'
    BY DEF SysTypeOK
  <1>4. AppInv'
    BY <1>2 DEF AppInv, App
  <1>. QED  BY <1>2, <1>3, <1>4 DEF SysInv

\* So does a step that touches nothing of it but owed.
LEMMA NothingOK ==
    ASSUME SysInv, UNCHANGED <<table, in, out, sat, pc, sim, seeded, tick>>, owed' \in Nat
    PROVE  SysInv'
  <1>1. SysTypeOK'
    BY DEF SysInv, SysTypeOK
  <1>2. QueuesOK'
    BY DEF SysInv, QueuesOK, FramesOf, IsPush
  <1>3. AppInv'
    BY DEF SysInv, AppInv, App
  <1>. QED  BY <1>1, <1>2, <1>3 DEF SysInv

\* The steps of the bridge keep the invariant.
LEMMA BridgeOK ==
    ASSUME SysInv, OpenSerial \/ BridgeReceive \/ ReceiveFromObc
    PROVE  SysInv'
  <1>. DEFINE p == "network"
  <1>. SysTypeOK /\ QueuesOK /\ AppInv /\ App \in Procs /\ p \in Procs \ {App} /\ owed \in Nat
    BY DEF SysInv, App, Procs, SysTypeOK
  <1>1. CASE OpenSerial
    <2>1. CASE Ended("network") /\ UNCHANGED sat
      BY <2>1, EndedOK
    <2>2. CASE /\ pc' = [pc EXCEPT ![p] = "running"]
               /\ UNCHANGED <<table, in, out, sat, sim, seeded, tick, owed>>
      <3>1. SysTypeOK'
        BY <2>2 DEF SysTypeOK
      <3>2. QueuesOK'
        BY <2>2 DEF QueuesOK, FramesOf, IsPush
      <3>3. pc'[App] = pc[App]
        BY <2>2 DEF SysTypeOK
      <3>4. AppInv'
        BY <2>2, <3>3 DEF AppInv, App
      <3>. QED  BY <3>1, <3>2, <3>4 DEF SysInv
    <2>. QED  BY <1>1, <2>1, <2>2 DEF OpenSerial, app
  <1>2. CASE BridgeReceive
    <2>1. /\ in[p] # <<>> /\ in' = [in EXCEPT ![p] = Tail(in[p])]
          /\ UNCHANGED <<table, out, sat, pc, sim, seeded, tick, owed>>
      BY <1>2 DEF BridgeReceive, app
    <2>2. /\ in' \in [Procs -> Seq(FrameSet)] /\ \A r \in Procs : Len(in'[r]) <= TxLimit
          /\ in'[App] = in[App]
      BY <2>1, ReadOK, ZenonT(60)
    <2>3. SysTypeOK'
      BY <2>1, <2>2 DEF SysTypeOK
    <2>4. QueuesOK'
      BY <2>1, <2>2 DEF QueuesOK, FramesOf, IsPush
    <2>5. AppInv'
      BY <2>1, <2>2 DEF AppInv, App
    <2>. QED  BY <2>3, <2>4, <2>5 DEF SysInv
  <1>3. CASE ReceiveFromObc
    <2>1. UNCHANGED <<table, in, sat, pc, sim, seeded, tick, owed>>
      BY <1>3 DEF ReceiveFromObc, app
    <2>2. CASE UNCHANGED out
      BY <2>1, <2>2, NothingOK
    <2>3. ASSUME NEW m \in Commands,
                 forward_to_app(Send(IF m.op \in CmdOps THEN "CMD" ELSE "ADCS_RESP", m))
          PROVE  SysInv'
      BY <2>1, <2>3, Framed, OtherWritesOK DEF forward_to_app
    <2>4. ASSUME NEW s \in Sessions, NEW c \in Chunks, forward_to_app(Send(s, c))
          PROVE  SysInv'
      BY <2>1, <2>4, Framed, OtherWritesOK DEF forward_to_app
    <2>. QED  BY <1>3, <2>2, <2>3, <2>4 DEF ReceiveFromObc
  <1>. QED  BY <1>1, <1>2, <1>3

\* The steps of the uploader keep the invariant.
LEMMA UploaderOK ==
    ASSUME SysInv, UploaderOpens \/ UploaderSends \/ UploaderEnds
    PROVE  SysInv'
  <1>. DEFINE p == "video_uploader"
  <1>. p \in Procs \ {App} /\ owed \in Nat
    BY DEF App, Procs, SysInv, SysTypeOK
  <1>1. CASE UploaderOpens
    BY <1>1, NothingOK DEF UploaderOpens, daemon, app
  <1>2. CASE UploaderSends
    <2>1. CASE Ended(p) /\ UNCHANGED sat
      BY <2>1, EndedOK
    <2>2. CASE Write(p, <<Send("BULK", None)>>) /\ UNCHANGED <<pc, table, in, app, sat>>
      <3>1. Send("BULK", None) \in FrameSet /\ ~IsPush(Send("BULK", None))
        BY Framed DEF Apids
      <3>. QED  BY <2>2, <3>1, OtherWritesOK DEF app
    <2>. QED  BY <1>2, <2>1, <2>2 DEF UploaderSends
  <1>3. CASE UploaderEnds
    BY <1>3, EndedOK DEF UploaderEnds
  <1>. QED  BY <1>1, <1>2, <1>3

\* The invariant holds at the start.
LEMMA SysInvInit == SysInit => SysInv
  <1>. SUFFICES ASSUME SysInit PROVE SysInv
    OBVIOUS
  <1>. App \in Procs /\ ExpIds \in Nat \ {0, 1} /\ TxLimit \in Nat
    BY SystemAssumption DEF App, Procs
  <1>1. State("RUNNING", 1, TRUE) \in SimState
    BY DEF State, SimState
  <1>2. SysTypeOK
    <2>1. \A p \in Procs : in[p] = <<>>
      BY DEF SysInit
    <2>2. sat \in SimState /\ sim \in SimState
      BY <1>1, BootType, ZenonT(60) DEF SysInit
    <2>3. seeded \in BOOLEAN
      BY ZenonT(60) DEF SysInit
    <2>4. \A p \in Procs : Len(in[p]) <= TxLimit
      BY <2>1
    <2>5. table \in [Procs -> {"free", "live", "dead"}] /\ owed \in Nat /\ tick \in Nat
      BY DEF SysInit
    <2>6. pc \in [Procs -> {"down", "connecting", "registered", "seeding", "opening", "running"}]
      BY DEF SysInit
    <2>. QED  BY <2>2, <2>3, <2>4, <2>5, <2>6 DEF SysTypeOK
  <1>3. QueuesOK
    BY DEF SysInit, QueuesOK
  <1>4. table[App] = "free" /\ out[App] = <<>>
    BY DEF SysInit
  <1>5. AppInv
    BY <1>4, AppClosed DEF AppInv
  <1>. QED  BY <1>2, <1>3, <1>5 DEF SysInv

\* Every step keeps the invariant.
LEMMA SysInvStep == SysInv /\ [SysNext]_sysvars => SysInv'
  <1>. SUFFICES ASSUME SysInv, [SysNext]_sysvars PROVE SysInv'
    OBVIOUS
  <1>0. owed \in Nat
    BY DEF SysInv, SysTypeOK
  <1>1. CASE Daemon
    BY <1>1, HandleRequestOK, HangUpOK DEF Daemon
  <1>2. CASE Process
    <2>1. CASE \E p \in Procs : Start(p) \/ Connect(p)
      BY <2>1, StartOK, ConnectOK
    <2>2. CASE \E p \in {"payload_app", "network"} : GetState(p) \/ StateReply(p)
      BY <2>2, GetStateOK, StateReplyOK
    <2>3. CASE AppReceive \/ AppTick
      BY <2>3, AppReceiveOK, AppTickOK
    <2>4. CASE AppLosesDaemon
      BY <2>4, EndedOK DEF AppLosesDaemon, Procs
    <2>5. CASE OpenSerial \/ BridgeReceive
      BY <2>5, BridgeOK
    <2>6. CASE UploaderOpens \/ UploaderSends \/ UploaderEnds
      BY <2>6, UploaderOK
    <2>. QED  BY <1>2, <2>1, <2>2, <2>3, <2>4, <2>5, <2>6 DEF Process
  <1>3. CASE Second
    BY <1>0, <1>3, NothingOK DEF Second, daemon
  <1>4. CASE ReceiveFromObc
    BY <1>4, BridgeOK
  <1>5. CASE \E p \in Procs : Crash(p)
    BY <1>5, EndedOK DEF Crash
  <1>6. CASE UNCHANGED sysvars
    BY <1>0, <1>6, NothingOK DEF sysvars, daemon, app
  <1>. QED  BY <1>1, <1>2, <1>3, <1>4, <1>5, <1>6 DEF SysNext

-----------------------------------------------------------------------------
(* The theorems *)

\* The invariant implies that payload_app and the daemon agree.
LEMMA InvAgrees == SysInv => StateAgrees
  BY DEF SysInv, AppInv, AppOK, StateAgrees, App

\* Whatever the OBC sends and however often the processes die: the variables
\* keep their types, no client's backlog exceeds its limit, and a payload_app
\* that was seeded agrees with the daemon on the state once what push_state
\* wrote has been handled.
THEOREM SystemAgrees == SysSpec => [](SysTypeOK /\ StateAgrees)
  <1>1. SysInv => SysTypeOK /\ StateAgrees
    BY InvAgrees DEF SysInv
  <1>. QED  BY <1>1, SysInvInit, SysInvStep, PTL DEF SysSpec

\* Only the daemon changes its state, at the request of payload_app.
LEMMA OnlyPushes ==
    ASSUME SysInv, [SysNext]_sysvars, sat' # sat
    PROVE  /\ out[App] # <<>> /\ IsPush(Head(out[App])) /\ sat' = Head(out[App]).body.val
  <1>1. \E p \in Procs : HandleRequest(p)
    BY ZenonT(60) DEF SysNext, Daemon, Process, HangUp, Start, Connect, GetState, StateReply, AppReceive,
           AppTick, AppLosesDaemon, OpenSerial, BridgeReceive, UploaderOpens, UploaderSends,
           UploaderEnds, Second, ReceiveFromObc, Crash, sysvars, daemon
  <1>2. PICK p \in Procs : HandleRequest(p)
    BY <1>1
  <1>3. out[p] # <<>> /\ Head(out[p]).type = "STATE_SET" /\ sat' = Head(out[p]).body.val
    BY <1>2 DEF HandleRequest
  <1>4. Head(out[p]) \in FramesOf(p)
    BY <1>3, SMTT(60) DEF SysInv, QueuesOK
  <1>. QED  BY <1>3, <1>4 DEF FramesOf, IsPush

\* The daemon's state changes by the effect of one command or response at a
\* time, across crashes and restarts, unless payload_app was not seeded.
THEOREM StateHistory == SysSpec => SatChangesByCommand
  <1>. DEFINE A == sat' # sat =>
                     \/ \E m \in Commands : sat' = Effect(m, sat)
                     \/ \E f \in FirstOf(out[App]) : f.type = "STATE_SET" /\ ~f.body.seeded
  <1>1. SysInv /\ [SysNext]_sysvars => A
    <2>. SUFFICES ASSUME SysInv, [SysNext]_sysvars, sat' # sat
                  PROVE  A
      OBVIOUS
    <2>1. /\ out[App] # <<>> /\ IsPush(Head(out[App])) /\ sat' = Head(out[App]).body.val
          /\ out[App] \in Seq(FrameSet) /\ Chain(out[App], sat)
      <3>1. out[App] # <<>> /\ IsPush(Head(out[App])) /\ sat' = Head(out[App]).body.val
        BY OnlyPushes, ZenonT(60)
      <3>2. QueuesOK /\ AppInv /\ App \in Procs
        BY ZenonT(60) DEF SysInv, App, Procs
      <3>3. out[App] \in Seq(FrameSet)
        BY <3>2 DEF QueuesOK
      <3>4. Chain(out[App], sat)
        BY <3>2, ZenonT(60) DEF AppInv, AppOK
      <3>. QED  BY <3>1, <3>3, <3>4, ZenonT(60)
    <2>2. 1 \in DOMAIN out[App] /\ Head(out[App]) = out[App][1] /\ 1 .. 1 - 1 = {}
      BY <2>1
    <2>3. CASE out[App][1].body.seeded
      <3>1. \E m \in Commands : out[App][1].body.val = Effect(m, sat)
        BY <2>1, <2>2, <2>3 DEF Chain
      <3>. QED  BY <2>1, <2>2, <3>1
    <2>4. CASE ~out[App][1].body.seeded
      BY <2>1, <2>2, <2>4 DEF FirstOf, IsPush
    <2>. QED  BY <2>3, <2>4
  <1>2. SysInv /\ [SysNext]_sysvars => [A]_sysvars
    BY <1>1
  <1>3. SysSpec => []SysInv
    BY SysInvInit, SysInvStep, PTL DEF SysSpec
  <1>4. SysSpec => [][A]_sysvars
    BY <1>2, <1>3, PTL DEF SysSpec
  <1>. QED  BY <1>4 DEF SatChangesByCommand, App

\* payload_app's part of every step is a step of module BulkRx.
LEMMA RxStep == SysInv /\ [SysNext]_sysvars => [BulkRxNext]_bulkrx
  <1>. SUFFICES ASSUME SysInv, SysNext, ~UNCHANGED bulkrx
                PROVE  BulkRxNext
    BY DEF sysvars
  <1>1. ASSUME NEW p, Ended(p)
        PROVE  BulkRxNext
    BY <1>1 DEF Ended, BulkRxNext
  <1>2. CASE AppReceive
    <2>1. Head(in[App]) \in FrameSet
      <3>1. in[App] # <<>>
        BY <1>2, ZenonT(60) DEF AppReceive, App
      <3>2. QueuesOK /\ App \in Procs
        BY ZenonT(60) DEF SysInv, App, Procs
      <3>3. in[App] \in Seq(FrameSet)
        BY <3>2 DEF QueuesOK
      <3>. QED  BY <3>1, <3>3
    <2>2. /\ Head(in[App]).type = "DELIVER" /\ Head(in[App]).apid \in Sessions
          /\ handle_bulk_chunk(Head(in[App]).apid, Head(in[App]).body)
      BY <1>2, ZenonT(60) DEF AppReceive, App
    <2>3. Head(in[App]).body \in Chunks
      BY <2>1, <2>2 DEF FrameSet
    <2>. QED  BY <2>2, <2>3 DEF BulkRxNext
  <1>3. CASE ~AppReceive
    <2>1. \E p : Ended(p)
      BY <1>3, ZenonT(60) DEF SysNext, Daemon, Process, HandleRequest, HangUp, Start, Connect, GetState,
             StateReply, AppTick, AppLosesDaemon, OpenSerial, BridgeReceive, UploaderOpens,
             UploaderSends, UploaderEnds, Second, ReceiveFromObc, Crash
    <2>. QED  BY <1>1, <2>1
  <1>. QED  BY <1>2, <1>3

\* The reassembly inside the system, with its losses and restarts, is that of
\* module BulkRx; so a consistently numbered transfer that payload_app acknowledges
\* is what was sent.
THEOREM SystemReassembles == SysSpec => BulkRxSpec /\ []AssembledAsSent
  <1>1. SysInit => BulkRxInit
    BY DEF SysInit
  <1>2. SysSpec => BulkRxSpec
    BY <1>1, SysInvInit, SysInvStep, RxStep, PTL DEF SysSpec, BulkRxSpec
  <1>. QED  BY <1>2, AssemblyCorrect, PTL

\* The uploader's part of every step is a step of module BulkTx.
LEMMA TxStep == [SysNext]_sysvars => [BulkTxNext]_bulktx
  <1>. SUFFICES ASSUME SysNext, ~UNCHANGED bulktx
                PROVE  BulkTxNext
    BY DEF sysvars
  <1>1. \/ \E len \in FileSizes : OpenFile(len)
        \/ SendChunk \/ FailUpload \/ FinishUpload
    BY ZenonT(60) DEF SysNext, Daemon, Process, HandleRequest, HangUp, Start, Connect, GetState,
           StateReply, AppReceive, AppTick, AppLosesDaemon, OpenSerial, BridgeReceive,
           UploaderOpens, UploaderSends, UploaderEnds, Second, ReceiveFromObc, Crash
  <1>. QED  BY <1>1 DEF BulkTxNext

\* The uploader inside the system behaves as module BulkTx says; so what it
\* reports complete it has written in full.
THEOREM SystemUploads == SysSpec => BulkTxSpec /\ []WholeFileSent
  <1>1. SysInit => BulkTxInit
    BY DEF SysInit
  <1>2. SysSpec => BulkTxSpec
    BY <1>1, TxStep, PTL DEF SysSpec, BulkTxSpec
  <1>. QED  BY <1>2, UploadCorrect, PTL
-----------------------------------------------------------------------------
(* Every command is accounted for *)

\* The commands and responses in the queues i to, and o from, the clients.
UnderWay(i, o) == Carried(i[App]) + Carried(o[App])
                + Carried(i["network"]) + Carried(o["network"])
                + Carried(i[Uploader]) + Carried(o[Uploader])

Balanced ==
    /\ forwarded \in Nat /\ answers \in Nat /\ lost \in Nat
    /\ forwarded = answers + lost + UnderWay(in, out)
    /\ \A p \in Procs : out[p] \in Seq(Requests(p))
    /\ in[Uploader] \in Seq(Silent)

\* The places of q whose frames count.
CountedAt(q) == {i \in DOMAIN q : Counts(q[i])}

\* What a queue carries is the number of those places, which are finitely many.
LEMMA CarriedPlaces ==
    ASSUME NEW q \in Seq(FrameSet)
    PROVE  /\ Carried(q) = Cardinality(CountedAt(q)) /\ Carried(q) \in Nat
           /\ IsFiniteSet(CountedAt(q)) /\ CountedAt(q) \subseteq 1 .. Len(q)
  <1>1. Carried(q) = Cardinality(CountedAt(q))
    BY DEF Carried, CountedAt, Counts
  <1>2. Len(q) \in Nat /\ CountedAt(q) \in SUBSET (1 .. Len(q))
    BY SMTT(60) DEF CountedAt
  <1>3. IsFiniteSet(1 .. Len(q))
    BY <1>2, FS_Interval, SMTT(60)
  <1>4. IsFiniteSet(CountedAt(q))
    BY <1>2, <1>3, FS_Subset, ZenonT(60)
  <1>5. Cardinality(CountedAt(q)) \in Nat
    BY <1>4, FS_CardinalityType, ZenonT(60)
  <1>. QED  BY <1>1, <1>2, <1>4, <1>5

\* Frames none of which counts carry nothing.
LEMMA CarriedNothing ==
    ASSUME NEW q \in Seq(FrameSet), \A i \in DOMAIN q : ~Counts(q[i])
    PROVE  Carried(q) = 0
  <1>1. CountedAt(q) = {}
    BY DEF CountedAt
  <1>. QED  BY <1>1, CarriedPlaces, FS_EmptySet, ZenonT(60)

\* So do the queues of the uploader.
LEMMA CarriedSilent ==
    ASSUME NEW q \in Seq(Silent)
    PROVE  q \in Seq(FrameSet) /\ Carried(q) = 0
  <1>1. q \in Seq(FrameSet) /\ \A i \in DOMAIN q : ~Counts(q[i])
    BY DEF Silent
  <1>. QED  BY <1>1, CarriedNothing, ZenonT(60)

\* A frame alone.
LEMMA CarriedOne ==
    ASSUME NEW f \in FrameSet
    PROVE  Carried(<<f>>) = IF Counts(f) THEN 1 ELSE 0
  <1>1. <<f>> \in Seq(FrameSet) /\ DOMAIN <<f>> = {1} /\ <<f>>[1] = f
    OBVIOUS
  <1>2. CASE Counts(f)
    <2>1. CountedAt(<<f>>) = {1}
      BY <1>1, <1>2 DEF CountedAt
    <2>2. Carried(<<f>>) = Cardinality({1})
      BY <1>1, <2>1, CarriedPlaces, ZenonT(60)
    <2>. QED  BY <1>2, <2>2, FS_Singleton, ZenonT(60)
  <1>3. CASE ~Counts(f)
    <2>1. \A i \in DOMAIN <<f>> : ~Counts(<<f>>[i])
      BY <1>1, <1>3
    <2>. QED  BY <1>1, <1>3, <2>1, CarriedNothing, ZenonT(60)
  <1>. QED  BY <1>2, <1>3

\* Two sequences of frames one after the other.
LEMMA CarriedConcat ==
    ASSUME NEW q \in Seq(FrameSet), NEW r \in Seq(FrameSet)
    PROVE  q \o r \in Seq(FrameSet) /\ Carried(q \o r) = Carried(q) + Carried(r)
  <1>. DEFINE s == q \o r
              n == Len(q)
              A == CountedAt(q)
              B == {i \in CountedAt(s) : i > n}
              g == [i \in B |-> i - n]
  <1>1. /\ s \in Seq(FrameSet) /\ n \in Nat /\ Len(r) \in Nat /\ DOMAIN s = 1 .. n + Len(r)
        /\ DOMAIN q = 1 .. n /\ DOMAIN r = 1 .. Len(r)
        /\ \A i \in 1 .. n : s[i] = q[i]
        /\ \A i \in n + 1 .. n + Len(r) : s[i] = r[i - n]
    OBVIOUS
  <1>. HIDE DEF s, n
  <1>2. CountedAt(s) = A \cup B /\ A \cap B = {}
    BY <1>1 DEF CountedAt
  <1>3. \A i \in B : i - n \in CountedAt(r) /\ i \in Int
    BY <1>1, SMTT(60) DEF CountedAt
  <1>4. \A j \in CountedAt(r) : j + n \in B /\ (j + n) - n = j
    BY <1>1 DEF CountedAt
  <1>5. \A i, j \in B : i - n = j - n => i = j
    BY <1>1, <1>3
  <1>. HIDE DEF A, B
  <1>6. g \in Injection(B, CountedAt(r))
    <2>1. g \in [B -> CountedAt(r)]
      BY <1>3
    <2>2. \A i, j \in B : g[i] = g[j] => i = j
      BY <1>5
    <2>. QED  BY <2>1, <2>2 DEF Injection, IsInjective
  <1>7. g \in Surjection(B, CountedAt(r))
    <2>1. g \in [B -> CountedAt(r)]
      BY <1>3
    <2>2. ASSUME NEW j \in CountedAt(r)  PROVE \E i \in B : g[i] = j
      <3>1. j + n \in B /\ g[j + n] = j
        BY <1>4
      <3>. QED  BY <3>1
    <2>. QED  BY <2>1, <2>2 DEF Surjection
  <1>. HIDE DEF g
  <1>8. IsFiniteSet(A) /\ IsFiniteSet(CountedAt(s)) /\ IsFiniteSet(CountedAt(r))
    BY <1>1, CarriedPlaces, ZenonT(60) DEF A
  <1>9. IsFiniteSet(B) /\ Cardinality(B) = Cardinality(CountedAt(r))
    BY <1>6, <1>7, <1>8, FS_Injection, ZenonT(60)
  <1>10. Cardinality(A \cup B) = Cardinality(A) + Cardinality(B) - Cardinality(A \cap B)
    BY <1>8, <1>9, FS_Union, ZenonT(60)
  <1>11. Cardinality({}) = 0
    BY FS_EmptySet, ZenonT(60)
  <1>12. /\ Carried(s) = Cardinality(A \cup B) /\ Carried(q) = Cardinality(A)
         /\ Carried(r) = Cardinality(B) /\ Cardinality(A \cap B) = 0
    BY <1>1, <1>2, <1>9, <1>11, CarriedPlaces, ZenonT(60) DEF A
  <1>13. Carried(q) \in Nat /\ Carried(r) \in Nat
    BY CarriedPlaces, ZenonT(60)
  <1>14. Carried(s) = Carried(q) + Carried(r)
    <2>1. Carried(s) = Carried(q) + Carried(r) - 0
      BY <1>10, <1>12, ZenonT(60)
    <2>. QED  BY <1>13, <2>1
  <1>. QED  BY <1>1, <1>14 DEF s

\* The parts of a queue: a last frame, a first frame, and a cut at k.
LEMMA CarriedParts ==
    ASSUME NEW q \in Seq(FrameSet)
    PROVE  /\ Carried(q) \in Nat /\ Carried(<<>>) = 0
           /\ \A f \in FrameSet : Carried(Append(q, f)) = Carried(q) + Carried(<<f>>)
           /\ q # <<>> => Carried(q) = Carried(<<Head(q)>>) + Carried(Tail(q))
           /\ \A k \in 0 .. Len(q) :
                 Carried(q) = Carried(SubSeq(q, 1, k)) + Carried(SubSeq(q, k + 1, Len(q)))
  <1>1. Carried(q) \in Nat
    BY CarriedPlaces, ZenonT(60)
  <1>2. Carried(<<>>) = 0
    <2>1. <<>> \in Seq(Silent)
      OBVIOUS
    <2>. QED  BY <2>1, CarriedSilent, ZenonT(60)
  <1>3. ASSUME NEW f \in FrameSet  PROVE Carried(Append(q, f)) = Carried(q) + Carried(<<f>>)
    <2>1. Append(q, f) = q \o <<f>> /\ <<f>> \in Seq(FrameSet)
      OBVIOUS
    <2>. QED  BY <2>1, CarriedConcat, ZenonT(60)
  <1>4. ASSUME q # <<>>  PROVE Carried(q) = Carried(<<Head(q)>>) + Carried(Tail(q))
    <2>1. <<Head(q)>> \in Seq(FrameSet) /\ Tail(q) \in Seq(FrameSet)
      BY <1>4
    <2>2. q = <<Head(q)>> \o Tail(q)
      BY <1>4
    <2>. QED  BY <2>1, <2>2, CarriedConcat, ZenonT(60)
  <1>5. ASSUME NEW k \in 0 .. Len(q)
        PROVE  Carried(q) = Carried(SubSeq(q, 1, k)) + Carried(SubSeq(q, k + 1, Len(q)))
    <2>1. SubSeq(q, 1, k) \in Seq(FrameSet) /\ SubSeq(q, k + 1, Len(q)) \in Seq(FrameSet)
      OBVIOUS
    <2>2. q = SubSeq(q, 1, k) \o SubSeq(q, k + 1, Len(q))
      <3>. DEFINE a == SubSeq(q, 1, k)
                  b == SubSeq(q, k + 1, Len(q))
      <3>1. /\ a \in Seq(FrameSet) /\ b \in Seq(FrameSet) /\ Len(a) = k /\ Len(b) = Len(q) - k
            /\ \A i \in 1 .. k : a[i] = q[i]
            /\ \A i \in 1 .. Len(q) - k : b[i] = q[k + i]
        OBVIOUS
      <3>. HIDE DEF a, b
      <3>2. a \o b \in Seq(FrameSet) /\ Len(a \o b) = Len(q)
        BY <3>1
      <3>3. ASSUME NEW i \in 1 .. Len(q)  PROVE (a \o b)[i] = q[i]
        <4>1. CASE i \in 1 .. k
          BY <3>1, <4>1, SMTT(60)
        <4>2. CASE i \notin 1 .. k
          <5>1. i - k \in 1 .. Len(q) - k /\ k + (i - k) = i
            BY <4>2
          <5>2. (a \o b)[i] = b[i - k]
            BY <3>1, <4>2
          <5>. QED  BY <3>1, <5>1, <5>2
        <4>. QED  BY <4>1, <4>2
      <3>4. a \o b = q
        <4>. DEFINE c == a \o b
        <4>1. c \in Seq(FrameSet) /\ Len(c) = Len(q) /\ \A i \in 1 .. Len(q) : c[i] = q[i]
          BY <3>2, <3>3
        <4>. HIDE DEF c
        <4>2. c = q
          BY <4>1
        <4>. QED  BY <4>2 DEF c
      <3>. QED  BY <3>4 DEF a, b
    <2>. QED  BY <2>1, <2>2, CarriedConcat, ZenonT(60)
  <1>. QED  BY <1>1, <1>2, <1>3, <1>4, <1>5

-----------------------------------------------------------------------------
(* What is under way after a step *)

Queues == [Procs -> Seq(FrameSet)]

\* Replacing one queue to a client, or one from a client, changes what is under
\* way by the difference.
LEMMA UnderWayChange ==
    ASSUME NEW i \in Queues, NEW o \in Queues, NEW d \in Procs, NEW q \in Seq(FrameSet)
    PROVE  /\ UnderWay(i, o) \in Nat
           /\ [i EXCEPT ![d] = q] \in Queues /\ [o EXCEPT ![d] = q] \in Queues
           /\ UnderWay([i EXCEPT ![d] = q], o) = UnderWay(i, o) + Carried(q) - Carried(i[d])
           /\ UnderWay(i, [o EXCEPT ![d] = q]) = UnderWay(i, o) + Carried(q) - Carried(o[d])
  <1>. DEFINE c(x) == Carried(x)
              j == [i EXCEPT ![d] = q]
              p == [o EXCEPT ![d] = q]
  <1>1. Procs = {App, "network", Uploader} /\ App # "network" /\ App # Uploader /\ Uploader # "network"
    BY DEF Procs, App, Uploader
  <1>2. /\ j \in Queues /\ p \in Queues
        /\ j[d] = q /\ p[d] = q
        /\ \A r \in Procs \ {d} : j[r] = i[r] /\ p[r] = o[r]
    BY DEF Queues
  <1>3. c(q) \in Nat /\ \A r \in Procs : c(i[r]) \in Nat /\ c(o[r]) \in Nat
    BY CarriedPlaces, ZenonT(60) DEF Queues
  <1>. HIDE DEF c, j, p
  <1>4. UnderWay(i, o) = c(i[App]) + c(o[App]) + c(i["network"]) + c(o["network"])
                       + c(i[Uploader]) + c(o[Uploader])
    BY DEF UnderWay, c
  <1>5. UnderWay(j, o) = c(j[App]) + c(o[App]) + c(j["network"]) + c(o["network"])
                       + c(j[Uploader]) + c(o[Uploader])
    BY DEF UnderWay, c
  <1>6. UnderWay(i, p) = c(i[App]) + c(p[App]) + c(i["network"]) + c(p["network"])
                       + c(i[Uploader]) + c(p[Uploader])
    BY DEF UnderWay, c
  <1>7. UnderWay(i, o) \in Nat
    BY <1>1, <1>3, <1>4
  <1>8. UnderWay(j, o) = UnderWay(i, o) + c(q) - c(i[d])
    BY <1>1, <1>2, <1>3, <1>4, <1>5
  <1>9. UnderWay(i, p) = UnderWay(i, o) + c(q) - c(o[d])
    BY <1>1, <1>2, <1>3, <1>4, <1>6
  <1>. QED  BY <1>2, <1>7, <1>8, <1>9 DEF c, j, p

\* Replacing one queue keeps the kinds of frames in them apart.
LEMMA KindsKept ==
    ASSUME NEW o \in Queues, NEW d \in Procs, \A p \in Procs : o[p] \in Seq(Requests(p)),
           NEW q \in Seq(Requests(d))
    PROVE  /\ q \in Seq(FrameSet)
           /\ \A p \in Procs : [o EXCEPT ![d] = q][p] \in Seq(Requests(p))
  <1>1. q \in Seq(FrameSet)
    BY SMTT(60) DEF Requests
  <1>2. \A p \in Procs : [o EXCEPT ![d] = q][p] \in Seq(Requests(p))
    BY DEF Queues
  <1>. QED  BY <1>1, <1>2

\* The queues of a state.
LEMMA QueueFacts ==
    ASSUME QueuesOK
    PROVE  /\ in \in Queues /\ out \in Queues
           /\ \A p \in Procs : in[p] \in Seq(FrameSet) /\ out[p] \in Seq(FrameSet)
  BY SMTT(60) DEF QueuesOK, Queues

\* The daemon takes a request from p and queues f for d, one as much a command
\* or response as the other: what is lost with the connection is counted.
LEMMA QueueSendBalanced ==
    ASSUME QueuesOK, Balanced, NEW p \in Procs, NEW d \in Procs, NEW f \in FrameSet,
           out[p] # <<>>, Counts(f) <=> Counts(Head(out[p])), d = Uploader => ~Counts(f),
           QueueSend(p, d, f), UNCHANGED <<forwarded, answers>>
    PROVE  Balanced'
  <1>. DEFINE u == UnderWay(in, out)
              c == Carried(<<f>>)
              o == [out EXCEPT ![p] = Tail(out[p])]
              a == UnderWay(in, o)
  <1>1. /\ in \in Queues /\ out \in Queues /\ in[d] \in Seq(FrameSet) /\ out[p] \in Seq(FrameSet)
        /\ forwarded \in Nat /\ answers \in Nat /\ lost \in Nat /\ forwarded = answers + lost + u
        /\ \A r \in Procs : out[r] \in Seq(Requests(r))
        /\ in[Uploader] \in Seq(Silent)
    BY QueueFacts DEF Balanced
  <1>2. /\ Head(out[p]) \in FrameSet /\ Tail(out[p]) \in Seq(FrameSet)
        /\ Tail(out[p]) \in Seq(Requests(p)) /\ Append(in[d], f) \in Seq(FrameSet)
        /\ <<f>> \in Seq(FrameSet) /\ <<>> \in Seq(FrameSet) /\ <<>> \in Seq(Requests(d))
    BY <1>1, SMTT(60)
  <1>3. c = Carried(<<Head(out[p])>>) /\ c \in Nat
    BY <1>2, CarriedOne, CarriedPlaces
  <1>4. /\ u \in Nat /\ o \in Queues /\ a = u + Carried(Tail(out[p])) - Carried(out[p])
        /\ Carried(out[p]) = c + Carried(Tail(out[p]))
        /\ Carried(out[p]) \in Nat /\ Carried(Tail(out[p])) \in Nat
    <2>1. u \in Nat /\ o \in Queues /\ a = u + Carried(Tail(out[p])) - Carried(out[p])
      <3>1. in \in Queues /\ out \in Queues /\ Tail(out[p]) \in Seq(FrameSet)
        BY <1>1, <1>2
      <3>2. UnderWay(in, out) \in Nat
        BY <3>1, UnderWayChange
      <3>3. o \in Queues
        BY <3>1, UnderWayChange
      <3>4. UnderWay(in, o) = UnderWay(in, out) + Carried(Tail(out[p])) - Carried(out[p])
        BY <3>1, UnderWayChange
      <3>. QED  BY <3>2, <3>3, <3>4
    <2>2. Carried(out[p]) = Carried(<<Head(out[p])>>) + Carried(Tail(out[p]))
      BY <1>1, CarriedParts
    <2>3. Carried(out[p]) \in Nat /\ Carried(Tail(out[p])) \in Nat
      BY <1>1, <1>2, CarriedParts
    <2>. QED  BY <1>3, <2>1, <2>2, <2>3
  <1>5. a \in Nat
    BY <1>1, <1>4, UnderWayChange
  <1>. HIDE DEF u, c, a
  <1>6. u = a + c
    BY <1>3, <1>4, <1>5, SMTT(60)
  <1>7. \A r \in Procs : o[r] \in Seq(Requests(r))
    BY <1>1, <1>2, KindsKept
  <1>8. CASE /\ in' = [in EXCEPT ![d] = Append(@, f)]
             /\ out' = [out EXCEPT ![p] = Tail(@)]
             /\ UNCHANGED lost
    <2>1. in' = [in EXCEPT ![d] = Append(in[d], f)] /\ out' = o
      BY <1>8
    <2>. HIDE DEF o
    <2>2. /\ UnderWay(in', out') = a + Carried(Append(in[d], f)) - Carried(in[d])
          /\ Carried(Append(in[d], f)) = Carried(in[d]) + c /\ Carried(in[d]) \in Nat
      <3>1. UnderWay(in', out') = a + Carried(Append(in[d], f)) - Carried(in[d])
        <4>1. in \in Queues /\ o \in Queues /\ Append(in[d], f) \in Seq(FrameSet)
          BY <1>1, <1>2, <1>4
        <4>2. UnderWay([in EXCEPT ![d] = Append(in[d], f)], o)
                  = UnderWay(in, o) + Carried(Append(in[d], f)) - Carried(in[d])
          BY <4>1, UnderWayChange
        <4>. QED  BY <2>1, <4>2 DEF a
      <3>2. Carried(Append(in[d], f)) = Carried(in[d]) + c /\ Carried(in[d]) \in Nat
        BY <1>1, CarriedParts DEF c
      <3>. QED  BY <3>1, <3>2
    <2>3. UnderWay(in', out') = u
      BY <1>3, <1>5, <1>6, <2>2, SMTT(60)
    <2>4. in'[Uploader] \in Seq(Silent)
      <3>1. CASE d = Uploader
        <4>1. in'[Uploader] = Append(in[Uploader], f) /\ f \in Silent
          BY <1>1, <2>1, <3>1 DEF Silent, Queues
        <4>. QED  BY <1>1, <4>1, SMTT(60)
      <3>2. CASE d # Uploader
        BY <1>1, <2>1, <3>2, SMTT(60) DEF Queues
      <3>. QED  BY <3>1, <3>2
    <2>. QED  BY <1>1, <1>7, <1>8, <2>1, <2>3, <2>4 DEF Balanced, Requests, Silent, Counts
  <1>9. ASSUME NEW k \in 0 .. Len(in[d]),
               in' = [in EXCEPT ![d] = SubSeq(@, 1, k)],
               lost' = lost + Carried(SubSeq(in[d], k + 1, Len(in[d]))) + Carried(<<f>>)
                            + Carried(IF p = d THEN Tail(out[d]) ELSE out[d]),
               out' = [q \in Procs |-> CASE q = d -> <<>> [] q = p /\ q # d -> Tail(out[p])
                                         [] OTHER -> out[q]]
        PROVE  Balanced'
    <2>. DEFINE s == SubSeq(in[d], 1, k)
                e == SubSeq(in[d], k + 1, Len(in[d]))
                i == [in EXCEPT ![d] = s]
    <2>1. s \in Seq(FrameSet) /\ e \in Seq(FrameSet)
      BY <1>1, SMTT(60)
    <2>2. in' = i /\ i \in Queues
      <3>1. in' = i
        BY <1>9
      <3>2. i \in Queues
        BY <1>1, <2>1, UnderWayChange
      <3>. QED  BY <3>1, <3>2
    <2>3. out' = [o EXCEPT ![d] = <<>>]
      <3>. DEFINE x == [o EXCEPT ![d] = <<>>]
                  y(q) == IF q = d THEN <<>> ELSE IF q = p THEN Tail(out[p]) ELSE out[q]
      <3>1. DOMAIN out = Procs /\ DOMAIN o = Procs
        BY <1>1 DEF Queues
      <3>2. x = [q \in Procs |-> x[q]] /\ \A q \in Procs : x[q] = y(q)
        BY <3>1
      <3>3. out' = [q \in Procs |-> out'[q]] /\ \A q \in Procs : out'[q] = y(q)
        BY <1>9
      <3>. HIDE DEF x, y
      <3>4. out' = x
        BY <3>2, <3>3
      <3>. QED  BY <3>4 DEF x
    <2>4. o[d] = (IF p = d THEN Tail(out[d]) ELSE out[d]) /\ o[d] \in Seq(FrameSet)
      <3>1. DOMAIN out = Procs
        BY <1>1 DEF Queues
      <3>2. o[d] = IF p = d THEN Tail(out[d]) ELSE out[d]
        BY <3>1
      <3>3. o[d] \in Seq(FrameSet)
        BY <1>4 DEF Queues
      <3>. QED  BY <3>2, <3>3
    <2>5. /\ Carried(in[d]) = Carried(s) + Carried(e)
          /\ Carried(<<>>) = 0
          /\ Carried(s) \in Nat /\ Carried(e) \in Nat /\ Carried(o[d]) \in Nat
      BY <1>1, <1>9, <2>1, <2>4, CarriedParts
    <2>6. lost' = lost + Carried(e) + c + Carried(o[d])
      BY <1>9, <2>4 DEF c
    <2>7. /\ UnderWay(i, o) = a + Carried(s) - Carried(in[d])
          /\ UnderWay(i, out') = UnderWay(i, o) + Carried(<<>>) - Carried(o[d])
          /\ UnderWay(i, out') \in Nat
      <3>1. out' \in Queues
        BY <1>2, <1>4, <2>3, UnderWayChange
      <3>. HIDE DEF o, i, s, e
      <3>2. UnderWay(i, o) = a + Carried(s) - Carried(in[d])
        BY <1>1, <1>4, <2>1, UnderWayChange, ZenonT(60) DEF a, i
      <3>3. UnderWay(i, out') = UnderWay(i, o) + Carried(<<>>) - Carried(o[d])
        BY <1>2, <1>4, <2>2, <2>3, UnderWayChange
      <3>4. UnderWay(i, out') \in Nat
        BY <1>2, <2>2, <3>1, UnderWayChange
      <3>. QED  BY <3>2, <3>3, <3>4
    <2>8. \A r \in Procs : out'[r] \in Seq(Requests(r))
      BY <1>2, <1>4, <1>7, <2>3, KindsKept
    <2>9. in'[Uploader] \in Seq(Silent)
      <3>1. CASE d = Uploader
        <4>1. in'[Uploader] = SubSeq(in[Uploader], 1, k) /\ k \in 0 .. Len(in[Uploader])
          BY <1>1, <1>9, <3>1 DEF Queues
        <4>. QED  BY <1>1, <4>1, SMTT(60)
      <3>2. CASE d # Uploader
        BY <1>1, <1>9, <3>2, SMTT(60) DEF Queues
      <3>. QED  BY <3>1, <3>2
    <2>. HIDE DEF o, i, s, e
    <2>10. lost' \in Nat /\ forwarded = answers + lost' + UnderWay(i, out')
      <3>. DEFINE v == UnderWay(i, out')
                  w == UnderWay(i, o)
                  x == Carried(s)
                  y == Carried(e)
                  z == Carried(o[d])
      <3>1. /\ w = a + x - (x + y) /\ v = w + 0 - z /\ v \in Nat /\ x \in Nat /\ y \in Nat /\ z \in Nat
            /\ lost' = lost + y + c + z
        BY <2>5, <2>6, <2>7
      <3>. HIDE DEF v, w, x, y, z
      <3>2. lost' \in Nat /\ forwarded = answers + lost' + v
        BY <1>1, <1>3, <1>5, <1>6, <3>1, SMTT(60)
      <3>. QED  BY <3>2 DEF v
    <2>. QED  BY <1>1, <2>2, <2>8, <2>9, <2>10 DEF Balanced, Requests, Silent, Counts
  <1>10. CASE /\ out' = [out EXCEPT ![p] = Tail(@)]
              /\ lost' = lost + Carried(<<f>>)
              /\ UNCHANGED in
    <2>1. out' = o /\ lost' = lost + c /\ in' = in
      BY <1>10 DEF c
    <2>2. lost' \in Nat /\ forwarded = answers + lost' + a
      BY <1>1, <1>3, <1>5, <1>6, <2>1, SMTT(60)
    <2>. QED  BY <1>1, <1>7, <2>1, <2>2 DEF Balanced, a, Requests, Silent, Counts
  <1>. QED  BY <1>8, <1>9, <1>10 DEF QueueSend

\* A frame made with no APID counts for nothing, nor does one of a transfer.
LEMMA NotCounted ==
    /\ \A y, b : ~Counts(Frame(y, None, b))
    /\ \A a \in Sessions : \A y, b : ~Counts(Frame(y, a, b))
    /\ \A a, b, y : a \notin {"CMD", "CMD_RESP"} => ~Counts(Frame(y, a, b))
    /\ \A a, b, c, x, y : Counts(Frame(x, a, b)) <=> Counts(Frame(y, a, c))
    /\ \A b, y : Counts(Frame(y, "CMD", b)) /\ Counts(Frame(y, "CMD_RESP", b))
  <1>1. None \notin Apids /\ Sessions \cap Apids = {} /\ {"CMD", "CMD_RESP"} \subseteq Apids
    BY SystemAssumption DEF Apids
  <1>2. \A y, a, b : Frame(y, a, b).apid = a
    BY DEF Frame
  <1>. QED  BY <1>1, <1>2, SMTT(60) DEF Counts

\* Handling a request keeps the account: a command becomes a delivery or an
\* error, and a request about the state is none.
LEMMA HandleBalanced ==
    ASSUME SysInv, Balanced, NEW p \in Procs, HandleRequest(p)
    PROVE  Balanced'
  <1>. DEFINE f == Head(out[p])
  <1>1. /\ QueuesOK /\ out[p] # <<>> /\ sat \in SimState
        /\ UNCHANGED <<forwarded, answers>>
    BY DEF SysInv, SysTypeOK, HandleRequest
  <1>2. out[p] \in Seq(Requests(p)) /\ Dest(p) \in Procs /\ Dest(p) # Uploader
    BY DEF Balanced, Dest, Procs, Uploader
  <1>3. f \in Requests(p)
    BY <1>1, <1>2, SMTT(60)
  <1>4. f \in FrameSet /\ (Counts(f) => f.type = "SEND" /\ p # Uploader)
    BY <1>3 DEF Requests
  <1>. HIDE DEF f
  <1>5. ASSUME NEW d \in Procs, NEW g \in FrameSet, QueueSend(p, d, g), Counts(g) <=> Counts(f),
               d = Uploader => ~Counts(g)
        PROVE  Balanced'
    BY <1>1, <1>5, QueueSendBalanced DEF f
  <1>6. ASSUME f.type = "STATE_GET", QueueSend(p, p, Frame("STATE_VALUE", None, sat))
        PROVE  Balanced'
    <2>1. Frame("STATE_VALUE", None, sat) \in FrameSet
      BY <1>1, Framed
    <2>2. ~Counts(f)
      BY <1>4, <1>6
    <2>3. ~Counts(Frame("STATE_VALUE", None, sat))
      BY NotCounted
    <2>. QED  BY <1>5, <1>6, <2>1, <2>2, <2>3
  <1>7. ASSUME f.type = "STATE_SET", QueueSend(p, p, Frame("STATE_VALUE", None, f.body.val))
        PROVE  Balanced'
    <2>1. f.body.val \in SimState
      BY <1>4, <1>7, SMTT(60) DEF FrameSet, Pushed
    <2>2. Frame("STATE_VALUE", None, f.body.val) \in FrameSet
      BY <2>1, Framed
    <2>3. ~Counts(f)
      BY <1>4, <1>7
    <2>4. ~Counts(Frame("STATE_VALUE", None, f.body.val))
      BY NotCounted
    <2>. QED  BY <1>5, <1>7, <2>2, <2>3, <2>4
  <1>8. ASSUME f.type = "SEND", QueueSend(p, Dest(p), Frame("DELIVER", f.apid, f.body))
        PROVE  Balanced'
    <2>1. Frame("DELIVER", f.apid, f.body) \in FrameSet
      BY <1>4, <1>8, Framed
    <2>2. Counts(Frame("DELIVER", f.apid, f.body)) <=> Counts(f)
      BY DEF Counts, Frame
    <2>. QED  BY <1>2, <1>5, <1>8, <2>1, <2>2
  <1>9. ASSUME QueueSend(p, p, Frame("ERROR", f.apid, None))
        PROVE  Balanced'
    <2>1. Frame("ERROR", f.apid, None) \in FrameSet
      BY <1>4, Framed
    <2>2. Counts(Frame("ERROR", f.apid, None)) <=> Counts(f)
      BY DEF Counts, Frame
    <2>. QED  BY <1>4, <1>5, <1>9, <2>1, <2>2
  <1>. QED  BY <1>6, <1>7, <1>8, <1>9 DEF HandleRequest, f

\* Giving up a connection keeps the account.
LEMMA HangUpBalanced ==
    ASSUME SysInv, Balanced, NEW p \in Procs, HangUp(p)
    PROVE  Balanced'
  <1>1. in \in Queues /\ out \in Queues /\ out[p] \in Seq(FrameSet)
    BY QueueFacts DEF SysInv
  <1>2. /\ out' = [out EXCEPT ![p] = <<>>] /\ lost' = lost + Carried(out[p])
        /\ UNCHANGED <<in, forwarded, answers>>
    BY DEF HangUp
  <1>3. <<>> \in Seq(FrameSet) /\ <<>> \in Seq(Requests(p))
    OBVIOUS
  <1>4. UnderWay(in, [out EXCEPT ![p] = <<>>]) = UnderWay(in, out) + Carried(<<>>) - Carried(out[p])
    BY <1>1, <1>3, UnderWayChange
  <1>5. Carried(<<>>) = 0 /\ Carried(out[p]) \in Nat /\ UnderWay(in, out) \in Nat
    <2>1. Carried(<<>>) = 0 /\ Carried(out[p]) \in Nat
      BY <1>1, CarriedParts
    <2>2. UnderWay(in, out) \in Nat
      BY <1>1, <1>3, UnderWayChange
    <2>. QED  BY <2>1, <2>2
  <1>6. \A r \in Procs : out'[r] \in Seq(Requests(r))
    BY <1>1, <1>2, <1>3, KindsKept DEF Balanced
  <1>7. lost' \in Nat /\ forwarded = answers + lost' + UnderWay(in, out')
    BY <1>2, <1>4, <1>5, SMTT(60) DEF Balanced
  <1>. QED  BY <1>2, <1>6, <1>7 DEF Balanced, Requests, Silent, Counts

\* What was queued for p is dropped, and counted.
LEMMA DropBalanced ==
    ASSUME SysInv, Balanced, NEW p \in Procs, in' = [in EXCEPT ![p] = <<>>],
           lost' = lost + Carried(in[p]), UNCHANGED <<out, forwarded, answers>>
    PROVE  Balanced'
  <1>1. in \in Queues /\ out \in Queues /\ in[p] \in Seq(FrameSet)
    BY QueueFacts DEF SysInv
  <1>2. <<>> \in Seq(FrameSet) /\ <<>> \in Seq(Silent)
    OBVIOUS
  <1>3. UnderWay([in EXCEPT ![p] = <<>>], out) = UnderWay(in, out) + Carried(<<>>) - Carried(in[p])
    BY <1>1, <1>2, UnderWayChange
  <1>4. Carried(<<>>) = 0 /\ Carried(in[p]) \in Nat /\ UnderWay(in, out) \in Nat
    <2>1. Carried(<<>>) = 0 /\ Carried(in[p]) \in Nat
      BY <1>1, CarriedParts
    <2>2. UnderWay(in, out) \in Nat
      BY <1>1, <1>2, UnderWayChange
    <2>. QED  BY <2>1, <2>2
  <1>5. in'[Uploader] \in Seq(Silent)
    BY <1>1, <1>2, SMTT(60) DEF Queues, Balanced
  <1>6. lost' \in Nat /\ forwarded = answers + lost' + UnderWay(in', out)
    BY <1>3, <1>4, SMTT(60) DEF Balanced
  <1>. QED  BY <1>5, <1>6 DEF Balanced, Requests, Silent, Counts

\* What is under way once p has read a frame.
LEMMA ReadBalanced ==
    ASSUME SysInv, Balanced, NEW p \in Procs, in[p] # <<>>, in' = [in EXCEPT ![p] = Tail(in[p])]
    PROVE  /\ in' \in Queues /\ out \in Queues /\ in'[Uploader] \in Seq(Silent)
           /\ Head(in[p]) \in FrameSet /\ Carried(<<Head(in[p])>>) \in Nat
           /\ UnderWay(in', out) \in Nat
           /\ UnderWay(in, out) = UnderWay(in', out) + Carried(<<Head(in[p])>>)
  <1>1. in \in Queues /\ out \in Queues /\ in[p] \in Seq(FrameSet)
    BY QueueFacts DEF SysInv
  <1>2. Tail(in[p]) \in Seq(FrameSet) /\ Head(in[p]) \in FrameSet /\ <<Head(in[p])>> \in Seq(FrameSet)
    BY <1>1, SMTT(60)
  <1>3. in' \in Queues
    BY <1>1, <1>2, UnderWayChange
  <1>4. UnderWay(in', out) = UnderWay(in, out) + Carried(Tail(in[p])) - Carried(in[p])
    BY <1>1, <1>2, UnderWayChange
  <1>5. UnderWay(in, out) \in Nat /\ UnderWay(in', out) \in Nat
    BY <1>1, <1>2, <1>3, UnderWayChange
  <1>6. Carried(in[p]) = Carried(<<Head(in[p])>>) + Carried(Tail(in[p]))
    BY <1>1, CarriedParts
  <1>7. Carried(<<Head(in[p])>>) \in Nat /\ Carried(Tail(in[p])) \in Nat
    BY <1>2, CarriedPlaces
  <1>8. UnderWay(in, out) = UnderWay(in', out) + Carried(<<Head(in[p])>>)
    BY <1>4, <1>5, <1>6, <1>7, SMTT(60)
  <1>9. in'[Uploader] \in Seq(Silent)
    <2>1. in[Uploader] \in Seq(Silent)
      BY DEF Balanced
    <2>2. CASE p = Uploader
      <3>1. in'[Uploader] = Tail(in[Uploader]) /\ in[Uploader] # <<>>
        BY <1>1, <2>2 DEF Queues
      <3>. QED  BY <2>1, <3>1, SMTT(60)
    <2>3. CASE p # Uploader
      BY <1>1, <2>1, <2>3, SMTT(60) DEF Queues
    <2>. QED  BY <2>2, <2>3
  <1>. QED  BY <1>1, <1>2, <1>3, <1>5, <1>7, <1>8, <1>9

\* What is under way once p has written the frames fs, or lost them.
LEMMA WriteBalanced ==
    ASSUME SysInv, Balanced, NEW p \in Procs, NEW fs \in Seq(Requests(p)), Write(p, fs),
           NEW i \in Queues
    PROVE  /\ UnderWay(i, out) + Carried(fs) = UnderWay(i, out') + LostBy(p, fs)
           /\ LostBy(p, fs) \in Nat /\ Carried(fs) \in Nat
           /\ UnderWay(i, out) \in Nat /\ UnderWay(i, out') \in Nat
           /\ \A r \in Procs : out'[r] \in Seq(Requests(r))
  <1>. DEFINE q == IF Lost(p) THEN out[p] ELSE out[p] \o fs
  <1>1. out \in Queues /\ out[p] \in Seq(FrameSet) /\ out[p] \in Seq(Requests(p))
    BY QueueFacts DEF SysInv, Balanced
  <1>2. fs \in Seq(FrameSet) /\ out[p] \o fs \in Seq(Requests(p)) /\ out[p] \o fs \in Seq(FrameSet)
    BY <1>1, SMTT(60) DEF Requests
  <1>3. Carried(fs) \in Nat /\ Carried(out[p]) \in Nat
    BY <1>1, <1>2, CarriedPlaces
  <1>4. Carried(out[p] \o fs) = Carried(out[p]) + Carried(fs)
    BY <1>1, <1>2, CarriedConcat
  <1>5. q \in Seq(Requests(p)) /\ q \in Seq(FrameSet)
    BY <1>1, <1>2
  <1>6. out' = [out EXCEPT ![p] = q]
    BY DEF Write
  <1>7. LostBy(p, fs) \in Nat /\ Carried(q) + LostBy(p, fs) = Carried(out[p]) + Carried(fs)
    <2>1. CASE Lost(p)
      <3>1. LostBy(p, fs) = Carried(fs) /\ q = out[p]
        BY <2>1 DEF LostBy
      <3>. QED  BY <1>3, <3>1
    <2>2. CASE ~Lost(p)
      <3>1. LostBy(p, fs) = 0 /\ q = out[p] \o fs
        BY <2>2 DEF LostBy
      <3>2. Carried(q) = Carried(out[p]) + Carried(fs)
        BY <1>4, <3>1
      <3>. HIDE DEF q
      <3>3. Carried(q) + 0 = Carried(q)
        BY <1>3, <3>2, SMTT(60)
      <3>. QED  BY <3>1, <3>2, <3>3
    <2>. QED  BY <2>1, <2>2
  <1>. HIDE DEF q
  <1>8. UnderWay(i, out') = UnderWay(i, out) + Carried(q) - Carried(out[p])
    BY <1>1, <1>5, <1>6, UnderWayChange
  <1>9. out' \in Queues
    BY <1>1, <1>5, <1>6, UnderWayChange
  <1>10. UnderWay(i, out) \in Nat /\ UnderWay(i, out') \in Nat
    BY <1>1, <1>5, <1>9, UnderWayChange
  <1>11. Carried(q) \in Nat
    BY <1>5, CarriedPlaces
  <1>12. UnderWay(i, out) + Carried(fs) = UnderWay(i, out') + LostBy(p, fs)
    BY <1>3, <1>7, <1>8, <1>10, <1>11, SMTT(60)
  <1>13. \A r \in Procs : out'[r] \in Seq(Requests(r))
    BY <1>1, <1>5, <1>6, KindsKept DEF Balanced
  <1>. QED  BY <1>3, <1>7, <1>10, <1>12, <1>13

\* A sequence without commands and responses is one of requests of anybody.
LEMMA SilentRequests ==
    ASSUME NEW p \in Procs, NEW fs \in Seq(Silent)
    PROVE  fs \in Seq(Requests(p)) /\ Carried(fs) = 0
  <1>1. Silent \subseteq Requests(p)
    BY DEF Silent, Requests
  <1>2. fs \in Seq(Requests(p))
    BY <1>1, SMTT(60)
  <1>. QED  BY <1>2, CarriedSilent

\* Writing such frames and nothing else keeps the account, whether the write
\* reaches the daemon or not.
LEMMA SilentWriteBalanced ==
    ASSUME SysInv, Balanced, NEW p \in Procs, NEW fs \in Seq(Silent), Write(p, fs),
           UNCHANGED <<in, lost, forwarded, answers>>
    PROVE  Balanced'
  <1>1. in \in Queues
    BY QueueFacts DEF SysInv
  <1>2. fs \in Seq(Requests(p)) /\ Carried(fs) = 0
    BY SilentRequests
  <1>3. /\ UnderWay(in, out) + Carried(fs) = UnderWay(in, out') + LostBy(p, fs)
        /\ LostBy(p, fs) \in Nat
        /\ UnderWay(in, out) \in Nat /\ UnderWay(in, out') \in Nat
        /\ \A r \in Procs : out'[r] \in Seq(Requests(r))
    BY <1>1, <1>2, WriteBalanced
  <1>4. LostBy(p, fs) = 0
    BY <1>2 DEF LostBy
  <1>5. UnderWay(in, out') = UnderWay(in, out)
    BY <1>2, <1>3, <1>4, SMTT(60)
  <1>. QED  BY <1>3, <1>5 DEF Balanced, Requests, Silent, Counts

\* payload_app's main loop keeps the account: it answers every command it reads,
\* or the command or its answer is lost and counted.
LEMMA AppReceiveBalanced ==
    ASSUME SysInv, Balanced, AppReceive
    PROVE  Balanced'
  <1>. DEFINE f == Head(in[App])
              m == f.body
              c == Carried(<<f>>)
              u == UnderWay(in, out)
              a == UnderWay(in', out)
  <1>. App \in Procs
    BY DEF App, Procs
  <1>1. /\ in[App] # <<>> /\ in' = [in EXCEPT ![App] = Tail(in[App])]
        /\ UNCHANGED <<forwarded, answers>>
    BY DEF AppReceive, App
  <1>2. /\ in' \in Queues /\ out \in Queues /\ in'[Uploader] \in Seq(Silent) /\ f \in FrameSet
        /\ c \in Nat /\ a \in Nat /\ u = a + c
    BY <1>1, ReadBalanced
  <1>3. sim \in SimState /\ seeded \in BOOLEAN
    BY DEF SysInv, SysTypeOK
  <1>4. /\ forwarded \in Nat /\ answers \in Nat /\ lost \in Nat /\ forwarded = answers + lost + u
        /\ \A r \in Procs : out[r] \in Seq(Requests(r))
    BY DEF Balanced
  <1>. HIDE DEF f, c, u, a
  <1>5. ASSUME NEW fs \in Seq(Requests(App)), Carried(fs) = c, Write(App, fs),
               lost' = lost + LostBy(App, fs)
        PROVE  Balanced'
    <2>. DEFINE v == UnderWay(in', out')
                l == LostBy(App, fs)
    <2>1. /\ a + Carried(fs) = v + l /\ l \in Nat /\ v \in Nat
          /\ \A r \in Procs : out'[r] \in Seq(Requests(r))
      BY <1>2, <1>5, WriteBalanced DEF a
    <2>. HIDE DEF v, l
    <2>2. lost' \in Nat /\ forwarded = answers + lost' + v
      <3>1. a + c = v + l /\ lost' = lost + l
        BY <1>5, <2>1 DEF l
      <3>. QED  BY <1>2, <1>4, <2>1, <3>1, SMTT(60)
    <2>. QED  BY <1>1, <1>2, <1>4, <2>1, <2>2 DEF Balanced, v, Requests, Silent, Counts
  <1>6. ASSUME NEW fs \in Seq(Silent), ~Counts(f), Write(App, fs), lost' = lost + LostBy(App, fs)
        PROVE  Balanced'
    <2>1. fs \in Seq(Requests(App)) /\ Carried(fs) = 0
      BY <1>6, SilentRequests
    <2>2. c = 0
      BY <1>2, <1>6, CarriedOne DEF c
    <2>. QED  BY <1>5, <1>6, <2>1, <2>2
  <1>7. ASSUME NEW s \in SimState
        PROVE  PushState(s) \in Silent
    <2>1. PushState(s) \in FrameSet
      BY <1>3, Framed DEF PushState
    <2>2. ~Counts(PushState(s))
      BY NotCounted DEF PushState
    <2>. QED  BY <2>1, <2>2 DEF Silent
  <1>8. <<>> \in Seq(Silent)
    OBVIOUS
  <1>9. ASSUME f.type = "DELIVER", f.apid = "CMD", Write(App, CommandFrames(m)),
               lost' = lost + LostBy(App, CommandFrames(m))
        PROVE  Balanced'
    <2>. DEFINE r == Send("CMD_RESP", None)
                g == PushState(Effect(m, sim))
    <2>1. m \in Commands
      BY <1>2, <1>9, SMTT(60) DEF FrameSet
    <2>2. g \in Silent
      BY <1>3, <1>7, <2>1, EffectType
    <2>3. r \in FrameSet
      BY Framed, SMTT(60) DEF Apids
    <2>4. Counts(r) /\ r.type = "SEND"
      BY DEF Counts, Send, Frame
    <2>5. App # Uploader
      BY DEF App, Uploader
    <2>. HIDE DEF r, g
    <2>6. r \in Requests(App) /\ g \in Requests(App) /\ g \in FrameSet /\ ~Counts(g)
      BY <2>2, <2>3, <2>4, <2>5 DEF Requests, Silent
    <2>7. CommandFrames(m) = Append(<<r>>, g)
      BY SMTT(60) DEF CommandFrames, r, g
    <2>8. CommandFrames(m) \in Seq(Requests(App)) /\ <<r>> \in Seq(FrameSet)
      BY <2>3, <2>6, <2>7, SMTT(60)
    <2>9. Carried(CommandFrames(m)) = Carried(<<r>>) + Carried(<<g>>)
      BY <2>6, <2>7, <2>8, CarriedParts
    <2>10. Carried(<<r>>) = 1 /\ Carried(<<g>>) = 0 /\ c = 1
      <3>1. Counts(f)
        BY <1>9 DEF Counts
      <3>2. Carried(<<r>>) = 1
        BY <2>3, <2>4, CarriedOne
      <3>3. Carried(<<g>>) = 0
        BY <2>6, CarriedOne
      <3>4. c = 1
        BY <1>2, <3>1, CarriedOne DEF c
      <3>. QED  BY <3>2, <3>3, <3>4
    <2>11. Carried(CommandFrames(m)) = c
      BY <2>9, <2>10, SMTT(60)
    <2>. QED  BY <1>5, <1>9, <2>8, <2>11
  <1>10. ASSUME f.type = "DELIVER", f.apid = "ADCS_RESP", Write(App, AdcsFrames(m)),
                lost' = lost + LostBy(App, AdcsFrames(m))
         PROVE  Balanced'
    <2>1. m \in Commands
      BY <1>2, <1>10, SMTT(60) DEF FrameSet
    <2>2. PushState(Effect(m, sim)) \in Silent
      BY <1>3, <1>7, <2>1, EffectType
    <2>3. <<PushState(Effect(m, sim))>> \in Seq(Silent)
      BY <2>2, SMTT(60)
    <2>4. AdcsFrames(m) \in Seq(Silent)
      BY <1>8, <2>3 DEF AdcsFrames
    <2>5. ~Counts(f)
      BY <1>10 DEF Counts
    <2>. QED  BY <1>6, <1>10, <2>4, <2>5
  <1>11. ASSUME f.apid \in Sessions,
                NEW fs, fs = IF Completes(f.apid, m) THEN <<Send("BULK_ACK", None)>> ELSE <<>>,
                Write(App, fs), lost' = lost + LostBy(App, fs)
         PROVE  Balanced'
    <2>1. Send("BULK_ACK", None) \in FrameSet
      BY Framed, SMTT(60) DEF Apids
    <2>2. ~Counts(Send("BULK_ACK", None))
      BY DEF Counts, Send, Frame
    <2>3. <<Send("BULK_ACK", None)>> \in Seq(Silent)
      BY <2>1, <2>2, SMTT(60) DEF Silent
    <2>4. fs \in Seq(Silent)
      BY <1>8, <1>11, <2>3
    <2>5. ~Counts(f)
      <3>1. Sessions \cap Apids = {} /\ "CMD" \in Apids /\ "CMD_RESP" \in Apids
        BY SystemAssumption DEF Apids
      <3>. QED  BY <1>11, <3>1 DEF Counts
    <2>. QED  BY <1>6, <1>11, <2>4, <2>5
  <1>12. ASSUME lost' = lost + c, UNCHANGED out
         PROVE  Balanced'
    <2>1. lost' \in Nat /\ forwarded = answers + lost' + a
      BY <1>2, <1>4, <1>12, SMTT(60)
    <2>. QED  BY <1>1, <1>2, <1>4, <1>12, <2>1 DEF Balanced, a, Requests, Silent, Counts
  <1>. QED  BY <1>9, <1>10, <1>11, <1>12 DEF AppReceive, f, c, App

\* The bridge keeps the account: a response goes out on the link or is lost, and
\* what arrives from the OBC is passed on or lost.
LEMMA BridgeBalanced ==
    ASSUME SysInv, Balanced, BridgeReceive \/ ReceiveFromObc
    PROVE  Balanced'
  <1>. DEFINE p == "network"
              u == UnderWay(in, out)
  <1>. p \in Procs
    BY DEF Procs
  <1>1. /\ forwarded \in Nat /\ answers \in Nat /\ lost \in Nat /\ forwarded = answers + lost + u
        /\ \A r \in Procs : out[r] \in Seq(Requests(r))
        /\ in[Uploader] \in Seq(Silent)
    BY DEF Balanced
  <1>2. in \in Queues
    BY QueueFacts DEF SysInv
  <1>. HIDE DEF u
  <1>3. CASE BridgeReceive
    <2>. DEFINE f == Head(in[p])
                c == Carried(<<f>>)
                a == UnderWay(in', out)
    <2>1. /\ in[p] # <<>> /\ in' = [in EXCEPT ![p] = Tail(in[p])]
          /\ UNCHANGED <<out, forwarded>>
          /\ \/ answers' = answers + c /\ UNCHANGED lost
             \/ lost' = lost + c /\ UNCHANGED answers
      BY <1>3 DEF BridgeReceive, link_send
    <2>2. in'[Uploader] \in Seq(Silent) /\ c \in Nat /\ a \in Nat /\ u = a + c
      BY <2>1, ReadBalanced DEF u
    <2>. HIDE DEF c, a
    <2>3. answers' \in Nat /\ lost' \in Nat /\ forwarded = answers' + lost' + a
      BY <1>1, <2>1, <2>2, SMTT(60)
    <2>. QED  BY <1>1, <2>1, <2>2, <2>3 DEF Balanced, a, Requests, Silent, Counts
  <1>4. ASSUME NEW f \in FrameSet, f.type = "SEND", forward_to_app(f), UNCHANGED <<in, answers>>
        PROVE  Balanced'
    <2>. DEFINE c == Carried(<<f>>)
                v == UnderWay(in, out')
                l == LostBy(p, <<f>>)
    <2>1. f \in Requests(p)
      BY <1>4 DEF Requests, Uploader
    <2>2. <<f>> \in Seq(Requests(p))
      BY <2>1, SMTT(60)
    <2>3. Write(p, <<f>>) /\ forwarded' = forwarded + c /\ lost' = lost + l
      BY <1>4 DEF forward_to_app
    <2>4. /\ u + c = v + l /\ c \in Nat /\ l \in Nat /\ v \in Nat /\ u \in Nat
          /\ \A r \in Procs : out'[r] \in Seq(Requests(r))
      BY <1>2, <2>2, <2>3, WriteBalanced DEF u
    <2>. HIDE DEF c, v, l
    <2>5. forwarded' \in Nat /\ lost' \in Nat /\ forwarded' = answers + lost' + v
      BY <1>1, <2>3, <2>4, SMTT(60)
    <2>. QED  BY <1>1, <1>4, <2>4, <2>5 DEF Balanced, v, Requests, Silent, Counts
  <1>5. CASE ReceiveFromObc
    <2>1. UNCHANGED <<in, answers>>
      BY <1>5 DEF ReceiveFromObc
    <2>2. CASE UNCHANGED <<out, forwarded, lost>>
      BY <1>1, <2>1, <2>2 DEF Balanced, u, Requests, Silent, Counts
    <2>3. ASSUME NEW a, NEW b, Send(a, b) \in FrameSet, forward_to_app(Send(a, b))
          PROVE  Balanced'
      <3>1. Send(a, b).type = "SEND"
        BY DEF Send, Frame
      <3>. QED  BY <1>4, <2>1, <2>3, <3>1
    <2>4. ASSUME NEW m \in Commands,
                 forward_to_app(Send(IF m.op \in CmdOps THEN "CMD" ELSE "ADCS_RESP", m))
          PROVE  Balanced'
      BY <2>3, <2>4, Framed
    <2>5. ASSUME NEW s \in Sessions, NEW c \in Chunks, forward_to_app(Send(s, c))
          PROVE  Balanced'
      BY <2>3, <2>5, Framed
    <2>. QED  BY <1>5, <2>2, <2>4, <2>5 DEF ReceiveFromObc
  <1>. QED  BY <1>3, <1>5

\* A step that moves no frame and counts none keeps the account.
LEMMA QuietBalanced ==
    ASSUME Balanced, UNCHANGED <<in, out, forwarded, answers, lost>>
    PROVE  Balanced'
  BY DEF Balanced, Requests, Silent, Counts

\* The part of main() the clients share keeps the account.
LEMMA ClientBalanced ==
    ASSUME SysInv, Balanced,
           \/ \E p \in Procs : Start(p) \/ Connect(p)
           \/ \E p \in {"payload_app", "network"} : GetState(p) \/ StateReply(p)
    PROVE  Balanced'
  <1>1. ASSUME NEW p \in Procs, Start(p)  PROVE Balanced'
    BY <1>1, QuietBalanced DEF Start, daemon, count
  <1>2. ASSUME NEW p \in Procs, Connect(p)  PROVE Balanced'
    <2>1. UNCHANGED <<out, forwarded, answers>>
      BY <1>2 DEF Connect
    <2>2. CASE in' = [in EXCEPT ![p] = <<>>] /\ lost' = lost + Carried(in[p])
      BY <2>1, <2>2, DropBalanced
    <2>3. CASE UNCHANGED <<in, lost>>
      BY <2>1, <2>3, QuietBalanced
    <2>. QED  BY <1>2, <2>2, <2>3 DEF Connect
  <1>3. ASSUME NEW p \in Procs, GetState(p)  PROVE Balanced'
    <2>. DEFINE g == Frame("STATE_GET", None, None)
    <2>1. UNCHANGED <<in, lost, forwarded, answers>>
      BY <1>3 DEF GetState, count
    <2>2. g \in FrameSet
      BY Framed
    <2>3. ~Counts(g)
      BY NotCounted
    <2>. HIDE DEF g
    <2>4. <<g>> \in Seq(Silent)
      BY <2>2, <2>3, SMTT(60) DEF Silent
    <2>5. CASE Write(p, <<g>>)
      BY <2>1, <2>4, <2>5, SilentWriteBalanced
    <2>6. CASE UNCHANGED out
      BY <2>1, <2>6, QuietBalanced
    <2>. QED  BY <1>3, <2>5, <2>6 DEF GetState, g
  <1>4. ASSUME NEW p \in Procs, StateReply(p)  PROVE Balanced'
    <2>1. /\ UNCHANGED <<out, forwarded, answers>>
          /\ in' = [in EXCEPT ![p] = IF in[p] = <<>> THEN in[p] ELSE Tail(in[p])]
          /\ lost' = lost + (IF in[p] = <<>> THEN 0 ELSE Carried(<<Head(in[p])>>))
      BY <1>4 DEF StateReply
    <2>2. /\ forwarded \in Nat /\ answers \in Nat /\ lost \in Nat
          /\ forwarded = answers + lost + UnderWay(in, out)
          /\ \A r \in Procs : out[r] \in Seq(Requests(r))
      BY DEF Balanced
    <2>3. CASE in[p] = <<>>
      <3>1. in' = in
        <4>1. in \in [Procs -> Seq(FrameSet)]
          BY QueueFacts DEF SysInv, Queues
        <4>2. in' = [in EXCEPT ![p] = in[p]]
          BY <2>1, <2>3
        <4>. QED  BY <4>1, <4>2, ZenonT(60)
      <3>2. lost' = lost
        BY <2>1, <2>2, <2>3, SMTT(60)
      <3>. QED  BY <2>1, <3>1, <3>2, QuietBalanced
    <2>4. CASE in[p] # <<>>
      <3>. DEFINE c == Carried(<<Head(in[p])>>)
                  a == UnderWay(in', out)
                  u == UnderWay(in, out)
      <3>1. in' = [in EXCEPT ![p] = Tail(in[p])] /\ lost' = lost + c
        BY <2>1, <2>4
      <3>2. in'[Uploader] \in Seq(Silent) /\ c \in Nat /\ a \in Nat /\ u = a + c
        BY <2>4, <3>1, ReadBalanced
      <3>3. forwarded = answers + lost + u
        BY <2>2
      <3>. HIDE DEF c, a, u
      <3>4. lost' \in Nat /\ forwarded = answers + lost' + a
        BY <2>2, <3>1, <3>2, <3>3, SMTT(60)
      <3>. QED  BY <2>1, <2>2, <3>2, <3>4 DEF Balanced, a, Requests, Silent, Counts
    <2>. QED  BY <2>3, <2>4
  <1>5. {"payload_app", "network"} \subseteq Procs
    BY DEF Procs
  <1>. QED  BY <1>1, <1>2, <1>3, <1>4, <1>5

\* The end of a process keeps the account.
LEMMA EndedBalanced ==
    ASSUME SysInv, Balanced, NEW p \in Procs, Ended(p), UNCHANGED <<forwarded, answers>>
    PROVE  Balanced'
  <1>1. in' = [in EXCEPT ![p] = <<>>] /\ lost' = lost + Carried(in[p]) /\ UNCHANGED out
    BY DEF Ended
  <1>. QED  BY <1>1, DropBalanced

\* The heartbeat and the uploader keep the account, of which they are no part.
LEMMA OthersBalanced ==
    ASSUME SysInv, Balanced, AppTick \/ UploaderOpens \/ UploaderSends \/ UploaderEnds
    PROVE  Balanced'
  <1>. App \in Procs /\ Uploader \in Procs
    BY DEF App, Uploader, Procs
  <1>1. CASE AppTick
    <2>1. UNCHANGED <<in, lost, forwarded, answers>> /\ Write(App, TickFrames(tick + 1))
      BY <1>1 DEF AppTick, count, App
    <2>2. tick + 1 \in Nat
      BY SMTT(60) DEF SysInv, SysTypeOK
    <2>3. TickFrames(tick + 1) \in Seq(Silent)
      BY <2>2, TickFramesOK
    <2>. QED  BY <2>1, <2>3, SilentWriteBalanced
  <1>2. CASE UploaderOpens
    BY <1>2, QuietBalanced DEF UploaderOpens, daemon, count
  <1>3. CASE UploaderSends
    <2>1. UNCHANGED <<forwarded, answers>>
      BY <1>3 DEF UploaderSends
    <2>2. CASE Ended(Uploader)
      BY <2>1, <2>2, EndedBalanced
    <2>3. CASE Write(Uploader, <<Send("BULK", None)>>) /\ UNCHANGED <<in, lost>>
      <3>1. Send("BULK", None) \in FrameSet
        BY Framed, SMTT(60) DEF Apids
      <3>2. ~Counts(Send("BULK", None))
        BY DEF Counts, Send, Frame
      <3>3. <<Send("BULK", None)>> \in Seq(Silent)
        BY <3>1, <3>2, SMTT(60) DEF Silent
      <3>. QED  BY <2>1, <2>3, <3>3, SilentWriteBalanced
    <2>. QED  BY <1>3, <2>2, <2>3 DEF UploaderSends, Uploader
  <1>4. CASE UploaderEnds
    BY <1>4, EndedBalanced DEF UploaderEnds, Uploader
  <1>. QED  BY <1>1, <1>2, <1>3, <1>4

\* The account is right at the start.
LEMMA BalancedInit == SysInit => Balanced
  <1>. SUFFICES ASSUME SysInit PROVE Balanced
    OBVIOUS
  <1>1. Procs = {App, "network", Uploader}
    BY DEF Procs, App, Uploader
  <1>2. forwarded = 0 /\ answers = 0 /\ lost = 0
    BY DEF SysInit
  <1>3. \A p \in Procs : in[p] = <<>> /\ out[p] = <<>>
    BY DEF SysInit
  <1>4. <<>> \in Seq(FrameSet) /\ <<>> \in Seq(Silent) /\ \A p \in Procs : <<>> \in Seq(Requests(p))
    OBVIOUS
  <1>5. Carried(<<>>) = 0
    BY <1>4, CarriedParts
  <1>6. UnderWay(in, out) = 0 + 0 + 0 + 0 + 0 + 0
    BY <1>1, <1>3, <1>5 DEF UnderWay
  <1>7. forwarded = answers + lost + UnderWay(in, out) /\ forwarded \in Nat
    BY <1>2, <1>6, SMTT(60)
  <1>8. (\A p \in Procs : out[p] \in Seq(Requests(p))) /\ in[Uploader] \in Seq(Silent)
    BY <1>1, <1>3, <1>4
  <1>. QED  BY <1>2, <1>7, <1>8 DEF Balanced

\* Every step keeps the account.
LEMMA BalancedStep == SysInv /\ Balanced /\ [SysNext]_sysvars => Balanced'
  <1>. SUFFICES ASSUME SysInv, Balanced, [SysNext]_sysvars PROVE Balanced'
    OBVIOUS
  <1>. "network" \in Procs /\ "payload_app" \in Procs
    BY DEF Procs
  <1>1. CASE Daemon
    BY <1>1, HandleBalanced, HangUpBalanced DEF Daemon
  <1>2. CASE \/ \E p \in Procs : Start(p) \/ Connect(p)
             \/ \E p \in {"payload_app", "network"} : GetState(p) \/ StateReply(p)
    BY <1>2, ClientBalanced
  <1>3. CASE AppReceive
    BY <1>3, AppReceiveBalanced
  <1>4. CASE AppTick \/ UploaderOpens \/ UploaderSends \/ UploaderEnds
    BY <1>4, OthersBalanced
  <1>5. CASE BridgeReceive \/ ReceiveFromObc
    BY <1>5, BridgeBalanced
  <1>6. CASE AppLosesDaemon
    BY <1>6, EndedBalanced DEF AppLosesDaemon
  <1>7. CASE OpenSerial
    <2>1. UNCHANGED <<forwarded, answers>>
      BY <1>7 DEF OpenSerial
    <2>2. CASE Ended("network")
      BY <2>1, <2>2, EndedBalanced
    <2>3. CASE UNCHANGED <<in, out, lost>>
      BY <2>1, <2>3, QuietBalanced
    <2>. QED  BY <1>7, <2>2, <2>3 DEF OpenSerial
  <1>8. CASE Second
    BY <1>8, QuietBalanced DEF Second, daemon, count
  <1>9. ASSUME NEW p \in Procs, Crash(p)  PROVE Balanced'
    BY <1>9, EndedBalanced DEF Crash
  <1>10. CASE UNCHANGED sysvars
    BY <1>10, QuietBalanced DEF sysvars, daemon, count
  <1>. QED  BY <1>1, <1>2, <1>3, <1>4, <1>5, <1>6, <1>7, <1>8, <1>9, <1>10 DEF SysNext, Process

\* No command of the OBC disappears or is answered twice, whatever crashes,
\* reconnections, full backlogs and write errors happen on its way: every command
\* the bridge passed on is answered, under way, or counted as lost at the place
\* that dropped it.
THEOREM CommandsCorrect == SysSpec => []CommandsAccounted
  <1>1. SysInv /\ Balanced => CommandsAccounted
    <2>. SUFFICES ASSUME SysInv, Balanced PROVE CommandsAccounted
      OBVIOUS
    <2>. DEFINE c(q) == Carried(q)
    <2>1. Uploader \in Procs /\ App \in Procs /\ "network" \in Procs
      BY DEF Uploader, App, Procs
    <2>2. in[Uploader] \in Seq(Silent) /\ out[Uploader] \in Seq(Requests(Uploader))
      BY <2>1 DEF Balanced
    <2>3. Requests(Uploader) = Silent
      BY DEF Requests, Silent
    <2>4. c(in[Uploader]) = 0 /\ c(out[Uploader]) = 0
      BY <2>2, <2>3, CarriedSilent
    <2>5. /\ c(in[App]) \in Nat /\ c(out[App]) \in Nat
          /\ c(in["network"]) \in Nat /\ c(out["network"]) \in Nat
      BY <2>1, QueueFacts, CarriedPlaces DEF SysInv
    <2>6. /\ UnderWay(in, out) = c(in[App]) + c(out[App]) + c(in["network"]) + c(out["network"])
                               + c(in[Uploader]) + c(out[Uploader])
          /\ forwarded = answers + lost + UnderWay(in, out) /\ answers \in Nat /\ lost \in Nat
      BY DEF UnderWay, Balanced
    <2>. HIDE DEF c
    <2>7. forwarded = answers + lost + c(in[App]) + c(out[App]) + c(in["network"]) + c(out["network"])
      BY <2>4, <2>5, <2>6, SMTT(60)
    <2>. QED  BY <2>7 DEF CommandsAccounted, c, App
  <1>. QED  BY <1>1, SysInvInit, SysInvStep, BalancedInit, BalancedStep, PTL DEF SysSpec
=============================================================================
