--------------------------- MODULE IpcServerProofs ---------------------------
(***************************************************************************)
(* Proofs about module IpcServer, for any number of connections and slots:  *)
(* the client table is sound, so that a name or a poll result never leads   *)
(* to the wrong connection; no backlog exceeds its limit; a client's stream *)
(* has no gaps; what is delivered was sent, to this client and in this      *)
(* order; and every request is answered or forwarded exactly once.          *)
(***************************************************************************)
EXTENDS IpcServer, FiniteSetTheorems, SequenceTheorems, TLAPS

\* The provers' time limits, for the leaves that do not name a prover.
USE ZenonT(10), SMTT(60)

\* The requests that clients make.
RealRequest == {r \in Request : /\ r.type \in {"REGISTER", "SEND"} => r.name \in Names
                                /\ r.type = "STATE_SET" => r.val \in Values}

\* The types of what the client table depends on.
TableTypeOK ==
    /\ client \in [Conns -> {"new", "open", "closed"}]
    /\ backlog \in Seq(Conns)
    /\ clients \in [Slots -> Conns \cup {None}]
    /\ name \in [Conns -> Names \cup {None}]
    /\ sent \in [Conns -> Seq(RealRequest)]
    /\ gone \subseteq Conns
    /\ slot_map \in [Slots -> Conns \cup {None}]
    /\ cur \in Slots

\* The positions in a client's stream are in order.
StreamOK ==
    /\ recvd \in [Conns -> Nat] /\ handled \in [Conns -> Nat]
    /\ \A c \in Conns : handled[c] <= recvd[c] /\ recvd[c] <= Len(sent[c])

\* A connection waits in the listen queue once, before it has a slot or a name;
\* one that has a name is in the table or has been closed.
BacklogOK ==
    /\ \A i, j \in DOMAIN backlog : backlog[i] = backlog[j] => i = j
    /\ \A i \in DOMAIN backlog : /\ client[backlog[i]] # "new" /\ ~InUse(backlog[i])
                                 /\ backlog[i] \notin gone
    /\ \A c \in Conns : InUse(c) \/ c \in gone \/ name[c] # None => client[c] # "new"
    /\ \A c \in Conns : name[c] # None => InUse(c) \/ c \in gone

\* Where the loop over the slots stands.
LoopOK ==
    /\ pc \in {"poll", "down"} => cur = 1 /\ \A s \in Slots : slot_map[s] = None
    /\ pc = "accept" => cur = 1
    /\ \A s \in Slots : s < cur => slot_map[s] = None
    /\ pc = "handle" => slot_map[cur] # None /\ clients[cur] = slot_map[cur]

TableInv ==
    TableTypeOK /\ BacklogOK /\ LoopOK /\ SlotMapFresh /\ OneSlotEach /\ UniqueNames

-----------------------------------------------------------------------------

\* Facts about the constants, and that slot 1 exists.
LEMMA Constants ==
    None \notin Conns /\ None \notin Names /\ MaxClients \in Nat \ {0} /\ 1 \in Slots
  BY IpcAssumption DEF Slots

\* A step that leaves the table alone keeps the invariant.
LEMMA TableKept ==
    ASSUME TableInv,
           UNCHANGED <<client, backlog, clients, name, gone, slot_map, cur>>,
           sent' \in [Conns -> Seq(RealRequest)],
           pc' = pc
    PROVE  TableInv'
  <1>1. TableTypeOK' /\ BacklogOK' /\ LoopOK'
    BY DEF TableInv, TableTypeOK, BacklogOK, LoopOK, InUse
  <1>2. SlotMapFresh' /\ OneSlotEach' /\ UniqueNames'
    BY DEF TableInv, SlotMapFresh, OneSlotEach, UniqueNames
  <1>. QED  BY <1>1, <1>2 DEF TableInv

\* The invariant holds at the start.
LEMMA TableInvInit == IpcInit => TableInv
  <1>. SUFFICES ASSUME IpcInit PROVE TableInv
    OBVIOUS
  <1>1. TableTypeOK
    BY Constants DEF IpcInit, TableTypeOK
  <1>2. BacklogOK
    BY Constants DEF IpcInit, BacklogOK, InUse
  <1>3. LoopOK
    BY Constants DEF IpcInit, LoopOK
  <1>4. SlotMapFresh /\ OneSlotEach /\ UniqueNames
    BY DEF IpcInit, SlotMapFresh, OneSlotEach, UniqueNames
  <1>. QED  BY <1>1, <1>2, <1>3, <1>4 DEF TableInv

\* Clients connecting, closing and writing keep the invariant.
LEMMA ClientsOK == TableInv /\ Clients => TableInv'
  <1>. SUFFICES ASSUME TableInv, NEW c \in Conns,
                       \/ Connect(c) \/ Close(c)
                       \/ \E n \in DOMAIN Requests[c] : \E r \in Requests[c][n] : Write(c, r)
                PROVE  TableInv'
    BY DEF Clients
  <1>. TableTypeOK /\ BacklogOK /\ LoopOK
    BY DEF TableInv
  <1>1. CASE Connect(c)
    <2>1. /\ client[c] = "new" /\ client' = [client EXCEPT ![c] = "open"]
          /\ backlog' = Append(backlog, c)
          /\ UNCHANGED <<clients, name, gone, slot_map, cur, sent, pc>>
      BY <1>1 DEF Connect, table, loop
    <2>2. TableTypeOK'
      BY <2>1, SMTT(60) DEF TableTypeOK
    <2>3. ~InUse(c) /\ c \notin gone /\ name[c] = None /\ \A i \in DOMAIN backlog : backlog[i] # c
      BY <2>1 DEF BacklogOK
    <2>4. /\ \A i \in DOMAIN backlog' : (i \in DOMAIN backlog /\ backlog'[i] = backlog[i])
                                        \/ (i = Len(backlog) + 1 /\ backlog'[i] = c)
          /\ \A i \in DOMAIN backlog : backlog[i] \in Conns /\ i # Len(backlog) + 1
      BY <2>1 DEF TableTypeOK
    <2>5. BacklogOK'
      <3>1. \A d \in Conns : InUse(d)' <=> InUse(d)
        BY <2>1 DEF InUse
      <3>2. \A i, j \in DOMAIN backlog' : backlog'[i] = backlog'[j] => i = j
        BY <2>3, <2>4 DEF BacklogOK
      <3>3. \A d \in Conns : client'[d] = IF d = c THEN "open" ELSE client[d]
        BY <2>1 DEF TableTypeOK
      <3>4. \A i \in DOMAIN backlog' : /\ backlog'[i] \in Conns /\ client'[backlog'[i]] # "new"
                                       /\ ~InUse(backlog'[i]) /\ backlog'[i] \notin gone
        BY <2>3, <2>4, <3>3 DEF BacklogOK
      <3>. QED  BY <2>1, <3>1, <3>2, <3>3, <3>4, SMTT(60) DEF BacklogOK
    <2>6. LoopOK'
      BY <2>1 DEF LoopOK
    <2>7. SlotMapFresh' /\ OneSlotEach' /\ UniqueNames'
      BY <2>1 DEF TableInv, SlotMapFresh, OneSlotEach, UniqueNames
    <2>. QED  BY <2>2, <2>5, <2>6, <2>7 DEF TableInv
  <1>2. CASE Close(c)
    <2>1. /\ client[c] = "open" /\ client' = [client EXCEPT ![c] = "closed"]
          /\ UNCHANGED <<backlog, clients, name, gone, slot_map, cur, sent, pc>>
      BY <1>2 DEF Close, table, loop
    <2>2. TableTypeOK'
      BY <2>1 DEF TableTypeOK
    <2>3. BacklogOK'
      <3>1. \A d \in Conns : (InUse(d)' <=> InUse(d)) /\ (client'[d] = "new" <=> client[d] = "new")
        BY <2>1 DEF InUse, TableTypeOK
      <3>2. \A i \in DOMAIN backlog : backlog[i] \in Conns
        BY SMTT(60) DEF TableTypeOK
      <3>. QED  BY <2>1, <3>1, <3>2 DEF BacklogOK
    <2>4. LoopOK'
      BY <2>1 DEF LoopOK
    <2>5. SlotMapFresh' /\ OneSlotEach' /\ UniqueNames'
      BY <2>1 DEF TableInv, SlotMapFresh, OneSlotEach, UniqueNames
    <2>. QED  BY <2>2, <2>3, <2>4, <2>5 DEF TableInv
  <1>3. ASSUME NEW n \in DOMAIN Requests[c], NEW r \in Requests[c][n], Write(c, r)
        PROVE  TableInv'
    <2>1. r \in RealRequest
      BY IpcAssumption, SMTT(60) DEF RealRequest
    <2>2. sent' = [sent EXCEPT ![c] = Append(sent[c], r)]
      BY <1>3 DEF Write
    <2>3. sent' \in [Conns -> Seq(RealRequest)]
      BY <2>1, <2>2, SMTT(60) DEF TableTypeOK
    <2>. QED  BY <1>3, <2>3, TableKept DEF Write, table, loop
  <1>. QED  BY <1>1, <1>2, <1>3

\* collect_pollfds and poll keep the invariant.
LEMMA CollectAndPollOK == TableInv /\ CollectAndPoll => TableInv'
  <1>. SUFFICES ASSUME TableInv, CollectAndPoll PROVE TableInv'
    OBVIOUS
  <1>1. /\ pc = "poll" /\ slot_map' = clients /\ pc' \in {"accept", "service"}
        /\ UNCHANGED <<client, backlog, clients, name, gone, cur, sent>>
    BY DEF CollectAndPoll, clientvars, table
  <1>2. TableTypeOK' /\ BacklogOK'
    BY <1>1 DEF TableInv, TableTypeOK, BacklogOK, InUse
  <1>3. LoopOK'
    BY <1>1, SMTT(60) DEF TableInv, LoopOK, Slots
  <1>4. SlotMapFresh' /\ OneSlotEach' /\ UniqueNames'
    BY <1>1 DEF TableInv, SlotMapFresh, OneSlotEach, UniqueNames
  <1>. QED  BY <1>2, <1>3, <1>4 DEF TableInv

\* accept_new_connections keeps the invariant: a slot that was polled is not free.
LEMMA AcceptOK == TableInv /\ Accept => TableInv'
  <1>. SUFFICES ASSUME TableInv, Accept PROVE TableInv'
    OBVIOUS
  <1>. DEFINE c == Head(backlog)
  <1>. TableTypeOK /\ BacklogOK /\ LoopOK /\ SlotMapFresh /\ OneSlotEach /\ UniqueNames
    BY DEF TableInv
  <1>1. /\ pc = "accept" /\ backlog # <<>> /\ backlog' = Tail(backlog)
        /\ pc' \in {"accept", "service"}
        /\ UNCHANGED <<client, name, slot_map, cur, sent>>
    BY DEF Accept, loop
  <1>2. /\ c = backlog[1] /\ 1 \in DOMAIN backlog /\ c \in Conns
        /\ \A i \in DOMAIN Tail(backlog) : /\ i + 1 \in DOMAIN backlog /\ i + 1 # 1
                                           /\ Tail(backlog)[i] = backlog[i + 1]
        /\ \A i, j \in DOMAIN Tail(backlog) : i + 1 = j + 1 => i = j
        /\ \A i \in DOMAIN backlog : backlog[i] \in Conns
        /\ Tail(backlog) \in Seq(Conns)
    BY <1>1, SMTT(60) DEF TableTypeOK
  <1>3. client[c] # "new" /\ ~InUse(c) /\ c \notin gone /\ name[c] = None
    BY <1>2, SMTT(60) DEF BacklogOK
  <1>. HIDE DEF c
  <1>4. LoopOK'
    BY <1>1 DEF LoopOK, Slots
  <1>5. CASE \E s \in FreeSlots : clients' = [clients EXCEPT ![s] = c] /\ UNCHANGED gone
    <2>1. PICK s \in Slots : /\ clients[s] = None /\ clients' = [clients EXCEPT ![s] = c]
                             /\ UNCHANGED gone
      BY <1>5, ZenonT(60) DEF FreeSlots
    <2>2. \A t \in Slots : clients'[t] = IF t = s THEN c ELSE clients[t]
      BY <2>1 DEF TableTypeOK
    <2>3. TableTypeOK'
      BY <1>1, <1>2, <2>1 DEF TableTypeOK
    <2>4. \A d \in Conns : InUse(d)' <=> InUse(d) \/ d = c
      BY <1>2, <2>1, <2>2, Constants DEF InUse
    <2>5. BacklogOK'
      <3>1. \A i, j \in DOMAIN backlog' : backlog'[i] = backlog'[j] => i = j
        BY <1>1, <1>2, SMTT(60) DEF BacklogOK
      <3>2. \A i \in DOMAIN backlog' : /\ backlog'[i] \in Conns /\ client[backlog'[i]] # "new"
                                       /\ ~\E t \in Slots : clients'[t] = backlog'[i]
                                      /\ backlog'[i] \notin gone
        BY <1>1, <1>2, <2>4, SMTT(60) DEF BacklogOK, InUse
      <3>. QED  BY <1>1, <1>3, <2>1, <2>4, <3>1, <3>2 DEF BacklogOK, InUse
    <2>6. SlotMapFresh'
      BY <1>1, <2>1, <2>2 DEF SlotMapFresh
    <2>7. OneSlotEach'
      BY <1>3, <2>1, <2>2, SMTT(60) DEF OneSlotEach, InUse
    <2>8. UniqueNames'
      BY <1>1, <1>3, <2>2, SMTT(60) DEF UniqueNames
    <2>. QED  BY <1>4, <2>3, <2>5, <2>6, <2>7, <2>8 DEF TableInv
  <1>6. CASE gone' = gone \cup {c} /\ UNCHANGED clients
    <2>1. TableTypeOK'
      BY <1>1, <1>2, <1>6 DEF TableTypeOK
    <2>2. \A d \in Conns : InUse(d)' <=> InUse(d)
      BY <1>6 DEF InUse
    <2>3. BacklogOK'
      <3>1. \A i, j \in DOMAIN backlog' : backlog'[i] = backlog'[j] => i = j
        BY <1>1, <1>2, SMTT(60) DEF BacklogOK
      <3>2. \A i \in DOMAIN backlog' : /\ backlog'[i] \in Conns /\ client[backlog'[i]] # "new"
                                       /\ ~\E t \in Slots : clients'[t] = backlog'[i]
                                      /\ backlog'[i] \notin gone'
        BY <1>1, <1>2, <1>6, <2>2, SMTT(60) DEF BacklogOK, InUse
      <3>. QED  BY <1>1, <1>3, <1>6, <2>2, <3>1, <3>2 DEF BacklogOK, InUse
    <2>4. SlotMapFresh' /\ UniqueNames'
      BY <1>1, <1>6 DEF SlotMapFresh, UniqueNames
    <2>5. OneSlotEach'
      BY <1>3, <1>6 DEF OneSlotEach, InUse
    <2>. QED  BY <1>4, <2>1, <2>3, <2>4, <2>5 DEF TableInv
  <1>. QED  BY <1>5, <1>6 DEF Accept, c

\* Going to the next slot.
LEMMA AdvanceOK ==
    ASSUME TableInv, Advance, pc \in {"service", "handle"}
    PROVE  /\ LoopOK'
           /\ slot_map' \in [Slots -> Conns \cup {None}] /\ cur' \in Slots
           /\ slot_map'[cur] = None
           /\ \A s \in Slots : slot_map'[s] # None => slot_map'[s] = slot_map[s]
  <1>. TableTypeOK /\ LoopOK
    BY DEF TableInv
  <1>1. \A s \in Slots : slot_map'[s] = IF s = cur THEN None ELSE slot_map[s]
    BY DEF Advance, TableTypeOK
  <1>2. slot_map' \in [Slots -> Conns \cup {None}]
    BY DEF Advance, TableTypeOK
  <1>3. cur \in 1 .. MaxClients /\ MaxClients \in Nat
    BY Constants DEF TableTypeOK, Slots
  <1>4. CASE cur = MaxClients
    <2>1. pc' = "poll" /\ cur' = 1
      BY <1>4 DEF Advance
    <2>2. \A s \in Slots : slot_map'[s] = None
      BY <1>1, <1>3, <1>4, SMTT(60) DEF LoopOK, Slots
    <2>3. LoopOK'
      BY <2>1, <2>2 DEF LoopOK
    <2>. QED  BY <1>1, <1>2, <2>1, <2>3, Constants DEF TableTypeOK
  <1>5. CASE cur # MaxClients
    <2>1. pc' = "service" /\ cur' = cur + 1
      BY <1>5 DEF Advance
    <2>2. \A s \in Slots : s < cur' => slot_map'[s] = None
      BY <1>1, <1>3, <2>1, SMTT(60) DEF LoopOK, Slots
    <2>3. LoopOK'
      BY <2>1, <2>2 DEF LoopOK
    <2>4. cur' \in Slots
      BY <1>3, <1>5, <2>1 DEF Slots
    <2>. QED  BY <1>1, <1>2, <2>3, <2>4 DEF TableTypeOK
  <1>. QED  BY <1>4, <1>5

\* A step that goes on to the next slot and leaves the rest of the table alone.
LEMMA AdvanceKept ==
    ASSUME TableInv, Advance, pc \in {"service", "handle"},
           UNCHANGED <<client, backlog, clients, name, gone, sent>>
    PROVE  TableInv'
  <1>1. /\ LoopOK' /\ slot_map' \in [Slots -> Conns \cup {None}] /\ cur' \in Slots
        /\ \A s \in Slots : slot_map'[s] # None => slot_map'[s] = slot_map[s]
    BY AdvanceOK
  <1>2. TableTypeOK' /\ BacklogOK'
    BY <1>1 DEF TableInv, TableTypeOK, BacklogOK, InUse
  <1>3. SlotMapFresh' /\ OneSlotEach' /\ UniqueNames'
    BY <1>1 DEF TableInv, SlotMapFresh, OneSlotEach, UniqueNames
  <1>. QED  BY <1>1, <1>2, <1>3 DEF TableInv

\* Beginning the service of a slot keeps the invariant.
LEMMA ServiceSlotOK == TableInv /\ ServiceSlot => TableInv'
  <1>. SUFFICES ASSUME TableInv, ServiceSlot PROVE TableInv'
    OBVIOUS
  <1>1. /\ slot_map[cur] # None /\ clients[cur] = slot_map[cur] /\ pc' = "handle"
        /\ UNCHANGED <<client, backlog, clients, name, gone, sent, slot_map, cur>>
    BY DEF ServiceSlot, clientvars, table, loop
  <1>2. TableTypeOK' /\ BacklogOK' /\ LoopOK'
    BY <1>1 DEF TableInv, TableTypeOK, BacklogOK, LoopOK, InUse
  <1>3. SlotMapFresh' /\ OneSlotEach' /\ UniqueNames'
    BY <1>1 DEF TableInv, SlotMapFresh, OneSlotEach, UniqueNames
  <1>. QED  BY <1>2, <1>3 DEF TableInv

\* Handling a frame keeps the invariant: a name is given to one connection in
\* the table at a time.
LEMMA HandleFrameOK ==
    ASSUME TableInv, HandleFrame, \A c \in Conns : handled[c] < recvd[c] => handled[c] + 1 \in DOMAIN sent[c]
    PROVE  TableInv'
  <1>. DEFINE c == clients[cur]
              r == sent[c][handled[c] + 1]
  <1>. TableTypeOK /\ BacklogOK /\ LoopOK /\ SlotMapFresh /\ OneSlotEach /\ UniqueNames
    BY DEF TableInv
  <1>1. /\ pc = "handle" /\ handled[c] < recvd[c]
        /\ UNCHANGED <<client, backlog, sent, clients, gone, slot_map, cur, pc>>
    BY DEF HandleFrame, clientvars, loop
  <1>2. c \in Conns /\ cur \in Slots /\ InUse(c)
    BY <1>1 DEF TableTypeOK, LoopOK, InUse
  <1>3. r.name \in Names \cup {None}
    <2>1. r \in RealRequest
      BY <1>1, <1>2, SMTT(60) DEF TableTypeOK
    <2>. QED  BY <2>1 DEF RealRequest, Request
  <1>. HIDE DEF c, r
  <1>4. \/ UNCHANGED name
        \/ /\ name[c] = None /\ CalledInTable(r.name) = {} /\ name' = [name EXCEPT ![c] = r.name]
    BY ZenonT(60) DEF HandleFrame, handle_message, Register, c, r
  <1>5. CASE UNCHANGED name
    BY <1>1, <1>5, TableKept DEF TableTypeOK
  <1>6. CASE name[c] = None /\ CalledInTable(r.name) = {} /\ name' = [name EXCEPT ![c] = r.name]
    <2>1. \A d \in Conns : name'[d] = IF d = c THEN r.name ELSE name[d]
      BY <1>6 DEF TableTypeOK
    <2>2. TableTypeOK'
      BY <1>1, <1>2, <1>3, <1>6 DEF TableTypeOK
    <2>3. BacklogOK'
      <3>1. \A d : InUse(d)' <=> InUse(d)
        BY <1>1 DEF InUse
      <3>. QED  BY <1>1, <1>2, <2>1, <3>1 DEF BacklogOK
    <2>4. LoopOK' /\ SlotMapFresh' /\ OneSlotEach'
      BY <1>1 DEF LoopOK, SlotMapFresh, OneSlotEach
    <2>5. UniqueNames'
      <3>. SUFFICES ASSUME NEW s \in Slots, NEW t \in Slots, clients[s] # None, clients[t] # None,
                           name'[clients[s]] # None, name'[clients[s]] = name'[clients[t]]
                    PROVE  s = t
        BY <1>1 DEF UniqueNames
      <3>1. /\ clients[s] \in Conns /\ clients[t] \in Conns
            /\ InUse(clients[s]) /\ InUse(clients[t])
        BY DEF TableTypeOK, InUse
      <3>2. \A d \in Conns : InUse(d) => name[d] # r.name
        BY <1>6 DEF CalledInTable
      <3>3. CASE clients[s] = c /\ clients[t] = c
        BY <3>3 DEF OneSlotEach
      <3>4. CASE clients[s] # c /\ clients[t] # c
        BY <2>1, <3>1, <3>4 DEF UniqueNames
      <3>5. CASE (clients[s] = c /\ clients[t] # c) \/ (clients[s] # c /\ clients[t] = c)
        BY <2>1, <3>1, <3>2, <3>5
      <3>. QED  BY <3>3, <3>4, <3>5
    <2>. QED  BY <2>2, <2>3, <2>4, <2>5 DEF TableInv
  <1>. QED  BY <1>4, <1>5, <1>6

\* close_client keeps the invariant: the slot and its poll result go together.
LEMMA CloseSlotOK == TableInv /\ CloseSlot => TableInv'
  <1>. SUFFICES ASSUME TableInv, CloseSlot PROVE TableInv'
    OBVIOUS
  <1>. DEFINE c == clients[cur]
  <1>. TableTypeOK /\ BacklogOK /\ LoopOK /\ SlotMapFresh /\ OneSlotEach /\ UniqueNames
    BY DEF TableInv
  <1>1. /\ pc = "handle" /\ Advance
        /\ clients' = [clients EXCEPT ![cur] = None] /\ gone' = gone \cup {c}
        /\ UNCHANGED <<client, backlog, sent, name>>
    BY DEF CloseSlot, FramesDone, clientvars
  <1>2. c \in Conns /\ cur \in Slots /\ InUse(c) /\ c # None
    BY <1>1, Constants DEF TableTypeOK, LoopOK, InUse
  <1>. HIDE DEF c
  <1>3. \A s \in Slots : clients'[s] = IF s = cur THEN None ELSE clients[s]
    BY <1>1 DEF TableTypeOK
  <1>4. /\ LoopOK' /\ slot_map' \in [Slots -> Conns \cup {None}] /\ cur' \in Slots
        /\ slot_map'[cur] = None
        /\ \A s \in Slots : slot_map'[s] # None => slot_map'[s] = slot_map[s]
    BY <1>1, AdvanceOK
  <1>5. TableTypeOK'
    BY <1>1, <1>2, <1>4, ZenonT(60) DEF TableTypeOK
  <1>6. \A d \in Conns : InUse(d)' <=> InUse(d) /\ d # c
    BY <1>2, <1>3, Constants DEF InUse, OneSlotEach, c
  <1>7. BacklogOK'
    <2>1. \A i \in DOMAIN backlog : backlog[i] \in Conns /\ backlog[i] # c
      BY <1>2, SMTT(60) DEF TableTypeOK, BacklogOK
    <2>2. \A i \in DOMAIN backlog : ~\E s \in Slots : clients'[s] = backlog[i]
      BY <1>6, <2>1 DEF BacklogOK, InUse
    <2>. QED  BY <1>1, <1>2, <1>6, <2>1, <2>2, SMTT(60) DEF BacklogOK, InUse
  <1>8. SlotMapFresh'
    BY <1>3, <1>4 DEF SlotMapFresh
  <1>9. OneSlotEach'
    BY <1>1, <1>2, <1>3, SMTT(60) DEF OneSlotEach, c
  <1>10. UniqueNames'
    BY <1>1, <1>3, SMTT(60) DEF UniqueNames
  <1>. QED  BY <1>4, <1>5, <1>7, <1>8, <1>9, <1>10 DEF TableInv

\* ipc_server_destroy keeps the invariant.
LEMMA DestroyOK == TableInv /\ Destroy => TableInv'
  <1>. SUFFICES ASSUME TableInv, Destroy PROVE TableInv'
    OBVIOUS
  <1>. TableTypeOK /\ BacklogOK /\ LoopOK
    BY DEF TableInv
  <1>1. /\ pc = "poll" /\ pc' = "down" /\ clients' = [s \in Slots |-> None] /\ backlog' = <<>>
        /\ gone' = gone \cup {c \in Conns : InUse(c)} \cup {backlog[i] : i \in DOMAIN backlog}
        /\ UNCHANGED <<client, sent, name, slot_map, cur>>
    BY DEF Destroy, loop
  <1>2. \A i \in DOMAIN backlog : backlog[i] \in Conns
    BY SMTT(60) DEF TableTypeOK
  <1>3. TableTypeOK'
    BY <1>1, <1>2, SMTT(60) DEF TableTypeOK
  <1>4. BacklogOK'
    <2>1. \A c \in Conns : ~InUse(c)'
      BY <1>1, Constants DEF InUse
    <2>2. \A c \in gone' : client[c] # "new"
      BY <1>1, <1>2 DEF BacklogOK, TableTypeOK
    <2>3. \A c \in Conns : name[c] # None => c \in gone' /\ client[c] # "new"
      BY <1>1 DEF BacklogOK
    <2>. QED  BY <1>1, <2>1, <2>2, <2>3, SMTT(60) DEF BacklogOK
  <1>5. LoopOK'
    BY <1>1 DEF LoopOK
  <1>6. SlotMapFresh' /\ OneSlotEach' /\ UniqueNames'
    BY <1>1 DEF LoopOK, SlotMapFresh, OneSlotEach, UniqueNames
  <1>. QED  BY <1>3, <1>4, <1>5, <1>6 DEF TableInv

\* The frame loop of ipc_server_service handles a frame that was sent.
LEMMA FrameThere ==
    ASSUME TableTypeOK, StreamOK
    PROVE  \A c \in Conns : handled[c] < recvd[c] => handled[c] + 1 \in DOMAIN sent[c]
  BY SMTT(60) DEF TableTypeOK, StreamOK

\* Every step keeps the invariant of the table.
LEMMA TableInvStep == TableInv /\ StreamOK /\ [IpcNext]_ipcvars => TableInv'
  <1>. SUFFICES ASSUME TableInv, StreamOK, [IpcNext]_ipcvars PROVE TableInv'
    OBVIOUS
  <1>1. CASE Clients
    BY <1>1, ClientsOK
  <1>2. CASE CollectAndPoll \/ Accept
    BY <1>2, CollectAndPollOK, AcceptOK
  <1>3. CASE SkipSlot
    BY <1>3, AdvanceKept DEF SkipSlot, clientvars, table
  <1>4. CASE ServiceSlot
    BY <1>4, ServiceSlotOK
  <1>5. CASE HandleFrame
    BY <1>5, HandleFrameOK, FrameThere DEF TableInv
  <1>6. CASE FlushSlot
    BY <1>6, AdvanceKept DEF FlushSlot, FramesDone, clientvars, table
  <1>7. CASE CloseSlot
    BY <1>7, CloseSlotOK
  <1>8. CASE Destroy
    BY <1>8, DestroyOK
  <1>9. CASE UNCHANGED ipcvars
    BY <1>9, TableKept DEF ipcvars, TableInv, TableTypeOK
  <1>. QED  BY <1>1, <1>2, <1>3, <1>4, <1>5, <1>6, <1>7, <1>8, <1>9 DEF IpcNext, Server

\* Every step keeps the positions in the streams in order.
LEMMA StreamStep == TableInv /\ StreamOK /\ [IpcNext]_ipcvars => StreamOK'
  <1>. SUFFICES ASSUME TableInv, StreamOK, [IpcNext]_ipcvars PROVE StreamOK'
    OBVIOUS
  <1>. DEFINE c == clients[cur]
  <1>. TableTypeOK /\ LoopOK
    BY DEF TableInv
  <1>1. CASE UNCHANGED <<stream, sent>>
    BY <1>1 DEF StreamOK, stream
  <1>2. ASSUME NEW d \in Conns, NEW r, Write(d, r)
        PROVE  StreamOK'
    <2>1. sent' = [sent EXCEPT ![d] = Append(sent[d], r)] /\ UNCHANGED <<recvd, handled>>
      BY <1>2 DEF Write, stream
    <2>2. Len(sent'[d]) = Len(sent[d]) + 1 /\ \A e \in Conns : e # d => sent'[e] = sent[e]
      BY <2>1 DEF TableTypeOK
    <2>3. \A e \in Conns : Len(sent[e]) \in Nat
      BY DEF TableTypeOK
    <2>. QED  BY <2>1, <2>2, <2>3, SMTT(60) DEF StreamOK
  <1>3. CASE ServiceSlot
    <2>1. c \in Conns /\ Len(sent[c]) \in Nat
      BY <1>3, Constants, SMTT(60) DEF ServiceSlot, TableTypeOK
    <2>2. /\ UNCHANGED <<sent, handled>>
          /\ \/ recvd' = recvd
             \/ \E n \in recvd[c] .. Len(sent[c]) : recvd' = [recvd EXCEPT ![c] = n]
      BY <1>3, <2>1, SMTT(60) DEF ServiceSlot, clientvars, StreamOK
    <2>. QED  BY <2>1, <2>2, SMTT(60) DEF StreamOK
  <1>4. CASE HandleFrame
    <2>1. c \in Conns
      BY <1>4 DEF HandleFrame, TableTypeOK, LoopOK
    <2>2. /\ UNCHANGED <<sent, recvd>> /\ handled[c] < recvd[c]
          /\ handled' = handled \/ handled' = [handled EXCEPT ![c] = handled[c] + 1]
      BY <1>4 DEF HandleFrame, clientvars
    <2>3. CASE handled' = handled
      BY <2>2, <2>3 DEF StreamOK
    <2>4. CASE handled' = [handled EXCEPT ![c] = handled[c] + 1]
      <3>1. \A e \in Conns : handled'[e] = IF e = c THEN handled[c] + 1 ELSE handled[e]
        BY <2>4 DEF StreamOK
      <3>2. handled' \in [Conns -> Nat]
        BY <2>1, <2>4, SMTT(60) DEF StreamOK
      <3>3. \A e \in Conns : handled'[e] <= recvd[e]
        BY <2>1, <2>2, <3>1, SMTT(60) DEF StreamOK
      <3>. QED  BY <2>2, <3>2, <3>3 DEF StreamOK
    <2>. QED  BY <2>2, <2>3, <2>4
  <1>5. CASE Clients /\ ~UNCHANGED <<stream, sent>>
    BY <1>2, <1>5 DEF Clients, Connect, Close
  <1>6. CASE CollectAndPoll \/ Accept \/ SkipSlot \/ FlushSlot \/ CloseSlot \/ Destroy
             \/ UNCHANGED ipcvars
    BY <1>1, <1>6 DEF CollectAndPoll, Accept, SkipSlot, FlushSlot, CloseSlot, Destroy, ipcvars,
                      clientvars, stream
  <1>. QED  BY <1>1, <1>3, <1>4, <1>5, <1>6 DEF IpcNext, Server

\* The invariants hold of every behaviour.
LEMMA TableAlways == IpcSpec => [](TableInv /\ StreamOK)
  <1>1. IpcInit => StreamOK
    BY SMTT(60) DEF IpcInit, StreamOK
  <1>. QED  BY <1>1, TableInvInit, TableInvStep, StreamStep, PTL DEF IpcSpec

\* For any number of connections, slots and names: a name leads to one
\* connection, a connection is in one slot and in none after it was closed, and
\* the results of poll are applied to the connections they are about.
THEOREM TableSound == IpcSpec => [](UniqueNames /\ OneSlotEach /\ SlotMapFresh)
  <1>1. TableInv => UniqueNames /\ OneSlotEach /\ SlotMapFresh
    BY DEF TableInv
  <1>. QED  BY <1>1, TableAlways, PTL

-----------------------------------------------------------------------------
(* The streams to the clients, when memory does not run out and the backlog *)
(* may hold at least one frame                                             *)

Prefix(w, r) == Len(w) <= Len(r) /\ w = SubSeq(r, 1, Len(w))

OutTypeOK ==
    /\ wire \in [Conns -> Seq(Reply)] /\ tx \in [Conns -> Seq(Reply)]
    /\ routed \in [Conns -> Seq(Reply)]
    /\ sat \in Values \cup {None}

\* What is written to connection c and what is still queued for it.  The third
\* conjunct says that a frame is dropped only behind a backlog, so that nothing
\* can slip past it before the connection is closed.
OutOK(c) ==
    /\ Prefix(wire[c], routed[c])
    /\ InUse(c) /\ c \notin should_close => routed[c] = wire[c] \o tx[c]
    /\ InUse(c) /\ client[c] # "closed" /\ name[c] # None /\ tx[c] = <<>> =>
          routed[c] = wire[c]
    /\ name[c] = None => tx[c] = <<>>
    /\ ~InUse(c) /\ c \notin gone => routed[c] = <<>> /\ wire[c] = <<>> /\ tx[c] = <<>>

OutInv == OutTypeOK /\ \A c \in Conns : OutOK(c)

\* Concatenation of sequences of replies is associative.
LEMMA ReplyConcat == \A s, t, u \in Seq(Reply) : (s \o t) \o u = s \o (t \o u)
  <1>. SUFFICES ASSUME NEW s \in Seq(Reply), NEW t \in Seq(Reply), NEW u \in Seq(Reply)
                PROVE  (s \o t) \o u = s \o (t \o u)
    OBVIOUS
  <1>. QED  BY ConcatAssociative, SMTT(60)

\* Facts about sequences of replies.
LEMMA Streams ==
    ASSUME NEW w \in Seq(Reply), NEW t \in Seq(Reply), NEW r \in Seq(Reply), NEW f \in Reply
    PROVE  /\ Prefix(w, w \o t) /\ Prefix(w, w)
           /\ Prefix(w, r) => Prefix(w, Append(r, f))
           /\ Append(w \o t, f) = w \o Append(t, f)
           /\ w \o <<>> = w
  <1>1. Prefix(w, w \o t)
    BY DEF Prefix
  <1>2. Prefix(w, w)
    BY DEF Prefix
  <1>3. Prefix(w, r) => Prefix(w, Append(r, f))
    <2>. SUFFICES ASSUME Prefix(w, r) PROVE Prefix(w, Append(r, f))
      OBVIOUS
    <2>1. Len(w) <= Len(r) /\ w = SubSeq(r, 1, Len(w))
      BY DEF Prefix
    <2>2. SubSeq(Append(r, f), 1, Len(w)) = SubSeq(r, 1, Len(w))
      BY <2>1
    <2>. QED  BY <2>1, <2>2 DEF Prefix
  <1>4. Append(w \o t, f) = w \o Append(t, f)
    <2>1. w \o t \in Seq(Reply) /\ <<f>> \in Seq(Reply)
      OBVIOUS
    <2>2. Append(w \o t, f) = (w \o t) \o <<f>> /\ Append(t, f) = t \o <<f>>
      BY <2>1, AppendIsConcat, ZenonT(60)
    <2>3. (w \o t) \o <<f>> = w \o (t \o <<f>>)
      BY <2>1, ReplyConcat
    <2>. QED  BY <2>2, <2>3, ZenonT(60)
  <1>5. w \o <<>> = w
    OBVIOUS
  <1>. QED  BY <1>1, <1>2, <1>3, <1>4, <1>5

\* What flush_tx moves from the backlog to the socket keeps its place.
LEMMA Moved ==
    ASSUME NEW w \in Seq(Reply), NEW t \in Seq(Reply), NEW m \in 0 .. Len(t)
    PROVE  /\ w \o SubSeq(t, 1, m) \in Seq(Reply) /\ SubSeq(t, m + 1, Len(t)) \in Seq(Reply)
           /\ (w \o SubSeq(t, 1, m)) \o SubSeq(t, m + 1, Len(t)) = w \o t
  <1>. DEFINE a == SubSeq(t, 1, m)
              b == SubSeq(t, m + 1, Len(t))
  <1>1. a \in Seq(Reply) /\ b \in Seq(Reply) /\ w \o a \in Seq(Reply)
    OBVIOUS
  <1>2. a \o b = SubSeq(t, 1, Len(t))
    <2>1. 1 \in 1 .. Len(t) + 1 /\ m \in 1 - 1 .. Len(t) /\ Len(t) \in m .. Len(t)
      OBVIOUS
    <2>. QED  BY <2>1, ConcatAdjacentSubSeq, ZenonT(60)
  <1>3. SubSeq(t, 1, Len(t)) = t
    BY SubSeqFull
  <1>4. (w \o a) \o b = w \o (a \o b)
    BY <1>1, ReplyConcat, ZenonT(60)
  <1>. QED  BY <1>1, <1>2, <1>3, <1>4

\* A single frame fits the backlog.
LEMMA OneFits ==
    ASSUME TxLimit >= 2, NEW f \in Reply
    PROVE  ~(Size(Append(<<>>, f)) > TxLimit)
  <1>. DEFINE q == Append(<<>>, f)
              D == {i \in DOMAIN q : q[i].type = "DELIVER"}
  <1>1. Len(q) = 1 /\ D \subseteq {1}
    OBVIOUS
  <1>2. D = {} \/ D = {1}
    BY <1>1
  <1>3. Cardinality(D) \in {0, 1}
    BY <1>2, FS_EmptySet, FS_Singleton, ZenonT(60)
  <1>. QED  BY <1>1, <1>3, IpcAssumption, SMTT(60) DEF Size

\* A connection of which nothing changes keeps its invariant.
LEMMA OutSame ==
    ASSUME NEW e \in Conns, OutOK(e),
           wire'[e] = wire[e], tx'[e] = tx[e], routed'[e] = routed[e], name'[e] = name[e],
           client'[e] = client[e] \/ client'[e] = "closed",
           InUse(e)' <=> InUse(e), e \in gone => e \in gone', e \in should_close => e \in should_close'
    PROVE  OutOK(e)'
  BY ZenonT(60) DEF OutOK

\* queue_send to a registered connection, or to one that is being registered.
LEMMA QueueOK ==
    ASSUME OutInv, ~AllocMayFail, TxLimit >= 2,
           NEW d \in Conns, NEW f \in Reply, queue_send(d, f), InUse(d),
           name'[d] # None, d \notin should_close \/ name[d] # None,
           \A e \in Conns \ {d} : name'[e] = name[e],
           UNCHANGED <<client, clients, gone>>, sat' \in Values \cup {None}
    PROVE  OutInv'
  <1>. OutTypeOK /\ OutOK(d) /\ wire[d] \in Seq(Reply) /\ tx[d] \in Seq(Reply) /\ routed[d] \in Seq(Reply)
    BY DEF OutInv, OutTypeOK
  <1>0. routed' = [routed EXCEPT ![d] = Append(routed[d], f)]
    BY ZenonT(60) DEF queue_send
  <1>a. routed \in [Conns -> Seq(Reply)] /\ Append(routed[d], f) \in Seq(Reply)
    BY DEF OutTypeOK
  <1>1. /\ routed' = [routed EXCEPT ![d] = Append(routed[d], f)]
        /\ routed' \in [Conns -> Seq(Reply)] /\ routed'[d] = Append(routed[d], f)
        /\ \A e \in Conns \ {d} : routed'[e] = routed[e]
    BY <1>0, <1>a
  <1>2. \A e : InUse(e)' <=> InUse(e)
    BY DEF InUse
  <1>3. SUFFICES /\ wire' \in [Conns -> Seq(Reply)] /\ tx' \in [Conns -> Seq(Reply)]
                 /\ \A e \in Conns \ {d} : /\ wire'[e] = wire[e] /\ tx'[e] = tx[e]
                                           /\ e \in should_close => e \in should_close'
                 /\ Prefix(wire'[d], routed'[d])
                 /\ d \notin should_close' => routed'[d] = wire'[d] \o tx'[d]
                 /\ client[d] # "closed" /\ tx'[d] = <<>> => routed'[d] = wire'[d]
    <2>1. OutTypeOK'
      BY <1>1, <1>3 DEF OutTypeOK
    <2>2. OutOK(d)'
      BY <1>2, <1>3 DEF OutOK, Prefix
    <2>3. \A e \in Conns \ {d} : OutOK(e)'
      BY <1>1, <1>2, <1>3, OutSame DEF OutInv
    <2>. QED  BY <2>1, <2>2, <2>3 DEF OutInv
  <1>4. Prefix(wire[d], routed[d]) /\ Prefix(wire[d], Append(routed[d], f))
    BY Streams DEF OutOK
  <1>5. CASE /\ tx[d] = <<>> /\ client[d] # "closed"
             /\ wire' = [wire EXCEPT ![d] = Append(@, f)] /\ UNCHANGED <<tx, should_close>>
    <2>1. routed[d] = wire[d]
      <3>1. wire[d] \o <<>> = wire[d]
        BY Streams, ZenonT(60)
      <3>. QED  BY <1>5, <3>1 DEF OutOK
    <2>2. wire' = [wire EXCEPT ![d] = Append(wire[d], f)] /\ Append(wire[d], f) \in Seq(Reply)
      BY <1>5
    <2>3. wire' \in [Conns -> Seq(Reply)] /\ wire'[d] = Append(wire[d], f)
      BY <2>2 DEF OutTypeOK
    <2>4. wire'[d] = routed'[d] /\ wire'[d] \in Seq(Reply)
      BY <1>1, <2>1, <2>2, <2>3
    <2>5. Prefix(wire'[d], routed'[d]) /\ wire'[d] \o <<>> = wire'[d]
      BY <2>4, Streams
    <2>6. \A e \in Conns \ {d} : wire'[e] = wire[e]
      BY <2>2 DEF OutTypeOK
    <2>. QED  BY <1>5, <2>3, <2>4, <2>5, <2>6 DEF OutTypeOK
  <1>6. CASE /\ client[d] = "closed"
             /\ should_close' = should_close \cup {d} /\ UNCHANGED <<wire, tx>>
    BY <1>1, <1>4, <1>6 DEF OutTypeOK
  <1>7. CASE tx' = [tx EXCEPT ![d] = Append(@, f)] /\ UNCHANGED <<wire, should_close>>
    <2>0. Append(tx[d], f) # <<>>
      BY AppendProperties
    <2>1. tx' = [tx EXCEPT ![d] = Append(tx[d], f)] /\ Append(tx[d], f) \in Seq(Reply)
      BY <1>7
    <2>2. tx' \in [Conns -> Seq(Reply)] /\ tx'[d] = Append(tx[d], f)
      BY <2>1 DEF OutTypeOK
    <2>3. \A e \in Conns \ {d} : tx'[e] = tx[e]
      BY <2>1 DEF OutTypeOK
    <2>4. Append(wire[d] \o tx[d], f) = wire[d] \o Append(tx[d], f)
      BY Streams, ZenonT(60)
    <2>5. d \notin should_close => routed'[d] = wire[d] \o Append(tx[d], f)
      BY <1>1, <2>4, ZenonT(60) DEF OutOK
    <2>. QED  BY <1>1, <1>4, <1>7, <2>0, <2>2, <2>3, <2>5, ZenonT(60) DEF OutTypeOK
  <1>8. CASE /\ Size(Append(tx[d], f)) > TxLimit
             /\ should_close' = should_close \cup {d} /\ UNCHANGED <<wire, tx>>
    <2>1. tx[d] # <<>>
      <3>. SUFFICES ASSUME tx[d] = <<>> PROVE FALSE
        OBVIOUS
      <3>1. Size(Append(<<>>, f)) > TxLimit
        BY <1>8, ZenonT(60)
      <3>. QED  BY <3>1, OneFits
    <2>. QED  BY <1>1, <1>4, <1>8, <2>1 DEF OutTypeOK
  <1>. QED  BY <1>5, <1>6, <1>7, <1>8 DEF queue_send, AppendTx

\* Refusing a connection that has not registered, for which nothing is queued.
LEMMA RefuseOK ==
    ASSUME OutInv, NEW c \in Conns, NEW code \in ErrorCode, Refuse(c, code),
           InUse(c), c \notin should_close, name[c] = None,
           UNCHANGED <<client, clients, gone, name, sat>>
    PROVE  OutInv'
  <1>. DEFINE f == Frame(code, None)
  <1>. /\ OutTypeOK /\ OutOK(c)
       /\ wire[c] \in Seq(Reply) /\ tx[c] \in Seq(Reply) /\ routed[c] \in Seq(Reply)
    BY DEF OutInv, OutTypeOK
  <1>1. f \in Reply
    BY DEF Frame, Reply
  <1>. HIDE DEF f
  <1>2. tx[c] = <<>> /\ routed[c] = wire[c]
    <2>1. wire[c] \o <<>> = wire[c]
      OBVIOUS
    <2>. QED  BY <2>1, ZenonT(60) DEF OutOK
  <1>3. /\ routed' = [routed EXCEPT ![c] = Append(routed[c], f)]
        /\ should_close' = should_close \cup {c} /\ UNCHANGED tx
        /\ wire' = wire \/ wire' = [wire EXCEPT ![c] = Append(wire[c], f)]
    BY DEF Refuse, f
  <1>4. Append(wire[c], f) \in Seq(Reply) /\ Append(routed[c], f) \in Seq(Reply)
    BY <1>1
  <1>5. OutTypeOK'
    BY <1>3, <1>4, ZenonT(60) DEF OutTypeOK
  <1>6. Prefix(wire'[c], routed'[c])
    <2>1. routed'[c] = Append(wire[c], f) /\ (wire'[c] = wire[c] \/ wire'[c] = Append(wire[c], f))
      BY <1>2, <1>3 DEF OutTypeOK
    <2>2. Prefix(wire[c], Append(wire[c], f)) /\ Prefix(Append(wire[c], f), Append(wire[c], f))
      BY <1>1, <1>4, Streams, ZenonT(60)
    <2>. QED  BY <2>1, <2>2, ZenonT(60)
  <1>7. \A e : InUse(e)' <=> InUse(e)
    BY DEF InUse
  <1>8. OutOK(c)'
    BY <1>2, <1>3, <1>6, <1>7 DEF OutOK, Prefix
  <1>9. \A e \in Conns \ {c} : OutOK(e)'
    <2>. SUFFICES ASSUME NEW e \in Conns \ {c} PROVE OutOK(e)'
      OBVIOUS
    <2>1. wire'[e] = wire[e] /\ routed'[e] = routed[e] /\ OutOK(e)
      BY <1>3 DEF OutTypeOK, OutInv
    <2>. QED  BY <1>3, <1>7, <2>1, OutSame
  <1>. QED  BY <1>5, <1>8, <1>9 DEF OutInv

\* Handling a frame keeps the invariant.
LEMMA HandleFrameOut ==
    ASSUME TableInv, StreamOK, OutInv, ~AllocMayFail, TxLimit >= 2, HandleFrame
    PROVE  OutInv'
  <1>. DEFINE c == clients[cur]
              r == sent[c][handled[c] + 1]
  <1>. OutTypeOK /\ TableTypeOK
    BY DEF TableInv, OutInv
  <1>1. /\ pc = "handle" /\ c \notin should_close /\ handled[c] < recvd[c]
        /\ UNCHANGED <<client, clients, gone>>
    BY DEF HandleFrame, clientvars
  <1>2. c \in Conns /\ InUse(c)
    BY <1>1 DEF TableInv, TableTypeOK, LoopOK, InUse
  <1>3. r \in RealRequest
    BY <1>1, <1>2, FrameThere, SMTT(60) DEF TableTypeOK
  <1>4. handled[c] + 1 \in Nat /\ name[c] \in Names \cup {None} /\ r.val \in Values \cup {None}
    BY <1>2, <1>3, SMTT(60) DEF StreamOK, TableTypeOK, RealRequest, Request
  <1>5. /\ \A t \in {"REGISTER_OK", "STATE_VALUE", "PONG"} \cup ErrorCode, v \in Values \cup {None} :
              Frame(t, v) \in Reply
        /\ [type |-> "DELIVER", val |-> None, src |-> name[c],
            from |-> c, seq |-> handled[c] + 1] \in Reply
    BY <1>2, <1>4 DEF Frame, Reply
  <1>6. sat \in Values \cup {None}
    BY DEF OutTypeOK
  <1>. HIDE DEF c, r
  <1>7. CASE r.type = "OVERSIZED"
    <2>1. should_close' = should_close \cup {c} /\ UNCHANGED <<name, sat, wire, tx, routed>>
      BY <1>7, ZenonT(60) DEF HandleFrame, handle_message, Register, Refuse, StateGet, StateSet, SendTo,
                         Ping, Unexpected, output, c, r
    <2>2. OutTypeOK'
      BY <2>1 DEF OutTypeOK
    <2>3. \A e \in Conns : OutOK(e)'
      BY <1>1, <2>1, ZenonT(60) DEF OutInv, OutOK, InUse, Prefix
    <2>. QED  BY <2>2, <2>3 DEF OutInv
  <1>8. CASE Register(c, r)
    <2>1. name[c] = None /\ UNCHANGED sat
      BY <1>8 DEF Register
    <2>2. CASE r.type = "REGISTER" /\ name' = [name EXCEPT ![c] = r.name]
               /\ queue_send(c, Frame("REGISTER_OK", None))
      <3>1. r.name \in Names /\ r.name # None
        BY <1>3, <2>2, Constants DEF RealRequest
      <3>2. name'[c] # None /\ \A e \in Conns \ {c} : name'[e] = name[e]
        BY <1>2, <2>2, <3>1 DEF TableTypeOK
      <3>. QED  BY <1>1, <1>2, <1>5, <1>6, <2>1, <2>2, <3>2, QueueOK
    <2>3. CASE (\E code \in ErrorCode : Refuse(c, code)) /\ UNCHANGED name
      BY <1>1, <1>2, <2>1, <2>3, RefuseOK
    <2>. QED  BY <1>8, <2>2, <2>3 DEF Register, ErrorCode
  <1>9. CASE /\ name[c] # None /\ UNCHANGED name
             /\ StateGet(c, r) \/ StateSet(c, r) \/ SendTo(c, r) \/ Ping(c, r) \/ Unexpected(c, r)
    <2>0. sat' \in Values \cup {None}
      BY <1>4, <1>6, <1>9 DEF StateGet, StateSet, SendTo, Ping, Unexpected
    <2>1. PICK d \in Conns, f \in Reply : queue_send(d, f) /\ InUse(d) /\ name[d] # None
      <3>1. CASE \E t \in {"STATE_VALUE", "PONG", "UNKNOWN_DEST", "BAD_MESSAGE"},
                    v \in Values \cup {None} : queue_send(c, Frame(t, v))
        BY <1>2, <1>5, <1>9, <3>1 DEF ErrorCode
      <3>2. CASE /\ r.type = "SEND"
                 /\ \E d \in CalledInTable(r.name) :
                       queue_send(d, [type |-> "DELIVER", val |-> None, src |-> name[c],
                                      from |-> c, seq |-> handled[c] + 1])
        <4>1. r.name # None
          BY <1>3, <3>2, Constants DEF RealRequest
        <4>. QED  BY <1>5, <3>2, <4>1 DEF CalledInTable
      <3>. QED  BY <1>4, <1>6, <1>9, <3>1, <3>2
                DEF StateGet, StateSet, SendTo, Ping, Unexpected
    <2>. QED  BY <1>1, <1>9, <2>0, <2>1, QueueOK
  <1>. QED  BY <1>7, <1>8, <1>9 DEF HandleFrame, handle_message, c, r

\* A step that writes nothing keeps the invariant, provided a connection that
\* enters the table is fresh.
LEMMA OutKept ==
    ASSUME OutInv, UNCHANGED <<wire, tx, routed, sat, name>>,
           \A e \in Conns : /\ InUse(e)' => InUse(e) \/ e \notin gone
                            /\ e \in gone => e \in gone'
                            /\ e \in should_close => e \in should_close'
                            /\ InUse(e) => InUse(e)' \/ e \in gone'
                            /\ InUse(e) => client'[e] \in {client[e], "closed"}
    PROVE  OutInv'
  <1>1. OutTypeOK'
    BY DEF OutInv, OutTypeOK
  <1>2. ASSUME NEW e \in Conns PROVE OutOK(e)'
    <2>1. OutOK(e) /\ (wire[e] = <<>> => wire[e] \o <<>> = wire[e])
      BY <1>2, SMTT(60) DEF OutInv, OutTypeOK
    <2>. QED  BY <2>1, ZenonT(60) DEF OutOK, Prefix
  <1>. QED  BY <1>1, <1>2 DEF OutInv

\* flush_tx keeps the invariant.
LEMMA FlushOut == TableInv /\ OutInv /\ FlushSlot => OutInv'
  <1>. SUFFICES ASSUME TableInv, OutInv, FlushSlot PROVE OutInv'
    OBVIOUS
  <1>0. PICK c \in Conns : c = clients[cur] /\ InUse(c)
    BY DEF FlushSlot, FramesDone, TableInv, TableTypeOK, LoopOK, InUse
  <1>1. /\ c \notin should_close
        /\ UNCHANGED <<client, routed, clients, gone, name, should_close, sat>>
        /\ \E m \in 0 .. Len(tx[c]) :
              /\ wire' = [wire EXCEPT ![c] = wire[c] \o SubSeq(tx[c], 1, m)]
              /\ tx' = [tx EXCEPT ![c] = SubSeq(tx[c], m + 1, Len(tx[c]))]
    BY <1>0, ZenonT(60) DEF FlushSlot, clientvars, table
  <1>3. /\ OutTypeOK /\ OutOK(c) /\ routed[c] = wire[c] \o tx[c]
        /\ wire[c] \in Seq(Reply) /\ tx[c] \in Seq(Reply) /\ routed[c] \in Seq(Reply)
    BY <1>0, <1>1, ZenonT(60) DEF OutInv, OutOK, OutTypeOK
  <1>4. PICK m \in 0 .. Len(tx[c]) :
              /\ wire' = [wire EXCEPT ![c] = wire[c] \o SubSeq(tx[c], 1, m)]
              /\ tx' = [tx EXCEPT ![c] = SubSeq(tx[c], m + 1, Len(tx[c]))]
    BY <1>1, ZenonT(60)
  <1>. DEFINE w == wire[c] \o SubSeq(tx[c], 1, m)
              t == SubSeq(tx[c], m + 1, Len(tx[c]))
  <1>5. w \in Seq(Reply) /\ t \in Seq(Reply) /\ w \o t = routed[c]
    BY <1>3, Moved, ZenonT(60)
  <1>6. wire' = [wire EXCEPT ![c] = w] /\ tx' = [tx EXCEPT ![c] = t]
    BY <1>4
  <1>. HIDE DEF w, t
  <1>7. wire'[c] = w /\ tx'[c] = t /\ \A e \in Conns \ {c} : wire'[e] = wire[e] /\ tx'[e] = tx[e]
    BY <1>3, <1>6 DEF OutTypeOK
  <1>8. OutTypeOK'
    BY <1>1, <1>3, <1>5, <1>6, ZenonT(60) DEF OutTypeOK
  <1>9. \A e : InUse(e)' <=> InUse(e)
    BY <1>1 DEF InUse
  <1>10. OutOK(c)'
    <2>1. Prefix(w, routed[c]) /\ w \o <<>> = w
      <3>1. Frame("PONG", None) \in Reply
        BY DEF Frame, Reply
      <3>. QED  BY <1>5, <3>1, Streams, ZenonT(60)
    <2>2. t = <<>> => routed[c] = w
      BY <1>5, <2>1
    <2>3. name[c] = None => t = <<>>
      BY <1>3, <1>4 DEF OutOK, t
    <2>. QED  BY <1>0, <1>1, <1>5, <1>7, <1>9, <2>1, <2>2, <2>3 DEF OutOK, Prefix
  <1>11. \A e \in Conns \ {c} : OutOK(e)'
    BY <1>1, <1>7, <1>9, OutSame DEF OutInv
  <1>. QED  BY <1>8, <1>10, <1>11 DEF OutInv

\* Closing connections keeps the invariant: their backlog goes with them.
LEMMA CloseOut ==
    ASSUME OutInv, NEW D \in SUBSET Conns,
           \A e \in D : e \in gone' /\ ~InUse(e)' /\ tx'[e] = <<>>,
           \A e \in Conns \ D : /\ InUse(e)' <=> InUse(e)
                                /\ e \in gone => e \in gone'
                                /\ e \in should_close => e \in should_close'
                                /\ tx'[e] = tx[e],
           tx' \in [Conns -> Seq(Reply)],
           UNCHANGED <<client, wire, routed, name, sat>>
    PROVE  OutInv'
  <1>1. OutTypeOK'
    BY DEF OutInv, OutTypeOK
  <1>2. \A e \in D : OutOK(e)'
    BY ZenonT(60) DEF OutInv, OutOK, Prefix
  <1>3. \A e \in Conns \ D : OutOK(e)'
    BY OutSame DEF OutInv
  <1>. QED  BY <1>1, <1>2, <1>3 DEF OutInv

\* Every step keeps the invariant.
LEMMA OutStep ==
    ASSUME ~AllocMayFail, TxLimit >= 2, TableInv, StreamOK, OutInv, [IpcNext]_ipcvars
    PROVE  OutInv'
  <1>. TableTypeOK /\ BacklogOK
    BY DEF TableInv
  <1>1. CASE Clients
    <2>1. UNCHANGED <<wire, tx, routed, sat, name, clients, gone, should_close>>
      BY <1>1 DEF Clients, Connect, Write, Close, output, table
    <2>2. \A e \in Conns : InUse(e) => client'[e] \in {client[e], "closed"}
      BY <1>1 DEF Clients, Connect, Write, Close, BacklogOK, TableTypeOK
    <2>. QED  BY <2>1, <2>2, OutKept DEF InUse
  <1>2. CASE Accept
    <2>1. UNCHANGED <<wire, tx, routed, sat, name, client, should_close>>
      BY <1>2 DEF Accept, output
    <2>2. Head(backlog) \in Conns /\ Head(backlog) \notin gone /\ ~InUse(Head(backlog))
      <3>1. Head(backlog) = backlog[1] /\ 1 \in DOMAIN backlog /\ backlog[1] \in Conns
        BY <1>2, SMTT(60) DEF Accept, TableTypeOK
      <3>. QED  BY <3>1 DEF BacklogOK
    <2>3. CASE \E s \in FreeSlots : clients' = [clients EXCEPT ![s] = Head(backlog)] /\ UNCHANGED gone
      <3>1. PICK s \in Slots : /\ clients[s] = None /\ UNCHANGED gone
                               /\ clients' = [clients EXCEPT ![s] = Head(backlog)]
        BY <2>3, ZenonT(60) DEF FreeSlots
      <3>2. \A e \in Conns : InUse(e)' <=> InUse(e) \/ e = Head(backlog)
        BY <3>1, Constants DEF InUse, TableTypeOK
      <3>. QED  BY <2>1, <2>2, <3>1, <3>2, OutKept
    <2>4. CASE gone' = gone \cup {Head(backlog)} /\ UNCHANGED clients
      BY <2>1, <2>4, OutKept DEF InUse
    <2>. QED  BY <1>2, <2>3, <2>4 DEF Accept
  <1>3. CASE CollectAndPoll \/ SkipSlot \/ ServiceSlot \/ UNCHANGED ipcvars
    <2>1. /\ UNCHANGED <<wire, tx, routed, sat, name, clients, gone, client>>
          /\ \A e \in should_close : e \in should_close'
      BY <1>3 DEF CollectAndPoll, SkipSlot, ServiceSlot, output, table, clientvars, ipcvars
    <2>. QED  BY <2>1, OutKept DEF InUse
  <1>4. CASE HandleFrame
    BY <1>4, HandleFrameOut
  <1>5. CASE FlushSlot
    BY <1>5, FlushOut
  <1>6. CASE CloseSlot
    <2>1. PICK c \in Conns : c = clients[cur]
      BY <1>6 DEF CloseSlot, FramesDone, TableInv, TableTypeOK, LoopOK
    <2>2. /\ clients' = [clients EXCEPT ![cur] = None] /\ gone' = gone \cup {c}
          /\ should_close' = should_close \ {c} /\ tx' = [tx EXCEPT ![c] = <<>>]
          /\ UNCHANGED <<client, wire, routed, name, sat>>
      BY <1>6, <2>1 DEF CloseSlot, clientvars
    <2>3. \A e \in Conns : InUse(e)' <=> InUse(e) /\ e # c
      <3>1. \A s \in Slots : clients'[s] = IF s = cur THEN None ELSE clients[s]
        BY <2>2 DEF TableTypeOK
      <3>. QED  BY <2>1, <3>1, Constants, ZenonT(60) DEF InUse, OneSlotEach, TableInv, TableTypeOK
    <2>4. /\ tx' \in [Conns -> Seq(Reply)] /\ tx'[c] = <<>>
          /\ \A e \in Conns \ {c} : tx'[e] = tx[e]
      <3>1. <<>> \in Seq(Reply)
        OBVIOUS
      <3>. QED  BY <2>2, <3>1 DEF OutInv, OutTypeOK
    <2>. DEFINE D == {c}
    <2>5. D \in SUBSET Conns /\ \A e \in D : e \in gone' /\ ~InUse(e)' /\ tx'[e] = <<>>
      BY <2>2, <2>3, <2>4
    <2>6. \A e \in Conns \ D : /\ InUse(e)' <=> InUse(e)
                               /\ e \in gone => e \in gone'
                               /\ e \in should_close => e \in should_close'
                               /\ tx'[e] = tx[e]
      BY <2>2, <2>3, <2>4
    <2>. HIDE DEF D
    <2>. QED  BY <2>2, <2>4, <2>5, <2>6, CloseOut, ZenonT(60)
  <1>7. CASE Destroy
    <2>1. /\ tx' = [c \in Conns |-> <<>>] /\ UNCHANGED <<client, wire, routed, name, sat>>
          /\ clients' = [s \in Slots |-> None]
          /\ gone' = gone \cup {c \in Conns : InUse(c)} \cup {backlog[i] : i \in DOMAIN backlog}
      BY <1>7 DEF Destroy
    <2>2. OutTypeOK'
      BY <2>1, SMTT(60) DEF OutInv, OutTypeOK
    <2>3. \A e \in Conns : ~InUse(e)'
      BY <2>1, Constants DEF InUse
    <2>4. \A e \in Conns : e \notin gone' => ~InUse(e) /\ e \notin gone
      BY <2>1
    <2>5. \A e \in Conns : OutOK(e)'
      BY <2>1, <2>3, <2>4, ZenonT(60) DEF OutInv, OutOK, Prefix
    <2>. QED  BY <2>2, <2>5 DEF OutInv
  <1>. QED  BY <1>1, <1>2, <1>3, <1>4, <1>5, <1>6, <1>7 DEF IpcNext, Server

\* The invariant holds of every behaviour.
LEMMA OutAlways ==
    ASSUME ~AllocMayFail, TxLimit >= 2
    PROVE  IpcSpec => []OutInv
  <1>1. IpcInit => OutInv
    <2>. SUFFICES ASSUME IpcInit PROVE OutInv
      OBVIOUS
    <2>1. OutTypeOK
      BY DEF IpcInit, OutTypeOK
    <2>2. <<>> = SubSeq(<<>>, 1, 0) /\ Len(<<>>) = 0 /\ <<>> \o <<>> = <<>>
      OBVIOUS
    <2>3. \A c \in Conns : OutOK(c)
      BY <2>2 DEF IpcInit, OutOK, Prefix
    <2>. QED  BY <2>1, <2>3 DEF OutInv
  <1>2. TableInv /\ StreamOK /\ OutInv /\ [IpcNext]_ipcvars => OutInv'
    BY OutStep
  <1>. QED  BY <1>1, <1>2, TableAlways, PTL DEF IpcSpec

\* For any number of connections, names and values, and any backlog limit that
\* leaves room for one frame: as long as memory does not run out, a client
\* receives the frames that queue_send was given for it from the first on,
\* without gaps, and nothing is missing until its connection is given up.
THEOREM StreamsIntact ==
    ASSUME ~AllocMayFail, TxLimit >= 2
    PROVE  IpcSpec => []NoGaps
  <1>1. OutInv => NoGaps
    BY ZenonT(60) DEF OutInv, OutOK, Prefix, NoGaps
  <1>2. IpcSpec => []OutInv
    BY OutAlways
  <1>. QED  BY <1>1, <1>2, PTL

-----------------------------------------------------------------------------
(* Where the DELIVERs come from *)

\* A frame with a sender was made from a request this sender made and the
\* server has handled, addressed to the name of the receiving connection c.
Genuine(c, f) ==
    /\ f.type = "DELIVER" => f.from # None
    /\ f.from # None =>
          /\ f.seq \in 1 .. handled[f.from]
          /\ sent[f.from][f.seq].type = "SEND" /\ sent[f.from][f.seq].name = name[c]
          /\ f.src = name[f.from] /\ f.src # None

\* The frames of one sender are in the order of its requests.
InOrder(q) == \A i, j \in DOMAIN q :
                  j < i /\ q[i].from # None /\ q[j].from = q[i].from => q[j].seq < q[i].seq

OriginInv == \A c \in Conns : /\ \A i \in DOMAIN routed[c] : Genuine(c, routed[c][i])
                              /\ InOrder(routed[c])

\* What every step keeps: names, what has been handled, what has been sent.
Settled ==
    /\ \A e \in Conns : handled[e] \in Nat /\ handled'[e] \in Nat /\ handled[e] <= handled'[e]
    /\ \A e \in Conns : \A k \in 1 .. handled[e] :
          sent'[e][k] = sent[e][k] /\ sent[e][k] \in RealRequest
    /\ \A e \in Conns : name[e] # None => name'[e] = name[e]

\* A genuine frame stays genuine.
LEMMA StaysGenuine ==
    ASSUME Settled, NEW c \in Conns, NEW f \in Reply, Genuine(c, f)
    PROVE  Genuine(c, f)'
  <1>. SUFFICES ASSUME f.from # None PROVE Genuine(c, f)'
    BY DEF Genuine
  <1>1. f.from \in Conns
    BY DEF Reply
  <1>2. /\ f.seq \in 1 .. handled[f.from]
        /\ sent[f.from][f.seq].type = "SEND" /\ sent[f.from][f.seq].name = name[c]
        /\ f.src = name[f.from] /\ f.src # None
    BY DEF Genuine
  <1>3. sent'[f.from][f.seq] = sent[f.from][f.seq] /\ sent[f.from][f.seq] \in RealRequest
    BY <1>1, <1>2 DEF Settled
  <1>4. name[c] # None
    BY <1>2, <1>3, Constants DEF RealRequest
  <1>5. name'[c] = name[c] /\ name'[f.from] = name[f.from]
    BY <1>1, <1>2, <1>4 DEF Settled
  <1>6. f.seq \in 1 .. handled'[f.from]
    BY <1>1, <1>2, SMTT(60) DEF Settled
  <1>. QED  BY <1>2, <1>3, <1>5, <1>6 DEF Genuine

\* A step that hands queue_send nothing keeps the origins.
LEMMA OriginKept ==
    ASSUME OutTypeOK, Settled, OriginInv, UNCHANGED routed
    PROVE  OriginInv'
  <1>1. \A c \in Conns : \A i \in DOMAIN routed[c] : routed[c][i] \in Reply
    BY SMTT(60) DEF OutTypeOK
  <1>. QED  BY <1>1, StaysGenuine DEF OriginInv, InOrder

\* A step that hands queue_send one genuine frame, later than those of its
\* sender, keeps the origins.
LEMMA OriginAppend ==
    ASSUME OutTypeOK, Settled, OriginInv, NEW d \in Conns, NEW f \in Reply,
           routed' = [routed EXCEPT ![d] = Append(routed[d], f)],
           Genuine(d, f)', f.from # None => f.seq > handled[f.from]
    PROVE  OriginInv'
  <1>. DEFINE q == routed[d]
              n == Len(q) + 1
  <1>1. /\ q \in Seq(Reply) /\ n \in Nat /\ routed'[d] = Append(q, f)
        /\ \A c \in Conns \ {d} : routed'[c] = routed[c]
    BY DEF OutTypeOK
  <1>2. /\ DOMAIN Append(q, f) = (DOMAIN q) \cup {n} /\ Append(q, f)[n] = f
        /\ \A i \in DOMAIN q : Append(q, f)[i] = q[i] /\ q[i] \in Reply /\ i < n /\ i \in Nat
    BY <1>1, SMTT(60)
  <1>3. \A c \in Conns : \A i \in DOMAIN routed[c] : routed[c][i] \in Reply
    BY SMTT(60) DEF OutTypeOK
  <1>4. \A c \in Conns, g \in Reply : Genuine(c, g) => Genuine(c, g)'
    BY StaysGenuine
  <1>. HIDE DEF q, n
  <1>5. ASSUME NEW c \in Conns \ {d}
        PROVE  (\A i \in DOMAIN routed'[c] : Genuine(c, routed[c][i])') /\ InOrder(routed[c])'
    BY <1>1, <1>3, <1>4 DEF OriginInv, InOrder
  <1>6. \A i \in DOMAIN routed'[d] : Genuine(d, routed[d][i])'
    <2>. SUFFICES ASSUME NEW i \in DOMAIN routed'[d] PROVE Genuine(d, routed[d][i])'
      OBVIOUS
    <2>1. PICK g \in Reply : g = routed'[d][i] /\ (g = f \/ Genuine(d, g))
      BY <1>1, <1>2 DEF OriginInv, q
    <2>2. Genuine(d, g)'
      BY <1>4, <2>1
    <2>. QED  BY <2>1, <2>2
  <1>7. InOrder(routed[d])'
    <2>. SUFFICES ASSUME NEW i \in DOMAIN Append(q, f), NEW j \in DOMAIN Append(q, f),
                         j < i, Append(q, f)[i].from # None,
                         Append(q, f)[j].from = Append(q, f)[i].from
                  PROVE  Append(q, f)[j].seq < Append(q, f)[i].seq
      <3>1. routed'[d] = Append(q, f)
        BY <1>1
      <3>. QED  BY <3>1, ZenonT(60) DEF InOrder
    <2>1. CASE i \in DOMAIN q
      <3>1. j \in DOMAIN q
        BY <1>2, <2>1
      <3>2. InOrder(q)
        BY DEF OriginInv, q
      <3>. QED  BY <1>2, <2>1, <3>1, <3>2 DEF InOrder
    <2>2. CASE i = n
      <3>1. j \in DOMAIN q /\ q[j].from = f.from /\ f.from # None /\ q[j] \in Reply
        BY <1>2, <2>2, SMTT(60)
      <3>2. q[j].seq \in 1 .. handled[f.from]
        BY <3>1 DEF OriginInv, Genuine, q
      <3>3. f.from \in Conns /\ handled[f.from] \in Nat /\ f.seq \in Nat
        BY <3>1 DEF Reply, Settled
      <3>4. q[j].seq < f.seq
        BY <3>1, <3>2, <3>3
      <3>. QED  BY <1>2, <2>2, <3>1, <3>4
    <2>. QED  BY <1>2, <2>1, <2>2
  <1>. QED  BY <1>5, <1>6, <1>7 DEF OriginInv

\* Every step keeps names, what has been handled and what has been sent.
LEMMA StepSettled == TableInv /\ StreamOK /\ StreamOK' /\ [IpcNext]_ipcvars => Settled
  <1>. SUFFICES ASSUME TableInv, StreamOK, StreamOK', [IpcNext]_ipcvars PROVE Settled
    OBVIOUS
  <1>. TableTypeOK /\ LoopOK
    BY DEF TableInv
  <1>1. \A e \in Conns : handled[e] \in Nat /\ handled'[e] \in Nat
    BY DEF StreamOK
  <1>2. \A e \in Conns : \A k \in 1 .. handled[e] : k \in DOMAIN sent[e] /\ sent[e][k] \in RealRequest
    BY SMTT(60) DEF StreamOK, TableTypeOK
  <1>3. CASE UNCHANGED <<handled, sent, name>>
    <2>1. handled' = handled /\ sent' = sent /\ name' = name
      BY <1>3
    <2>2. \A e \in Conns : handled[e] <= handled'[e]
      BY <1>1, <2>1
    <2>. QED  BY <1>1, <1>2, <2>1, <2>2, ZenonT(60) DEF Settled
  <1>4. ASSUME NEW c \in Conns, NEW r, Write(c, r) PROVE Settled
    <2>1. sent' = [sent EXCEPT ![c] = Append(sent[c], r)] /\ UNCHANGED <<handled, name>>
      BY <1>4 DEF Write, stream, table
    <2>2. \A e \in Conns : \A k \in DOMAIN sent[e] : sent'[e][k] = sent[e][k]
      BY <2>1, SMTT(60) DEF TableTypeOK
    <2>. QED  BY <1>1, <1>2, <2>1, <2>2, SMTT(60) DEF Settled
  <1>5. CASE HandleFrame
    <2>. DEFINE c == clients[cur]
    <2>1. c \in Conns
      BY <1>5 DEF HandleFrame, TableTypeOK, LoopOK
    <2>2. /\ UNCHANGED sent
          /\ handled' = handled \/ handled' = [handled EXCEPT ![c] = handled[c] + 1]
          /\ name' = name \/ (name[c] = None /\ \E r : name' = [name EXCEPT ![c] = r])
      BY <1>5 DEF HandleFrame, handle_message, Register, clientvars
    <2>3. \A e \in Conns : handled[e] <= handled'[e]
      BY <1>1, <2>2, SMTT(60) DEF StreamOK
    <2>4. \A e \in Conns : name[e] # None => name'[e] = name[e]
      BY <2>2 DEF TableTypeOK
    <2>. QED  BY <1>1, <1>2, <2>2, <2>3, <2>4 DEF Settled
  <1>6. CASE Clients
    BY <1>3, <1>4, <1>6 DEF Clients, Connect, Close, stream, table
  <1>7. CASE CollectAndPoll \/ Accept \/ SkipSlot \/ ServiceSlot \/ FlushSlot \/ CloseSlot
             \/ Destroy \/ UNCHANGED ipcvars
    BY <1>3, <1>7 DEF CollectAndPoll, Accept, SkipSlot, ServiceSlot, FlushSlot, CloseSlot,
                      Destroy, ipcvars, clientvars, stream, table
  <1>. QED  BY <1>5, <1>6, <1>7 DEF IpcNext, Server

\* Handling a frame keeps the origins: an answer has no sender, and a SEND is
\* forwarded with its own sender and number.
LEMMA HandleFrameOrigin ==
    ASSUME TableInv, StreamOK, OutTypeOK, Settled, OriginInv, HandleFrame
    PROVE  OriginInv'
  <1>0. PICK c \in Conns, r \in RealRequest :
           /\ c = clients[cur] /\ r = sent[c][handled[c] + 1]
           /\ UNCHANGED sent
           /\ \/ handle_message(c, r) /\ handled' = [handled EXCEPT ![c] = handled[c] + 1]
              \/ UNCHANGED routed
    <2>1. pc = "handle" /\ handled[clients[cur]] < recvd[clients[cur]]
      BY DEF HandleFrame
    <2>2. clients[cur] \in Conns
      BY <2>1 DEF TableInv, TableTypeOK, LoopOK
    <2>3. sent[clients[cur]][handled[clients[cur]] + 1] \in RealRequest
      BY <2>1, <2>2, FrameThere, SMTT(60) DEF TableInv, TableTypeOK
    <2>. QED  BY <2>2, <2>3 DEF HandleFrame, clientvars, output
  <1>1. CASE UNCHANGED routed
    BY <1>1, OriginKept
  <1>2. ASSUME NEW d \in Conns, NEW t \in {"REGISTER_OK", "STATE_VALUE", "PONG"} \cup ErrorCode,
               NEW v \in Values \cup {None},
               routed' = [routed EXCEPT ![d] = Append(routed[d], Frame(t, v))]
        PROVE  OriginInv'
    <2>1. PICK f \in Reply : f = Frame(t, v) /\ f.from = None /\ f.type # "DELIVER"
      <3>1. t # "DELIVER"
        BY DEF ErrorCode
      <3>2. Frame(t, v) \in Reply
        BY DEF Frame, Reply
      <3>3. Frame(t, v).from = None /\ Frame(t, v).type # "DELIVER"
        BY <3>1 DEF Frame
      <3>. QED  BY <3>2, <3>3
    <2>2. Genuine(d, f)'
      BY <2>1 DEF Genuine
    <2>. QED  BY <1>2, <2>1, <2>2, OriginAppend, ZenonT(60)
  <1>3. ASSUME handled' = [handled EXCEPT ![c] = handled[c] + 1], name' = name, name[c] # None,
               NEW d \in CalledInTable(r.name), r.type = "SEND",
               routed' = [routed EXCEPT ![d] = Append(routed[d],
                            [type |-> "DELIVER", val |-> None, src |-> name[c],
                             from |-> c, seq |-> handled[c] + 1])]
        PROVE  OriginInv'
    <2>1. d \in Conns /\ name[d] = r.name /\ handled[c] \in Nat /\ name[c] \in Names
          /\ handled'[c] = handled[c] + 1
      BY <1>3 DEF CalledInTable, StreamOK, TableInv, TableTypeOK
    <2>2. c # None
      BY Constants
    <2>3. PICK f \in Reply : /\ f.from = c /\ f.seq = handled[c] + 1 /\ f.src = name[c]
                             /\ f = [type |-> "DELIVER", val |-> None, src |-> name[c],
                                     from |-> c, seq |-> handled[c] + 1]
      <3>. DEFINE g == [type |-> "DELIVER", val |-> None, src |-> name[c],
                        from |-> c, seq |-> handled[c] + 1]
      <3>1. g \in Reply
        <4>1. handled[c] + 1 \in Nat
          BY <2>1
        <4>. QED  BY <2>1, <4>1, ZenonT(60) DEF Reply
      <3>2. g.from = c /\ g.seq = handled[c] + 1 /\ g.src = name[c]
        OBVIOUS
      <3>. QED  BY <3>1, <3>2
    <2>a. f.from = c /\ f.seq = handled[c] + 1 /\ f.src = name[c]
      BY <2>3, ZenonT(60)
    <2>4. Genuine(d, f)'
      <3>1. f.seq \in 1 .. handled'[f.from]
        BY <2>1, <2>a
      <3>2. sent'[f.from][f.seq].type = "SEND" /\ sent'[f.from][f.seq].name = name'[d]
        BY <1>0, <1>3, <2>1, <2>a
      <3>3. f.src = name'[f.from] /\ f.src # None
        BY <1>3, <2>a
      <3>. QED  BY <2>2, <2>a, <3>1, <3>2, <3>3, ZenonT(60) DEF Genuine
    <2>5. f.seq > handled[f.from]
      BY <2>1, <2>a
    <2>6. routed' = [routed EXCEPT ![d] = Append(routed[d], f)]
      BY <1>3, <2>3
    <2>. QED  BY <2>1, <2>4, <2>5, <2>6, OriginAppend, ZenonT(60)
  <1>4. CASE handle_message(c, r) /\ handled' = [handled EXCEPT ![c] = handled[c] + 1]
    <2>1. sat \in Values \cup {None} /\ r.val \in Values \cup {None} /\ None \in Values \cup {None}
      BY DEF OutTypeOK, RealRequest, Request
    <2>2. CASE Register(c, r)
      BY <1>2, <2>1, <2>2 DEF Register, Refuse, queue_send, ErrorCode
    <2>3. CASE StateGet(c, r) \/ StateSet(c, r) \/ Ping(c, r) \/ Unexpected(c, r)
      BY <1>2, <2>1, <2>3 DEF StateGet, StateSet, Ping, Unexpected, queue_send, ErrorCode
    <2>4. CASE SendTo(c, r) /\ name[c] # None /\ UNCHANGED name
      BY <1>2, <1>3, <1>4, <2>1, <2>4 DEF SendTo, queue_send, ErrorCode
    <2>. QED  BY <1>4, <2>2, <2>3, <2>4 DEF handle_message
  <1>. QED  BY <1>0, <1>1, <1>4

-----------------------------------------------------------------------------
(* What handling a frame does to the output, in one place *)

\* What one call of queue_send(d, f) may do.
Given(d, f) ==
    /\ routed' = [routed EXCEPT ![d] = Append(routed[d], f)]
    /\ wire' = wire \/ wire' = [wire EXCEPT ![d] = Append(wire[d], f)]
    /\ tx' = tx \/ (tx' = [tx EXCEPT ![d] = Append(tx[d], f)] /\ Size(Append(tx[d], f)) <= TxLimit)
    /\ should_close' \subseteq should_close \cup {d}

\* An answer, and a SEND passed on, of the n-th request of connection c.
Answer == {f \in Reply : f.type # "DELIVER" /\ f.from = None}
Forward(c, n) == {f \in Reply : f.type = "DELIVER" /\ f.from = c /\ f.seq = n}

\* queue_send does no more than that, whether it sends, queues or gives up; and
\* a refusal is such a call.
LEMMA Gives ==
    ASSUME NEW d, NEW f, queue_send(d, f)
    PROVE  Given(d, f)
  <1>1. routed' = [routed EXCEPT ![d] = Append(routed[d], f)]
    BY ZenonT(60) DEF queue_send
  <1>2. CASE /\ wire' = [wire EXCEPT ![d] = Append(@, f)]
             /\ UNCHANGED <<tx, should_close>>
    BY <1>1, <1>2 DEF Given
  <1>3. CASE should_close' = should_close \cup {d} /\ UNCHANGED <<wire, tx>>
    BY <1>1, <1>3 DEF Given
  <1>4. CASE /\ Size(Append(tx[d], f)) <= TxLimit
             /\ tx' = [tx EXCEPT ![d] = Append(@, f)]
             /\ UNCHANGED <<wire, should_close>>
    BY <1>1, <1>4, ZenonT(60) DEF Given
  <1>. QED  BY <1>2, <1>3, <1>4, ZenonT(60) DEF queue_send, AppendTx

LEMMA Refuses ==
    ASSUME NEW c, NEW code, Refuse(c, code)
    PROVE  Given(c, Frame(code, None))
  BY ZenonT(60) DEF Refuse, Given

\* One frame is handled: the connection is given up, or its request is answered
\* to itself, or it is passed on to one connection.
LEMMA FrameHandled ==
    ASSUME TableInv, StreamOK, sat \in Values \cup {None}, HandleFrame
    PROVE  \E c \in Conns :
              /\ UNCHANGED <<client, sent, backlog, recvd, clients, gone, pc, cur>>
              /\ \/ /\ UNCHANGED <<handled, routed, wire, tx, sat>>
                    /\ should_close' = should_close \cup {c}
                 \/ /\ handled' = [handled EXCEPT ![c] = handled[c] + 1]
                    /\ sat' = sat \/ sat' \in Values
                    /\ \/ \E f \in Answer : Given(c, f)
                       \/ \E d \in Conns : \E f \in Forward(c, handled[c] + 1) : Given(d, f)
  <1>1. PICK c \in Conns, r \in RealRequest :
           /\ c = clients[cur] /\ r = sent[c][handled[c] + 1]
           /\ UNCHANGED <<client, sent, backlog, recvd, clients, gone, pc, cur>>
           /\ \/ handle_message(c, r) /\ handled' = [handled EXCEPT ![c] = handled[c] + 1]
              \/ /\ should_close' = should_close \cup {c}
                 /\ UNCHANGED <<handled, sat, routed, wire, tx>>
    <2>1. pc = "handle" /\ handled[clients[cur]] < recvd[clients[cur]]
      BY DEF HandleFrame
    <2>2. clients[cur] \in Conns
      BY <2>1 DEF TableInv, TableTypeOK, LoopOK
    <2>3. sent[clients[cur]][handled[clients[cur]] + 1] \in RealRequest
      BY <2>1, <2>2, FrameThere, SMTT(60) DEF TableInv, TableTypeOK
    <2>. QED  BY <2>2, <2>3 DEF HandleFrame, clientvars, loop, output
  <1>2. \A t \in {"REGISTER_OK", "STATE_VALUE", "PONG"} \cup ErrorCode, v \in Values \cup {None} :
           Frame(t, v) \in Answer
    <2>. SUFFICES ASSUME NEW t \in {"REGISTER_OK", "STATE_VALUE", "PONG"} \cup ErrorCode,
                         NEW v \in Values \cup {None}
                  PROVE  Frame(t, v) \in Answer
      OBVIOUS
    <2>1. Frame(t, v) \in Reply
      BY DEF Frame, Reply
    <2>2. Frame(t, v).from = None /\ Frame(t, v).type # "DELIVER"
      BY DEF Frame, ErrorCode
    <2>. QED  BY <2>1, <2>2 DEF Answer
  <1>3. [type |-> "DELIVER", val |-> None, src |-> name[c], from |-> c, seq |-> handled[c] + 1]
          \in Forward(c, handled[c] + 1)
    <2>. DEFINE g == [type |-> "DELIVER", val |-> None, src |-> name[c],
                      from |-> c, seq |-> handled[c] + 1]
    <2>1. handled[c] + 1 \in Nat /\ name[c] \in Names \cup {None}
      BY SMTT(60) DEF StreamOK, TableInv, TableTypeOK
    <2>2. g \in Reply
      BY <2>1, ZenonT(60) DEF Reply
    <2>3. g.type = "DELIVER" /\ g.from = c /\ g.seq = handled[c] + 1
      OBVIOUS
    <2>. QED  BY <2>2, <2>3 DEF Forward
  <1>4. CASE handle_message(c, r) /\ handled' = [handled EXCEPT ![c] = handled[c] + 1]
    <2>1. r.val \in Values \cup {None} /\ None \in Values \cup {None}
      BY DEF RealRequest, Request
    <2>2. sat' = sat \/ sat' \in Values
      BY <1>4 DEF handle_message, Register, StateGet, StateSet, SendTo, Ping, Unexpected, RealRequest
    <2>3. CASE Register(c, r)
      <3>1. \/ queue_send(c, Frame("REGISTER_OK", None))
            \/ \E code \in ErrorCode : Refuse(c, code)
        BY <2>3, ZenonT(60) DEF Register, ErrorCode
      <3>2. \E f \in Answer : Given(c, f)
        BY <1>2, <2>1, <3>1, Gives, Refuses
      <3>. QED  BY <1>1, <1>4, <2>2, <3>2
    <2>4. CASE StateGet(c, r) \/ StateSet(c, r) \/ Ping(c, r) \/ Unexpected(c, r)
      <3>1. \E t \in {"STATE_VALUE", "PONG", "BAD_MESSAGE"}, v \in Values \cup {None} :
               queue_send(c, Frame(t, v))
        BY <2>1, <2>4, ZenonT(60) DEF StateGet, StateSet, Ping, Unexpected
      <3>2. \E f \in Answer : Given(c, f)
        BY <1>2, <3>1, Gives DEF ErrorCode
      <3>. QED  BY <1>1, <1>4, <2>2, <3>2
    <2>5. CASE SendTo(c, r)
      <3>1. CASE queue_send(c, Frame("UNKNOWN_DEST", None))
        <4>1. \E f \in Answer : Given(c, f)
          BY <1>2, <2>1, <3>1, Gives DEF ErrorCode
        <4>. QED  BY <1>1, <1>4, <2>2, <4>1
      <3>2. ASSUME NEW d \in CalledInTable(r.name),
                   queue_send(d, [type |-> "DELIVER", val |-> None, src |-> name[c],
                                  from |-> c, seq |-> handled[c] + 1])
            PROVE  \E e \in Conns : \E f \in Forward(c, handled[c] + 1) : Given(e, f)
        <4>1. d \in Conns
          BY DEF CalledInTable
        <4>. QED  BY <1>3, <3>2, <4>1, Gives
      <3>3. CASE ~queue_send(c, Frame("UNKNOWN_DEST", None))
        <4>1. \E d \in CalledInTable(r.name) :
                 queue_send(d, [type |-> "DELIVER", val |-> None, src |-> name[c],
                                from |-> c, seq |-> handled[c] + 1])
          BY <2>5, <3>3, ZenonT(60) DEF SendTo
        <4>2. \E e \in Conns : \E f \in Forward(c, handled[c] + 1) : Given(e, f)
          BY <3>2, <4>1
        <4>. QED  BY <1>1, <1>4, <2>2, <4>2
      <3>. QED  BY <3>1, <3>3
    <2>. QED  BY <1>4, <2>3, <2>4, <2>5, ZenonT(60) DEF handle_message
  <1>5. CASE /\ should_close' = should_close \cup {c}
             /\ UNCHANGED <<handled, sat, routed, wire, tx>>
    BY <1>1, <1>5
  <1>. QED  BY <1>1, <1>4, <1>5

-----------------------------------------------------------------------------
(* Types and limits, whether or not memory runs out *)

OutLimits ==
    /\ OutTypeOK /\ sat \in Values
    /\ should_close \subseteq Conns
    /\ pc \in {"poll", "accept", "service", "handle", "down"}
    /\ \A c \in Conns : Size(tx[c]) <= TxLimit

Delivers(q) == {i \in DOMAIN q : q[i].type = "DELIVER"}

\* The DELIVERs in a queue can be counted.
LEMMA DeliversFinite ==
    ASSUME NEW q \in Seq(Reply)
    PROVE  IsFiniteSet(Delivers(q)) /\ Cardinality(Delivers(q)) \in Nat
  <1>1. Delivers(q) \subseteq 1 .. Len(q) /\ Len(q) \in Nat
    BY DEF Delivers
  <1>2. IsFiniteSet(1 .. Len(q))
    BY <1>1, FS_Interval
  <1>3. IsFiniteSet(Delivers(q))
    BY <1>1, <1>2, FS_Subset
  <1>. QED  BY <1>3, FS_CardinalityType

\* What is left of a queue is no larger than the queue.
LEMMA SizeOfRest ==
    ASSUME NEW q \in Seq(Reply), NEW m \in 0 .. Len(q)
    PROVE  Size(SubSeq(q, m + 1, Len(q))) <= Size(q)
  <1>. DEFINE rest == SubSeq(q, m + 1, Len(q))
              shift == [i \in Delivers(rest) |-> i + m]
  <1>1. /\ rest \in Seq(Reply) /\ Len(rest) = Len(q) - m /\ Len(q) \in Nat /\ m \in Nat
        /\ \A i \in DOMAIN rest : i \in Nat /\ i + m \in DOMAIN q /\ rest[i] = q[i + m]
    OBVIOUS
  <1>. HIDE DEF rest
  <1>2. \A i \in Delivers(rest) : i \in Nat /\ i + m \in Delivers(q)
    BY <1>1 DEF Delivers
  <1>3. shift \in Injection(Delivers(rest), Delivers(q))
    <2>1. shift \in [Delivers(rest) -> Delivers(q)]
      BY <1>2
    <2>2. \A i, j \in Delivers(rest) : shift[i] = shift[j] => i = j
      BY <1>1, <1>2
    <2>. QED  BY <2>1, <2>2 DEF Injection, IsInjective
  <1>4. IsFiniteSet(Delivers(q)) /\ Cardinality(Delivers(q)) \in Nat /\ Cardinality(Delivers(rest)) \in Nat
    BY <1>1, DeliversFinite
  <1>. HIDE DEF shift
  <1>5. Cardinality(Delivers(rest)) <= Cardinality(Delivers(q))
    BY <1>3, <1>4, FS_Injection
  <1>6. /\ Size(rest) = Len(rest) + Cardinality(Delivers(rest))
        /\ Size(q) = Len(q) + Cardinality(Delivers(q))
    BY DEF Size, Delivers
  <1>. QED  BY <1>1, <1>4, <1>5, <1>6 DEF rest

\* An empty queue has no size.
LEMMA SizeOfNone == Size(<<>>) = 0
  <1>1. Delivers(<<>>) = {}
    BY DEF Delivers
  <1>2. Cardinality(Delivers(<<>>)) = 0
    BY <1>1, FS_EmptySet
  <1>. QED  BY <1>2 DEF Size, Delivers

\* What queue_send may do keeps types and limits.
LEMMA GivenLimits ==
    ASSUME OutLimits, NEW d \in Conns, NEW f \in Reply, Given(d, f),
           sat' = sat \/ sat' \in Values, pc' = pc
    PROVE  OutLimits'
  <1>1. OutTypeOK /\ Append(routed[d], f) \in Seq(Reply) /\ Append(wire[d], f) \in Seq(Reply)
        /\ Append(tx[d], f) \in Seq(Reply)
    BY DEF OutLimits, OutTypeOK
  <1>2. routed' \in [Conns -> Seq(Reply)]
    BY <1>1 DEF Given, OutTypeOK
  <1>3. wire' \in [Conns -> Seq(Reply)]
    BY <1>1 DEF Given, OutTypeOK
  <1>4. tx' \in [Conns -> Seq(Reply)] /\ \A c \in Conns : Size(tx'[c]) <= TxLimit
    <2>1. CASE tx' = tx
      BY <1>1, <2>1 DEF OutTypeOK, OutLimits
    <2>2. CASE tx' = [tx EXCEPT ![d] = Append(tx[d], f)] /\ Size(Append(tx[d], f)) <= TxLimit
      <3>1. tx' \in [Conns -> Seq(Reply)]
        BY <1>1, <2>2 DEF OutTypeOK
      <3>2. tx'[d] = Append(tx[d], f) /\ \A c \in Conns \ {d} : tx'[c] = tx[c]
        BY <1>1, <2>2 DEF OutTypeOK
      <3>3. \A c \in Conns \ {d} : Size(tx'[c]) <= TxLimit
        BY <3>2 DEF OutLimits
      <3>. QED  BY <2>2, <3>1, <3>2, <3>3, ZenonT(60)
    <2>. QED  BY <2>1, <2>2 DEF Given
  <1>5. sat' \in Values /\ should_close' \subseteq Conns
    BY DEF OutLimits, Given
  <1>6. OutTypeOK'
    BY <1>2, <1>3, <1>4, <1>5 DEF OutTypeOK
  <1>. QED  BY <1>4, <1>5, <1>6 DEF OutLimits

\* A step that leaves the output alone keeps types and limits.
LEMMA LimitsKept ==
    ASSUME OutLimits, UNCHANGED <<wire, tx, routed, sat>>, should_close' \subseteq Conns,
           pc' \in {"poll", "accept", "service", "handle", "down"}
    PROVE  OutLimits'
  BY DEF OutLimits, OutTypeOK

\* Every step keeps types and limits.
LEMMA LimitsStep == TableInv /\ StreamOK /\ OutLimits /\ [IpcNext]_ipcvars => OutLimits'
  <1>. SUFFICES ASSUME TableInv, StreamOK, OutLimits, [IpcNext]_ipcvars PROVE OutLimits'
    OBVIOUS
  <1>. DEFINE PCs == {"poll", "accept", "service", "handle", "down"}
  <1>0. OutTypeOK /\ sat \in Values /\ should_close \subseteq Conns /\ pc \in PCs
    BY DEF OutLimits
  <1>1. CASE Clients \/ CollectAndPoll \/ Accept \/ UNCHANGED ipcvars
    <2>1. UNCHANGED <<wire, tx, routed, sat, should_close>>
      BY <1>1 DEF Clients, Connect, Write, Close, CollectAndPoll, Accept, ipcvars, output
    <2>2. pc' \in PCs
      BY <1>0, <1>1 DEF Clients, Connect, Write, Close, CollectAndPoll, Accept, ipcvars
    <2>. QED  BY <1>0, <2>1, <2>2, LimitsKept
  <1>2. CASE SkipSlot
    BY <1>0, <1>2, LimitsKept DEF SkipSlot, Advance, output
  <1>3. CASE ServiceSlot
    <2>1. UNCHANGED <<wire, tx, routed, sat>> /\ pc' = "handle" /\ clients[cur] \in Conns
      BY <1>3 DEF ServiceSlot, output, TableInv, TableTypeOK
    <2>2. should_close' = should_close \/ should_close' = should_close \cup {clients[cur]}
      BY <1>3, ZenonT(60) DEF ServiceSlot
    <2>. QED  BY <1>0, <2>1, <2>2, LimitsKept
  <1>4. CASE HandleFrame
    <2>0. sat \in Values \cup {None}
      BY <1>0
    <2>1. PICK c \in Conns :
              /\ pc' = pc
              /\ \/ /\ UNCHANGED <<routed, wire, tx, sat>>
                    /\ should_close' = should_close \cup {c}
                 \/ /\ sat' = sat \/ sat' \in Values
                    /\ \E d \in Conns, f \in Reply : Given(d, f)
      BY <1>4, <2>0, FrameHandled, ZenonT(60) DEF Answer, Forward
    <2>2. CASE UNCHANGED <<routed, wire, tx, sat>> /\ should_close' = should_close \cup {c}
      BY <1>0, <2>1, <2>2, LimitsKept
    <2>3. CASE (sat' = sat \/ sat' \in Values) /\ \E d \in Conns, f \in Reply : Given(d, f)
      BY <2>1, <2>3, GivenLimits
    <2>. QED  BY <2>1, <2>2, <2>3
  <1>5. CASE FlushSlot
    <2>1. PICK c \in Conns : c = clients[cur]
      BY <1>5 DEF FlushSlot, FramesDone, TableInv, TableTypeOK, LoopOK
    <2>2. /\ UNCHANGED <<routed, sat, should_close>> /\ pc' \in PCs
          /\ \E m \in 0 .. Len(tx[c]) :
              /\ wire' = [wire EXCEPT ![c] = wire[c] \o SubSeq(tx[c], 1, m)]
              /\ tx' = [tx EXCEPT ![c] = SubSeq(tx[c], m + 1, Len(tx[c]))]
      BY <1>5, <2>1, ZenonT(60) DEF FlushSlot, Advance
    <2>3. PICK m \in 0 .. Len(tx[c]) :
              /\ wire' = [wire EXCEPT ![c] = wire[c] \o SubSeq(tx[c], 1, m)]
              /\ tx' = [tx EXCEPT ![c] = SubSeq(tx[c], m + 1, Len(tx[c]))]
      BY <2>2, ZenonT(60)
    <2>. DEFINE w == wire[c] \o SubSeq(tx[c], 1, m)
                t == SubSeq(tx[c], m + 1, Len(tx[c]))
    <2>4. wire[c] \in Seq(Reply) /\ tx[c] \in Seq(Reply)
      BY <1>0 DEF OutTypeOK
    <2>5. w \in Seq(Reply) /\ t \in Seq(Reply) /\ Size(t) <= Size(tx[c])
      BY <2>4, Moved, SizeOfRest, ZenonT(60)
    <2>6. wire' = [wire EXCEPT ![c] = w] /\ tx' = [tx EXCEPT ![c] = t]
      BY <2>3, ZenonT(60)
    <2>. HIDE DEF w, t
    <2>7. Size(t) <= TxLimit
      <3>1. Size(tx[c]) <= TxLimit /\ TxLimit \in Nat
        BY IpcAssumption DEF OutLimits
      <3>2. Size(t) \in Nat /\ Size(tx[c]) \in Nat
        <4>1. ASSUME NEW q \in Seq(Reply) PROVE Size(q) \in Nat
          <5>1. Size(q) = Len(q) + Cardinality(Delivers(q)) /\ Len(q) \in Nat
            BY DEF Size, Delivers
          <5>. QED  BY <5>1, DeliversFinite
        <4>. QED  BY <2>4, <2>5, <4>1
      <3>. QED  BY <2>5, <3>1, <3>2
    <2>8. wire' \in [Conns -> Seq(Reply)] /\ tx' \in [Conns -> Seq(Reply)]
      BY <1>0, <2>5, <2>6, ZenonT(60) DEF OutTypeOK
    <2>9. \A e \in Conns : Size(tx'[e]) <= TxLimit
      <3>1. tx'[c] = t /\ \A e \in Conns \ {c} : tx'[e] = tx[e]
        BY <1>0, <2>6 DEF OutTypeOK
      <3>2. \A e \in Conns \ {c} : Size(tx'[e]) <= TxLimit
        BY <3>1 DEF OutLimits
      <3>. QED  BY <2>7, <3>1, <3>2, ZenonT(60)
    <2>. QED  BY <1>0, <2>2, <2>8, <2>9 DEF OutLimits, OutTypeOK
  <1>6. CASE CloseSlot
    <2>1. PICK c \in Conns : c = clients[cur]
      BY <1>6 DEF CloseSlot, FramesDone, TableInv, TableTypeOK, LoopOK
    <2>2. /\ UNCHANGED <<wire, routed, sat>> /\ pc' \in PCs /\ should_close' = should_close \ {c}
          /\ tx' = [tx EXCEPT ![c] = <<>>]
      BY <1>6, <2>1, ZenonT(60) DEF CloseSlot, Advance
    <2>3. tx' \in [Conns -> Seq(Reply)] /\ tx'[c] = <<>> /\ \A e \in Conns \ {c} : tx'[e] = tx[e]
      <3>1. <<>> \in Seq(Reply)
        OBVIOUS
      <3>. QED  BY <1>0, <2>2, <3>1 DEF OutTypeOK
    <2>4. Size(tx'[c]) <= TxLimit
      BY <2>3, SizeOfNone, IpcAssumption, SMTT(60)
    <2>5. \A e \in Conns \ {c} : Size(tx'[e]) <= TxLimit
      BY <2>3 DEF OutLimits
    <2>. QED  BY <1>0, <2>2, <2>3, <2>4, <2>5 DEF OutLimits, OutTypeOK
  <1>7. CASE Destroy
    <2>1. /\ UNCHANGED <<wire, routed, sat>> /\ pc' = "down" /\ should_close' = {}
          /\ tx' = [c \in Conns |-> <<>>]
      BY <1>7 DEF Destroy
    <2>2. tx' \in [Conns -> Seq(Reply)] /\ \A c \in Conns : tx'[c] = <<>>
      BY <2>1
    <2>3. \A c \in Conns : Size(tx'[c]) <= TxLimit
      BY <2>2, SizeOfNone, IpcAssumption, SMTT(60)
    <2>. QED  BY <1>0, <2>1, <2>2, <2>3 DEF OutLimits, OutTypeOK
  <1>. QED  BY <1>1, <1>2, <1>3, <1>4, <1>5, <1>6, <1>7 DEF IpcNext, Server

\* Types and limits hold of every behaviour.
LEMMA LimitsAlways == IpcSpec => []OutLimits
  <1>1. IpcInit => OutLimits
    <2>. SUFFICES ASSUME IpcInit PROVE OutLimits
      OBVIOUS
    <2>1. OutTypeOK
      BY DEF IpcInit, OutTypeOK
    <2>2. \A c \in Conns : Size(tx[c]) <= TxLimit
      BY SizeOfNone, IpcAssumption, SMTT(60) DEF IpcInit
    <2>. QED  BY <2>1, <2>2 DEF IpcInit, OutLimits
  <1>. QED  BY <1>1, LimitsStep, TableAlways, PTL DEF IpcSpec

\* For any number of connections and slots, any names, values, requests and
\* limit, and whether or not memory runs out: the daemon hands on only what it
\* received, a client's frames are handled in the order in which they arrive,
\* and append_tx keeps every backlog within TX_BACKLOG_LIMIT.
THEOREM TypesCorrect == IpcSpec => []IpcTypeOK
  <1>1. TableInv /\ StreamOK /\ OutLimits => IpcTypeOK
    <2>. SUFFICES ASSUME TableInv, StreamOK, OutLimits PROVE IpcTypeOK
      OBVIOUS
    <2>1. TableTypeOK /\ OutTypeOK
      BY DEF TableInv, OutLimits
    <2>2. RealRequest \subseteq Request
      BY DEF RealRequest
    <2>3. \A c \in Conns : sent[c] \in Seq(Request)
      BY <2>1, <2>2, SMTT(60) DEF TableTypeOK
    <2>4. \A c \in Conns : wire[c] \in Seq(Reply) /\ tx[c] \in Seq(Reply)
      BY <2>1 DEF OutTypeOK
    <2>. QED  BY <2>1, <2>3, <2>4 DEF IpcTypeOK, TableTypeOK, StreamOK, OutLimits
  <1>. QED  BY <1>1, TableAlways, LimitsAlways, PTL

\* Every frame handed to queue_send is genuine, and in its sender's order.
LEMMA OriginAlways == IpcSpec => []OriginInv
  <1>1. IpcInit => OriginInv
    <2>. SUFFICES ASSUME IpcInit PROVE OriginInv
      OBVIOUS
    <2>1. \A c \in Conns : routed[c] = <<>>
      BY DEF IpcInit
    <2>2. \A c \in Conns : DOMAIN routed[c] = {}
      BY <2>1
    <2>. QED  BY <2>2, ZenonT(60) DEF OriginInv, InOrder
  <1>2. TableInv /\ StreamOK /\ StreamOK' /\ OutLimits /\ OriginInv /\ [IpcNext]_ipcvars
          => OriginInv'
    <2>. SUFFICES ASSUME TableInv, StreamOK, StreamOK', OutLimits, OriginInv, [IpcNext]_ipcvars
                  PROVE  OriginInv'
      OBVIOUS
    <2>0. OutTypeOK
      BY DEF OutLimits
    <2>1. Settled
      BY StepSettled
    <2>2. CASE HandleFrame
      BY <2>0, <2>1, <2>2, HandleFrameOrigin
    <2>3. CASE UNCHANGED routed
      BY <2>0, <2>1, <2>3, OriginKept
    <2>. QED  BY <2>2, <2>3 DEF IpcNext, Server, Clients, Connect, Write, Close,
                 CollectAndPoll, Accept, SkipSlot, ServiceSlot, FlushSlot, CloseSlot, Destroy,
                 ipcvars, output
  <1>. QED  BY <1>1, <1>2, TableAlways, LimitsAlways, PTL DEF IpcSpec

\* Under the same conditions, a DELIVER that reaches a client stems from a SEND
\* to the name this client registered, bears its sender's name, and arrives in
\* the order of that sender's requests.
THEOREM DeliveryCorrect ==
    ASSUME ~AllocMayFail, TxLimit >= 2
    PROVE  IpcSpec => []DeliveredAsSent
  <1>3. TableInv /\ StreamOK /\ OutInv /\ OriginInv => DeliveredAsSent
    <2>. SUFFICES ASSUME StreamOK, TableTypeOK, OutInv, OriginInv,
                         NEW c \in Conns, NEW i \in DOMAIN wire[c], wire[c][i].type = "DELIVER"
                  PROVE  LET f == wire[c][i] IN
                         /\ f.seq \in DOMAIN sent[f.from]
                         /\ sent[f.from][f.seq].type = "SEND"
                         /\ sent[f.from][f.seq].name = name[c]
                         /\ f.src = name[f.from] /\ f.src # None
                         /\ \A j \in 1 .. i - 1 : wire[c][j].from = f.from => wire[c][j].seq < f.seq
      BY DEF DeliveredAsSent, TableInv
    <2>1. wire[c] \in Seq(Reply) /\ routed[c] \in Seq(Reply) /\ Prefix(wire[c], routed[c])
      BY DEF OutInv, OutTypeOK, OutOK
    <2>2. \A k \in DOMAIN wire[c] : k \in DOMAIN routed[c] /\ wire[c][k] = routed[c][k]
      BY <2>1 DEF Prefix
    <2>3. Genuine(c, wire[c][i]) /\ wire[c][i] \in Reply
      BY <2>1, <2>2 DEF OriginInv
    <2>4. wire[c][i].from \in Conns /\ wire[c][i].seq \in DOMAIN sent[wire[c][i].from]
      <3>1. wire[c][i].from # None /\ wire[c][i].seq \in 1 .. handled[wire[c][i].from]
        BY <2>3 DEF Genuine
      <3>2. wire[c][i].from \in Conns
        BY <2>3, <3>1 DEF Reply
      <3>3. /\ handled[wire[c][i].from] \in Nat /\ sent[wire[c][i].from] \in Seq(RealRequest)
            /\ handled[wire[c][i].from] <= Len(sent[wire[c][i].from])
        BY <3>2, SMTT(60) DEF StreamOK, TableTypeOK
      <3>. QED  BY <3>1, <3>2, <3>3
    <2>5. \A j \in 1 .. i - 1 : j \in DOMAIN wire[c] /\ j < i
      BY <2>1
    <2>6. \A j \in 1 .. i - 1 :
             wire[c][j].from = wire[c][i].from => wire[c][j].seq < wire[c][i].seq
      BY <2>2, <2>3, <2>5 DEF OriginInv, InOrder, Genuine
    <2>. QED  BY <2>3, <2>4, <2>6 DEF Genuine
  <1>4. IpcSpec => []OutInv
    BY OutAlways
  <1>. QED  BY <1>3, <1>4, TableAlways, OriginAlways, PTL
-----------------------------------------------------------------------------
(* Every request is accounted for *)

\* The answers that were queued for c, and where its requests were forwarded.
Answers(c) == {i \in DOMAIN routed[c] : routed[c][i].type # "DELIVER"}
HasFrom(q, c, k) == \E i \in DOMAIN q : q[i].from = c /\ q[i].seq = k
ForwardsIn(queues, n, c) == {p \in Conns \X (1 .. n) : HasFrom(queues[p[1]], c, p[2])}
Forwards(c) == ForwardsIn(routed, handled[c], c)

AnsweredInv ==
    \A c \in Conns : /\ IsFiniteSet(Answers(c)) /\ IsFiniteSet(Forwards(c))
                     /\ handled[c] = Cardinality(Answers(c)) + Cardinality(Forwards(c))

\* Queueing a frame adds it to its queue and to no other.
LEMMA Queued ==
    ASSUME OutTypeOK, NEW d \in Conns, NEW f \in Reply,
           routed' = [routed EXCEPT ![d] = Append(routed[d], f)]
    PROVE  /\ \A c \in Conns \ {d} : routed'[c] = routed[c]
           /\ DOMAIN routed'[d] = (DOMAIN routed[d]) \cup {Len(routed[d]) + 1}
           /\ Len(routed[d]) + 1 \notin DOMAIN routed[d]
           /\ routed'[d][Len(routed[d]) + 1] = f
           /\ \A i \in DOMAIN routed[d] : routed'[d][i] = routed[d][i]
  <1>1. /\ routed[d] \in Seq(Reply) /\ routed'[d] = Append(routed[d], f)
        /\ \A c \in Conns \ {d} : routed'[c] = routed[c]
    BY DEF OutTypeOK
  <1>. DEFINE q == routed[d]
  <1>2. q \in Seq(Reply)
    BY <1>1
  <1>. HIDE DEF q
  <1>3. /\ DOMAIN Append(q, f) = (DOMAIN q) \cup {Len(q) + 1} /\ Len(q) + 1 \notin DOMAIN q
        /\ Append(q, f)[Len(q) + 1] = f /\ \A i \in DOMAIN q : Append(q, f)[i] = q[i]
    BY <1>2
  <1>. QED  BY <1>1, <1>3 DEF q

\* Forwards are pairs, and a pair is one of them when its frame is there.
LEMMA ForwardPairs ==
    ASSUME NEW queues, NEW n \in Nat, NEW c
    PROVE  /\ ForwardsIn(queues, n, c) \subseteq Conns \X Nat
           /\ \A d \in Conns, k \in Nat :
                 <<d, k>> \in ForwardsIn(queues, n, c)
                 <=> k \in 1 .. n /\ HasFrom(queues[d], c, k)
  <1>1. ForwardsIn(queues, n, c) \subseteq Conns \X Nat
    BY DEF ForwardsIn
  <1>2. ASSUME NEW d \in Conns, NEW k \in Nat
        PROVE  <<d, k>> \in ForwardsIn(queues, n, c)
               <=> k \in 1 .. n /\ HasFrom(queues[d], c, k)
    <2>1. <<d, k>>[1] = d /\ <<d, k>>[2] = k
      OBVIOUS
    <2>2. <<d, k>> \in Conns \X (1 .. n) <=> k \in 1 .. n
      BY <1>2
    <2>. QED  BY <2>1, <2>2, ZenonT(60) DEF ForwardsIn
  <1>. QED  BY <1>1, <1>2

\* Sets of pairs with the same pairs are equal.
LEMMA SamePairs ==
    ASSUME NEW A \in SUBSET (Conns \X Nat), NEW B \in SUBSET (Conns \X Nat),
           \A d \in Conns, k \in Nat : <<d, k>> \in A <=> <<d, k>> \in B
    PROVE  A = B
  <1>1. \A x \in Conns \X Nat : \E d \in Conns, k \in Nat : x = <<d, k>>
    BY SMTT(60)
  <1>2. ASSUME NEW x \in Conns \X Nat PROVE x \in A <=> x \in B
    <2>1. PICK d \in Conns, k \in Nat : x = <<d, k>>
      BY <1>1
    <2>. QED  BY <2>1
  <1>. QED  BY <1>2, ZenonT(60)

\* An answer queued for c adds to the answers of c, and only to those.
LEMMA AnswerCounted ==
    ASSUME OutTypeOK, StreamOK, OriginInv, AnsweredInv, NEW c \in Conns, NEW f \in Answer,
           routed' = [routed EXCEPT ![c] = Append(routed[c], f)],
           handled' = [handled EXCEPT ![c] = handled[c] + 1]
    PROVE  AnsweredInv'
  <1>0. f \in Reply /\ f.type # "DELIVER" /\ f.from = None
    BY DEF Answer
  <1>. DEFINE n == Len(routed[c]) + 1
  <1>1. /\ \A e \in Conns \ {c} : routed'[e] = routed[e]
        /\ DOMAIN routed'[c] = (DOMAIN routed[c]) \cup {n} /\ n \notin DOMAIN routed[c]
        /\ routed'[c][n] = f /\ \A i \in DOMAIN routed[c] : routed'[c][i] = routed[c][i]
    BY <1>0, Queued
  <1>. HIDE DEF n
  <1>2. /\ handled'[c] = handled[c] + 1 /\ \A e \in Conns : handled[e] \in Nat /\ handled'[e] \in Nat
        /\ \A e \in Conns \ {c} : handled'[e] = handled[e]
    BY DEF StreamOK
  <1>3. Answers(c)' = Answers(c) \cup {n} /\ n \notin Answers(c)
    BY <1>0, <1>1 DEF Answers
  <1>4. \A e \in Conns \ {c} : Answers(e)' = Answers(e)
    BY <1>1 DEF Answers
  <1>5. ASSUME NEW e \in Conns, NEW d \in Conns, NEW k
        PROVE  HasFrom(routed'[d], e, k) <=> HasFrom(routed[d], e, k)
    <2>1. f.from # e
      BY <1>0, Constants
    <2>. QED  BY <1>1, <2>1, SMTT(60) DEF HasFrom
  <1>6. ASSUME NEW e \in Conns PROVE Forwards(e)' = Forwards(e)
    <2>1. ASSUME NEW d \in Conns, NEW k \in Nat, HasFrom(routed[d], e, k) PROVE k \in 1 .. handled[e]
      BY <2>1, Constants DEF OriginInv, Genuine, HasFrom
    <2>2. \A k \in Nat : k \in 1 .. handled[e] => k \in 1 .. handled'[e]
      BY <1>2
    <2>. DEFINE A == ForwardsIn(routed, handled[e], e)
                B == ForwardsIn(routed', handled'[e], e)
    <2>3. /\ A \subseteq Conns \X Nat
          /\ \A d \in Conns, k \in Nat : <<d, k>> \in A <=> k \in 1 .. handled[e] /\ HasFrom(routed[d], e, k)
      BY <1>2, ForwardPairs
    <2>4. /\ B \subseteq Conns \X Nat
          /\ \A d \in Conns, k \in Nat : <<d, k>> \in B <=> k \in 1 .. handled'[e] /\ HasFrom(routed'[d], e, k)
      <3>1. handled'[e] \in Nat
        BY <1>2
      <3>. QED  BY <3>1, ForwardPairs, ZenonT(60)
    <2>. HIDE DEF A, B
    <2>5. \A d \in Conns, k \in Nat : <<d, k>> \in A <=> <<d, k>> \in B
      BY <1>5, <2>1, <2>2, <2>3, <2>4, ZenonT(60)
    <2>6. A = B
      BY <2>3, <2>4, <2>5, SamePairs, ZenonT(60)
    <2>. QED  BY <2>6, ZenonT(60) DEF Forwards, A, B
  <1>7. IsFiniteSet(Answers(c)) /\ IsFiniteSet(Forwards(c))
    BY ZenonT(60) DEF AnsweredInv
  <1>8. /\ IsFiniteSet(Answers(c)') /\ Cardinality(Answers(c)') = Cardinality(Answers(c)) + 1
        /\ Cardinality(Answers(c)) \in Nat /\ Cardinality(Forwards(c)) \in Nat
    <2>1. /\ IsFiniteSet(Answers(c) \cup {n})
          /\ Cardinality(Answers(c) \cup {n}) = Cardinality(Answers(c)) + 1
      BY <1>3, <1>7, FS_AddElement, ZenonT(60)
    <2>2. Cardinality(Answers(c)) \in Nat /\ Cardinality(Forwards(c)) \in Nat
      BY <1>7, FS_CardinalityType, ZenonT(60)
    <2>. QED  BY <1>3, <2>1, <2>2, ZenonT(60)
  <1>9. handled'[c] = Cardinality(Answers(c)') + Cardinality(Forwards(c)')
    <2>1. handled[c] = Cardinality(Answers(c)) + Cardinality(Forwards(c))
      BY ZenonT(60) DEF AnsweredInv
    <2>2. Forwards(c)' = Forwards(c)
      BY <1>6
    <2>3. ASSUME NEW x \in Nat, NEW y \in Nat PROVE x + y + 1 = x + 1 + y
      OBVIOUS
    <2>. QED  BY <1>2, <1>8, <2>1, <2>2, <2>3, ZenonT(60)
  <1>10. ASSUME NEW e \in Conns \ {c}
         PROVE  /\ IsFiniteSet(Answers(e)') /\ IsFiniteSet(Forwards(e)')
                /\ handled'[e] = Cardinality(Answers(e)') + Cardinality(Forwards(e)')
    <2>1. Answers(e)' = Answers(e) /\ Forwards(e)' = Forwards(e) /\ handled'[e] = handled[e]
      BY <1>2, <1>4, <1>6, ZenonT(60)
    <2>. QED  BY <2>1, ZenonT(60) DEF AnsweredInv
  <1>11. IsFiniteSet(Forwards(c)')
    BY <1>6, <1>7, ZenonT(60)
  <1>. QED  BY <1>8, <1>9, <1>10, <1>11, ZenonT(60) DEF AnsweredInv

\* A request of c that is passed on to d adds to the forwards of c, and to
\* nothing else.
LEMMA ForwardCounted ==
    ASSUME OutTypeOK, StreamOK, OriginInv, AnsweredInv, NEW c \in Conns, NEW d \in Conns,
           NEW f \in Forward(c, handled[c] + 1),
           routed' = [routed EXCEPT ![d] = Append(routed[d], f)],
           handled' = [handled EXCEPT ![c] = handled[c] + 1]
    PROVE  AnsweredInv'
  <1>. DEFINE n == Len(routed[d]) + 1
              k0 == handled[c] + 1
  <1>0. f \in Reply /\ f.type = "DELIVER" /\ f.from = c /\ f.seq = k0
    BY DEF Forward
  <1>1. /\ \A e \in Conns \ {d} : routed'[e] = routed[e]
        /\ DOMAIN routed'[d] = (DOMAIN routed[d]) \cup {n} /\ n \notin DOMAIN routed[d]
        /\ routed'[d][n] = f /\ \A i \in DOMAIN routed[d] : routed'[d][i] = routed[d][i]
    BY <1>0, Queued
  <1>. HIDE DEF n
  <1>2. /\ handled'[c] = k0 /\ \A e \in Conns : handled[e] \in Nat /\ handled'[e] \in Nat
        /\ \A e \in Conns \ {c} : handled'[e] = handled[e]
        /\ k0 \in Nat /\ k0 \in 1 .. handled'[c] /\ k0 \notin 1 .. handled[c]
    BY DEF StreamOK
  <1>. HIDE DEF k0
  <1>3. \A e \in Conns : Answers(e)' = Answers(e)
    <2>1. Answers(d)' = Answers(d)
      BY <1>0, <1>1 DEF Answers
    <2>2. \A e \in Conns \ {d} : Answers(e)' = Answers(e)
      BY <1>1 DEF Answers
    <2>. QED  BY <2>1, <2>2, ZenonT(60)
  <1>4. ASSUME NEW e \in Conns, NEW a \in Conns, NEW k
        PROVE  HasFrom(routed'[a], e, k)
               <=> HasFrom(routed[a], e, k) \/ (a = d /\ e = c /\ k = k0)
    BY <1>0, <1>1, SMTT(60) DEF HasFrom
  <1>5. ASSUME NEW e \in Conns
        PROVE  /\ \A a \in Conns, k \in Nat :
                     <<a, k>> \in Forwards(e)' <=> <<a, k>> \in Forwards(e) \/ (a = d /\ e = c /\ k = k0)
               /\ Forwards(e) \subseteq Conns \X Nat /\ Forwards(e)' \subseteq Conns \X Nat
               /\ <<d, k0>> \notin Forwards(c)
    <2>1. ASSUME NEW a \in Conns, NEW k \in Nat, HasFrom(routed[a], e, k) PROVE k \in 1 .. handled[e]
      BY <2>1, Constants, SMTT(60) DEF OriginInv, Genuine, HasFrom
    <2>2. \A k \in Nat : k \in 1 .. handled[e] => k \in 1 .. handled'[e]
      <3>1. CASE e = c
        <4>1. handled[c] \in Nat /\ handled'[c] = handled[c] + 1
          BY <1>2 DEF k0
        <4>. QED  BY <3>1, <4>1
      <3>2. CASE e # c
        BY <1>2, <3>2
      <3>. QED  BY <3>1, <3>2
    <2>. DEFINE A == ForwardsIn(routed, handled[e], e)
                B == ForwardsIn(routed', handled'[e], e)
    <2>3. /\ A \subseteq Conns \X Nat
          /\ \A a \in Conns, k \in Nat : <<a, k>> \in A <=> k \in 1 .. handled[e] /\ HasFrom(routed[a], e, k)
      BY <1>2, ForwardPairs
    <2>4. /\ B \subseteq Conns \X Nat
          /\ \A a \in Conns, k \in Nat : <<a, k>> \in B <=> k \in 1 .. handled'[e] /\ HasFrom(routed'[a], e, k)
      BY <1>2, ForwardPairs
    <2>5. <<d, k0>> \notin ForwardsIn(routed, handled[c], c)
      BY <1>2, ForwardPairs, ZenonT(60)
    <2>. HIDE DEF A, B
    <2>6. \A a \in Conns, k \in Nat : <<a, k>> \in B <=> <<a, k>> \in A \/ (a = d /\ e = c /\ k = k0)
      BY <1>2, <1>4, <2>1, <2>2, <2>3, <2>4, ZenonT(60)
    <2>. QED  BY <2>3, <2>4, <2>5, <2>6, ZenonT(60) DEF Forwards, A, B
  <1>6. \A e \in Conns \ {c} : Forwards(e)' = Forwards(e)
    <2>. SUFFICES ASSUME NEW e \in Conns \ {c} PROVE Forwards(e)' = Forwards(e)
      OBVIOUS
    <2>1. /\ \A a \in Conns, k \in Nat : <<a, k>> \in Forwards(e)' <=> <<a, k>> \in Forwards(e)
          /\ Forwards(e) \subseteq Conns \X Nat /\ Forwards(e)' \subseteq Conns \X Nat
      BY <1>5, ZenonT(60)
    <2>. QED  BY <2>1, SamePairs, ZenonT(60)
  <1>. DEFINE more == Forwards(c) \cup {<<d, k0>>}
  <1>7. Forwards(c)' = more
    <2>1. /\ \A a \in Conns, k \in Nat :
                <<a, k>> \in Forwards(c)' <=> <<a, k>> \in Forwards(c) \/ (a = d /\ k = k0)
          /\ Forwards(c) \subseteq Conns \X Nat /\ Forwards(c)' \subseteq Conns \X Nat
      BY <1>5, ZenonT(60)
    <2>2. <<d, k0>> \in Conns \X Nat
      BY <1>2, SMTT(60)
    <2>3. more \subseteq Conns \X Nat
      BY <2>1, <2>2, ZenonT(60)
    <2>4. ASSUME NEW a \in Conns, NEW k \in Nat
          PROVE  <<a, k>> \in more <=> <<a, k>> \in Forwards(c) \/ (a = d /\ k = k0)
      OBVIOUS
    <2>. HIDE DEF more
    <2>. QED  BY <2>1, <2>3, <2>4, SamePairs, ZenonT(60)
  <1>8. IsFiniteSet(Answers(c)) /\ IsFiniteSet(Forwards(c))
    BY ZenonT(60) DEF AnsweredInv
  <1>9. /\ IsFiniteSet(Forwards(c)') /\ Cardinality(Forwards(c)') = Cardinality(Forwards(c)) + 1
        /\ Cardinality(Answers(c)) \in Nat /\ Cardinality(Forwards(c)) \in Nat
    <2>1. <<d, k0>> \notin Forwards(c)
      BY <1>5
    <2>2. IsFiniteSet(more) /\ Cardinality(more) = Cardinality(Forwards(c)) + 1
      BY <1>8, <2>1, FS_AddElement, ZenonT(60)
    <2>3. Cardinality(Answers(c)) \in Nat /\ Cardinality(Forwards(c)) \in Nat
      BY <1>8, FS_CardinalityType, ZenonT(60)
    <2>. HIDE DEF more
    <2>. QED  BY <1>7, <2>2, <2>3, ZenonT(60)
  <1>10. handled'[c] = Cardinality(Answers(c)') + Cardinality(Forwards(c)')
    <2>1. handled[c] = Cardinality(Answers(c)) + Cardinality(Forwards(c))
      BY ZenonT(60) DEF AnsweredInv
    <2>2. Answers(c)' = Answers(c)
      BY <1>3
    <2>3. ASSUME NEW x \in Nat, NEW y \in Nat PROVE x + y + 1 = x + (y + 1)
      OBVIOUS
    <2>4. handled'[c] = handled[c] + 1
      BY <1>2 DEF k0
    <2>. QED  BY <1>9, <2>1, <2>2, <2>3, <2>4, ZenonT(60)
  <1>. QED  BY <1>2, <1>3, <1>6, <1>8, <1>9, <1>10, ZenonT(60) DEF AnsweredInv

\* For any number of connections and whether or not memory runs out: each
\* request that handle_message takes is answered to its sender or forwarded to
\* one connection, exactly once.
THEOREM RequestsAnswered == IpcSpec => []EveryRequestAnswered
  <1>1. IpcInit => AnsweredInv
    <2>. SUFFICES ASSUME IpcInit, NEW c \in Conns
                  PROVE  /\ IsFiniteSet(Answers(c)) /\ IsFiniteSet(Forwards(c))
                         /\ handled[c] = Cardinality(Answers(c)) + Cardinality(Forwards(c))
      BY DEF AnsweredInv
    <2>1. Answers(c) = {} /\ Forwards(c) = {} /\ handled[c] = 0
      BY DEF IpcInit, Answers, Forwards, ForwardsIn
    <2>. QED  BY <2>1, FS_EmptySet, SMTT(60)
  <1>2. TableInv /\ StreamOK /\ OutLimits /\ OriginInv /\ AnsweredInv /\ [IpcNext]_ipcvars
          => AnsweredInv'
    <2>. SUFFICES ASSUME TableInv, StreamOK, OutLimits, OriginInv, AnsweredInv, [IpcNext]_ipcvars
                  PROVE  AnsweredInv'
      OBVIOUS
    <2>1. OutTypeOK /\ sat \in Values \cup {None}
      BY DEF OutLimits
    <2>2. CASE UNCHANGED <<routed, handled>>
      <3>1. \A c \in Conns : Answers(c)' = Answers(c) /\ Forwards(c)' = Forwards(c)
        BY <2>2, ZenonT(60) DEF Answers, Forwards
      <3>. QED  BY <2>2, <3>1, ZenonT(60) DEF AnsweredInv
    <2>3. CASE HandleFrame
      <3>1. PICK c \in Conns :
              \/ UNCHANGED <<handled, routed>>
              \/ /\ handled' = [handled EXCEPT ![c] = handled[c] + 1]
                 /\ \/ \E f \in Answer : Given(c, f)
                    \/ \E d \in Conns : \E f \in Forward(c, handled[c] + 1) : Given(d, f)
        BY <2>1, <2>3, FrameHandled, ZenonT(60)
      <3>2. ASSUME handled' = [handled EXCEPT ![c] = handled[c] + 1],
                   NEW f \in Answer, Given(c, f)
            PROVE  AnsweredInv'
        BY <2>1, <3>2, AnswerCounted DEF Given
      <3>3. ASSUME handled' = [handled EXCEPT ![c] = handled[c] + 1],
                   NEW d \in Conns, NEW f \in Forward(c, handled[c] + 1), Given(d, f)
            PROVE  AnsweredInv'
        BY <2>1, <3>3, ForwardCounted DEF Given
      <3>. QED  BY <2>2, <3>1, <3>2, <3>3, ZenonT(60)
    <2>. QED  BY <2>2, <2>3 DEF IpcNext, Server, Clients, Connect, Write, Close,
                 CollectAndPoll, Accept, SkipSlot, ServiceSlot, FlushSlot, CloseSlot, Destroy,
                 ipcvars, output, stream
  <1>3. AnsweredInv => EveryRequestAnswered
    BY ZenonT(60) DEF AnsweredInv, Answers, Forwards, ForwardsIn, HasFrom, EveryRequestAnswered
  <1>. QED  BY <1>1, <1>2, <1>3, TableAlways, LimitsAlways, OriginAlways, PTL DEF IpcSpec
=============================================================================
