----------------------------- MODULE WireProofs -----------------------------
(***************************************************************************)
(* Proofs about the two ends of the wire.  The hub: its table of peers,    *)
(* for every number of slots, every set of connections and every stream of *)
(* bytes, and its start, for any number of calls of the script.  A         *)
(* machine: the receive buffer of msg.c, for every width of a byte, every  *)
(* longest payload and every stream of bytes.                              *)
(***************************************************************************)
EXTENDS Hub, Launch, Msg, WellFoundedInduction, TLAPS

PeerType == [conn : Conns \cup {NoConn}, node : Byte \cup {NoNode}, buf : Seq(Byte)]
SockType == [state : {"off", "backlog", "open", "rejected"}, closed : BOOLEAN, up : Seq(Byte)]
LogType == [due : Seq(Seq(Byte)), wrong : BOOLEAN, clean : BOOLEAN, sender : Byte \cup {NoNode}]

Typed == /\ peers \in [Slot -> PeerType]
         /\ sock \in [Conns -> SockType]
         /\ log \in [Conns -> LogType]
         /\ last \in [Byte -> Conns \cup {NoConn}]
         /\ pc \in {"poll", "serve", "process"}
         /\ ready \in SUBSET (Slot \X Conns)

\* A live slot has an accepted connection, and no other slot has it.
SlotsApart(p, s) ==
  /\ \A i \in Live(p) : s[p[i].conn].state = "open"
  /\ \A i, j \in Live(p) : p[i].conn = p[j].conn => i = j

\* A connection that was not accepted has announced nothing.
SilentBefore == \A c \in Conns : sock[c].state \in {"off", "backlog"} => log[c].sender = NoNode

\* TableIsLatest, for any table and histories.
NodeOf(c, g, l) == IF g[c].sender # NoNode /\ l[g[c].sender] = c THEN g[c].sender ELSE NoNode
Latest(p, g, l) == \A i \in Live(p) : p[i].node = NodeOf(p[i].conn, g, l)

Processing == pc = "process" => cur \in Slot /\ peers[cur].conn # NoConn

\* The inductive invariant.
HInv == /\ Typed /\ SlotsApart(peers, sock) /\ SilentBefore
        /\ Latest(peers, log, last) /\ Processing /\ PollStillValid

-----------------------------------------------------------------------------
\* A non-empty set of naturals has a least element, and Min is it.
LEMMA LeastNat ==
  ASSUME NEW T \in SUBSET Nat, T # {}
  PROVE  \E x \in T : \A y \in T : x <= y
<1> DEFINE R == OpToRel(<, Nat)
<1>1. \E x \in T : \A y \in T : ~ (<<y, x>> \in R)
  <2> HIDE DEF R
  <2>1. IsWellFoundedOn(R, Nat)
    BY NatLessThanWellFounded, Zenon DEF R
  <2>. QED
    BY <2>1, WFMin, Zenon
<1>2. \A x, y \in T : <<y, x>> \notin R => x <= y
  BY DEF OpToRel
<1>. QED
  BY <1>1, <1>2, Zenon

\* The least of a non-empty set of naturals is in it.
LEMMA MinIn ==
  ASSUME NEW T \in SUBSET Nat, T # {}
  PROVE  Min(T) \in T
BY LeastNat, Zenon DEF Min

\* The first entry of a non-empty poll result is one of its entries.
LEMMA FirstIn ==
  ASSUME NEW r \in SUBSET (Slot \X Conns), r # {}
  PROVE  First(r) \in r
<1> DEFINE T == {e[1] : e \in r}
<1>1. T \in SUBSET Nat /\ T # {}
  BY HubAssumption DEF Slot
<1>2. \E x \in T : \A y \in T : x <= y
  <2> HIDE DEF T
  <2>. QED
    BY <1>1, LeastNat, Zenon
<1>3. \E e \in r : \A f \in r : e[1] <= f[1]
  BY <1>2, Zenon
<1>. QED
  BY <1>3, Zenon DEF First

\* In a buffer with bytes the search stops at one of them, which is not refused: the
\* last byte never is.
LEMMA StartIn ==
  ASSUME NEW buf \in Seq(Byte), buf # <<>>
  PROVE  Start(buf) \in DOMAIN buf /\ ~Refused(buf, Start(buf))
<1> DEFINE T == {i \in DOMAIN buf : ~Refused(buf, i)}
<1>1. Len(buf) \in DOMAIN buf /\ Len(buf) \in Nat
  OBVIOUS
<1>2. ~Refused(buf, Len(buf))
  <2>1. Len(buf) - Len(buf) + 1 = 1
    BY <1>1
  <2>. QED
    BY <2>1 DEF Refused, HdrLen
<1>3. T \in SUBSET Nat /\ T # {}
  BY <1>1, <1>2
<1>4. Min(T) \in T
  <2> HIDE DEF T
  <2>. QED
    BY <1>3, MinIn, Zenon
<1>. QED
  BY <1>4, Zenon DEF Start

\* The bytes kept are bytes, and a frame that is found has a sender.
LEMMA ExtractType ==
  ASSUME NEW buf \in Seq(Byte)
  PROVE  /\ Extract(buf).rest \in Seq(Byte)
         /\ Extract(buf).frame \in Seq(Byte)
         /\ Extract(buf).frame # <<>> => Extract(buf).frame[3] \in Byte
<1> DEFINE s == Start(buf)
           rest == SubSeq(buf, s, Len(buf))
           total == HdrLen + LengthOf(rest) + 1
<1>1. s \in Nat /\ s >= 1
  <2>1. CASE buf = <<>>
    BY <2>1 DEF Start
  <2>2. CASE buf # <<>>
    BY <2>2, StartIn
  <2>. QED
    BY <2>1, <2>2, Zenon
<1>2. rest \in Seq(Byte)
  <2> HIDE DEF s
  <2>. QED
    BY <1>1
<1> HIDE DEF rest
<1>3. CASE Len(rest) < HdrLen \/ Len(rest) < total
  <2>1. Extract(buf) = [frame |-> <<>>, rest |-> rest]
    BY <1>3, Zenon DEF Extract, rest
  <2>. QED
    BY <2>1, <1>2
<1>4. CASE ~(Len(rest) < HdrLen \/ Len(rest) < total)
  <2> DEFINE f == SubSeq(rest, 1, total)
             g == SubSeq(rest, total + 1, Len(rest))
  <2>1. Extract(buf) = [frame |-> f, rest |-> g]
    BY <1>4, Zenon DEF Extract, rest
  <2>2. LengthOf(rest) \in Nat
    <3>1. Len(rest) \in Nat /\ Len(rest) >= 6
      BY <1>2, <1>4 DEF HdrLen
    <3>2. rest[5] \in Byte /\ rest[6] \in Byte
      BY <1>2, <3>1
    <3>3. ByteValues \in Nat
      BY WireAssumption, Zenon
    <3>4. rest[5] \in Nat /\ rest[6] \in Nat
      BY <3>2, <3>3 DEF Byte
    <3>. QED
      BY <3>3, <3>4 DEF LengthOf
  <2>3. total \in Nat /\ total >= 7 /\ total <= Len(rest)
    BY <2>2, <1>2, <1>4 DEF HdrLen
  <2> HIDE DEF total
  <2>4. f \in Seq(Byte) /\ g \in Seq(Byte)
    BY <2>3, <1>2
  <2>5. f[3] = rest[3] /\ rest[3] \in Byte
    BY <2>3, <1>2
  <2> HIDE DEF f, g
  <2>6. Extract(buf).frame = f /\ Extract(buf).rest = g
    BY <2>1
  <2>. QED
    BY <2>4, <2>5, <2>6, Zenon
<1>. QED
  BY <1>3, <1>4, Zenon

-----------------------------------------------------------------------------
\* Learning moves an id: afterwards the sender's slot has it, no other slot does,
\* and everything else is as before.
LEMMA LearnMoves ==
  ASSUME NEW idx \in Slot, NEW n \in Byte, HInv, peers[idx].conn # NoConn
  PROVE  LET p == Learn(peers, idx, n)
         IN  /\ p \in [Slot -> PeerType]
             /\ \A i \in Slot : p[i].conn = peers[i].conn /\ p[i].buf = peers[i].buf
             /\ p[idx].node = n
             /\ \A i \in Live(peers) \ {idx} :
                  p[i].node = IF peers[i].node = n THEN NoNode ELSE peers[i].node
<1> DEFINE p == Learn(peers, idx, n)
<1>1. n # NoNode
  BY WireAssumption DEF Byte, NoNode
<1>2. \A i, j \in FindByNode(peers, n) : i = j
  BY <1>1 DEF HInv, SlotsApart, Latest, NodeOf, FindByNode, Live
<1>3. peers \in [Slot -> PeerType] /\ Slot \in SUBSET Nat
  BY HubAssumption DEF HInv, Typed, Slot
<1>4. CASE peers[idx].node = n
  <2>1. p = peers
    BY <1>4, Zenon DEF Learn
  <2>2. idx \in FindByNode(peers, n)
    BY <1>4, Zenon DEF FindByNode, Live
  <2>3. \A i \in Live(peers) \ {idx} : peers[i].node # n
    BY <1>2, <2>2, Zenon DEF FindByNode
  <2>. QED
    BY <1>3, <1>4, <2>1, <2>3, Zenon
<1>5. CASE peers[idx].node # n
  <2>1. \A i \in FindByNode(peers, n) : \A j \in FindByNode(peers, n) : i <= j
    BY <1>2, <1>3 DEF FindByNode, Live
  <2>2. p = [i \in Slot |-> IF i = idx THEN [peers[i] EXCEPT !.node = n]
                          ELSE IF i \in FindByNode(peers, n)
                          THEN [peers[i] EXCEPT !.node = NoNode] ELSE peers[i]]
    BY <1>5, <2>1, Zenon DEF Learn
  <2>3. \A i \in Slot, m \in Byte \cup {NoNode} :
          /\ [peers[i] EXCEPT !.node = m] \in PeerType
          /\ [peers[i] EXCEPT !.node = m].conn = peers[i].conn
          /\ [peers[i] EXCEPT !.node = m].buf = peers[i].buf
          /\ [peers[i] EXCEPT !.node = m].node = m
    BY <1>3, Zenon DEF PeerType
  <2>4. p[idx] = [peers[idx] EXCEPT !.node = n]
    BY <2>2, Zenon
  <2>5. \A i \in Slot \ {idx} : p[i] = IF i \in FindByNode(peers, n)
                                     THEN [peers[i] EXCEPT !.node = NoNode] ELSE peers[i]
    BY <2>2, Zenon
  <2> HIDE DEF p
  <2>6. ASSUME NEW i \in Slot
        PROVE  /\ p[i] \in PeerType
               /\ p[i].conn = peers[i].conn /\ p[i].buf = peers[i].buf
    <3>1. \/ p[i] = peers[i]
          \/ \E m \in Byte \cup {NoNode} : p[i] = [peers[i] EXCEPT !.node = m]
      BY <2>4, <2>5, Zenon
    <3>2. CASE p[i] = peers[i]
      BY <3>2, <1>3, Zenon
    <3>3. ASSUME NEW m \in Byte \cup {NoNode}, p[i] = [peers[i] EXCEPT !.node = m]
          PROVE  /\ p[i] \in PeerType
                 /\ p[i].conn = peers[i].conn /\ p[i].buf = peers[i].buf
      BY <3>3, <2>3
    <3>. QED
      BY <3>1, <3>2, <3>3, Zenon
  <2>7. p \in [Slot -> PeerType]
    BY <2>2, <2>6, Zenon
  <2>8. p[idx].node = n
    BY <2>3, <2>4
  <2>9. ASSUME NEW i \in Live(peers) \ {idx}
        PROVE  p[i].node = IF peers[i].node = n THEN NoNode ELSE peers[i].node
    <3>1. i \in Slot /\ (i \in FindByNode(peers, n) <=> peers[i].node = n)
      BY Zenon DEF FindByNode, Live
    <3>2. CASE peers[i].node = n
      <4>1. p[i] = [peers[i] EXCEPT !.node = NoNode]
        BY <2>5, <3>1, <3>2, Zenon
      <4>. QED
        BY <4>1, <3>1, <3>2, <2>3, SMTT(20)
    <3>3. CASE peers[i].node # n
      BY <2>5, <3>1, <3>3, Zenon
    <3>. QED
      BY <3>2, <3>3, Zenon
  <2>. QED
    BY <2>6, <2>7, <2>8, <2>9, Zenon DEF p
<1>. QED
  BY <1>4, <1>5, Zenon

\* Dropping peers keeps the slots apart and the table right.
LEMMA DropKeeps ==
  ASSUME NEW p \in [Slot -> PeerType], NEW s, NEW g, NEW l, NEW S \in SUBSET Slot,
         SlotsApart(p, s), Latest(p, g, l)
  PROVE  /\ DropAll(p, S) \in [Slot -> PeerType]
         /\ SlotsApart(DropAll(p, S), s) /\ Latest(DropAll(p, S), g, l)
         /\ \A i \in Slot : DropAll(p, S)[i].conn \in {p[i].conn, NoConn}
         /\ \A i \in Slot \ S : DropAll(p, S)[i] = p[i]
<1>1. NoPeer \in PeerType /\ NoPeer.conn = NoConn
  BY DEF NoPeer, PeerType
<1>. QED
  BY <1>1, Zenon DEF DropAll, SlotsApart, Latest, Live

\* The hub starts with the invariant.
LEMMA InitHInv == Init => HInv
<1> SUFFICES ASSUME Init PROVE HInv
  BY Zenon
<1>1. NoPeer \in PeerType /\ NoPeer.conn = NoConn
  BY DEF NoPeer, PeerType
<1>2. Typed
  BY <1>1 DEF Init, Typed, SockType, LogType
<1>3. Live(peers) = {}
  BY <1>1, Zenon DEF Init, Live
<1>. QED
  BY <1>2, <1>3, Zenon DEF Init, HInv, SlotsApart, SilentBefore, Latest, Processing, PollStillValid

-----------------------------------------------------------------------------
\* A machine's step leaves the table alone.
LEMMA MachineKeeps ==
  ASSUME HInv, NEW c \in Conns, Connect(c) \/ Close(c) \/ \E x \in Items : Write(c, x)
  PROVE  HInv'
<1> USE DEF HInv
<1> DEFINE Kept ==
      /\ UNCHANGED <<peers, pc, ready, cur, last>>
      /\ sock' \in [Conns -> SockType] /\ log' \in [Conns -> LogType]
      /\ \A d \in Conns : /\ log'[d].sender = log[d].sender
                          /\ sock'[d].state = "open" <=> sock[d].state = "open"
                          /\ sock'[d].state \in {"off", "backlog"}
                             => sock[d].state \in {"off", "backlog"}
<1>1. Kept
  <2>1. CASE Connect(c)
    BY <2>1, Zenon DEF Connect, Typed, SockType
  <2>2. CASE Close(c)
    BY <2>2, Zenon DEF Close, Typed, SockType
  <2>3. ASSUME NEW x \in Items, Write(c, x)
        PROVE  Kept
    <3>1. x.bytes \in Seq(Byte) /\ x.whole \in BOOLEAN
      BY HubAssumption, Zenon
    <3>2. sock' \in [Conns -> SockType] /\ \A d \in Conns : sock'[d].state = sock[d].state
      <4> DEFINE h == sock[c]
                 up == h.up \o x.bytes
      <4>1. h \in SockType
        BY Zenon DEF Typed
      <4>2. up \in Seq(Byte)
        BY <3>1, <4>1 DEF SockType
      <4>3. sock' = [sock EXCEPT ![c] = [h EXCEPT !.up = up]]
        BY <2>3, Zenon DEF Write
      <4> HIDE DEF up, h
      <4>4. [h EXCEPT !.up = up] \in SockType /\ [h EXCEPT !.up = up].state = h.state
        BY <4>1, <4>2, Zenon DEF SockType
      <4>. QED
        BY <4>3, <4>4, Zenon DEF Typed, h
    <3>3. LogWrite(log[c], x) \in LogType /\ LogWrite(log[c], x).sender = log[c].sender
      <4> DEFINE h == log[c]
                 clean == h.clean /\ (x.whole \/ Magic0 \notin ToSet(x.bytes))
                 due == IF ~clean THEN <<>> ELSE IF x.whole THEN Append(h.due, x.bytes) ELSE h.due
      <4>1. h \in LogType
        BY Zenon DEF Typed
      <4>2. clean \in BOOLEAN /\ due \in Seq(Seq(Byte))
        BY <3>1, <4>1 DEF LogType
      <4>3. LogWrite(h, x) = [h EXCEPT !.clean = clean, !.due = due]
        BY Zenon DEF LogWrite
      <4> HIDE DEF clean, due, h
      <4>4. LogWrite(h, x) \in LogType /\ LogWrite(h, x).sender = h.sender
        BY <4>1, <4>2, <4>3, Zenon DEF LogType
      <4>. QED
        BY <4>4, Zenon DEF h
    <3>4. log' = [log EXCEPT ![c] = LogWrite(log[c], x)]
      BY <2>3, Zenon DEF Write
    <3>5. log' \in [Conns -> LogType] /\ \A d \in Conns : log'[d].sender = log[d].sender
      BY <3>3, <3>4, Zenon DEF Typed
    <3>. QED
      BY <2>3, <3>2, <3>5, Zenon DEF Write
  <2>. QED
    BY <2>1, <2>2, <2>3, Zenon
<1>2. Typed'
  BY <1>1, Zenon DEF Typed
<1>3. \A i \in Live(peers) : peers[i].conn \in Conns
  BY Zenon DEF Typed, Live, PeerType
<1>4. SlotsApart(peers, sock)'
  BY <1>1, <1>3, Zenon DEF SlotsApart, Live
<1>5. Latest(peers, log, last)'
  BY <1>1, <1>3, Zenon DEF Latest, NodeOf, Live
<1>6. SilentBefore'
  BY <1>1, Zenon DEF SilentBefore
<1>. QED
  BY <1>1, <1>2, <1>4, <1>5, <1>6, Zenon DEF Processing, PollStillValid

\* What poll returns: connections in the slots they are in.
LEMMA PolledType ==
  ASSUME HInv
  PROVE  {<<i, peers[i].conn>> : i \in ReadySlots} \in SUBSET (Slot \X Conns)
BY DEF HInv, Typed, ReadySlots, Live, PeerType

\* A new connection goes to a free slot, without an id.
LEMMA AcceptKeeps ==
  ASSUME HInv, NEW c \in Conns, PollAccept(c)
  PROVE  HInv'
<1> DEFINE k == Min(FreeSlots)
<1>1. k \in Slot /\ peers[k].conn = NoConn
  <2>1. FreeSlots \in SUBSET Nat /\ FreeSlots # {}
    BY HubAssumption DEF PollAccept, FreeSlots, Slot
  <2>2. k \in FreeSlots
    BY <2>1, MinIn, Zenon
  <2>. QED
    BY <2>2, Zenon DEF FreeSlots, Live
<1> HIDE DEF k
<1>2. sock[c].state = "backlog" /\ c # NoConn
  BY HubAssumption, Zenon DEF PollAccept, Backlog
<1>3. /\ peers' = [peers EXCEPT ![k] = [NoPeer EXCEPT !.conn = c]]
      /\ [NoPeer EXCEPT !.conn = c] \in PeerType
      /\ [NoPeer EXCEPT !.conn = c].conn = c
      /\ [NoPeer EXCEPT !.conn = c].node = NoNode
  <2>1. [NoPeer EXCEPT !.conn = c] = [conn |-> c, node |-> NoNode, buf |-> <<>>]
    BY DEF NoPeer
  <2>2. [conn |-> c, node |-> NoNode, buf |-> <<>>] \in PeerType
    BY DEF PeerType
  <2>3. peers' = [peers EXCEPT ![k] = [NoPeer EXCEPT !.conn = c]]
    BY Zenon DEF PollAccept, k
  <2>. QED
    BY <2>1, <2>2, <2>3, Zenon
<1>4. sock' \in [Conns -> SockType] /\ sock'[c].state = "open"
      /\ \A d \in Conns \ {c} : sock'[d] = sock[d]
  BY Zenon DEF PollAccept, HInv, Typed, SockType
<1>5. peers' \in [Slot -> PeerType] /\ peers'[k].conn = c /\ peers'[k].node = NoNode
      /\ \A i \in Slot \ {k} : peers'[i] = peers[i]
  BY <1>1, <1>3, Zenon DEF HInv, Typed
<1>6. \A i \in Live(peers) : i # k /\ peers[i].conn # c /\ peers[i].conn \in Conns
  BY <1>1, <1>2, Zenon DEF HInv, SlotsApart, Live, Typed, PeerType
<1>7. Live(peers') = Live(peers) \cup {k}
  BY <1>1, <1>2, <1>5, Zenon DEF Live
<1>8. Typed'
  BY <1>4, <1>5, PolledType, Zenon DEF PollAccept, HInv, Typed
<1>9. SlotsApart(peers, sock)'
  BY <1>4, <1>5, <1>6, <1>7, SMTT(20) DEF HInv, SlotsApart, Live
<1>10. Latest(peers, log, last)'
  <2>1. log[c].sender = NoNode
    BY <1>2, Zenon DEF HInv, SilentBefore
  <2>2. log' = log /\ last' = last
    BY Zenon DEF PollAccept
  <2>3. peers'[k].node = NodeOf(peers'[k].conn, log, last)
    BY <1>5, <2>1, Zenon DEF NodeOf
  <2>4. \A i \in Live(peers) : peers'[i].node = NodeOf(peers'[i].conn, log, last)
    BY <1>5, <1>6, Zenon DEF HInv, Latest, Live
  <2>. QED
    BY <1>7, <2>2, <2>3, <2>4, Zenon DEF Latest
<1>11. PollStillValid'
  <2>1. ASSUME NEW e \in ready' PROVE peers'[e[1]].conn \in {e[2], NoConn}
    <3>1. PICK i \in ReadySlots : e = <<i, peers[i].conn>>
      BY Zenon DEF PollAccept
    <3>2. i \in Live(peers) /\ i \in Slot
      BY Zenon DEF ReadySlots, Live
    <3>. QED
      BY <1>5, <1>6, <3>1, <3>2, Zenon
  <2>. QED
    BY <2>1, Zenon DEF PollStillValid
<1>12. SilentBefore'
  BY <1>4, Zenon DEF HInv, SilentBefore, PollAccept
<1>. QED
  BY <1>8, <1>9, <1>10, <1>11, <1>12, Zenon DEF HInv, Processing, PollAccept

\* The steps of the loop that change no peer but drop one, or take bytes into a
\* buffer.
LEMMA ServeKeeps ==
  ASSUME HInv, \/ PollPeers \/ \E c \in Conns : PollReject(c)
               \/ ServeDone \/ ServeGone \/ ServeDrop \/ ServeRecv
  PROVE  HInv'
<1> USE DEF HInv
<1> DEFINE e == First(ready)
           i == e[1]
<1>0. ready # {} => e \in ready /\ i \in Slot
  BY FirstIn, Zenon DEF Typed
<1>1. CASE PollPeers
  <2>1. ready' \in SUBSET (Slot \X Conns)
    BY <1>1, PolledType, Zenon DEF PollPeers
  <2>2. PollStillValid'
    BY <1>1 DEF PollPeers, PollStillValid
  <2>. QED
    BY <1>1, <2>1, <2>2, Zenon DEF PollPeers, Typed, SlotsApart, SilentBefore, Latest, Processing
<1>2. ASSUME NEW c \in Conns, PollReject(c) PROVE HInv'
  <2>1. ready' \in SUBSET (Slot \X Conns)
    BY <1>2, PolledType, Zenon DEF PollReject
  <2>2. PollStillValid'
    BY <1>2 DEF PollReject, PollStillValid
  <2>3. /\ sock' \in [Conns -> SockType] /\ sock'[c].state = "rejected"
        /\ sock[c].state = "backlog"
        /\ \A d \in Conns \ {c} : sock'[d] = sock[d]
    BY <1>2, Zenon DEF PollReject, Typed, SockType, Backlog
  <2>4. SlotsApart(peers, sock)'
    <3>1. \A k \in Live(peers) : peers[k].conn \in Conns \ {c}
      BY <2>3, Zenon DEF SlotsApart, Live, Typed, PeerType
    <3>. QED
      BY <1>2, <2>3, <3>1 DEF PollReject, SlotsApart, Live
  <2>5. SilentBefore'
    BY <1>2, <2>3, Zenon DEF PollReject, SilentBefore
  <2>. QED
    BY <1>2, <2>1, <2>2, <2>3, <2>4, <2>5, Zenon DEF PollReject, Typed, Latest, Processing
<1>3. CASE ServeDone
  BY <1>3, Zenon DEF ServeDone, Typed, SlotsApart, SilentBefore, Latest, Processing, PollStillValid
<1>4. CASE ServeGone
  BY <1>4, Zenon DEF ServeGone, Typed, SlotsApart, SilentBefore, Latest, Processing, PollStillValid
<1>5. CASE ServeDrop
  <2>1. i \in Slot
    BY <1>0, <1>5, Zenon DEF ServeDrop
  <2> HIDE DEF i
  <2>2. peers' = DropAll(peers, {i}) /\ ready' = ready \ {e}
        /\ UNCHANGED <<sock, pc, cur, log, last>> /\ pc = "serve"
    BY <1>5, Zenon DEF ServeDrop, i
  <2>3. {i} \in SUBSET Slot /\ peers \in [Slot -> PeerType]
    BY <2>1, Zenon DEF Typed
  <2>4. /\ peers' \in [Slot -> PeerType]
        /\ SlotsApart(peers', sock) /\ Latest(peers', log, last)
        /\ \A k \in Slot : peers'[k].conn \in {peers[k].conn, NoConn}
    BY <2>2, <2>3, DropKeeps, Zenon
  <2>. QED
    BY <2>2, <2>4, Zenon DEF Typed, SlotsApart, SilentBefore, Latest, Processing, PollStillValid
<1>6. CASE ServeRecv
  <2>1. e \in ready /\ i \in Slot
    BY <1>0, <1>6, Zenon DEF ServeRecv
  <2> DEFINE c == peers[i].conn
             most(k) == Min({k, BufCap - Len(peers[i].buf), Len(sock[c].up)})
  <2>2. c \in Conns /\ Len(peers[i].buf) < BufCap /\ sock[c].up # <<>>
    BY <1>6, <2>1, Zenon DEF ServeRecv, Typed, PeerType
  <2>3. PICK k \in Chunks :
          /\ peers' = [peers EXCEPT ![i].buf = @ \o SubSeq(sock[c].up, 1, most(k))]
          /\ sock' = [sock EXCEPT ![c].up = SubSeq(@, most(k) + 1, Len(@))]
    BY <1>6, Zenon DEF ServeRecv
  <2>4. peers[i] \in PeerType /\ sock[c] \in SockType
    BY <2>1, <2>2, Zenon DEF Typed
  <2>5. most(k) \in Nat /\ most(k) <= Len(sock[c].up)
    <3> DEFINE T == {k, BufCap - Len(peers[i].buf), Len(sock[c].up)}
    <3>1. Len(peers[i].buf) \in Nat /\ Len(sock[c].up) \in Nat
      BY <2>4, SMTT(20) DEF PeerType, SockType
    <3>2. T \in SUBSET Nat /\ T # {} /\ Len(sock[c].up) \in T
      BY <2>2, <3>1, HubAssumption
    <3>3. \E x \in T : \A y \in T : x <= y
      <4> HIDE DEF T
      <4>. QED
        BY <3>2, LeastNat, Zenon
    <3>4. Min(T) \in T /\ \A y \in T : Min(T) <= y
      <4> HIDE DEF T
      <4>. QED
        BY <3>3, Zenon DEF Min
    <3>. QED
      BY <3>2, <3>4, Zenon
  <2> HIDE DEF most
  <2> DEFINE a == SubSeq(sock[c].up, 1, most(k))
             b == SubSeq(sock[c].up, most(k) + 1, Len(sock[c].up))
             buf == peers[i].buf \o a
  <2>6. buf \in Seq(Byte) /\ b \in Seq(Byte)
    BY <2>4, <2>5 DEF PeerType, SockType
  <2>7. /\ peers' = [peers EXCEPT ![i] = [peers[i] EXCEPT !.buf = buf]]
        /\ sock' = [sock EXCEPT ![c] = [sock[c] EXCEPT !.up = b]]
    BY <2>3, Zenon
  <2> HIDE DEF buf, b
  <2>8. /\ [peers[i] EXCEPT !.buf = buf] \in PeerType
        /\ [peers[i] EXCEPT !.buf = buf].conn = peers[i].conn
        /\ [peers[i] EXCEPT !.buf = buf].node = peers[i].node
        /\ [sock[c] EXCEPT !.up = b] \in SockType
        /\ [sock[c] EXCEPT !.up = b].state = sock[c].state
    BY <2>4, <2>6, Zenon DEF PeerType, SockType
  <2>9. /\ peers' \in [Slot -> PeerType] /\ sock' \in [Conns -> SockType]
        /\ \A j \in Slot : peers'[j].conn = peers[j].conn /\ peers'[j].node = peers[j].node
        /\ \A d \in Conns : sock'[d].state = sock[d].state
    BY <2>1, <2>2, <2>7, <2>8, Zenon DEF Typed
  <2>10. Live(peers') = Live(peers) /\ \A j \in Live(peers) : peers[j].conn \in Conns
    BY <2>9, Zenon DEF Live, Typed, PeerType
  <2>11. UNCHANGED <<log, last>> /\ ready' = ready \ {e} /\ cur' = i /\ pc' = "process"
    BY <1>6, Zenon DEF ServeRecv
  <2>12. Typed' /\ PollStillValid' /\ SilentBefore'
    BY <2>9, <2>11, Zenon DEF Typed, PollStillValid, SilentBefore
  <2>13. SlotsApart(peers, sock)' /\ Latest(peers, log, last)'
    BY <2>9, <2>10, <2>11 DEF SlotsApart, Latest, NodeOf, Live
  <2>14. Processing'
    <3>1. c # NoConn
      BY <2>2, HubAssumption, Zenon
    <3>. QED
      BY <2>1, <2>9, <2>11, <3>1, Zenon DEF Processing
  <2>. QED
    BY <2>12, <2>13, <2>14, Zenon
<1>. QED
  BY <1>1, <1>2, <1>3, <1>4, <1>5, <1>6, Zenon

\* Replacing one buffer changes no connection and no id.
LEMMA BufferKeeps ==
  ASSUME NEW p \in [Slot -> PeerType], NEW idx \in Slot, NEW b \in Seq(Byte)
  PROVE  /\ [p EXCEPT ![idx].buf = b] \in [Slot -> PeerType]
         /\ \A i \in Slot : /\ [p EXCEPT ![idx].buf = b][i].conn = p[i].conn
                            /\ [p EXCEPT ![idx].buf = b][i].node = p[i].node
<1> DEFINE q == [p EXCEPT ![idx].buf = b]
<1>1. [p[idx] EXCEPT !.buf = b] \in PeerType
      /\ [p[idx] EXCEPT !.buf = b].conn = p[idx].conn
      /\ [p[idx] EXCEPT !.buf = b].node = p[idx].node
  BY Zenon DEF PeerType
<1>2. q = [p EXCEPT ![idx] = [p[idx] EXCEPT !.buf = b]]
  BY Zenon
<1>3. q \in [Slot -> PeerType]
      /\ \A i \in Slot : q[i].conn = p[i].conn /\ q[i].node = p[i].node
  BY <1>1, <1>2, Zenon
<1>. QED
  BY <1>3, Zenon

\* Processing without a frame keeps the invariant.
LEMMA DoneKeeps ==
  ASSUME HInv, ProcessDone
  PROVE  HInv'
<1> DEFINE x == Extract(peers[cur].buf)
<1>1. cur \in Slot /\ peers[cur] \in PeerType
  BY Zenon DEF HInv, Processing, ProcessDone, Typed
<1>2. x.rest \in Seq(Byte)
  BY <1>1, ExtractType, Zenon DEF PeerType
<1> HIDE DEF x
<1>3. peers' = [peers EXCEPT ![cur].buf = x.rest] /\ pc' = "serve"
      /\ UNCHANGED <<sock, ready, cur, log, last>>
  BY Zenon DEF ProcessDone, x
<1>4. /\ peers' \in [Slot -> PeerType] /\ SlotsApart(peers', sock)
      /\ Latest(peers', log, last)
      /\ \A i \in Slot : peers'[i].conn = peers[i].conn
  <2>1. peers \in [Slot -> PeerType]
    BY Zenon DEF HInv, Typed
  <2>2. /\ peers' \in [Slot -> PeerType]
        /\ \A i \in Slot : peers'[i].conn = peers[i].conn /\ peers'[i].node = peers[i].node
    BY <1>1, <1>2, <1>3, <2>1, BufferKeeps, SMTT(20)
  <2>. QED
    BY <2>2 DEF HInv, SlotsApart, Latest, Live
<1>. QED
  BY <1>3, <1>4, Zenon
     DEF HInv, Typed, SlotsApart, SilentBefore, Latest, Processing, PollStillValid

\* A frame is learnt from, forwarded and taken out: the table is right again, and the
\* peer it came from is not among the ones dropped.
LEMMA FrameKeeps ==
  ASSUME HInv, ProcessFrame
  PROVE  HInv'
<1> DEFINE x == Extract(peers[cur].buf)
           n == x.frame[3]
           p == Learn(peers, cur, n)
           to == Targets(p, cur, n, x.frame[4])
           gone == {i \in to : SendFails(p, i)}
           q == DropAll(p, gone)
           c == peers[cur].conn
<1>1. cur \in Slot /\ peers[cur] \in PeerType /\ c \in Conns /\ c # NoConn /\ pc = "process"
  BY HubAssumption, Zenon DEF HInv, Processing, ProcessFrame, Typed, PeerType
<1>2. x.frame # <<>>
  BY Zenon DEF ProcessFrame
<1>3. x.rest \in Seq(Byte) /\ x.frame \in Seq(Byte) /\ n \in Byte /\ n # NoNode
  <2>1. x.rest \in Seq(Byte) /\ x.frame \in Seq(Byte) /\ n \in Byte
    BY <1>1, <1>2, ExtractType, Zenon DEF PeerType
  <2>. QED
    BY <2>1, WireAssumption DEF Byte, NoNode
<1>4. /\ peers' = [q EXCEPT ![cur].buf = x.rest]
      /\ log' = [log EXCEPT ![c] = LogTake(log[c], x.frame)]
      /\ last' = [last EXCEPT ![n] = c]
      /\ UNCHANGED <<sock, pc, ready, cur>>
  BY Zenon DEF ProcessFrame
<1> HIDE DEF x
<1>5. LogTake(log[c], x.frame) \in LogType /\ LogTake(log[c], x.frame).sender = n
  <2> DEFINE h == log[c]
             right == h.due # <<>> /\ Head(h.due) = x.frame
             due == IF right THEN Tail(h.due) ELSE h.due
             wrong == h.wrong \/ (h.clean /\ ~right)
  <2>1. h \in LogType
    BY <1>1, Zenon DEF HInv, Typed
  <2>2. due \in Seq(Seq(Byte)) /\ wrong \in BOOLEAN
    BY <2>1 DEF LogType
  <2>3. LogTake(h, x.frame) = [h EXCEPT !.sender = n, !.due = due, !.wrong = wrong]
    BY Zenon DEF LogTake
  <2> HIDE DEF h, due, wrong, n
  <2>4. LogTake(h, x.frame) \in LogType /\ LogTake(h, x.frame).sender = n
    BY <1>3, <2>1, <2>2, <2>3, Zenon DEF LogType
  <2>. QED
    BY <2>4, Zenon DEF h
<1> HIDE DEF n
<1>6. /\ log' \in [Conns -> LogType] /\ log'[c].sender = n
      /\ \A d \in Conns \ {c} : log'[d].sender = log[d].sender
      /\ last' \in [Byte -> Conns \cup {NoConn}] /\ last'[n] = c
      /\ \A m \in Byte \ {n} : last'[m] = last[m]
  BY <1>1, <1>3, <1>4, <1>5, Zenon DEF HInv, Typed
<1>7. /\ p \in [Slot -> PeerType]
      /\ \A i \in Slot : p[i].conn = peers[i].conn
      /\ p[cur].node = n
      /\ \A i \in Live(peers) \ {cur} :
           p[i].node = IF peers[i].node = n THEN NoNode ELSE peers[i].node
  BY <1>1, <1>3, LearnMoves, SMTT(20)
<1> HIDE DEF p
<1>8. Live(p) = Live(peers) /\ Live(p) \in SUBSET Slot
  BY <1>7, Zenon DEF Live
<1>9. SlotsApart(p, sock)
  BY <1>7, <1>8, Zenon DEF HInv, SlotsApart, Live
<1>10. Latest(p, log', last')
  <2>1. ASSUME NEW i \in Live(p) PROVE p[i].node = NodeOf(p[i].conn, log', last')
    <3>1. CASE i = cur
      BY <1>3, <1>6, <1>7, <3>1, <1>1, Zenon DEF NodeOf
    <3>2. CASE i # cur
      <4> DEFINE d == p[i].conn
                 m == log[d].sender
      <4>1. /\ i \in Slot /\ d = peers[i].conn /\ d # c /\ d \in Conns /\ d # NoConn
        BY <1>1, <1>7, <1>8, <3>2, Zenon DEF HInv, SlotsApart, Live, Typed, PeerType
      <4>2. log'[d].sender = m /\ m \in Byte \cup {NoNode}
        BY <4>1, <1>6, Zenon DEF HInv, Typed, LogType
      <4>3. peers[i].node = NodeOf(d, log, last)
        BY <1>8, <4>1, Zenon DEF HInv, Latest
      <4> HIDE DEF d
      <4>4. CASE m = n
        BY <1>3, <1>6, <1>7, <1>8, <3>2, <4>1, <4>2, <4>3, <4>4, SMTT(20) DEF NodeOf
      <4>5. CASE m # n
        <5>1. NodeOf(d, log', last') = NodeOf(d, log, last)
          BY <1>6, <4>2, <4>5, Zenon DEF NodeOf
        <5>2. peers[i].node # n
          BY <1>3, <4>3, <4>5, Zenon DEF NodeOf
        <5>. QED
          BY <1>7, <1>8, <3>2, <4>3, <5>1, <5>2, Zenon DEF d
      <4>. QED
        BY <4>4, <4>5, Zenon DEF d
    <3>. QED
      BY <3>1, <3>2, Zenon
  <2>. QED
    BY <2>1, Zenon DEF Latest
<1>11. to \in SUBSET Slot /\ cur \notin to
  BY <1>7, <1>8, Zenon DEF Targets, FindByNode, Live
<1>12. gone \in SUBSET Slot /\ cur \notin gone
  BY <1>11, Zenon
<1> HIDE DEF to, gone
<1>13. /\ q \in [Slot -> PeerType] /\ SlotsApart(q, sock) /\ Latest(q, log', last')
       /\ \A i \in Slot : q[i].conn \in {p[i].conn, NoConn}
       /\ q[cur] = p[cur]
  <2>1. NoPeer \in PeerType /\ NoPeer.conn = NoConn
    BY DEF NoPeer, PeerType
  <2>2. q \in [Slot -> PeerType] /\ \A i \in Slot : q[i] = IF i \in gone THEN NoPeer ELSE p[i]
    BY <1>7, <2>1, Zenon DEF DropAll
  <2>3. \A i \in Live(q) : i \in Live(p) /\ q[i] = p[i]
    BY <2>1, <2>2, Zenon DEF Live
  <2>. QED
    BY <1>1, <1>9, <1>10, <1>12, <2>1, <2>2, <2>3, SMTT(20) DEF SlotsApart, Latest
<1> HIDE DEF q
<1>14. /\ peers' \in [Slot -> PeerType] /\ SlotsApart(peers', sock)
       /\ Latest(peers', log', last')
       /\ \A i \in Slot : peers'[i].conn = q[i].conn
  <2>1. /\ peers' \in [Slot -> PeerType]
        /\ \A i \in Slot : peers'[i].conn = q[i].conn /\ peers'[i].node = q[i].node
    BY <1>1, <1>3, <1>4, <1>13, BufferKeeps, SMTT(20)
  <2>2. Live(peers') = Live(q) /\ Live(q) \in SUBSET Slot
    BY <2>1, Zenon DEF Live
  <2>. QED
    BY <1>13, <2>1, <2>2, Zenon DEF SlotsApart, Latest
<1>15. /\ \A i \in Slot : peers'[i].conn \in {peers[i].conn, NoConn}
       /\ peers'[cur].conn = c
  BY <1>1, <1>7, <1>13, <1>14, Zenon
<1>16. Typed'
  BY <1>4, <1>6, <1>14, Zenon DEF HInv, Typed
<1>17. SilentBefore'
  <2>1. sock[c].state = "open"
    BY <1>1, Zenon DEF HInv, SlotsApart, Live
  <2>. QED
    BY <1>4, <1>6, <2>1, Zenon DEF HInv, SilentBefore
<1>18. PollStillValid' /\ Processing'
  BY <1>1, <1>4, <1>15, Zenon DEF HInv, Typed, PollStillValid, Processing
<1>. QED
  BY <1>4, <1>14, <1>16, <1>17, <1>18, Zenon DEF HInv, SlotsApart

\* Every step keeps the invariant.
LEMMA NextHInv == HInv /\ [Next]_vars => HInv'
<1> SUFFICES ASSUME HInv, [Next]_vars PROVE HInv'
  BY Zenon
<1>1. CASE UNCHANGED vars
  BY <1>1, Zenon DEF HInv, vars, Typed, SlotsApart, SilentBefore, Latest, Live, NodeOf, Processing,
              PollStillValid
<1>2. CASE HubStep
  BY <1>2, AcceptKeeps, ServeKeeps, DoneKeeps, FrameKeeps, Zenon DEF HubStep
<1>3. ASSUME NEW c \in Conns, Connect(c) \/ Close(c) \/ \E x \in Items : Write(c, x)
      PROVE  HInv'
  BY <1>3, MachineKeeps, Zenon
<1>. QED
  BY <1>1, <1>2, <1>3, Zenon DEF Next

\* The invariant holds in every state of the hub, whatever machines do to its sockets.
THEOREM HubInvariant == Spec => []HInv
<1>. QED
  BY InitHInv, NextHInv, PTL DEF Spec

\* Whatever machines connect, announce, change or take over an id, close, or are
\* refused, the hub's table holds for every peer the id its latest frame announced
\* unless another connection announced it since (ioslink-hub.c:145).
THEOREM HubTable == Spec => []TableIsLatest
<1>1. HInv => TableIsLatest
  BY Zenon DEF HInv, Latest, NodeOf, TableIsLatest
<1>. QED
  BY <1>1, HubInvariant, PTL

\* A node id never has two owners, and a connection is in one slot only.
THEOREM HubOneOwner == Spec => []OneOwner
<1>1. HInv => OneOwner
  BY DEF HInv, SlotsApart, Latest, NodeOf, OneOwner, Live
<1>. QED
  BY <1>1, HubInvariant, PTL

\* The peer whose buffer is processed is never dropped by its own frames, so that the
\* subtraction of the frame's length (ioslink-hub.c:179) does not wrap.
THEOREM HubOwnPeerStays == Spec => []OwnPeerStays
<1>1. HInv => OwnPeerStays
  BY Zenon DEF HInv, Processing, OwnPeerStays
<1>. QED
  BY <1>1, HubInvariant, PTL

\* What poll reported is used for the connection it was reported for.
THEOREM HubPollStillValid == Spec => []PollStillValid
<1>1. HInv => PollStillValid
  BY Zenon DEF HInv
<1>. QED
  BY <1>1, HubInvariant, PTL

\* Together: the table is sound while peers come and go under the loop.
THEOREM HubTableSound == Spec => []TableSound
<1>1. OneOwner /\ OwnPeerStays /\ PollStillValid => TableSound
  BY Zenon DEF TableSound
<1>. QED
  BY <1>1, HubOneOwner, HubOwnPeerStays, HubPollStillValid, PTL

-----------------------------------------------------------------------------
\* What is left when no frame is found is shorter than the longest frame: a header
\* with a longer payload was refused, and a whole frame would have been found.
LEMMA ExtractShort ==
  ASSUME NEW buf \in Seq(Byte), Extract(buf).frame = <<>>
  PROVE  Len(Extract(buf).rest) < MaxFrame
<1> DEFINE s == Start(buf)
           rest == SubSeq(buf, s, Len(buf))
           total == HdrLen + LengthOf(rest) + 1
<1>0. MaxFrame \in Nat /\ MaxFrame >= 8 /\ MaxFrame = 7 + MaxPayload /\ MaxPayload \in Nat
  BY WireAssumption DEF MaxFrame, HdrLen
<1>1. CASE buf = <<>>
  <2>1. rest = <<>>
    BY <1>1 DEF Start
  <2>2. Extract(buf).rest = rest
    BY <2>1 DEF Extract, HdrLen
  <2>. QED
    BY <1>0, <2>1, <2>2
<1>2. CASE buf # <<>>
  <2>1. s \in DOMAIN buf /\ ~Refused(buf, s)
    BY <1>2, StartIn, Zenon
  <2> HIDE DEF s
  <2>2. rest \in Seq(Byte) /\ Len(rest) = Len(buf) - s + 1 /\ Len(rest) \in Nat
    BY <2>1
  <2>3. CASE Len(rest) < HdrLen
    <3>1. Extract(buf).rest = rest
      BY <2>3, Zenon DEF Extract, s
    <3>. QED
      BY <1>0, <2>2, <2>3, <3>1, SMTT(20) DEF HdrLen
  <2>4. CASE Len(rest) >= HdrLen
    <3> DEFINE hdr == SubSeq(buf, s, s + HdrLen - 1)
    <3>1. hdr[5] = rest[5] /\ hdr[6] = rest[6] /\ rest[5] \in Byte /\ rest[6] \in Byte
      BY <2>1, <2>2, <2>4 DEF HdrLen
    <3>2. LengthOf(hdr) = LengthOf(rest)
      BY <3>1, Zenon DEF LengthOf
    <3>3. LengthOf(rest) \in Nat
      <4> HIDE DEF rest
      <4>1. ByteValues \in Nat
        BY WireAssumption, Zenon
      <4>2. rest[5] \in Nat /\ rest[6] \in Nat
        BY <3>1, <4>1 DEF Byte
      <4>. QED
        BY <4>1, <4>2 DEF LengthOf
    <3>4. ~(LengthOf(rest) > MaxPayload)
      BY <2>1, <2>2, <2>4, <3>2, Zenon DEF Refused
    <3>5. total \in Nat /\ total >= 7 /\ total <= MaxFrame
      BY <1>0, <3>3, <3>4 DEF HdrLen
    <3>6. CASE Len(rest) < total
      <4>1. Extract(buf).rest = rest
        BY <3>6, Zenon DEF Extract, s
      <4>. QED
        BY <1>0, <2>2, <3>5, <3>6, <4>1, SMTT(20)
    <3>7. CASE ~(Len(rest) < total)
      <4> DEFINE f == SubSeq(rest, 1, total)
                 g == SubSeq(rest, total + 1, Len(rest))
      <4>1. Extract(buf).frame = f
        <5>1. ~(Len(rest) < HdrLen \/ Len(rest) < total)
          BY <2>2, <2>4, <3>7, SMTT(20) DEF HdrLen
        <5>2. Extract(buf) = [frame |-> f, rest |-> g]
          BY <5>1, Zenon DEF Extract, s
        <5> HIDE DEF f, g
        <5>. QED
          BY <5>2
      <4> HIDE DEF rest, total
      <4>2. Len(f) = total
        BY <2>2, <3>5, <3>7
      <4>. QED
        BY <3>5, <4>1, <4>2, SMTT(20)
    <3>. QED
      BY <3>6, <3>7, Zenon
  <2>. QED
    BY <2>2, <2>3, <2>4 DEF HdrLen
<1>. QED
  BY <1>1, <1>2, Zenon

\* Outside process_peer_buffer no buffer holds a whole frame.
Room == /\ cur \in 0 .. MaxPeers
        /\ \A i \in Slot : (pc = "process" /\ i = cur) \/ Len(peers[i].buf) < MaxFrame

\* Every step leaves room in the buffers that are not being processed.
LEMMA NextRoom ==
  ASSUME HInv, Room, [Next]_vars
  PROVE  Room'
<1>0. /\ Slot \in SUBSET Nat /\ Slot \in SUBSET (0 .. MaxPeers)
      /\ Len(NoPeer.buf) < MaxFrame
  BY HubAssumption, WireAssumption DEF Slot, NoPeer, MaxFrame, HdrLen
<1>1. CASE UNCHANGED <<peers, pc, cur>>
  BY <1>1, Zenon DEF Room
<1>2. CASE pc # "process" /\ UNCHANGED <<peers, cur>>
  BY <1>2, Zenon DEF Room
<1>3. ASSUME NEW c \in Conns, PollAccept(c) PROVE Room'
  <2> DEFINE k == Min(FreeSlots)
             new == [NoPeer EXCEPT !.conn = c]
  <2>1. Len(new.buf) < MaxFrame
    <3>1. new.buf = <<>>
      BY Zenon DEF NoPeer
    <3>. QED
      BY <1>0, <3>1, Zenon DEF NoPeer
  <2>2. peers' = [peers EXCEPT ![k] = new] /\ pc = "poll" /\ cur' = cur
    BY <1>3, Zenon DEF PollAccept
  <2> HIDE DEF k, new
  <2>. QED
    BY <2>1, <2>2, Zenon DEF HInv, Typed, Room
<1>4. CASE ServeDrop
  <2>1. PICK i : peers' = DropAll(peers, {i}) /\ pc = "serve" /\ cur' = cur
    BY <1>4, Zenon DEF ServeDrop
  <2>. QED
    BY <1>0, <2>1, Zenon DEF Room, DropAll
<1>5. CASE ServeRecv
  <2> DEFINE i == First(ready)[1]
  <2>1. i \in Slot
    BY <1>5, FirstIn, Zenon DEF ServeRecv, HInv, Typed
  <2> HIDE DEF i
  <2>2. PICK b : peers' = [peers EXCEPT ![i].buf = b]
    BY <1>5, Zenon DEF ServeRecv, i
  <2>3. pc = "serve" /\ cur' = i /\ pc' = "process"
    BY <1>5, Zenon DEF ServeRecv, i
  <2>. QED
    BY <1>0, <2>1, <2>2, <2>3, Zenon DEF Room, HInv, Typed
<1>6. CASE ProcessDone
  <2> DEFINE x == Extract(peers[cur].buf)
  <2>1. cur \in Slot /\ peers[cur].buf \in Seq(Byte) /\ pc = "process" /\ cur' = cur
    BY <1>6, Zenon DEF HInv, Processing, ProcessDone, Typed, PeerType
  <2>2. x.frame = <<>> /\ peers' = [peers EXCEPT ![cur].buf = x.rest]
    BY <1>6, Zenon DEF ProcessDone
  <2>3. Len(x.rest) < MaxFrame
    BY <2>1, <2>2, ExtractShort, Zenon
  <2> HIDE DEF x
  <2>4. peers'[cur].buf = x.rest /\ \A i \in Slot \ {cur} : peers'[i] = peers[i]
    BY <2>1, <2>2, Zenon DEF HInv, Typed, PeerType
  <2>. QED
    BY <2>1, <2>3, <2>4, Zenon DEF Room
<1>7. CASE ProcessFrame
  <2> DEFINE x == Extract(peers[cur].buf)
             n == x.frame[3]
             p == Learn(peers, cur, n)
             gone == {i \in Targets(p, cur, n, x.frame[4]) : SendFails(p, i)}
             q == DropAll(p, gone)
  <2>1. /\ cur \in Slot /\ peers[cur].conn # NoConn /\ peers[cur].buf \in Seq(Byte)
        /\ pc = "process" /\ pc' = pc /\ cur' = cur
    BY <1>7, Zenon DEF HInv, Processing, ProcessFrame, Typed, PeerType
  <2>2. x.frame # <<>> /\ peers' = [q EXCEPT ![cur].buf = x.rest]
    BY <1>7, Zenon DEF ProcessFrame
  <2>3. n \in Byte
    BY <2>1, <2>2, ExtractType, Zenon
  <2>4. \A i \in Slot : p[i].buf = peers[i].buf
    BY <2>1, <2>3, LearnMoves
  <2> HIDE DEF x, p, gone
  <2>5. \A i \in Slot : q[i] = p[i] \/ q[i] = NoPeer
    BY Zenon DEF DropAll
  <2>6. DOMAIN q = Slot
    BY Zenon DEF DropAll
  <2> HIDE DEF q
  <2>7. \A i \in Slot \ {cur} : peers'[i] = q[i]
    BY <2>2, <2>6, Zenon
  <2>. QED
    BY <1>0, <2>1, <2>4, <2>5, <2>7, Zenon DEF Room
<1>8. CASE Next
  <2>1. ASSUME NEW c \in Conns, PollReject(c) PROVE Room'
    BY <2>1, <1>2, Zenon DEF PollReject
  <2>2. ASSUME NEW c \in Conns, Connect(c) \/ Close(c) \/ \E x \in Items : Write(c, x)
        PROVE  Room'
    BY <2>2, <1>1, Zenon DEF Connect, Close, Write
  <2>3. CASE PollPeers \/ ServeDone \/ ServeGone
    BY <2>3, <1>2, Zenon DEF PollPeers, ServeDone, ServeGone
  <2>. QED
    BY <1>3, <1>4, <1>5, <1>6, <1>7, <1>8, <2>1, <2>2, <2>3, Zenon DEF Next, HubStep
<1>. QED
  BY <1>1, <1>8, Zenon DEF vars

\* However a machine's bytes are cut into pieces, and whatever they are, processing
\* leaves less than one frame behind, so that recv always has room and no peer is
\* dropped for a full buffer (ioslink-hub.c:286).
THEOREM HubNeverFull == Spec => []NeverFull
<1>1. Init => Room
  BY HubAssumption, WireAssumption DEF Init, Room, NoPeer, MaxFrame, HdrLen
<1>2. HInv /\ Room /\ [Next]_vars => Room'
  BY NextRoom, Zenon
<1>3. HInv /\ Room => NeverFull
  BY Zenon DEF HInv, Typed, Room, NeverFull, TypeOK, PeerType, SockType
<1>. QED
  BY <1>1, <1>2, <1>3, HubInvariant, PTL DEF Spec

-----------------------------------------------------------------------------
(* The script that starts the hub: one hub, for any number of calls        *)

\* Whose hub runs has the lock, through the descriptor that the hub inherited; a
\* call has no hub before it starts one; a hub that has bound its socket is behind
\* the file; the file is that of a hub that has bound it and runs, or was killed.
LInv == /\ LaunchTypeOK
        /\ \A c \in Calls : Alive(c) => lock = c
        /\ \A c \in Calls : script[c] \in {"call", "flock", "locked", "start"} => hub[c] = "none"
        /\ \A h \in Calls : hub[h] \in {"bound", "up"} => file = h
        /\ file # Nobody => hub[file] \in {"bound", "up"} \/ (killed /\ hub[file] = "dead")

\* Before the first call the invariant holds.
LEMMA InitLInv == LaunchInit => LInv
BY LaunchAssumption, Zenon DEF LaunchInit, LInv, LaunchTypeOK, Alive, InSubshell

\* A step of the script.
LEMMA ScriptKeeps ==
  ASSUME LInv, NEW c \in Calls, ScriptStep(c)
  PROVE  LInv'
<1> USE DEF LInv, LaunchTypeOK, Alive, InSubshell, Goto
<1>1. CASE Look(c)
  BY <1>1, Zenon DEF Look
<1>2. CASE Lock(c)
  BY <1>2, LaunchAssumption, Zenon DEF Lock
<1>3. CASE LookAgain(c)
  BY <1>3, Zenon DEF LookAgain
<1>4. CASE StartHub(c)
  BY <1>4, Zenon DEF StartHub
<1>5. CASE WaitEnds(c)
  BY <1>5, Zenon DEF WaitEnds
<1>6. CASE Unlock(c)
  BY <1>6, Zenon DEF Unlock, Released
<1>7. CASE LastLook(c)
  BY <1>7, Zenon DEF LastLook
<1>8. CASE Qemu(c)
  BY <1>8, Zenon DEF Qemu
<1>. QED
  BY <1>1, <1>2, <1>3, <1>4, <1>5, <1>6, <1>7, <1>8, Zenon DEF ScriptStep

\* A step of a hub, or its end.  As the only one it removes nobody else's file.
LEMMA HubKeeps ==
  ASSUME LInv, NEW h \in Calls, HubComesUp(h) \/ HubSignal(h) \/ HubKilled(h)
  PROVE  LInv'
<1>0. Alive(h) => \A g \in Calls : Alive(g) => g = h
  BY Zenon DEF LInv
<1> USE DEF LInv, LaunchTypeOK, Alive, InSubshell
<1>1. CASE HubUnlink(h)
  BY <1>0, <1>1, Zenon DEF HubUnlink
<1>2. CASE HubBind(h)
  BY <1>0, <1>2 DEF HubBind, Gone
<1>3. CASE HubListen(h)
  BY <1>3, Zenon DEF HubListen
<1>4. CASE HubSignal(h)
  BY <1>0, <1>4, Zenon DEF HubSignal, Gone
<1>5. CASE HubKilled(h)
  BY <1>0, <1>5, Zenon DEF HubKilled, Gone
<1>. QED
  BY <1>1, <1>2, <1>3, <1>4, <1>5, Zenon DEF HubComesUp

\* Every step of a script or a hub keeps the invariant.
LEMMA NextLInv == LInv /\ [LaunchNext]_launchVars => LInv'
<1>1. LInv /\ UNCHANGED launchVars => LInv'
  BY SMTT(20) DEF LInv, LaunchTypeOK, Alive, launchVars
<1>. QED
  BY <1>1, ScriptKeeps, HubKeeps, Zenon DEF LaunchNext

\* The invariant holds in every state.
THEOREM LaunchInvariant == LaunchSpec => []LInv
BY InitLInv, NextLInv, PTL DEF LaunchSpec

\* However many calls of qemu-conn.sh run at once, however long a hub takes to come
\* up and whenever one dies: never two hubs run.
THEOREM LaunchOneHub == LaunchSpec => []OneHub
<1>1. LInv => OneHub
  BY Zenon DEF LInv, OneHub
<1>. QED
  BY <1>1, LaunchInvariant, PTL

\* A hub that is up is the one that machines connect to.
THEOREM LaunchUpIsReachable == LaunchSpec => []UpIsReachable
<1>1. LInv => UpIsReachable
  BY Zenon DEF LInv, UpIsReachable
<1>. QED
  BY <1>1, LaunchInvariant, PTL

\* Both, and the subshell of every call works under the lock.
THEOREM LaunchOneReachableHub == LaunchSpec => []OneReachableHub
<1>1. LInv /\ OneHub /\ UpIsReachable => OneReachableHub
  BY Zenon DEF LInv, OneReachableHub
<1>. QED
  BY <1>1, LaunchInvariant, LaunchOneHub, LaunchUpIsReachable, PTL

\* A socket that no hub listens behind was left by a hub that was killed: a hub that
\* ends by a signal it catches, or because bind failed, leaves none.
THEOREM LaunchStaleOnlyWhenKilled == LaunchSpec => []StaleOnlyWhenKilled
<1>1. LInv => StaleOnlyWhenKilled
  BY Zenon DEF LInv, LaunchTypeOK, StaleOnlyWhenKilled, Alive
<1>. QED
  BY <1>1, LaunchInvariant, PTL

-----------------------------------------------------------------------------
(* The receiver of a machine: what it holds, for any bytes                 *)

\* The receiver, in any state.
RxType == [state : {"idle", "magic1", "hdr", "data", "chk"}, buf : Seq(Byte)]

\* RxFits, of any receiver: what it holds, state by state.
Fits(r) ==
  /\ r.state = "idle" => r.buf = <<>>
  /\ r.state = "magic1" => Len(r.buf) = 1
  /\ r.state = "hdr" => Len(r.buf) >= 2 /\ Len(r.buf) < HdrLen
  /\ r.state \in {"data", "chk"} => Len(r.buf) >= HdrLen /\ LengthOf(r.buf) \in 1 .. MaxPayload
  /\ r.state = "data" => Len(r.buf) < HdrLen + LengthOf(r.buf)
  /\ r.state = "chk" => Len(r.buf) = HdrLen + LengthOf(r.buf)

\* The inductive invariant.
RInv == rx \in RxType /\ Fits(rx) /\ line \in Seq(Byte)

\* Behind the header, more bytes do not change the length it gives.
LEMMA LengthStays ==
  ASSUME NEW s \in Seq(Byte), NEW b \in Byte, Len(s) >= HdrLen
  PROVE  LengthOf(Append(s, b)) = LengthOf(s)
BY DEF LengthOf, HdrLen

\* A length is a natural number.
LEMMA LengthNat ==
  ASSUME NEW s \in Seq(Byte), Len(s) >= HdrLen
  PROVE  LengthOf(s) \in Nat
<1>1. s[5] \in Byte /\ s[6] \in Byte
  BY DEF HdrLen
<1>2. s[5] \in Nat /\ s[6] \in Nat /\ ByteValues \in Nat
  BY <1>1, WireAssumption DEF Byte
<1>. QED
  BY <1>2 DEF LengthOf

\* The longest payload is a natural number.
LEMMA PayloadNat == MaxPayload \in Nat
BY WireAssumption, Zenon

\* One byte, whatever it is.
LEMMA RxNextFits ==
  ASSUME NEW r \in RxType, Fits(r), NEW b \in Byte
  PROVE  RxNext(r, b) \in RxType /\ Fits(RxNext(r, b))
<1> DEFINE buf == Append(r.buf, b)
<1>1. r.buf \in Seq(Byte) /\ r.state \in {"idle", "magic1", "hdr", "data", "chk"}
  BY Zenon DEF RxType
<1>8. buf \in Seq(Byte) /\ Len(buf) = Len(r.buf) + 1 /\ Len(r.buf) \in Nat
  BY <1>1
<1> HIDE DEF buf
<1>2. RxIdle \in RxType /\ Fits(RxIdle)
  BY DEF RxIdle, RxType, Fits
<1>3. CASE r.state = "idle"
  <2>1. RxNext(r, b) = IF b = Magic0 THEN [state |-> "magic1", buf |-> buf] ELSE RxIdle
    BY <1>3, Zenon DEF RxNext, buf
  <2>2. Len(buf) = 1
    BY <1>1, <1>8, <1>3, SMTT(20) DEF Fits
  <2>. QED
    BY <1>1, <1>8, <1>2, <2>1, <2>2, SMTT(20) DEF RxType, Fits
<1>4. CASE r.state = "magic1"
  <2>1. RxNext(r, b) = IF b = Magic1 THEN [state |-> "hdr", buf |-> buf] ELSE RxIdle
    BY <1>4, Zenon DEF RxNext, buf
  <2>2. Len(r.buf) = 1
    BY <1>4, Zenon DEF Fits
  <2>3. Len(buf) >= 2 /\ Len(buf) < HdrLen
    BY <1>8, <2>2 DEF HdrLen
  <2>4. [state |-> "hdr", buf |-> buf] \in RxType
    BY <1>8, Zenon DEF RxType
  <2>5. Fits([state |-> "hdr", buf |-> buf])
    BY <2>3, Zenon DEF Fits
  <2>. QED
    BY <1>2, <2>1, <2>4, <2>5, Zenon
<1>5. CASE r.state = "hdr"
  <2>1. RxNext(r, b) = IF Len(buf) >= HdrLen THEN HdrDone(buf) ELSE [r EXCEPT !.buf = buf]
    BY <1>5, Zenon DEF RxNext, buf
  <2>2. Len(r.buf) >= 2 /\ Len(r.buf) < HdrLen
    BY <1>5, Zenon DEF Fits
  <2>3. CASE Len(buf) < HdrLen
    <3>1. [r EXCEPT !.buf = buf] = [state |-> "hdr", buf |-> buf]
      BY <1>5 DEF RxType
    <3>2. RxNext(r, b) = [state |-> "hdr", buf |-> buf]
      BY <1>1, <1>8, <2>1, <2>3, <3>1, SMTT(20) DEF HdrLen
    <3>. QED
      BY <1>1, <1>8, <2>2, <2>3, <3>2, SMTT(20) DEF RxType, Fits, HdrLen
  <2>4. CASE Len(buf) >= HdrLen
    <3>1. Len(buf) = HdrLen
      BY <1>1, <1>8, <2>2, <2>4, SMTT(20) DEF HdrLen
    <3>. LengthOf(buf) \in Nat
      BY <1>1, <1>8, <2>4, LengthNat, Zenon
    <3>2. CASE LengthOf(buf) > MaxPayload \/ LengthOf(buf) = 0
      BY <1>2, <2>1, <2>4, <3>2, Zenon DEF HdrDone
    <3>3. CASE ~(LengthOf(buf) > MaxPayload \/ LengthOf(buf) = 0)
      <4>1. RxNext(r, b) = [state |-> "data", buf |-> buf]
        BY <2>1, <2>4, <3>3, Zenon DEF HdrDone
      <4>2. LengthOf(buf) \in 1 .. MaxPayload
        BY <3>3, PayloadNat
      <4>3. [state |-> "data", buf |-> buf] \in RxType
        BY <1>8, Zenon DEF RxType
      <4>4. Len(buf) >= HdrLen /\ Len(buf) < HdrLen + LengthOf(buf)
        BY <3>1, <4>2, PayloadNat DEF HdrLen
      <4>5. Fits([state |-> "data", buf |-> buf])
        BY <4>2, <4>4, Zenon DEF Fits
      <4>. QED
        BY <4>1, <4>3, <4>5, Zenon
    <3>. QED
      BY <3>2, <3>3, Zenon
  <2>. QED
    BY <1>1, <1>8, <2>2, <2>3, <2>4, SMTT(20) DEF HdrLen
<1>6. CASE r.state = "data"
  <2>1. RxNext(r, b) = [state |-> IF Len(buf) >= HdrLen + LengthOf(buf) THEN "chk" ELSE "data",
                        buf |-> buf]
    BY <1>6, Zenon DEF RxNext, buf
  <2>2. /\ Len(r.buf) >= HdrLen /\ LengthOf(r.buf) \in 1 .. MaxPayload
        /\ Len(r.buf) < HdrLen + LengthOf(r.buf)
    BY <1>6, Zenon DEF Fits
  <2>3. LengthOf(buf) = LengthOf(r.buf)
    BY <1>1, <1>8, <2>2, LengthStays, Zenon DEF buf
  <2>. QED
    BY <1>1, <1>8, <2>1, <2>2, <2>3, SMTT(20) DEF RxType, Fits, HdrLen
<1>7. CASE r.state = "chk"
  BY <1>2, <1>7, Zenon DEF RxNext
<1>. QED
  BY <1>1, <1>3, <1>4, <1>5, <1>6, <1>7, Zenon

\* A machine starts with an empty receiver.
LEMMA InitRInv == MsgInit => RInv
BY DEF MsgInit, RInv, RxIdle, RxType, Fits

\* Every step, also of conn and of a reboot, keeps what the receiver holds within bounds.
LEMMA NextRInv == RInv /\ [MsgNext]_msgVars => RInv'
<1> SUFFICES ASSUME RInv, [MsgNext]_msgVars PROVE RInv'
  BY Zenon
<1> USE DEF RInv
<1>1. ASSUME NEW f \in Arriving, Arrive(f) PROVE RInv'
  <2>1. Bytes(f) \in Seq(Byte)
    BY MsgAssumption, Zenon
  <2>2. line' = line \o Bytes(f) /\ rx' = rx
    BY <1>1, Zenon DEF Arrive
  <2> HIDE DEF RInv
  <2>3. line' \in Seq(Byte)
    BY <2>1, <2>2 DEF RInv
  <2>. QED
    BY <2>2, <2>3, Zenon DEF RInv
<1>2. CASE Poll
  <2>1. Head(line) \in Byte /\ Tail(line) \in Seq(Byte)
    BY <1>2 DEF Poll
  <2>. QED
    BY <1>2, <2>1, RxNextFits, Zenon DEF Poll
<1>3. CASE EnterConn \/ LeaveConn
  BY <1>3, Zenon DEF EnterConn, LeaveConn
<1>4. CASE ConnReads
  <2>1. Tail(line) \in Seq(Byte)
    BY <1>4 DEF ConnReads
  <2>. QED
    BY <1>4, <2>1, Zenon DEF ConnReads
<1>5. CASE Reboot
  <2>1. PICK k \in 0 .. Len(line) : line' = SubSeq(line, k + 1, Len(line))
    BY <1>5, Zenon DEF Reboot
  <2>2. line' \in Seq(Byte)
    BY <2>1
  <2>. QED
    BY <1>5, <2>2 DEF Reboot, RxIdle, RxType, Fits
<1>6. ASSUME NEW n \in TypedIds, SetId(n) PROVE RInv'
  BY <1>6, Zenon DEF SetId
<1>7. ASSUME NEW n \in TypedIds, NEW words \in TypedWords, SendMsg(n, words) PROVE RInv'
  BY <1>7, Zenon DEF SendMsg
<1>8. CASE UNCHANGED msgVars
  BY <1>8, Zenon DEF msgVars
<1>. QED
  BY <1>1, <1>2, <1>3, <1>4, <1>5, <1>6, <1>7, <1>8, Zenon DEF MsgNext

\* Whatever arrives, and whatever conn or a restart takes out of it, msg_poll never
\* writes behind rx_buf, and waits for the check byte exactly behind the payload.
THEOREM ReceiveBufferFits == MsgSpec => []RxFits
<1>1. RInv => RxFits
  <2> SUFFICES ASSUME RInv PROVE RxFits
    BY Zenon
  <2>1. Len(rx.buf) \in Nat /\ rx.state \in {"idle", "magic1", "hdr", "data", "chk"}
    BY DEF RInv, RxType
  <2>2. Len(rx.buf) + 1 <= MaxFrame
    <3>1. CASE rx.state \in {"idle", "magic1", "hdr"}
      BY <2>1, <3>1, PayloadNat DEF RInv, Fits, MaxFrame, HdrLen
    <3>2. CASE rx.state \in {"data", "chk"}
      <4>1. LengthOf(rx.buf) \in 1 .. MaxPayload /\ Len(rx.buf) <= HdrLen + LengthOf(rx.buf)
        BY <2>1, <3>2, PayloadNat DEF RInv, Fits, HdrLen
      <4>. QED
        BY <2>1, <4>1, PayloadNat, SMTT(20) DEF MaxFrame, HdrLen
    <3>. QED
      BY <2>1, <3>1, <3>2, Zenon
  <2>. QED
    BY <2>1, <2>2, Zenon DEF RInv, Fits, RxFits, HdrLen
<1>. QED
  BY <1>1, InitRInv, NextRInv, PTL DEF MsgSpec
=============================================================================
