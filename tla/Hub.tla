-------------------------------- MODULE Hub ---------------------------------
(***************************************************************************)
(* The routing hub of the serial link (scripts/ioslink-hub.c): a table of  *)
(* peers, one per connection, each with the node id its frames announce    *)
(* and a buffer; a loop that polls, accepts, and serves the peers that     *)
(* were ready; and the search for frames in a buffer.  The sockets are     *)
(* external: a machine connects, writes bytes in pieces of any size, and   *)
(* closes.  A send is taken by an open connection and fails on one that    *)
(* was closed; Link models the sends that block.                           *)
(***************************************************************************)
EXTENDS Wire, Integers

CONSTANTS
  Conns,      \* the connections
  NoConn,     \* fd < 0
  MaxPeers,   \* MAX_PEERS, 64
  BufCap,     \* BUF_CAP, 8192
  Items,      \* bound: what a machine writes in one go: bytes, and the frame in them
  MaxItems,   \* bound: how many of them the machines write
  Chunks      \* bound: how many bytes a recv returns at most

VARIABLES
  peers,      \* slot -> connection, node id, buffer
  sock,       \* connection -> state, and the bytes the hub has not received
  pc,         \* where the loop is: "poll", "serve", "process"
  ready,      \* pfds with revents, not yet served: slot -> the connection polled
  cur,        \* idx: the slot whose buffer is processed
  written,    \* how many items were written
  log,        \* history: connection -> frames written and not yet processed, whether
              \* another one was, the sender id of the latest one
  last        \* history: the connection whose frame last announced a node id
vars == <<peers, sock, pc, ready, cur, written, log, last>>

Slot == 0 .. MaxPeers - 1
Broadcast == AllOnes
NoNode == -1                \* have_node = 0
NoPeer == [conn |-> NoConn, node |-> NoNode, buf |-> <<>>]

ASSUME HubAssumption ==
  /\ NoConn \notin Conns /\ MaxPeers \in Nat
  /\ BufCap \in Nat /\ BufCap >= MaxFrame
  /\ MaxItems \in Nat /\ Chunks \subseteq Nat \ {0} /\ Chunks # {}
  /\ \A x \in Items : x.bytes \in Seq(Byte) /\ x.bytes # <<>> /\ x.whole \in BOOLEAN

Live(p) == {i \in Slot : p[i].conn # NoConn}

-----------------------------------------------------------------------------
(* The search for frames                                                   *)

\* Mutant of Refused: a length beyond the payload is waited for.
RefusedAnyLength(buf, i) ==
  LET left == Len(buf) - i + 1
      length == LengthOf(SubSeq(buf, i, i + HdrLen - 1))
  IN  \/ left > 1 /\ ~(buf[i] = Magic0 /\ buf[i + 1] = Magic1)
      \/ /\ left >= HdrLen
         /\ \/ length = 0
            \/ /\ left >= HdrLen + length + 1
               /\ Checksum(SubSeq(buf, i, i + HdrLen + length - 1)) # buf[i + HdrLen + length]

\* A position of buf where no frame starts, as far as its bytes tell: no magic
\* bytes, a length no frame has, or a wrong check byte.
Refused(buf, i) ==
  LET left == Len(buf) - i + 1
      length == LengthOf(SubSeq(buf, i, i + HdrLen - 1))
  IN  \/ left > 1 /\ ~(buf[i] = Magic0 /\ buf[i + 1] = Magic1)
      \/ /\ left >= HdrLen
         /\ \/ length = 0 \/ length > MaxPayload
            \/ /\ left >= HdrLen + length + 1
               /\ Checksum(SubSeq(buf, i, i + HdrLen + length - 1)) # buf[i + HdrLen + length]

\* Mutant of Start: a header or check byte that is wrong empties the buffer.
StartClears(buf) ==
  IF buf = <<>> THEN 1
  ELSE IF Len(buf) >= HdrLen /\ buf[1] = Magic0 /\ Refused(buf, 1) THEN Len(buf) + 1
  ELSE Min({i \in DOMAIN buf : ~Refused(buf, i)})

\* Mutant of Start: the last byte is dropped with the others.
StartDropsLast(buf) ==
  Min({i \in DOMAIN buf : ~Refused(buf, i) /\ i < Len(buf)} \cup {Len(buf) + 1})

\* The memmoves before a frame is taken: the first position that is not refused.
\* (The last byte never is.)
Start(buf) == IF buf = <<>> THEN 1 ELSE Min({i \in DOMAIN buf : ~Refused(buf, i)})

\* Mutant of Extract: a frame is taken when a byte follows it.
ExtractLate(buf) ==
  LET rest == SubSeq(buf, Start(buf), Len(buf))
      total == HdrLen + LengthOf(rest) + 1
  IN  IF Len(rest) < HdrLen \/ Len(rest) <= total
      THEN [frame |-> <<>>, rest |-> rest]
      ELSE [frame |-> SubSeq(rest, 1, total), rest |-> SubSeq(rest, total + 1, Len(rest))]

\* The frame at the front of a buffer, if all of it is there, and the bytes kept.
Extract(buf) ==
  LET rest == SubSeq(buf, Start(buf), Len(buf))
      total == HdrLen + LengthOf(rest) + 1
  IN  IF Len(rest) < HdrLen \/ Len(rest) < total
      THEN [frame |-> <<>>, rest |-> rest]
      ELSE [frame |-> SubSeq(rest, 1, total), rest |-> SubSeq(rest, total + 1, Len(rest))]

-----------------------------------------------------------------------------
(* The table of peers                                                      *)

FindByNode(p, n) == {i \in Live(p) : p[i].node = n}

\* Mutant of Learn: a peer that has an id keeps it.
LearnOnce(p, idx, n) ==
  IF p[idx].node # NoNode THEN p
  ELSE [i \in Slot |-> IF i = idx THEN [p[i] EXCEPT !.node = n]
                       ELSE IF i \in FindByNode(p, n) THEN [p[i] EXCEPT !.node = NoNode]
                       ELSE p[i]]

\* A frame from node n arrived at idx: n moves there from its previous owner
\* (the first one that peer_find_by_node finds).
Learn(p, idx, n) ==
  IF p[idx].node = n THEN p
  ELSE [i \in Slot |->
          IF i = idx THEN [p[i] EXCEPT !.node = n]
          ELSE IF i \in FindByNode(p, n) /\ \A j \in FindByNode(p, n) : i <= j
          THEN [p[i] EXCEPT !.node = NoNode]
          ELSE p[i]]

\* The peers a frame is sent to.
Targets(p, idx, sender, target) ==
  IF target = sender THEN {}
  ELSE IF target = Broadcast THEN Live(p) \ {idx}
  ELSE {i \in FindByNode(p, target) : \A j \in FindByNode(p, target) : i <= j}

\* send_all fails on a connection that its machine has closed.
SendFails(p, i) == sock[p[i].conn].closed

DropAll(p, S) == [i \in Slot |-> IF i \in S THEN NoPeer ELSE p[i]]

-----------------------------------------------------------------------------
(* External: the machines                                                  *)

Init == /\ peers = [i \in Slot |-> NoPeer]
        /\ sock = [c \in Conns |-> [state |-> "off", closed |-> FALSE, up |-> <<>>]]
        /\ pc = "poll" /\ ready = {} /\ cur = 0 /\ written = 0
        /\ log = [c \in Conns |-> [due |-> <<>>, wrong |-> FALSE,
                                  clean |-> TRUE, sender |-> NoNode]]
        /\ last = [n \in Byte |-> NoConn]

Connect(c) == /\ sock[c].state = "off"
              /\ sock' = [sock EXCEPT ![c].state = "backlog"]
              /\ UNCHANGED <<peers, pc, ready, cur, log, written, last>>

\* The machine has a connection, accepted or still in the backlog.
Connected(c) == sock[c].state \in {"backlog", "open"} /\ ~sock[c].closed

\* The history of a machine that cut a frame off is not followed further.
LogWrite(h, x) ==
  LET clean == h.clean /\ (x.whole \/ Magic0 \notin ToSet(x.bytes))
  IN  [h EXCEPT !.clean = clean,
                !.due = IF ~clean THEN <<>> ELSE IF x.whole THEN Append(@, x.bytes) ELSE @]
LogTake(h, frame) ==
  LET right == h.due # <<>> /\ Head(h.due) = frame
  IN  [h EXCEPT !.sender = frame[3], !.due = IF right THEN Tail(@) ELSE @,
                !.wrong = @ \/ (h.clean /\ ~right)]

\* An item is a frame, or characters that conn sends, or a frame cut off when
\* its machine restarted.
Write(c, x) ==
  /\ Connected(c) /\ written < MaxItems
  /\ sock' = [sock EXCEPT ![c].up = @ \o x.bytes]
  /\ written' = written + 1 /\ log' = [log EXCEPT ![c] = LogWrite(@, x)]
  /\ UNCHANGED <<peers, pc, ready, cur, last>>

Close(c) == /\ Connected(c)
            /\ sock' = [sock EXCEPT ![c].closed = TRUE]
            /\ UNCHANGED <<peers, pc, ready, cur, log, written, last>>

-----------------------------------------------------------------------------
(* The loop of the hub                                                     *)

Backlog == {c \in Conns : sock[c].state = "backlog"}
Readable(i) == sock[peers[i].conn].up # <<>> \/ sock[peers[i].conn].closed

ReadySlots == {i \in Live(peers) : Readable(i)}

\* peer_slot_alloc.
FreeSlots == Slot \ Live(peers)

\* poll returns with nobody waiting to be accepted.
PollPeers == /\ pc = "poll" /\ Backlog = {} /\ ReadySlots # {}
             /\ ready' = {<<i, peers[i].conn>> : i \in ReadySlots}
             /\ pc' = "serve"
             /\ UNCHANGED <<peers, sock, cur, log, written, last>>

\* Mutant of PollAccept: a connection is accepted while peers are being served.
PollAcceptLate(c) ==
  /\ pc \in {"poll", "serve"} /\ c \in Backlog /\ FreeSlots # {}
  /\ peers' = [peers EXCEPT ![Min(FreeSlots)] = [NoPeer EXCEPT !.conn = c]]
  /\ sock' = [sock EXCEPT ![c].state = "open"]
  /\ pc' = "serve"
  /\ UNCHANGED <<ready, cur, written, log, last>>

\* poll returns and one connection is accepted into the first free slot.
PollAccept(c) ==
  /\ pc = "poll" /\ c \in Backlog /\ FreeSlots # {}
  /\ ready' = {<<i, peers[i].conn>> : i \in ReadySlots}
  /\ peers' = [peers EXCEPT ![Min(FreeSlots)] = [NoPeer EXCEPT !.conn = c]]
  /\ sock' = [sock EXCEPT ![c].state = "open"]
  /\ pc' = "serve"
  /\ UNCHANGED <<cur, log, written, last>>

\* The same with the table full: the connection is closed at once.
PollReject(c) ==
  /\ pc = "poll" /\ c \in Backlog /\ FreeSlots = {}
  /\ ready' = {<<i, peers[i].conn>> : i \in ReadySlots}
  /\ sock' = [sock EXCEPT ![c].state = "rejected"]
  /\ pc' = "serve"
  /\ UNCHANGED <<peers, cur, log, written, last>>

ServeDone == /\ pc = "serve" /\ ready = {}
             /\ pc' = "poll"
             /\ UNCHANGED <<peers, sock, ready, cur, log, written, last>>

First(r) == CHOOSE e \in r : \A f \in r : e[1] <= f[1]

\* A peer that another one's frame dropped since the poll is passed over.
ServeGone == /\ pc = "serve" /\ ready # {}
             /\ peers[First(ready)[1]].conn = NoConn
             /\ ready' = ready \ {First(ready)}
             /\ UNCHANGED <<peers, sock, pc, cur, log, written, last>>

\* The next ready peer is dropped when its buffer is full or recv finds the end.
ServeDrop ==
  LET i == First(ready)[1]
      c == peers[i].conn
  IN  /\ pc = "serve" /\ ready # {} /\ c # NoConn
      /\ Len(peers[i].buf) = BufCap \/ sock[c].up = <<>>
      /\ peers' = DropAll(peers, {i})
      /\ ready' = ready \ {First(ready)}
      /\ UNCHANGED <<sock, pc, cur, log, written, last>>

\* Else bytes are received behind the ones in its buffer.
ServeRecv ==
  LET i == First(ready)[1]
      c == peers[i].conn
      most(k) == Min({k, BufCap - Len(peers[i].buf), Len(sock[c].up)})
  IN  /\ pc = "serve" /\ ready # {} /\ c # NoConn
      /\ Len(peers[i].buf) < BufCap /\ sock[c].up # <<>>
      /\ \E k \in Chunks :
           /\ peers' = [peers EXCEPT ![i].buf = @ \o SubSeq(sock[c].up, 1, most(k))]
           /\ sock' = [sock EXCEPT ![c].up = SubSeq(@, most(k) + 1, Len(@))]
      /\ ready' = ready \ {First(ready)}
      /\ cur' = i /\ pc' = "process"
      /\ UNCHANGED <<log, written, last>>

\* process_peer_buffer finds no more frames and returns.
ProcessDone ==
  /\ pc = "process"
  /\ \E x \in {Extract(peers[cur].buf)} :
       /\ x.frame = <<>>
       /\ peers' = [peers EXCEPT ![cur].buf = x.rest]
       /\ pc' = "serve"
       /\ UNCHANGED <<sock, ready, cur, log, written, last>>

\* process_peer_buffer handles one frame: the sender's id is learnt, the frame is
\* sent to its targets, targets whose connection fails are dropped, and the frame
\* leaves the buffer.
ProcessFrame ==
  /\ pc = "process"
  /\ \E x \in {Extract(peers[cur].buf)} :
       /\ x.frame # <<>>
       /\ LET sender == x.frame[3]
              p == Learn(peers, cur, sender)
              to == Targets(p, cur, sender, x.frame[4])
              q == DropAll(p, {i \in to : SendFails(p, i)})
              c == peers[cur].conn
          IN  /\ peers' = [q EXCEPT ![cur].buf = x.rest]
              /\ log' = [log EXCEPT ![c] = LogTake(@, x.frame)]
              /\ last' = [last EXCEPT ![sender] = c]
       /\ UNCHANGED <<sock, pc, ready, cur, written>>

HubStep == \/ PollPeers \/ \E c \in Conns : PollAccept(c) \/ PollReject(c)
           \/ ServeDone \/ ServeGone \/ ServeDrop \/ ServeRecv
           \/ ProcessDone \/ ProcessFrame

Next == \/ HubStep
        \/ \E c \in Conns : Connect(c) \/ Close(c) \/ \E x \in Items : Write(c, x)

Spec == Init /\ [][Next]_vars

\* poll blocks: nobody waits to be accepted and no peer has bytes.
Idle == pc = "poll" /\ Backlog = {} /\ ReadySlots = {}

\* The hub's process runs: poll returns when something is ready and the loop goes on.
FairSpec == Spec /\ WF_vars(HubStep)

-----------------------------------------------------------------------------
(* Properties                                                              *)

\* Type: slots, sockets and the loop's position.
TypeOK ==
  /\ peers \in [Slot -> [conn : Conns \cup {NoConn}, node : Byte \cup {NoNode}, buf : Seq(Byte)]]
  /\ DOMAIN sock = Conns
  /\ \A c \in Conns : /\ sock[c].state \in {"off", "backlog", "open", "rejected"}
                      /\ sock[c].closed \in BOOLEAN /\ sock[c].up \in Seq(Byte)
  /\ pc \in {"poll", "serve", "process"} /\ cur \in 0 .. MaxPeers
  /\ ready \subseteq Slot \X Conns

\* The table says what the frames announced last: a live peer has the id of its
\* latest frame if no other connection has announced that id since, and none
\* otherwise.  In particular no id has two owners, whatever machines connect with
\* it, change it or go.
TableIsLatest ==
  \A i \in Live(peers) :
    LET c == peers[i].conn
        n == log[c].sender
    IN  peers[i].node = IF n # NoNode /\ last[n] = c THEN n ELSE NoNode

\* Two live slots are two connections, so no node id has two owners.
OneOwner ==
  \A i, j \in Live(peers) :
    /\ peers[i].conn = peers[j].conn => i = j
    /\ (peers[i].node = peers[j].node /\ peers[i].node # NoNode) => i = j

\* The peer whose buffer is processed is not dropped by its own frames: the length
\* of the frame is subtracted from a buffer that still holds it.
OwnPeerStays == pc = "process" => peers[cur].conn # NoConn

\* A result of poll is applied to the connection that was polled, though slots are
\* freed and given out between the poll and its use.
PollStillValid == \A e \in ready : peers[e[1]].conn \in {e[2], NoConn}

\* Peers come and go while others are served, and the table stays sound: one owner
\* per id, no work on a peer that was dropped, none on a slot that was given out again.
TableSound == OneOwner /\ OwnPeerStays /\ PollStillValid

\* Processing leaves less than one frame in a buffer, so that every recv has room
\* and no peer is dropped for a full buffer; slots, sockets and the loop's position
\* have their types.
NeverFull ==
  TypeOK /\ \A i \in Slot : (pc = "process" /\ i = cur) \/ Len(peers[i].buf) < MaxFrame

\* Of a machine that wrote whole frames and typed characters, the frames processed
\* are the ones written, in order, none lost and none made up, however the bytes
\* were cut into pieces on the way.
FramesInOrder ==
  \A c \in Conns : log[c].clean => ~log[c].wrong

\* The frames found in a buffer, one after the other.
AllFrames(buf) ==
  FoldLeft(LAMBDA acc, k : LET x == Extract(acc.rest)
                           IN  IF x.frame = <<>> THEN acc
                               ELSE [frames |-> Append(acc.frames, x.frame), rest |-> x.rest],
           [frames |-> <<>>, rest |-> buf], [k \in 1 .. Len(buf) \div (HdrLen + 2) |-> k]).frames

\* Whole frames whose text and check byte have no first magic byte.
Plain == {x \in Items : x.whole /\ \A k \in HdrLen + 1 .. Len(x.bytes) : x.bytes[k] # Magic0}

\* Whatever a machine that restarted left of a frame in the buffer that is
\* processed, of the frames written after it at most MaxLost are lost.
BackInStep ==
  pc = "process" =>
    \A x \in Plain :
      LET n == MaxLost + 1
          found == AllFrames(peers[cur].buf \o FlattenSeq([k \in 1 .. n |-> x.bytes]))
      IN  found # <<>> /\ Last(found) = x.bytes

\* Every frame written by a machine that stays connected is taken off its buffer
\* and handled, however busy the other peers keep the loop.
EveryFrameTaken ==
  \A c \in Conns :
    (sock[c].state = "open" /\ log[c].due # <<>>)
    ~> (log[c].due = <<>> \/ sock[c].closed)
=============================================================================
