-------------------------------- MODULE Link --------------------------------
(***************************************************************************)
(* Machines and the hub together, in frames: msg_send writes a frame and   *)
(* waits while the line to the hub is full; a machine that waits for keys  *)
(* reads its line in msg_poll; the hub handles one frame after the other   *)
(* and waits in send_all while the line to the target is full.  Machines   *)
(* restart, halt, enter conn and end.  Hub and Msg model the bytes: what   *)
(* they show of frames cut in two (at most MaxLost later frames are lost)  *)
(* is used here as noise on a line.                                        *)
(***************************************************************************)
EXTENDS Naturals, Sequences, FiniteSets

CONSTANTS
  Machines,    \* the machines that qemu-conn.sh started, one connection each
  Node, NoId,  \* 0 .. MSG_MAX_NODES - 1, and 0xFF
  None,        \* no frame
  UpCap,       \* how many frames the line to the hub takes, with the hub's buffer
  DownCap,     \* how many frames the line to a machine takes
  MaxLost,     \* the frames that a broken one can take with it
  MaxSends,    \* bound: how many frames the machines write
  MaxFaults    \* bound: how often a machine restarts, halts, ends or enters conn

VARIABLES
  mode,        \* machine -> "boot" (the splash screen), "shell", "writing", "conn",
               \* "halted" (exit), "gone" (QEMU ended, its socket is closed)
  id,          \* machine -> g_node_id
  wr,          \* machine -> the frame serial_write_raw is writing
  up, down,    \* machine -> the frames on its way to the hub, and from it
  upNoise,     \* machine -> how many frames a broken one on the way up may still
  downNoise,   \*   take with it; the same on the way down
  reg,         \* the hub's table: machine -> node_id, or NoId
  hub,         \* None, or the frame in send_all and the machine it goes to
  mail,        \* history: machine -> its messages and where each one is
  sends,       \* how many frames were written
  faults       \* how many faults there were
vars == <<mode, id, wr, up, down, upNoise, downNoise, reg, hub, mail, sends, faults>>

OnTheWay == "way"
Lost == "lost"

Frame == [m : Machines, k : Nat, from : Node, to : Node]

ASSUME LinkAssumption ==
  /\ NoId \notin Node /\ UpCap \in Nat \ {0} /\ DownCap \in Nat \ {0}
  /\ MaxLost \in Nat /\ MaxSends \in Nat /\ MaxFaults \in Nat
  /\ OnTheWay \notin Machines /\ Lost \notin Machines
  /\ None \notin Frame /\ None \notin [to : Machines, frame : Frame]

\* Frame f with the history of which message it is (none: k = 0, an announcement).
FrameOf(m, k, from, to) == [m |-> m, k |-> k, from |-> from, to |-> to]

\* The messages among the frames F get to the place at.
Mark(ml, F, at) ==
  [m \in Machines |-> [k \in DOMAIN ml[m] |->
     IF \E f \in F : f # None /\ f.m = m /\ f.k = k THEN [ml[m][k] EXCEPT !.at = at] ELSE ml[m][k]]]

Frames(q) == {q[i] : i \in DOMAIN q}

Init == /\ mode = [m \in Machines |-> "boot"] /\ id = [m \in Machines |-> NoId]
        /\ wr = [m \in Machines |-> None]
        /\ up = [m \in Machines |-> <<>>] /\ down = [m \in Machines |-> <<>>]
        /\ upNoise = [m \in Machines |-> 0] /\ downNoise = [m \in Machines |-> 0]
        /\ reg = [m \in Machines |-> NoId] /\ hub = None
        /\ mail = [m \in Machines |-> <<>>] /\ sends = 0 /\ faults = 0

-----------------------------------------------------------------------------
(* The machines                                                            *)

\* The splash screen's choice, or setid: msg_set_id announces the id.
SetId(m, n) ==
  /\ mode[m] \in {"boot", "shell"} /\ sends < MaxSends
  /\ id' = [id EXCEPT ![m] = n]
  /\ wr' = [wr EXCEPT ![m] = FrameOf(m, 0, n, n)]
  /\ mode' = [mode EXCEPT ![m] = "writing"] /\ sends' = sends + 1
  /\ UNCHANGED <<up, down, upNoise, downNoise, reg, hub, mail, faults>>

\* sendmsg, to an id in range.
SendMsg(m, n) ==
  /\ mode[m] = "shell" /\ sends < MaxSends
  /\ mail' = [mail EXCEPT ![m] = Append(@, [to |-> n, at |-> OnTheWay])]
  /\ wr' = [wr EXCEPT ![m] = FrameOf(m, Len(mail[m]) + 1, id[m], n)]
  /\ mode' = [mode EXCEPT ![m] = "writing"] /\ sends' = sends + 1
  /\ UNCHANGED <<id, up, down, upNoise, downNoise, reg, hub, faults>>

\* serial_write_raw has written the frame, and do_shell prompts again.
Written(m) ==
  /\ mode[m] = "writing" /\ Len(up[m]) < UpCap
  /\ up' = [up EXCEPT ![m] = Append(@, wr[m])]
  /\ wr' = [wr EXCEPT ![m] = None] /\ mode' = [mode EXCEPT ![m] = "shell"]
  /\ UNCHANGED <<id, down, upNoise, downNoise, reg, hub, mail, sends, faults>>

\* Mutant of Poll: a message is shown whatever id it is for.
PollAny(m) ==
  /\ mode[m] \in {"boot", "shell"} /\ down[m] # <<>>
  /\ mail' = Mark(mail, {Head(down[m])}, m)
  /\ down' = [down EXCEPT ![m] = Tail(@)]
  /\ UNCHANGED <<mode, id, wr, up, upNoise, downNoise, reg, hub, sends, faults>>

\* readKeyData polls while no key is pressed, do_shell before every prompt: the
\* next frame is shown if it is for this node.
Poll(m) ==
  /\ mode[m] \in {"boot", "shell"} /\ down[m] # <<>>
  /\ mail' = Mark(mail, {Head(down[m])}, IF Head(down[m]).to = id[m] THEN m ELSE Lost)
  /\ down' = [down EXCEPT ![m] = Tail(@)]
  /\ UNCHANGED <<mode, id, wr, up, upNoise, downNoise, reg, hub, sends, faults>>

\* A frame behind a broken one is lost with it.
PollNoise(m) ==
  /\ mode[m] \in {"boot", "shell"} /\ down[m] # <<>> /\ downNoise[m] > 0
  /\ mail' = Mark(mail, {Head(down[m])}, Lost)
  /\ down' = [down EXCEPT ![m] = Tail(@)] /\ downNoise' = [downNoise EXCEPT ![m] = @ - 1]
  /\ UNCHANGED <<mode, id, wr, up, upNoise, reg, hub, sends, faults>>

EnterConn(m) ==
  /\ mode[m] = "shell" /\ faults < MaxFaults
  /\ mode' = [mode EXCEPT ![m] = "conn"] /\ faults' = faults + 1
  /\ UNCHANGED <<id, wr, up, down, upNoise, downNoise, reg, hub, mail, sends>>

\* enterConn puts what arrives on the screen byte by byte: no message is shown.
ConnReads(m) ==
  /\ mode[m] = "conn" /\ down[m] # <<>>
  /\ mail' = Mark(mail, {Head(down[m])}, Lost) /\ down' = [down EXCEPT ![m] = Tail(@)]
  /\ UNCHANGED <<mode, id, wr, up, upNoise, downNoise, reg, hub, sends, faults>>

\* Ctrl+C, perhaps in the middle of a frame.
LeaveConn(m) ==
  /\ mode[m] = "conn"
  /\ mode' = [mode EXCEPT ![m] = "shell"] /\ downNoise' = [downNoise EXCEPT ![m] = MaxLost]
  /\ UNCHANGED <<id, wr, up, down, upNoise, reg, hub, mail, sends, faults>>

\* exit: the machine halts with its socket open.
Halt(m) ==
  /\ mode[m] = "shell" /\ faults < MaxFaults
  /\ mode' = [mode EXCEPT ![m] = "halted"] /\ faults' = faults + 1
  /\ UNCHANGED <<id, wr, up, down, upNoise, downNoise, reg, hub, mail, sends>>

\* QEMU resets the machine: the frame it was writing is cut off.
Reset(m) ==
  /\ mode[m] # "gone" /\ faults < MaxFaults
  /\ mode' = [mode EXCEPT ![m] = "boot"] /\ id' = [id EXCEPT ![m] = NoId]
  /\ wr' = [wr EXCEPT ![m] = None] /\ mail' = Mark(mail, {wr[m]}, Lost)
  /\ upNoise' = [upNoise EXCEPT ![m] = IF wr[m] # None THEN MaxLost ELSE @]
  /\ downNoise' = [downNoise EXCEPT ![m] = MaxLost] /\ faults' = faults + 1
  /\ UNCHANGED <<up, down, reg, hub, sends>>

\* QEMU ends: the hub still receives what is on the line, but cannot send.
Quit(m) ==
  /\ mode[m] # "gone" /\ faults < MaxFaults
  /\ mode' = [mode EXCEPT ![m] = "gone"] /\ id' = [id EXCEPT ![m] = NoId]
  /\ wr' = [wr EXCEPT ![m] = None] /\ down' = [down EXCEPT ![m] = <<>>]
  /\ mail' = Mark(mail, {wr[m]} \cup Frames(down[m]), Lost) /\ faults' = faults + 1
  /\ UNCHANGED <<up, upNoise, downNoise, reg, hub, sends>>

-----------------------------------------------------------------------------
(* The hub                                                                 *)

\* A frame from node n arrived on the connection of m.
Learn(r, m, n) == [x \in Machines |-> IF x = m THEN n ELSE IF r[x] = n THEN NoId ELSE r[x]]

\* Whom process_peer_buffer sends a frame to: nobody when the sender is the target
\* (an announcement, or a message to oneself) or no connection has the id.
Routed(r, f) == IF f.to = f.from THEN {} ELSE {x \in Machines : r[x] = f.to}

\* Mutant of HubTake: the frame stays on the line until it was sent.
HubTakeTwice(m) ==
  /\ hub = None /\ up[m] # <<>>
  /\ LET f == Head(up[m])
         r == Learn(reg, m, f.from)
         to == Routed(r, f)
     IN  /\ reg' = r
         /\ hub' = IF to = {} THEN None ELSE [to |-> CHOOSE x \in to : TRUE, frame |-> f]
         /\ mail' = IF to = {} THEN Mark(mail, {f}, Lost) ELSE mail
         /\ up' = IF to = {} THEN [up EXCEPT ![m] = Tail(@)] ELSE up
  /\ UNCHANGED <<mode, id, wr, down, upNoise, downNoise, sends, faults>>

\* The hub takes a frame from m: it learns the sender's id and routes the frame.
HubTake(m) ==
  /\ hub = None /\ up[m] # <<>>
  /\ LET f == Head(up[m])
         r == Learn(reg, m, f.from)
         to == Routed(r, f)
     IN  /\ reg' = r
         /\ hub' = IF to = {} THEN None ELSE [to |-> CHOOSE x \in to : TRUE, frame |-> f]
         /\ mail' = IF to = {} THEN Mark(mail, {f}, Lost) ELSE mail
  /\ up' = [up EXCEPT ![m] = Tail(@)]
  /\ UNCHANGED <<mode, id, wr, down, upNoise, downNoise, sends, faults>>

\* A frame behind a broken one is lost with it.
HubNoise(m) ==
  /\ hub = None /\ up[m] # <<>> /\ upNoise[m] > 0
  /\ mail' = Mark(mail, {Head(up[m])}, Lost)
  /\ up' = [up EXCEPT ![m] = Tail(@)] /\ upNoise' = [upNoise EXCEPT ![m] = @ - 1]
  /\ UNCHANGED <<mode, id, wr, down, downNoise, reg, hub, sends, faults>>

\* Mutant of HubSend: a frame that finds the line full is given up.
HubSendGivesUp ==
  /\ hub # None /\ mode[hub.to] # "gone"
  /\ IF Len(down[hub.to]) < DownCap
     THEN down' = [down EXCEPT ![hub.to] = Append(@, hub.frame)] /\ mail' = mail
     ELSE down' = down /\ mail' = Mark(mail, {hub.frame}, Lost)
  /\ hub' = None
  /\ UNCHANGED <<mode, id, wr, up, upNoise, downNoise, reg, sends, faults>>

\* send_all has sent the frame; it waits while the line is full.
HubSend ==
  /\ hub # None /\ mode[hub.to] # "gone" /\ Len(down[hub.to]) < DownCap
  /\ down' = [down EXCEPT ![hub.to] = Append(@, hub.frame)] /\ hub' = None
  /\ UNCHANGED <<mode, id, wr, up, upNoise, downNoise, reg, mail, sends, faults>>

\* send_all fails on a closed connection, and the peer is dropped.
HubSendFails ==
  /\ hub # None /\ mode[hub.to] = "gone"
  /\ mail' = Mark(mail, {hub.frame} \cup Frames(up[hub.to]), Lost)
  /\ up' = [up EXCEPT ![hub.to] = <<>>]
  /\ reg' = [reg EXCEPT ![hub.to] = NoId] /\ hub' = None
  /\ UNCHANGED <<mode, id, wr, down, upNoise, downNoise, sends, faults>>

\* recv finds the end of a closed connection, and the peer is dropped.
HubDrop(m) ==
  /\ hub = None /\ mode[m] = "gone" /\ up[m] = <<>> /\ reg[m] # NoId
  /\ reg' = [reg EXCEPT ![m] = NoId]
  /\ UNCHANGED <<mode, id, wr, up, down, upNoise, downNoise, hub, mail, sends, faults>>

-----------------------------------------------------------------------------

Faults(m) == EnterConn(m) \/ Halt(m) \/ Reset(m) \/ Quit(m)
Reads(m) == Poll(m) \/ PollNoise(m) \/ ConnReads(m)
Sends == HubSend \/ HubSendFails
Takes(m) == HubTake(m) \/ HubNoise(m)

Next == \/ Sends
        \/ \E m \in Machines :
             \/ Written(m) \/ Reads(m) \/ LeaveConn(m) \/ Faults(m)
             \/ Takes(m) \/ HubDrop(m)
             \/ \E n \in Node : SetId(m, n) \/ SendMsg(m, n)

Spec == Init /\ [][Next]_vars

\* A machine goes on writing while the line takes bytes and polls while it waits for
\* keys; the hub goes on sending while the line takes bytes, and serves every peer
\* (Hub's EveryFrameTaken), between the times it waits in send_all.  Nobody has to
\* type, restart a machine or leave conn.
LinkFair == /\ WF_vars(Sends)
            /\ \A m \in Machines : WF_vars(Written(m)) /\ WF_vars(Reads(m)) /\ SF_vars(Takes(m))

-----------------------------------------------------------------------------
(* Properties                                                              *)

\* Type: modes, lines and the hub.
TypeOK ==
  /\ mode \in [Machines -> {"boot", "shell", "writing", "conn", "halted", "gone"}]
  /\ id \in [Machines -> Node \cup {NoId}] /\ reg \in [Machines -> Node \cup {NoId}]
  /\ \A m \in Machines : /\ Len(up[m]) <= UpCap /\ Len(down[m]) <= DownCap
                         /\ mode[m] = "writing" <=> wr[m] # None
                         /\ mode[m] \in {"shell", "writing", "conn"} => id[m] # NoId
                         /\ upNoise[m] \in 0 .. MaxLost /\ downNoise[m] \in 0 .. MaxLost

M == INSTANCE Mail

\* The link implements Mail: a message is shown at most once, only under the id it
\* was sent to, and messages from one machine to another never overtake each other,
\* whatever machines restart, halt, end, take each other's ids or enter conn.
ImplementsMail == M!Spec

\* Where a message of m on its way can be found.
Carries(m, k) ==
  LET is(f) == f # None /\ f.m = m /\ f.k = k
  IN  (IF is(wr[m]) THEN 1 ELSE 0)
      + (IF hub # None /\ is(hub.frame) THEN 1 ELSE 0)
      + Cardinality({i \in DOMAIN up[m] : is(up[m][i])})
      + Cardinality({p \in Machines \X (1 .. DownCap) :
                       p[2] \in DOMAIN down[p[1]] /\ is(down[p[1]][p[2]])})

\* A message that is neither shown nor lost is in exactly one place, and one that is
\* shown or lost in none; lines hold what they have room for.
OneCopy == TypeOK /\ \A m \in Machines : \A k \in DOMAIN mail[m] :
             Carries(m, k) = IF mail[m][k].at = OnTheWay THEN 1 ELSE 0

\* The hub waits in send_all for a machine that has halted, or that waits itself.
HubWaits == /\ hub # None /\ Len(down[hub.to]) = DownCap
            /\ mode[hub.to] \in {"halted", "writing"}

\* A frame is being written only for a while, unless the hub waits for ever.
EveryWriteEnds ==
  \A m \in Machines : mode[m] = "writing" ~> (mode[m] # "writing" \/ []HubWaits)

At(m, k) == IF k \in DOMAIN mail[m] THEN mail[m][k].at ELSE Lost

\* Nobody changes an id that is in use, and no two machines have the same.
Settled == /\ faults = 0
           /\ \A m \in Machines : id[m] # NoId => reg[m] \in {id[m], NoId}
           /\ \A m, r \in Machines : id[m] = id[r] /\ id[m] # NoId => m = r

\* A message on its way to a registered node is shown there, unless somebody
\* changes ids, a machine fails or enters conn, or the hub waits for ever.
KnownIsReached ==
  \A m \in Machines, k \in 1 .. MaxSends : \A r \in Machines \ {m} :
    (At(m, k) = OnTheWay /\ mail[m][k].to = id[r] /\ reg[r] = id[r] /\ Settled)
    ~> (At(m, k) = r \/ ~Settled \/ []HubWaits)
=============================================================================
