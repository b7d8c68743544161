-------------------------------- MODULE Msg ---------------------------------
(***************************************************************************)
(* Messaging on one machine (src/msg.c) with the shell commands setid,     *)
(* sendmsg and conn (shell.c, connection.c).  The hub writes whole frames  *)
(* to the line; msg_poll, called while the shell waits for a key, takes    *)
(* them off byte by byte.  The terminal of conn takes bytes off the same   *)
(* line, and a reboot starts the receiver afresh in the middle of it.      *)
(***************************************************************************)
EXTENDS Wire, Integers

CONSTANTS
  Arriving,    \* bound: the frames that arrive, [from, to, text]
  MaxArrive,   \* bound: how many frames arrive
  MaxFaults,   \* bound: how often conn is entered or the machine restarted
  TypedIds,    \* bound: the numbers typed after setid and sendmsg (atoi's result)
  TypedWords,  \* bound: the lists of words typed after sendmsg <id>
  MsgSize      \* sizeof msg in shell_cmd_sendmsg, less one: 511

VARIABLES
  nodeId,     \* g_node_id
  rx,         \* rx_state and the bytes of rx_buf up to rx_pos
  line,       \* bytes that arrived and were not read
  mode,       \* what reads the line: "shell" or "conn"
  out,        \* of the step just taken: the command, and the frame it wrote
  count,      \* how many frames arrived
  faults,     \* how often conn was entered or the machine restarted
  hist        \* history: the frames that arrived and the messages printed, as
              \* long as only msg_poll has read the line, under one node id
msgVars == <<nodeId, rx, line, mode, out, count, faults, hist>>

NoId == AllOnes
Node == 0 .. MaxNodes - 1
Quiet == [cmd |-> "none", typed |-> 0, words |-> <<>>, done |-> FALSE, frame |-> <<>>]
Fresh == [sound |-> TRUE, log |-> <<>>, shown |-> <<>>]
Disturbed == [sound |-> FALSE, log |-> <<>>, shown |-> <<>>]
ToByte(n) == n % ByteValues      \* (uint8_t)

Bytes(f) == Frame(f.from, f.to, f.text)

ASSUME MsgAssumption ==
  /\ \A f \in Arriving : /\ f.from \in Node /\ f.to \in Node
                         /\ f.text \in Seq(Byte) /\ Len(f.text) \in 1 .. MaxPayload
                         /\ Bytes(f) \in Seq(Byte)
  /\ MaxArrive \in Nat /\ MaxFaults \in Nat /\ TypedIds \subseteq Int
  /\ MsgSize \in Nat /\ MsgSize < MaxPayload

-----------------------------------------------------------------------------
(* The receiver                                                            *)

RxIdle == [state |-> "idle", buf |-> <<>>]

\* Mutant of HdrDone: a length beyond the payload is not refused.
HdrDoneAnyLength(buf) == IF LengthOf(buf) = 0 THEN RxIdle ELSE [state |-> "data", buf |-> buf]

\* Mutant of HdrDone: the longest payload is refused.
HdrDoneShort(buf) ==
  IF LengthOf(buf) >= MaxPayload \/ LengthOf(buf) = 0
  THEN RxIdle ELSE [state |-> "data", buf |-> buf]

\* The header is complete: a length that no frame has ends the attempt.
HdrDone(buf) ==
  IF LengthOf(buf) > MaxPayload \/ LengthOf(buf) = 0
  THEN RxIdle ELSE [state |-> "data", buf |-> buf]

\* One byte in msg_poll's switch.  (In RX_IDLE what rx_buf holds is not used.)
RxNext(r, b) ==
  LET buf == Append(r.buf, b)
  IN  CASE r.state = "idle" ->
             IF b = Magic0 THEN [state |-> "magic1", buf |-> buf] ELSE RxIdle
        [] r.state = "magic1" ->
             IF b = Magic1 THEN [state |-> "hdr", buf |-> buf] ELSE RxIdle
        [] r.state = "hdr" ->
             IF Len(buf) >= HdrLen THEN HdrDone(buf) ELSE [r EXCEPT !.buf = buf]
        [] r.state = "data" ->
             [state |-> IF Len(buf) >= HdrLen + LengthOf(buf) THEN "chk" ELSE "data",
              buf |-> buf]
        [] r.state = "chk" -> RxIdle

\* The check byte is right and the frame is for this node.
Accepts(r, b, id) == r.state = "chk" /\ Checksum(r.buf) = b /\ r.buf[4] = id

\* What is printed of an accepted frame.
Message(r) == [from |-> r.buf[3], to |-> r.buf[4], text |-> SubSeq(r.buf, HdrLen + 1, Len(r.buf))]

\* The receiver after a run of bytes.
RxFeed(r, bytes) == FoldLeft(RxNext, r, bytes)

-----------------------------------------------------------------------------
(* The sender                                                              *)

\* msg_send: the frame, or nothing when it is refused.
MsgSend(id, target, text) ==
  IF id = NoId \/ target >= MaxNodes \/ Len(text) = 0 \/ Len(text) > MaxPayload
  THEN <<>> ELSE Frame(id, target, text)

Space == 0      \* the byte between two words

\* Mutant of JoinWord: a word that does not fit is left out and the next one tried.
JoinWordSkips(acc, w, final) ==
  IF Len(acc.text) >= MsgSize \/ Len(acc.text) + Len(w) >= MsgSize
  THEN acc
  ELSE LET text == acc.text \o w
       IN  [acc EXCEPT !.text = IF ~final /\ Len(text) < MsgSize
                                THEN Append(text, Space) ELSE text]

\* shell_cmd_sendmsg's loop: words joined by spaces while they fit in msg.
JoinWord(acc, w, final) ==
  IF acc.done \/ Len(acc.text) >= MsgSize \/ Len(acc.text) + Len(w) >= MsgSize
  THEN [acc EXCEPT !.done = TRUE]
  ELSE LET text == acc.text \o w
       IN  [acc EXCEPT !.text = IF ~final /\ Len(text) < MsgSize
                                THEN Append(text, Space) ELSE text]
JoinWords(words) ==
  FoldLeft(LAMBDA acc, i : JoinWord(acc, words[i], i = Len(words)),
           [text |-> <<>>, done |-> FALSE], [i \in DOMAIN words |-> i]).text

-----------------------------------------------------------------------------
MsgInit == /\ nodeId = NoId /\ rx = RxIdle /\ line = <<>> /\ mode = "shell"
           /\ out = Quiet /\ count = 0 /\ faults = 0 /\ hist = Fresh

\* External: the hub forwards a frame.
Arrive(f) == /\ count < MaxArrive
             /\ count' = count + 1 /\ line' = line \o Bytes(f) /\ out' = Quiet
             /\ hist' = IF hist.sound THEN [hist EXCEPT !.log = Append(@, f)] ELSE hist
             /\ UNCHANGED <<nodeId, rx, mode, faults>>

\* msg_poll, one turn of its loop.
Poll == /\ mode = "shell" /\ line # <<>>
        /\ rx' = RxNext(rx, Head(line)) /\ line' = Tail(line) /\ out' = Quiet
        /\ hist' = IF hist.sound /\ Accepts(rx, Head(line), nodeId)
                   THEN [hist EXCEPT !.shown = Append(@, Message(rx))] ELSE hist
        /\ UNCHANGED <<nodeId, mode, count, faults>>

\* msg_set_id's test.
AcceptId(id) == id < MaxNodes

\* setid, and kernelMain with the splash screen's choice: msg_set_id takes an id in
\* range and announces it in a frame to itself.
SetId(n) ==
  LET id == ToByte(n)
      ok == AcceptId(id)
  IN  /\ mode = "shell"
      /\ nodeId' = IF ok THEN id ELSE nodeId
      /\ out' = [cmd |-> "setid", typed |-> n, words |-> <<>>, done |-> ok,
                 frame |-> IF ok THEN MsgSend(id, id, <<0>>) ELSE <<>>]
      /\ hist' = IF count = 0 THEN hist ELSE Disturbed
      /\ UNCHANGED <<rx, line, mode, count, faults>>

SendMsg(n, words) ==
  /\ mode = "shell"
  /\ out' = [cmd |-> "sendmsg", typed |-> n, words |-> words, done |-> TRUE,
             frame |-> MsgSend(nodeId, ToByte(n), JoinWords(words))]
  /\ UNCHANGED <<nodeId, rx, line, mode, count, faults, hist>>

EnterConn == /\ faults < MaxFaults /\ faults' = faults + 1
             /\ mode = "shell" /\ mode' = "conn" /\ out' = Quiet
             /\ UNCHANGED <<nodeId, rx, line, count, hist>>

\* conn prints a byte of the line, whatever it is part of.
ConnReads == /\ mode = "conn" /\ line # <<>>
             /\ line' = Tail(line) /\ out' = Quiet /\ hist' = Disturbed
             /\ UNCHANGED <<nodeId, rx, mode, count, faults>>

LeaveConn == /\ mode = "conn" /\ mode' = "shell" /\ out' = Quiet
             /\ UNCHANGED <<nodeId, rx, line, count, faults, hist>>

\* The machine restarts: serial_init empties the receive buffer of the serial
\* port, which holds the next bytes of the line, and all state is new.
Reboot == /\ faults < MaxFaults /\ faults' = faults + 1
          /\ \E k \in 0 .. Len(line) : line' = SubSeq(line, k + 1, Len(line))
          /\ nodeId' = NoId /\ rx' = RxIdle /\ mode' = "shell"
          /\ out' = Quiet /\ hist' = Disturbed
          /\ UNCHANGED count

MsgNext == \/ \E f \in Arriving : Arrive(f)
           \/ Poll \/ EnterConn \/ ConnReads \/ LeaveConn \/ Reboot
           \/ \E n \in TypedIds : SetId(n)
           \/ \E n \in TypedIds, words \in TypedWords : SendMsg(n, words)

MsgSpec == MsgInit /\ [][MsgNext]_msgVars

-----------------------------------------------------------------------------
(* Properties                                                              *)

\* Type: a machine without an id has 0xFF; the receiver holds bytes.
MsgTypeOK == /\ nodeId \in Node \cup {NoId}
             /\ rx \in [state : {"idle", "magic1", "hdr", "data", "chk"}, buf : Seq(Byte)]
             /\ line \in Seq(Byte) /\ mode \in {"shell", "conn"}
             /\ out.cmd \in {"none", "setid", "sendmsg"} /\ out.frame \in Seq(Byte)
             /\ count \in 0 .. MaxArrive

\* rx_buf holds what the receiver has taken and the '\0' behind the payload,
\* whatever bytes the terminal or a reboot took out of a frame: rx_pos stays within
\* header and payload, and the check byte is awaited exactly behind the payload.
RxFits ==
  /\ Len(rx.buf) + 1 <= MaxFrame
  /\ rx.state = "idle" => rx.buf = <<>>
  /\ rx.state = "hdr" => Len(rx.buf) < HdrLen
  /\ rx.state \in {"data", "chk"} =>
       /\ LengthOf(rx.buf) \in 1 .. MaxPayload
       /\ rx.state = "data" => Len(rx.buf) < HdrLen + LengthOf(rx.buf)
       /\ rx.state = "chk" => Len(rx.buf) = HdrLen + LengthOf(rx.buf)

\* While only msg_poll reads the line, the messages printed are exactly the frames
\* for this node among those read, in the order they arrived: frames for others,
\* and texts that look like a header, neither hide a message nor make one.
UndisturbedIsExact ==
  (hist.sound /\ line = <<>>)
  => hist.shown = SelectSeq(hist.log, LAMBDA f : f.to = nodeId)

\* Frames that a receiver hunting for the magic bytes cannot mistake: no text or
\* check byte is a first magic byte.
PlainFrames == {f \in Arriving : \A i \in HdrLen + 1 .. Len(Bytes(f)) : Bytes(f)[i] # Magic0}

\* However a frame was broken (conn took bytes of it, the machine rebooted in the
\* middle), the receiver is back in step after at most MaxLost frames: the next
\* one it would print it prints.
ReceiverInStep ==
  \A f \in PlainFrames :
    LET lost == FlattenSeq([i \in 1 .. MaxLost |-> Bytes(f)])
        r == RxFeed(rx, lost \o Front(Bytes(f)))
    IN  Accepts(r, Last(Bytes(f)), f.to) /\ Message(r) = f

\* The words of sendmsg with a space between them.
AllWords(words) ==
  FlattenSeq([i \in DOMAIN words |-> IF i < Len(words) THEN Append(words[i], Space) ELSE words[i]])

\* What sendmsg writes, a receiver in step at that node prints: from this node, the
\* words that were typed, all of them if they fit and else the first ones. And the
\* id setid leaves is a node or none.
SentIsReadable ==
  /\ MsgTypeOK
  /\ (out.cmd = "sendmsg" /\ out.frame # <<>>) =>
    LET r == RxFeed(RxIdle, Front(out.frame))
        full == AllWords(out.words)
    IN  /\ Accepts(r, Last(out.frame), out.frame[4]) /\ RxNext(r, Last(out.frame)) = RxIdle
        /\ Message(r).from = nodeId
        /\ IsPrefix(Message(r).text, full)
        /\ Len(full) < MsgSize => Message(r).text = full

-----------------------------------------------------------------------------
(* What the shell's messages say, and the code does not do                 *)

\* "setid <id> - set this node's ID (0-7)": a setid that reports a new id was given
\* a number in that range.
SetIdTakesTyped == (out.cmd = "setid" /\ out.done) => out.typed \in Node

\* "sent encrypted message to node %d": when sendmsg says so it has written a frame
\* to that node.
SaidIsSent ==
  (out.cmd = "sendmsg" /\ out.done) => out.frame # <<>> /\ out.frame[4] = out.typed
=============================================================================
