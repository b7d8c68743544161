----------------------------- MODULE LinkProofs -----------------------------
(***************************************************************************)
(* Messages on the link, for any number of machines, ids, frames on a line *)
(* and faults: none is carried twice, none that is on its way gets out of  *)
(* sight, and what the screens show is what Mail allows.                   *)
(***************************************************************************)
EXTENDS Link, FiniteSetTheorems, TLAPS

Letter == [to : Node, at : Machines \cup {OnTheWay, Lost}]

Typed == /\ mode \in [Machines -> {"boot", "shell", "writing", "conn", "halted", "gone"}]
         /\ id \in [Machines -> Node \cup {NoId}] /\ reg \in [Machines -> Node \cup {NoId}]
         /\ wr \in [Machines -> Frame \cup {None}]
         /\ up \in [Machines -> Seq(Frame)] /\ down \in [Machines -> Seq(Frame)]
         /\ upNoise \in [Machines -> 0 .. MaxLost] /\ downNoise \in [Machines -> 0 .. MaxLost]
         /\ hub \in [to : Machines, frame : Frame] \cup {None}
         /\ mail \in [Machines -> Seq(Letter)]

\* The line is never overfull, a frame is written in mode "writing" and in no other,
\* and only a machine with an id gets to its shell.
Modes == \A m \in Machines :
           /\ Len(up[m]) <= UpCap /\ Len(down[m]) <= DownCap
           /\ mode[m] = "writing" <=> wr[m] # None
           /\ mode[m] \in {"shell", "writing", "conn"} => id[m] # NoId

\* The frames being written, on the lines up, in send_all, and on the lines down.
Writing == {wr[m] : m \in Machines} \ {None}
Upward == UNION {Frames(up[m]) : m \in Machines}
AtHub == IF hub = None THEN {} ELSE {hub.frame}
Downward == UNION {Frames(down[m]) : m \in Machines}
Carried == Writing \cup Upward \cup AtHub \cup Downward

\* A machine writes and sends its own frames; announcements name one id twice and go
\* no further than the hub; a message that is carried is on its way, to the target
\* that the frame names.
Own == /\ \A m \in Machines : /\ wr[m] # None => wr[m].m = m
                              /\ \A f \in Frames(up[m]) : f.m = m
       /\ \A f \in AtHub \cup Downward : f.k > 0
       /\ \A f \in Carried : f.k = 0 => f.from = f.to
       /\ \A f \in Carried : f.k > 0 => /\ f.k \in DOMAIN mail[f.m]
                                        /\ mail[f.m][f.k] = [to |-> f.to, at |-> OnTheWay]

\* Messages f and g, if of one machine, were sent in this order.
Older(f, g) == (f.m = g.m /\ f.k > 0 /\ g.k > 0) => f.k < g.k
Sorted(q) == \A i, j \in DOMAIN q : i < j => Older(q[i], q[j])

\* What is further on its way is older, and no two lines down carry one message.
InOrder == /\ \A f \in Upward \cup AtHub \cup Downward, g \in Writing : Older(f, g)
           /\ \A f \in AtHub \cup Downward, g \in Upward : Older(f, g)
           /\ \A f \in Downward, g \in AtHub : Older(f, g)
           /\ \A m \in Machines : Sorted(up[m]) /\ Sorted(down[m])
           /\ \A m, r \in Machines : \A f \in Frames(down[m]), g \in Frames(down[r]) :
                m # r => ~(f.m = g.m /\ f.k = g.k)

\* A message that r has shown is older than all of its sender that r may yet show.
ToCome(r) == Writing \cup Upward \cup AtHub \cup Frames(down[r])
ShownFirst == \A m, r \in Machines : \A k \in DOMAIN mail[m] : \A f \in ToCome(r) :
                (mail[m][k].at = r /\ f.m = m /\ f.k > 0) => k < f.k

\* A message on its way is somewhere.
InSight == \A m \in Machines : \A k \in DOMAIN mail[m] :
             mail[m][k].at = OnTheWay => \E f \in Carried : f.m = m /\ f.k = k

\* The inductive invariant.
MailInv == Typed /\ Modes /\ Own /\ InOrder /\ ShownFirst /\ InSight

-----------------------------------------------------------------------------
(* Lines                                                                   *)

\* The next frame of a line, and the rest.
LEMMA TailFrames ==
  ASSUME NEW q \in Seq(Frame), q # <<>>
  PROVE  /\ Head(q) \in Frame /\ Tail(q) \in Seq(Frame) /\ Len(Tail(q)) <= Len(q)
         /\ Frames(q) = {Head(q)} \cup Frames(Tail(q))
         /\ Sorted(q) => Sorted(Tail(q)) /\ \A g \in Frames(Tail(q)) : Older(Head(q), g)
<1>1. /\ Head(q) = q[1] /\ q[1] \in Frame /\ 1 \in DOMAIN q
      /\ Tail(q) \in Seq(Frame) /\ Len(Tail(q)) = Len(q) - 1 /\ Len(q) \in Nat
      /\ DOMAIN q = 1 .. Len(q) /\ DOMAIN Tail(q) = 1 .. Len(q) - 1
      /\ \A i \in 1 .. Len(q) - 1 : Tail(q)[i] = q[i + 1]
  OBVIOUS
<1>2. Frames(q) = {Head(q)} \cup Frames(Tail(q))
  <2>1. ASSUME NEW i \in DOMAIN q PROVE q[i] \in {Head(q)} \cup Frames(Tail(q))
    <3>1. CASE i = 1
      BY <3>1, <1>1, Zenon
    <3>2. CASE i # 1
      <4>1. i - 1 \in DOMAIN Tail(q) /\ Tail(q)[i - 1] = q[i]
        BY <3>2, <1>1
      <4>. QED
        BY <4>1, Zenon DEF Frames
    <3>. QED
      BY <3>1, <3>2, Zenon
  <2>2. ASSUME NEW i \in DOMAIN Tail(q) PROVE Tail(q)[i] \in Frames(q)
    <3>1. i + 1 \in DOMAIN q /\ Tail(q)[i] = q[i + 1]
      BY <1>1
    <3>. QED
      BY <3>1, Zenon DEF Frames
  <2>3. Head(q) \in Frames(q)
    BY <1>1, Zenon DEF Frames
  <2>. QED
    BY <2>1, <2>2, <2>3, Zenon DEF Frames
<1>3. ASSUME Sorted(q) PROVE Sorted(Tail(q)) /\ \A g \in Frames(Tail(q)) : Older(Head(q), g)
  <2>1. ASSUME NEW i \in DOMAIN Tail(q), NEW j \in DOMAIN Tail(q), i < j
        PROVE  Older(Tail(q)[i], Tail(q)[j])
    <3>1. i + 1 \in DOMAIN q /\ j + 1 \in DOMAIN q /\ i + 1 < j + 1
          /\ Tail(q)[i] = q[i + 1] /\ Tail(q)[j] = q[j + 1]
      BY <1>1, <2>1
    <3>. QED
      BY <1>3, <3>1, Zenon DEF Sorted
  <2>2. ASSUME NEW i \in DOMAIN Tail(q) PROVE Older(Head(q), Tail(q)[i])
    <3>1. i + 1 \in DOMAIN q /\ 1 < i + 1 /\ Tail(q)[i] = q[i + 1]
      BY <1>1
    <3>. QED
      BY <1>1, <1>3, <3>1, Zenon DEF Sorted
  <2>. QED
    BY <2>1, <2>2, Zenon DEF Sorted, Frames
<1>. QED
  BY <1>1, <1>2, <1>3

\* A frame put on a line behind the others.
LEMMA AppendFrames ==
  ASSUME NEW q \in Seq(Frame), NEW f \in Frame
  PROVE  /\ Append(q, f) \in Seq(Frame) /\ Len(Append(q, f)) = Len(q) + 1
         /\ Frames(Append(q, f)) = Frames(q) \cup {f}
         /\ (Sorted(q) /\ \A g \in Frames(q) : Older(g, f)) => Sorted(Append(q, f))
<1> DEFINE a == Append(q, f)
<1>1. /\ a \in Seq(Frame) /\ Len(a) = Len(q) + 1 /\ Len(q) \in Nat
      /\ DOMAIN q = 1 .. Len(q) /\ DOMAIN a = 1 .. Len(q) + 1
      /\ a[Len(q) + 1] = f /\ \A i \in 1 .. Len(q) : a[i] = q[i]
  OBVIOUS
<1> HIDE DEF a
<1>2. Frames(a) = Frames(q) \cup {f}
  <2>1. ASSUME NEW i \in DOMAIN a PROVE a[i] \in Frames(q) \cup {f}
    <3>1. i = Len(q) + 1 \/ i \in DOMAIN q
      BY <1>1
    <3>. QED
      BY <1>1, <3>1, Zenon DEF Frames
  <2>2. ASSUME NEW i \in DOMAIN q PROVE q[i] \in Frames(a)
    <3>1. i \in DOMAIN a /\ a[i] = q[i]
      BY <1>1
    <3>. QED
      BY <3>1, Zenon DEF Frames
  <2>3. f \in Frames(a)
    <3>1. Len(q) + 1 \in DOMAIN a
      BY <1>1
    <3>. QED
      BY <1>1, <3>1, Zenon DEF Frames
  <2>. QED
    BY <2>1, <2>2, <2>3, Zenon DEF Frames
<1>3. ASSUME Sorted(q), \A g \in Frames(q) : Older(g, f) PROVE Sorted(a)
  <2>1. ASSUME NEW i \in DOMAIN a, NEW j \in DOMAIN a, i < j PROVE Older(a[i], a[j])
    <3>1. i \in DOMAIN q /\ a[i] = q[i]
      BY <1>1, <2>1
    <3>2. CASE j = Len(q) + 1
      BY <1>1, <1>3, <3>1, <3>2, Zenon DEF Frames
    <3>3. CASE j # Len(q) + 1
      <4>1. j \in DOMAIN q /\ a[j] = q[j]
        BY <1>1, <3>3
      <4>. QED
        BY <1>3, <2>1, <3>1, <4>1, Zenon DEF Sorted
    <3>. QED
      BY <3>2, <3>3, Zenon
  <2>. QED
    BY <2>1, Zenon DEF Sorted
<1>. QED
  BY <1>1, <1>2, <1>3, Zenon DEF a

\* Frames of an empty line.
LEMMA NoFrames == Frames(<<>>) = {} /\ Sorted(<<>>) /\ <<>> \in Seq(Frame) /\ Len(<<>>) = 0
BY DEF Frames, Sorted

\* Message k of m is among the frames F.
Among(F, m, k) == \E f \in F : f # None /\ f.m = m /\ f.k = k

\* What marking changes: the place of the messages among the frames, nothing else.
LEMMA Marked ==
  ASSUME NEW ml \in [Machines -> Seq(Letter)], NEW F,
         NEW at \in Machines \cup {OnTheWay, Lost}
  PROVE  /\ Mark(ml, F, at) \in [Machines -> Seq(Letter)]
         /\ \A m \in Machines :
              /\ DOMAIN Mark(ml, F, at)[m] = DOMAIN ml[m]
              /\ \A k \in DOMAIN ml[m] :
                   Mark(ml, F, at)[m][k] = IF Among(F, m, k) THEN [ml[m][k] EXCEPT !.at = at]
                                           ELSE ml[m][k]
<1> DEFINE marked(m) == [k \in DOMAIN ml[m] |-> IF Among(F, m, k) THEN [ml[m][k] EXCEPT !.at = at]
                                                ELSE ml[m][k]]
<1>1. Mark(ml, F, at) = [m \in Machines |-> marked(m)]
  BY Zenon DEF Mark, Among
<1>2. ASSUME NEW m \in Machines PROVE marked(m) \in Seq(Letter)
  <2>1. ml[m] \in Seq(Letter) /\ Len(ml[m]) \in Nat /\ DOMAIN ml[m] = 1 .. Len(ml[m])
    OBVIOUS
  <2>2. \A k \in 1 .. Len(ml[m]) : ml[m][k] \in Letter
    BY <2>1
  <2>3. \A k \in 1 .. Len(ml[m]) : [ml[m][k] EXCEPT !.at = at] \in Letter
    BY <2>2, Zenon DEF Letter
  <2>4. marked(m) \in [1 .. Len(ml[m]) -> Letter]
    BY <2>1, <2>2, <2>3, Zenon
  <2> HIDE DEF marked
  <2>. QED
    BY <2>1, <2>4
<1>3. \A m \in Machines : Mark(ml, F, at)[m] = marked(m)
  BY <1>1, Zenon
<1>4. Mark(ml, F, at) \in [Machines -> Seq(Letter)]
  <2> HIDE DEF marked
  <2>. QED
    BY <1>1, <1>2, Zenon
<1>. QED
  BY <1>3, <1>4, Zenon

-----------------------------------------------------------------------------
(* Frames leave the link                                                   *)

\* Everything that is carried is a frame.
LEMMA CarriedType ==
  ASSUME Typed
  PROVE  Carried \in SUBSET Frame /\ None \notin Carried
<1>1. \A q \in Seq(Frame) : Frames(q) \in SUBSET Frame
  BY DEF Frames
<1>2. Upward \in SUBSET Frame /\ Downward \in SUBSET Frame
  BY <1>1, Zenon DEF Typed, Upward, Downward
<1>3. Writing \in SUBSET Frame /\ AtHub \in SUBSET Frame
  BY Zenon DEF Typed, Writing, AtHub
<1>. QED
  BY <1>2, <1>3, LinkAssumption, Zenon DEF Carried

\* Steps that only take the frames F off the link: their messages are lost, or shown
\* on a machine that may yet show only later ones.
LEMMA FramesLeave ==
  ASSUME MailInv, Typed',
         NEW F, NEW at \in Machines \cup {Lost},
         mail' = Mark(mail, F, at),
         \A m \in Machines : wr'[m] \in {wr[m], None},
         hub' \in {hub, None},
         \A m \in Machines : /\ Frames(up'[m]) \subseteq Frames(up[m]) /\ Sorted(up'[m])
                             /\ Frames(down'[m]) \subseteq Frames(down[m]) /\ Sorted(down'[m]),
         Carried \subseteq Carried' \cup F,
         \A f \in Carried' : f.k > 0 => ~Among(F, f.m, f.k),
         at \in Machines => \A g \in F \ {None}, f \in ToCome(at)' : Older(g, f)
  PROVE  Own' /\ InOrder' /\ ShownFirst' /\ InSight'
<1>1. /\ Writing' \subseteq Writing /\ AtHub' \subseteq AtHub
  BY Zenon DEF Writing, AtHub
<1>2. Upward' \subseteq Upward /\ Downward' \subseteq Downward
  BY Zenon DEF Upward, Downward
<1>3. Carried' \subseteq Carried /\ \A r \in Machines : ToCome(r)' \subseteq ToCome(r)
  BY <1>1, <1>2, Zenon DEF Carried, ToCome
<1>4. /\ mail \in [Machines -> Seq(Letter)]
      /\ Carried \in SUBSET Frame /\ None \notin Carried
  BY CarriedType, Zenon DEF MailInv, Typed
<1>5. \A m \in Machines :
        /\ DOMAIN mail'[m] = DOMAIN mail[m]
        /\ \A k \in DOMAIN mail[m] :
             mail'[m][k] = IF Among(F, m, k) THEN [mail[m][k] EXCEPT !.at = at] ELSE mail[m][k]
  <2>1. at \in Machines \cup {OnTheWay, Lost}
    BY Zenon
  <2>2. \A m \in Machines :
          /\ DOMAIN Mark(mail, F, at)[m] = DOMAIN mail[m]
          /\ \A k \in DOMAIN mail[m] :
               Mark(mail, F, at)[m][k] = IF Among(F, m, k) THEN [mail[m][k] EXCEPT !.at = at]
                                         ELSE mail[m][k]
    BY <1>4, <2>1, Marked
  <2>. QED
    BY <2>2, Zenon
<1>6. \A m \in Machines : \A k \in DOMAIN mail[m] : k \in Nat /\ k > 0 /\ mail[m][k] \in Letter
  BY <1>4
<1>7. \A m \in Machines : \A k \in DOMAIN mail[m] :
        /\ Among(F, m, k) => mail'[m][k].at = at
        /\ ~Among(F, m, k) => mail'[m][k] = mail[m][k]
  BY <1>5, <1>6, ZenonT(30) DEF Letter
<1>8. Own'
  <2>1. \A m \in Machines : wr'[m] # None => wr'[m].m = m
    BY Zenon DEF MailInv, Own
  <2>2. \A m \in Machines : \A f \in Frames(up'[m]) : f.m = m
    BY Zenon DEF MailInv, Own
  <2>3. \A f \in (AtHub \cup Downward)' : f.k > 0
    BY <1>1, <1>2, Zenon DEF MailInv, Own
  <2>4. ASSUME NEW f \in Carried', f.k > 0
        PROVE  f.k \in DOMAIN mail'[f.m] /\ mail'[f.m][f.k] = [to |-> f.to, at |-> OnTheWay]
    <3>1. /\ f \in Carried /\ f.m \in Machines /\ f.k \in DOMAIN mail[f.m]
          /\ mail[f.m][f.k] = [to |-> f.to, at |-> OnTheWay]
      BY <1>3, <1>4, <2>4 DEF MailInv, Own, Frame
    <3>2. ~Among(F, f.m, f.k)
      BY <2>4, Zenon
    <3>. QED
      BY <1>5, <1>7, <3>1, <3>2, Zenon
  <2>5. \A f \in Carried' : f.k = 0 => f.from = f.to
    BY <1>3, Zenon DEF MailInv, Own
  <2>. QED
    BY <2>1, <2>2, <2>3, <2>4, <2>5, Zenon DEF Own
<1>9. InOrder'
  <2>1. /\ \A f \in (Upward \cup AtHub \cup Downward)', g \in Writing' : Older(f, g)
        /\ \A f \in (AtHub \cup Downward)', g \in Upward' : Older(f, g)
        /\ \A f \in Downward', g \in AtHub' : Older(f, g)
    BY <1>1, <1>2, Zenon DEF MailInv, InOrder
  <2>2. \A m, r \in Machines : \A f \in Frames(down'[m]), g \in Frames(down'[r]) :
          m # r => ~(f.m = g.m /\ f.k = g.k)
    BY DEF MailInv, InOrder
  <2>. QED
    BY <2>1, <2>2, Zenon DEF InOrder
<1>10. ShownFirst'
  <2>1. ASSUME NEW m \in Machines, NEW r \in Machines, NEW k \in DOMAIN mail'[m],
               NEW f \in ToCome(r)', mail'[m][k].at = r, f.m = m, f.k > 0
        PROVE  k < f.k
    <3>1. k \in DOMAIN mail[m] /\ k > 0
      BY <1>5, <1>6, Zenon
    <3>2. CASE Among(F, m, k)
      <4>1. PICK g \in F : g # None /\ g.m = m /\ g.k = k
        BY <3>2, Zenon DEF Among
      <4>2. at = r
        BY <1>7, <2>1, <3>1, <3>2, Zenon
      <4>. QED
        BY <2>1, <3>1, <4>1, <4>2, Zenon DEF Older
    <3>3. CASE ~Among(F, m, k)
      BY <1>3, <1>7, <2>1, <3>1, <3>3 DEF MailInv, ShownFirst
    <3>. QED
      BY <3>2, <3>3, Zenon
  <2>. QED
    BY <2>1, Zenon DEF ShownFirst
<1>11. InSight'
  <2>1. ASSUME NEW m \in Machines, NEW k \in DOMAIN mail'[m], mail'[m][k].at = OnTheWay
        PROVE  \E f \in Carried' : f.m = m /\ f.k = k
    <3>1. k \in DOMAIN mail[m]
      BY <1>5, Zenon
    <3>2. ~Among(F, m, k)
      BY <1>7, <2>1, <3>1, LinkAssumption, ZenonT(30) DEF Lost, OnTheWay
    <3>3. PICK f \in Carried : f.m = m /\ f.k = k
      BY <1>7, <2>1, <3>1, <3>2, Zenon DEF MailInv, InSight
    <3>4. f \notin F
      BY <1>4, <3>2, <3>3, Zenon DEF Among
    <3>. QED
      BY <3>3, <3>4, Zenon
  <2>. QED
    BY <2>1, Zenon DEF InSight
<1>. QED
  BY <1>8, <1>9, <1>10, <1>11, Zenon

-----------------------------------------------------------------------------
(* Types                                                                   *)

\* A history that was marked is a history.
LEMMA MarkType ==
  ASSUME Typed, NEW F, NEW at \in Machines \cup {Lost}
  PROVE  Mark(mail, F, at) \in [Machines -> Seq(Letter)]
<1>1. at \in Machines \cup {OnTheWay, Lost} /\ mail \in [Machines -> Seq(Letter)]
  BY Zenon DEF Typed
<1>. QED
  BY <1>1, Marked, Zenon

\* Steps of a machine keep the types.
LEMMA MachineTypes ==
  ASSUME Typed, Modes, NEW m \in Machines,
         \/ Written(m) \/ Reads(m) \/ LeaveConn(m) \/ Faults(m)
         \/ \E n \in Node : SetId(m, n) \/ SendMsg(m, n)
  PROVE  Typed' /\ Modes'
<1>0. /\ MaxLost \in Nat /\ UpCap \in Nat /\ DownCap \in Nat /\ NoId \notin Node /\ None \notin Frame
      /\ Lost \in Machines \cup {Lost}
  BY LinkAssumption, Zenon
<1>1. ASSUME NEW n \in Node, SetId(m, n) PROVE Typed' /\ Modes'
  <2>1. FrameOf(m, 0, n, n) \in Frame
    BY Zenon DEF FrameOf, Frame
  <2> HIDE DEF Frame
  <2>. QED
    BY <1>0, <1>1, <2>1, Zenon DEF SetId, Typed, Modes
<1>2. ASSUME NEW n \in Node, SendMsg(m, n) PROVE Typed' /\ Modes'
  <2>1. mail[m] \in Seq(Letter) /\ Len(mail[m]) \in Nat
    BY DEF Typed
  <2>2. FrameOf(m, Len(mail[m]) + 1, id[m], n) \in Frame
    <3>1. id[m] \in Node
      BY <1>2, Zenon DEF SendMsg, Typed, Modes
    <3>. QED
      BY <2>1, <3>1 DEF FrameOf, Frame
  <2>3. Append(mail[m], [to |-> n, at |-> OnTheWay]) \in Seq(Letter)
    BY <2>1 DEF Letter
  <2>4. mail' \in [Machines -> Seq(Letter)]
    BY <1>2, <2>3, Zenon DEF SendMsg, Typed
  <2>. QED
    BY <1>0, <1>2, <2>2, <2>4, Zenon DEF SendMsg, Typed, Modes
<1>3. CASE Written(m)
  <2>1. wr[m] \in Frame /\ up[m] \in Seq(Frame)
    BY <1>3, Zenon DEF Written, Typed, Modes
  <2>2. Append(up[m], wr[m]) \in Seq(Frame) /\ Len(Append(up[m], wr[m])) = Len(up[m]) + 1
    BY <2>1
  <2>3. up' \in [Machines -> Seq(Frame)] /\ \A r \in Machines : Len(up'[r]) <= UpCap
    BY <1>0, <1>3, <2>1, <2>2 DEF Written, Typed, Modes
  <2>. QED
    BY <1>0, <1>3, <2>3, Zenon DEF Written, Typed, Modes
<1>4. ASSUME down[m] # <<>>, down' = [down EXCEPT ![m] = Tail(down[m])]
      PROVE  down' \in [Machines -> Seq(Frame)] /\ \A r \in Machines : Len(down'[r]) <= DownCap
  <2>1. Tail(down[m]) \in Seq(Frame) /\ Len(Tail(down[m])) <= Len(down[m]) /\ Len(down[m]) \in Nat
    BY <1>4, TailFrames DEF Typed
  <2>. QED
    BY <1>0, <1>4, <2>1 DEF Typed, Modes
<1>5. CASE Poll(m)
  <2>1. mail' \in [Machines -> Seq(Letter)]
    BY <1>0, <1>5, MarkType, Zenon DEF Poll
  <2>. QED
    BY <1>4, <1>5, <2>1, Zenon DEF Poll, Typed, Modes
<1>6. CASE PollNoise(m)
  <2>1. mail' \in [Machines -> Seq(Letter)]
    BY <1>0, <1>6, MarkType, Zenon DEF PollNoise
  <2>2. downNoise[m] - 1 \in 0 .. MaxLost
    BY <1>0, <1>6 DEF PollNoise, Typed
  <2>. QED
    BY <1>4, <1>6, <2>1, <2>2, Zenon DEF PollNoise, Typed, Modes
<1>7. CASE ConnReads(m)
  <2>1. mail' \in [Machines -> Seq(Letter)]
    BY <1>0, <1>7, MarkType, Zenon DEF ConnReads
  <2>. QED
    BY <1>4, <1>7, <2>1, Zenon DEF ConnReads, Typed, Modes
<1>8. CASE EnterConn(m)
  BY <1>8, Zenon DEF EnterConn, Typed, Modes
<1>9. CASE LeaveConn(m)
  BY <1>0, <1>9 DEF LeaveConn, Typed, Modes
<1>10. CASE Halt(m)
  BY <1>10, Zenon DEF Halt, Typed, Modes
<1>11. CASE Reset(m)
  <2>1. mail' \in [Machines -> Seq(Letter)]
    BY <1>0, <1>11, MarkType, Zenon DEF Reset
  <2>2. upNoise' \in [Machines -> 0 .. MaxLost] /\ downNoise' \in [Machines -> 0 .. MaxLost]
    BY <1>0, <1>11 DEF Reset, Typed
  <2>3. /\ mode' = [mode EXCEPT ![m] = "boot"] /\ id' = [id EXCEPT ![m] = NoId]
        /\ wr' = [wr EXCEPT ![m] = None] /\ UNCHANGED <<up, down, reg, hub>>
    BY <1>11, Zenon DEF Reset
  <2>4. Typed'
    BY <2>1, <2>2, <2>3, Zenon DEF Typed
  <2>5. Modes'
    BY <2>3, Zenon DEF Typed, Modes
  <2>. QED
    BY <2>4, <2>5, Zenon
<1>12. CASE Quit(m)
  <2>1. mail' \in [Machines -> Seq(Letter)]
    BY <1>0, <1>12, MarkType, Zenon DEF Quit
  <2>2. down' \in [Machines -> Seq(Frame)] /\ \A r \in Machines : Len(down'[r]) <= DownCap
    BY <1>0, <1>12, NoFrames DEF Quit, Typed, Modes
  <2>. QED
    BY <1>0, <1>12, <2>1, <2>2, Zenon DEF Quit, Typed, Modes
<1>. QED
  BY <1>1, <1>2, <1>3, <1>5, <1>6, <1>7, <1>8, <1>9, <1>10, <1>11, <1>12, Zenon DEF Reads, Faults

\* Steps of the hub keep the types.
LEMMA HubTypes ==
  ASSUME Typed, Modes, \/ Sends \/ \E m \in Machines : Takes(m) \/ HubDrop(m)
  PROVE  Typed' /\ Modes'
<1>0. /\ MaxLost \in Nat /\ UpCap \in Nat /\ DownCap \in Nat /\ NoId \notin Node /\ None \notin Frame
      /\ Lost \in Machines \cup {Lost}
  BY LinkAssumption, Zenon
<1>1. ASSUME NEW m \in Machines, up[m] # <<>>, up' = [up EXCEPT ![m] = Tail(up[m])]
      PROVE  /\ up' \in [Machines -> Seq(Frame)] /\ \A r \in Machines : Len(up'[r]) <= UpCap
             /\ Head(up[m]) \in Frame
  <2>1. /\ Tail(up[m]) \in Seq(Frame) /\ Len(Tail(up[m])) <= Len(up[m]) /\ Len(up[m]) \in Nat
        /\ Head(up[m]) \in Frame
    BY <1>1, TailFrames DEF Typed
  <2>. QED
    BY <1>0, <1>1, <2>1 DEF Typed, Modes
<1>2. ASSUME NEW m \in Machines, HubTake(m) PROVE Typed' /\ Modes'
  <2> DEFINE f == Head(up[m])
             r == Learn(reg, m, f.from)
             to == Routed(r, f)
  <2>1. f \in Frame /\ up' \in [Machines -> Seq(Frame)] /\ \A x \in Machines : Len(up'[x]) <= UpCap
    BY <1>1, <1>2, Zenon DEF HubTake
  <2> HIDE DEF f
  <2>2. /\ reg' = r
        /\ hub' = IF to = {} THEN None ELSE [to |-> CHOOSE x \in to : TRUE, frame |-> f]
        /\ mail' = IF to = {} THEN Mark(mail, {f}, Lost) ELSE mail
        /\ UNCHANGED <<mode, id, wr, down, upNoise, downNoise>>
    BY <1>2, Zenon DEF HubTake, f
  <2>3. r \in [Machines -> Node \cup {NoId}]
    BY <2>1, Zenon DEF Learn, Typed, Frame
  <2>4. to \in SUBSET Machines
    BY Zenon DEF Routed
  <2>5. Mark(mail, {f}, Lost) \in [Machines -> Seq(Letter)]
    BY <1>0, MarkType, Zenon
  <2> HIDE DEF r, to
  <2>6. to # {} => (CHOOSE x \in to : TRUE) \in Machines
    BY <2>4, Zenon
  <2>7. hub' \in [to : Machines, frame : Frame] \cup {None}
    <3>1. CASE to = {}
      BY <2>2, <3>1, Zenon
    <3>2. CASE to # {}
      <4> DEFINE x == CHOOSE x \in to : TRUE
      <4>1. x \in Machines /\ hub' = [to |-> x, frame |-> f]
        BY <2>2, <2>6, <3>2, Zenon
      <4> HIDE DEF x
      <4>. QED
        BY <2>1, <4>1, Zenon
    <3>. QED
      BY <3>1, <3>2, Zenon
  <2>8. mail' \in [Machines -> Seq(Letter)]
    BY <2>2, <2>5, Zenon DEF Typed
  <2>. QED
    BY <2>1, <2>2, <2>3, <2>7, <2>8, Zenon DEF Typed, Modes
<1>3. ASSUME NEW m \in Machines, HubNoise(m) PROVE Typed' /\ Modes'
  <2>1. mail' \in [Machines -> Seq(Letter)]
    BY <1>0, <1>3, MarkType, Zenon DEF HubNoise
  <2>2. upNoise[m] - 1 \in 0 .. MaxLost
    BY <1>0, <1>3 DEF HubNoise, Typed
  <2>3. up' \in [Machines -> Seq(Frame)] /\ \A r \in Machines : Len(up'[r]) <= UpCap
    BY <1>1, <1>3, Zenon DEF HubNoise
  <2>. QED
    BY <1>3, <2>1, <2>2, <2>3, Zenon DEF HubNoise, Typed, Modes
<1>4. CASE HubSend
  <2>1. hub.to \in Machines /\ hub.frame \in Frame /\ down[hub.to] \in Seq(Frame)
    BY <1>4, Zenon DEF HubSend, Typed
  <2>2. /\ Append(down[hub.to], hub.frame) \in Seq(Frame)
        /\ Len(Append(down[hub.to], hub.frame)) = Len(down[hub.to]) + 1
    BY <2>1
  <2>3. down' \in [Machines -> Seq(Frame)] /\ \A r \in Machines : Len(down'[r]) <= DownCap
    BY <1>0, <1>4, <2>1, <2>2 DEF HubSend, Typed, Modes
  <2>. QED
    BY <1>4, <2>3, Zenon DEF HubSend, Typed, Modes
<1>5. CASE HubSendFails
  <2>1. mail' \in [Machines -> Seq(Letter)]
    BY <1>0, <1>5, MarkType, Zenon DEF HubSendFails
  <2>2. up' \in [Machines -> Seq(Frame)] /\ \A r \in Machines : Len(up'[r]) <= UpCap
    BY <1>0, <1>5, NoFrames DEF HubSendFails, Typed, Modes
  <2>. QED
    BY <1>5, <2>1, <2>2, Zenon DEF HubSendFails, Typed, Modes
<1>6. ASSUME NEW m \in Machines, HubDrop(m) PROVE Typed' /\ Modes'
  BY <1>6, Zenon DEF HubDrop, Typed, Modes
<1>. QED
  BY <1>2, <1>3, <1>4, <1>5, <1>6, Zenon DEF Sends, Takes

-----------------------------------------------------------------------------
(* Messages                                                                *)

Delivery == Own /\ InOrder /\ ShownFirst /\ InSight

\* A machine reads the next frame on its line: nothing else that is carried is the
\* same message, and what it may yet show is newer.
LEMMA ReadKeeps ==
  ASSUME MailInv, Typed', NEW m \in Machines, NEW at \in {m, Lost},
         down[m] # <<>>, down' = [down EXCEPT ![m] = Tail(down[m])],
         UNCHANGED <<wr, up, hub>>, mail' = Mark(mail, {Head(down[m])}, at)
  PROVE  Delivery'
<1> DEFINE h == Head(down[m])
<1>1. /\ h \in Frame /\ Frames(down[m]) = {h} \cup Frames(Tail(down[m]))
      /\ Sorted(Tail(down[m])) /\ \A g \in Frames(Tail(down[m])) : Older(h, g)
  BY TailFrames, Zenon DEF MailInv, Typed, InOrder
<1> HIDE DEF h
<1>2. \A r \in Machines : down'[r] = IF r = m THEN Tail(down[m]) ELSE down[r]
  BY Zenon DEF MailInv, Typed
<1>3. h \in Downward /\ Frames(down'[m]) = Frames(Tail(down[m]))
      /\ \A r \in Machines \ {m} : Frames(down'[r]) = Frames(down[r])
  BY <1>1, <1>2, Zenon DEF Downward
<1>4. Writing' = Writing /\ Upward' = Upward /\ AtHub' = AtHub
  BY Zenon DEF Writing, Upward, AtHub
<1>6. h.k > 0 /\ h.k \in Nat
  BY <1>1, <1>3, Zenon DEF MailInv, Own, Frame
<1>7. \A f \in ToCome(m)' : Older(h, f)
  BY <1>1, <1>3, <1>4, Zenon DEF MailInv, InOrder, ToCome
<1>8. \A f \in Carried' : ~(f.m = h.m /\ f.k = h.k)
  <2>1. ASSUME NEW f \in Carried', f.m = h.m, f.k = h.k PROVE FALSE
    <3>1. CASE f \in ToCome(m)'
      BY <1>6, <1>7, <2>1, <3>1 DEF Older
    <3>2. CASE f \notin ToCome(m)'
      <4>1. PICK r \in Machines \ {m} : f \in Frames(down[r])
        BY <1>3, <3>2 DEF Carried, ToCome, Downward
      <4>. QED
        BY <1>1, <2>1, <4>1, Zenon DEF MailInv, InOrder
    <3>. QED
      BY <3>1, <3>2, Zenon
  <2>. QED
    BY <2>1, Zenon
<1>9. Carried \subseteq Carried' \cup {h}
  <2>1. Downward \subseteq Downward' \cup {h}
    BY <1>1, <1>3, Zenon DEF Downward
  <2>. QED
    BY <1>4, <2>1, Zenon DEF Carried
<1>10. \A r \in Machines : /\ Frames(up'[r]) \subseteq Frames(up[r]) /\ Sorted(up'[r])
                           /\ Frames(down'[r]) \subseteq Frames(down[r]) /\ Sorted(down'[r])
  BY <1>1, <1>2, <1>3, Zenon DEF MailInv, InOrder
<1>11. \A f \in Carried' : f.k > 0 => ~Among({h}, f.m, f.k)
  BY <1>8, Zenon DEF Among
<1>12. at \in Machines => \A g \in {h} \ {None}, f \in ToCome(at)' : Older(g, f)
  BY <1>7, LinkAssumption, Zenon
<1>13. at \in Machines \cup {Lost} /\ mail' = Mark(mail, {h}, at)
  BY Zenon DEF h
<1>. QED
  BY <1>9, <1>10, <1>11, <1>12, <1>13, FramesLeave, Zenon DEF Delivery

\* The hub takes the next frame off a line and does not forward it.
LEMMA TakeKeeps ==
  ASSUME MailInv, Typed', NEW m \in Machines,
         up[m] # <<>>, up' = [up EXCEPT ![m] = Tail(up[m])],
         UNCHANGED <<wr, down, hub>>, mail' = Mark(mail, {Head(up[m])}, Lost), hub = None
  PROVE  Delivery'
<1> DEFINE h == Head(up[m])
<1>1. /\ h \in Frame /\ Frames(up[m]) = {h} \cup Frames(Tail(up[m]))
      /\ Sorted(Tail(up[m])) /\ \A g \in Frames(Tail(up[m])) : Older(h, g)
  BY TailFrames, Zenon DEF MailInv, Typed, InOrder
<1> HIDE DEF h
<1>2. \A r \in Machines : up'[r] = IF r = m THEN Tail(up[m]) ELSE up[r]
  BY Zenon DEF MailInv, Typed
<1>3. h \in Upward /\ h.m = m /\ Frames(up'[m]) = Frames(Tail(up[m]))
      /\ \A r \in Machines \ {m} : Frames(up'[r]) = Frames(up[r])
  BY <1>1, <1>2, Zenon DEF Upward, MailInv, Own
<1>4. Writing' = Writing /\ Downward' = Downward /\ AtHub' = AtHub
  BY Zenon DEF Writing, Downward, AtHub
<1>5. h.k \in Nat
  BY <1>1, Zenon DEF Frame
<1>6. \A f \in Carried' : f.k > 0 => ~Among({h}, f.m, f.k)
  <2>1. ASSUME NEW f \in Carried', f.k > 0, f.m = h.m, f.k = h.k PROVE FALSE
    <3>0. f.k \in Nat
      BY <1>5, <2>1, Zenon
    <3>1. CASE f \in Writing
      BY <1>3, <2>1, <3>0, <3>1 DEF MailInv, InOrder, Older
    <3>2. CASE f \in AtHub \cup Downward
      BY <1>3, <2>1, <3>0, <3>2 DEF MailInv, InOrder, Older
    <3>3. CASE f \in Upward'
      <4>1. PICK r \in Machines : f \in Frames(up'[r])
        BY <3>3, Zenon DEF Upward
      <4>2. r = m
        BY <1>3, <2>1, <4>1, Zenon DEF MailInv, Own
      <4>. QED
        BY <1>1, <1>3, <2>1, <3>0, <4>1, <4>2 DEF Older
    <3>. QED
      BY <1>4, <3>1, <3>2, <3>3, Zenon DEF Carried
  <2>. QED
    BY <2>1, Zenon DEF Among
<1>7. Carried \subseteq Carried' \cup {h}
  <2>1. Upward \subseteq Upward' \cup {h}
    BY <1>1, <1>3 DEF Upward
  <2>. QED
    BY <1>4, <2>1, Zenon DEF Carried
<1>8. \A r \in Machines : /\ Frames(up'[r]) \subseteq Frames(up[r]) /\ Sorted(up'[r])
                          /\ Frames(down'[r]) \subseteq Frames(down[r]) /\ Sorted(down'[r])
  BY <1>1, <1>2, <1>3, Zenon DEF MailInv, InOrder
<1>9. Lost \in Machines \cup {Lost} /\ mail' = Mark(mail, {h}, Lost) /\ Lost \notin Machines
  BY LinkAssumption, Zenon DEF h
<1>. QED
  BY <1>6, <1>7, <1>8, <1>9, FramesLeave, Zenon DEF Delivery

\* A machine restarts or ends: the frame it was writing goes, and, if it ends, what
\* was on the line to it.
LEMMA StopKeeps ==
  ASSUME MailInv, Typed', NEW m \in Machines, NEW F,
         wr' = [wr EXCEPT ![m] = None], UNCHANGED <<up, hub>>,
         \/ down' = down /\ F = {wr[m]}
         \/ down' = [down EXCEPT ![m] = <<>>] /\ F = {wr[m]} \cup Frames(down[m]),
         mail' = Mark(mail, F, Lost)
  PROVE  Delivery'
<1>1. /\ \A r \in Machines : wr'[r] = IF r = m THEN None ELSE wr[r]
      /\ \A r \in Machines \ {m} : Frames(down'[r]) = Frames(down[r])
      /\ Frames(down[m]) \subseteq Frames(down'[m]) \cup F
      /\ Frames(down'[m]) = {} \/ (Frames(down'[m]) = Frames(down[m]) /\ F = {wr[m]})
      /\ \A r \in Machines : Frames(down'[r]) \subseteq Frames(down[r]) /\ Sorted(down'[r])
      /\ F \subseteq {wr[m]} \cup Frames(down[m]) /\ wr[m] \in F
  BY NoFrames, ZenonT(30) DEF MailInv, Typed, InOrder
<1>2. Upward' = Upward /\ AtHub' = AtHub /\ Writing' \subseteq Writing
      /\ Writing \subseteq Writing' \cup F /\ Downward \subseteq Downward' \cup F
      /\ Downward' \subseteq Downward
  BY <1>1 DEF Upward, AtHub, Writing, Downward
<1>3. Carried \in SUBSET Frame
  BY CarriedType, Zenon DEF MailInv
<1>4. ASSUME NEW f \in Carried', f.k > 0, NEW g \in F, g # None, g.m = f.m, g.k = f.k
      PROVE  FALSE
  <2>1. f \in Carried /\ f.k \in Nat
    BY <1>2, <1>3, Zenon DEF Carried, Frame
  <2>2. CASE g = wr[m]
    <3>1. g \in Writing /\ g.m = m
      BY <1>4, <2>2, Zenon DEF Writing, MailInv, Own
    <3>2. CASE f \in Writing'
      <4>1. PICK r \in Machines : f = wr'[r] /\ wr'[r] # None
        BY <3>2, Zenon DEF Writing
      <4>2. r # m /\ f = wr[r]
        BY <1>1, <4>1, Zenon
      <4>. QED
        BY <1>4, <3>1, <4>1, <4>2, Zenon DEF MailInv, Own
    <3>3. CASE f \in Upward \cup AtHub \cup Downward
      <4>1. Older(f, g)
        BY <3>1, <3>3, Zenon DEF MailInv, InOrder
      <4>. QED
        BY <1>4, <2>1, <4>1 DEF Older
    <3>. QED
      BY <1>2, <3>2, <3>3, Zenon DEF Carried
  <2>3. CASE g # wr[m]
    <3>1. g \in Frames(down[m]) /\ g \in Downward /\ Frames(down'[m]) = {}
      BY <1>1, <2>3 DEF Downward
    <3>2. CASE f \in Writing \cup Upward \cup AtHub
      <4>1. Older(g, f)
        BY <3>1, <3>2, Zenon DEF MailInv, InOrder
      <4>. QED
        BY <1>4, <2>1, <4>1 DEF Older
    <3>3. CASE f \in Downward'
      <4>1. PICK r \in Machines \ {m} : f \in Frames(down[r])
        BY <1>1, <3>1, <3>3 DEF Downward
      <4>. QED
        BY <1>4, <3>1, <4>1, Zenon DEF MailInv, InOrder
    <3>. QED
      BY <1>2, <3>2, <3>3, Zenon DEF Carried
  <2>. QED
    BY <2>2, <2>3, Zenon
<1>5. \A f \in Carried' : f.k > 0 => ~Among(F, f.m, f.k)
  BY <1>4, Zenon DEF Among
<1>6. Carried \subseteq Carried' \cup F
  BY <1>2, Zenon DEF Carried
<1>7. \A r \in Machines : /\ wr'[r] \in {wr[r], None}
                          /\ Frames(up'[r]) \subseteq Frames(up[r]) /\ Sorted(up'[r])
                          /\ Frames(down'[r]) \subseteq Frames(down[r]) /\ Sorted(down'[r])
  BY <1>1, Zenon DEF MailInv, InOrder
<1>8. Lost \in Machines \cup {Lost} /\ Lost \notin Machines /\ hub' \in {hub, None}
  BY LinkAssumption, Zenon
<1>. QED
  BY <1>5, <1>6, <1>7, <1>8, FramesLeave, Zenon DEF Delivery

\* send_all fails: the frame goes, and what was received from that machine.
LEMMA FailKeeps ==
  ASSUME MailInv, Typed', HubSendFails
  PROVE  Delivery'
<1> DEFINE h == hub.frame
           m == hub.to
           F == {h} \cup Frames(up[m])
<1>1. /\ hub # None /\ m \in Machines /\ h \in Frame /\ hub' = None
      /\ up' = [up EXCEPT ![m] = <<>>] /\ UNCHANGED <<wr, down>>
      /\ mail' = Mark(mail, F, Lost)
  BY Zenon DEF HubSendFails, MailInv, Typed
<1>2. AtHub = {h} /\ AtHub' = {}
  BY <1>1, Zenon DEF AtHub
<1> HIDE DEF h, m
<1>3. /\ Frames(up'[m]) = {} /\ Sorted(up'[m])
      /\ \A r \in Machines \ {m} : up'[r] = up[r]
  BY <1>1, NoFrames, Zenon DEF MailInv, Typed
<1>4. Writing' = Writing /\ Downward' = Downward /\ Upward' \subseteq Upward
      /\ Upward \subseteq Upward' \cup F
  BY <1>1, <1>3, Zenon DEF Writing, Downward, Upward
<1>5. Carried \in SUBSET Frame
  BY CarriedType, Zenon DEF MailInv
<1>6. ASSUME NEW f \in Carried', f.k > 0, NEW g \in F, g # None, g.m = f.m, g.k = f.k
      PROVE  FALSE
  <2>1. f \in Writing \cup Upward' \cup Downward /\ f \in Carried /\ f.k \in Nat
    BY <1>2, <1>4, <1>5, Zenon DEF Carried, Frame
  <2>2. CASE g = h
    BY <1>2, <1>4, <1>6, <2>1, <2>2 DEF MailInv, InOrder, Older
  <2>3. CASE g # h
    <3>1. g \in Frames(up[m]) /\ g \in Upward /\ g.m = m
      BY <1>1, <2>3, Zenon DEF Upward, MailInv, Own
    <3>2. CASE f \in Upward'
      <4>1. PICK r \in Machines : f \in Frames(up'[r])
        BY <3>2, Zenon DEF Upward
      <4>2. r # m /\ f \in Frames(up[r])
        BY <1>3, <4>1, Zenon
      <4>. QED
        BY <1>6, <3>1, <4>2, Zenon DEF MailInv, Own
    <3>3. CASE f \in Writing \cup Downward
      <4>1. Older(g, f) \/ Older(f, g)
        BY <3>1, <3>3, Zenon DEF MailInv, InOrder
      <4>. QED
        BY <1>6, <2>1, <4>1 DEF Older
    <3>. QED
      BY <2>1, <3>2, <3>3, Zenon
  <2>. QED
    BY <2>2, <2>3, Zenon
<1>7. \A f \in Carried' : f.k > 0 => ~Among(F, f.m, f.k)
  BY <1>6, Zenon DEF Among
<1>8. Carried \subseteq Carried' \cup F
  BY <1>2, <1>4, Zenon DEF Carried
<1>9. \A r \in Machines : /\ wr'[r] \in {wr[r], None}
                          /\ Frames(up'[r]) \subseteq Frames(up[r]) /\ Sorted(up'[r])
                          /\ Frames(down'[r]) \subseteq Frames(down[r]) /\ Sorted(down'[r])
  BY <1>1, <1>3, Zenon DEF MailInv, InOrder
<1>10. Lost \in Machines \cup {Lost} /\ Lost \notin Machines /\ hub' \in {hub, None}
  BY <1>1, LinkAssumption, Zenon
<1> HIDE DEF F
<1>. QED
  BY <1>1, <1>7, <1>8, <1>9, <1>10, FramesLeave, Zenon DEF Delivery

\* A frame moves on, and the messages stay as they are.
LEMMA MoveKeeps ==
  ASSUME MailInv, Typed', UNCHANGED mail, Carried' \subseteq Carried,
         \A f \in Carried : f.k > 0 => f \in Carried',
         \A m \in Machines : /\ wr'[m] # None => wr'[m].m = m
                             /\ \A f \in Frames(up'[m]) : f.m = m,
         \A f \in (AtHub \cup Downward)' : f.k > 0,
         \A r \in Machines : \A f \in ToCome(r)' : f.k > 0 => f \in ToCome(r)
  PROVE  Own' /\ ShownFirst' /\ InSight'
<1>0. mail \in [Machines -> Seq(Letter)]
  BY Zenon DEF MailInv, Typed
<1>1. Own'
  BY Zenon DEF MailInv, Own
<1>2. ShownFirst'
  BY Zenon DEF MailInv, ShownFirst
<1>3. InSight'
  <2>1. ASSUME NEW m \in Machines, NEW k \in DOMAIN mail[m], mail[m][k].at = OnTheWay
        PROVE  \E f \in Carried' : f.m = m /\ f.k = k
    <3>1. PICK f \in Carried : f.m = m /\ f.k = k
      BY <2>1 DEF MailInv, InSight
    <3>2. k > 0
      BY <1>0
    <3>. QED
      BY <3>1, <3>2, Zenon
  <2>. QED
    BY <2>1, Zenon DEF InSight
<1>. QED
  BY <1>1, <1>2, <1>3, Zenon

\* msg_set_id writes an announcement, which is no message.
LEMMA SetIdKeeps ==
  ASSUME MailInv, Typed', NEW m \in Machines, NEW n \in Node, SetId(m, n)
  PROVE  Delivery'
<1> DEFINE a == FrameOf(m, 0, n, n)
<1>1. a \in Frame /\ a.k = 0 /\ a.m = m /\ a # None /\ a.from = a.to
  BY LinkAssumption DEF FrameOf, Frame
<1> HIDE DEF a
<1>2. wr[m] = None /\ wr' = [wr EXCEPT ![m] = a] /\ UNCHANGED <<up, down, hub, mail>>
  BY Zenon DEF SetId, a, MailInv, Modes
<1>3. \A r \in Machines : wr'[r] = IF r = m THEN a ELSE wr[r]
  BY <1>2, Zenon DEF MailInv, Typed
<1>4. Writing' = Writing \cup {a}
  BY <1>1, <1>2, <1>3 DEF Writing
<1>5. Upward' = Upward /\ AtHub' = AtHub /\ Downward' = Downward
  BY <1>2, Zenon DEF Upward, AtHub, Downward
<1>6. InOrder'
  <2>1. \A f : Older(f, a)
    BY <1>1 DEF Older
  <2>2. /\ \A f \in (Upward \cup AtHub \cup Downward)', g \in Writing' : Older(f, g)
        /\ \A f \in (AtHub \cup Downward)', g \in Upward' : Older(f, g)
        /\ \A f \in Downward', g \in AtHub' : Older(f, g)
    BY <1>4, <1>5, <2>1, Zenon DEF MailInv, InOrder
  <2>. QED
    BY <1>2, <2>2, Zenon DEF MailInv, InOrder
<1>7. Own'
  <2>1. \A r \in Machines : /\ wr'[r] # None => wr'[r].m = r
                            /\ \A f \in Frames(up'[r]) : f.m = r
    BY <1>1, <1>2, <1>3 DEF MailInv, Own
  <2>2. \A f \in Carried' : (f.k > 0 => f \in Carried) /\ (f \in Carried \/ f = a)
    BY <1>1, <1>4, <1>5 DEF Carried
  <2>. QED
    BY <1>1, <1>2, <1>5, <2>1, <2>2, Zenon DEF MailInv, Own
<1>8. ShownFirst'
  <2>1. \A r \in Machines : \A f \in ToCome(r)' : f.k > 0 => f \in ToCome(r)
    BY <1>1, <1>2, <1>4, <1>5 DEF ToCome
  <2>. QED
    BY <1>2, <2>1, Zenon DEF MailInv, ShownFirst
<1>9. InSight'
  <2>1. Carried \subseteq Carried'
    BY <1>4, <1>5, Zenon DEF Carried
  <2>. QED
    BY <1>2, <2>1 DEF MailInv, InSight
<1>. QED
  BY <1>6, <1>7, <1>8, <1>9, Zenon DEF Delivery

\* sendmsg writes a message that is newer than all of its machine.
LEMMA SendMsgKeeps ==
  ASSUME MailInv, Typed', NEW m \in Machines, NEW n \in Node, SendMsg(m, n)
  PROVE  Delivery'
<1> DEFINE l == Len(mail[m]) + 1
           a == FrameOf(m, l, id[m], n)
           x == [to |-> n, at |-> OnTheWay]
<1>0. mail[m] \in Seq(Letter) /\ Len(mail[m]) \in Nat /\ l \in Nat /\ l > 0
      /\ DOMAIN mail[m] = 1 .. Len(mail[m])
  BY DEF MailInv, Typed
<1>1. a \in Frame /\ a.k = l /\ a.m = m /\ a.to = n /\ a # None
  <2>1. id[m] \in Node
    BY Zenon DEF SendMsg, MailInv, Modes, Typed
  <2>. QED
    BY <1>0, <2>1, LinkAssumption DEF FrameOf, Frame
<1>2. wr[m] = None /\ wr' = [wr EXCEPT ![m] = a] /\ UNCHANGED <<up, down, hub>>
      /\ mail' = [mail EXCEPT ![m] = Append(mail[m], x)]
  BY Zenon DEF SendMsg, MailInv, Modes
<1>3. /\ DOMAIN mail'[m] = DOMAIN mail[m] \cup {l} /\ mail'[m][l] = x
      /\ \A k \in DOMAIN mail[m] : k < l /\ mail'[m][k] = mail[m][k]
  <2>1. mail'[m] = Append(mail[m], x)
    BY <1>2, Zenon DEF MailInv, Typed
  <2>. QED
    BY <1>0, <2>1
<1>4. \A r \in Machines \ {m} : mail'[r] = mail[r]
  BY <1>2, Zenon DEF MailInv, Typed
<1> HIDE DEF a, l
<1>5. \A r \in Machines : wr'[r] = IF r = m THEN a ELSE wr[r]
  BY <1>2, Zenon DEF MailInv, Typed
<1>6. Writing' = Writing \cup {a}
  BY <1>1, <1>2, <1>5 DEF Writing
<1>7. Upward' = Upward /\ AtHub' = AtHub /\ Downward' = Downward
  BY <1>2, Zenon DEF Upward, AtHub, Downward
<1>8. Carried' = Carried \cup {a} /\ Carried \in SUBSET Frame
  BY <1>6, <1>7, CarriedType, Zenon DEF Carried, MailInv
<1>9. \A f \in Carried : f.k > 0 => /\ f.k \in DOMAIN mail[f.m] /\ f.m \in Machines
                                    /\ mail'[f.m][f.k] = mail[f.m][f.k]
                                    /\ f.k \in DOMAIN mail'[f.m]
  <2>1. ASSUME NEW f \in Carried, f.k > 0
        PROVE  f.k \in DOMAIN mail[f.m] /\ f.m \in Machines
    BY <1>8, <2>1, Zenon DEF MailInv, Own, Frame
  <2>2. ASSUME NEW r \in Machines, NEW k \in DOMAIN mail[r]
        PROVE  mail'[r][k] = mail[r][k] /\ k \in DOMAIN mail'[r]
    BY <1>3, <1>4, Zenon
  <2>. QED
    BY <2>1, <2>2, Zenon
<1>10. \A f \in Carried : Older(f, a)
  BY <1>1, <1>3, <1>9, Zenon DEF Older
<1>11. InOrder'
  <2>1. /\ \A f \in (Upward \cup AtHub \cup Downward)', g \in Writing' : Older(f, g)
        /\ \A f \in (AtHub \cup Downward)', g \in Upward' : Older(f, g)
        /\ \A f \in Downward', g \in AtHub' : Older(f, g)
    BY <1>6, <1>7, <1>10, Zenon DEF MailInv, InOrder, Carried
  <2>. QED
    BY <1>2, <2>1, ZenonT(30) DEF MailInv, InOrder
<1>12. Own'
  <2>1. \A r \in Machines : /\ wr'[r] # None => wr'[r].m = r
                            /\ \A f \in Frames(up'[r]) : f.m = r
    BY <1>1, <1>2, <1>5 DEF MailInv, Own
  <2>2. a.k \in DOMAIN mail'[a.m] /\ mail'[a.m][a.k] = [to |-> a.to, at |-> OnTheWay]
    BY <1>1, <1>3, Zenon
  <2>3. \A f \in Carried : f.k > 0 => mail'[f.m][f.k] = [to |-> f.to, at |-> OnTheWay]
    BY <1>9, Zenon DEF MailInv, Own
  <2>. QED
    BY <1>0, <1>1, <1>7, <1>8, <1>9, <2>1, <2>2, <2>3 DEF MailInv, Own
<1>13. ShownFirst'
  <2>1. ASSUME NEW s \in Machines, NEW r \in Machines, NEW k \in DOMAIN mail'[s],
               NEW f \in ToCome(r)', mail'[s][k].at = r, f.m = s, f.k > 0
        PROVE  k < f.k
    <3>1. k \in DOMAIN mail[s] /\ mail'[s][k] = mail[s][k]
      <4>1. x.at \notin Machines
        BY LinkAssumption, Zenon
      <4>. QED
        BY <1>3, <1>4, <2>1, <4>1, Zenon
    <3>2. CASE f = a
      BY <1>1, <1>3, <2>1, <3>1, <3>2, Zenon
    <3>3. CASE f # a
      <4>1. f \in ToCome(r)
        BY <1>2, <1>6, <1>7, <3>3, Zenon DEF ToCome
      <4>. QED
        BY <2>1, <3>1, <4>1, Zenon DEF MailInv, ShownFirst
    <3>. QED
      BY <3>2, <3>3, Zenon
  <2>. QED
    BY <2>1, Zenon DEF ShownFirst
<1>14. InSight'
  <2>1. ASSUME NEW s \in Machines, NEW k \in DOMAIN mail'[s], mail'[s][k].at = OnTheWay
        PROVE  \E f \in Carried' : f.m = s /\ f.k = k
    <3>1. CASE s = m /\ k = l
      BY <1>1, <1>8, <3>1, Zenon
    <3>2. CASE ~(s = m /\ k = l)
      <4>1. k \in DOMAIN mail[s] /\ mail'[s][k] = mail[s][k]
        BY <1>3, <1>4, <3>2, Zenon
      <4>. QED
        BY <1>8, <2>1, <4>1 DEF MailInv, InSight
    <3>. QED
      BY <3>1, <3>2, Zenon
  <2>. QED
    BY <2>1, Zenon DEF InSight
<1>. QED
  BY <1>11, <1>12, <1>13, <1>14, Zenon DEF Delivery

\* A frame that was written is behind the machine's others on the line.
LEMMA WrittenKeeps ==
  ASSUME MailInv, Typed', NEW m \in Machines, Written(m)
  PROVE  Delivery'
<1> DEFINE f == wr[m]
<1>1. /\ f \in Frame /\ f # None /\ f.m = m /\ f \in Writing
      /\ wr' = [wr EXCEPT ![m] = None] /\ up' = [up EXCEPT ![m] = Append(up[m], f)]
      /\ UNCHANGED <<down, hub, mail>> /\ up[m] \in Seq(Frame)
  BY DEF Written, MailInv, Typed, Modes, Own, Writing
<1> HIDE DEF f
<1>2. Sorted(up[m]) /\ \A g \in Frames(up[m]) : g \in Upward /\ Older(g, f)
  BY <1>1, SMTT(20) DEF MailInv, InOrder, Upward
<1>3. Frames(up'[m]) = Frames(up[m]) \cup {f} /\ Sorted(up'[m])
  <2>1. up'[m] = Append(up[m], f)
    BY <1>1, Zenon DEF MailInv, Typed
  <2>. QED
    BY <1>1, <1>2, <2>1, AppendFrames, Zenon
<1>4. /\ \A r \in Machines \ {m} : up'[r] = up[r]
      /\ \A r \in Machines : wr'[r] = IF r = m THEN None ELSE wr[r]
  BY <1>1, Zenon DEF MailInv, Typed
<1>5. /\ Writing = Writing' \cup {f} /\ Upward' = Upward \cup {f}
      /\ AtHub' = AtHub /\ Downward' = Downward
  <2>1. Writing = Writing' \cup {f}
    BY <1>1, <1>4 DEF Writing, f
  <2>2. Upward' = Upward \cup {f}
    BY <1>3, <1>4, Zenon DEF Upward
  <2>. QED
    BY <1>1, <2>1, <2>2, Zenon DEF AtHub, Downward
<1>6. \A g \in Writing' : g.m # m
  BY <1>4 DEF Writing, MailInv, Own
<1>7. InOrder'
  <2>1. \A g \in Writing' : Older(f, g)
    BY <1>1, <1>6, Zenon DEF Older
  <2>2. \A g \in AtHub \cup Downward : Older(g, f)
    BY <1>1, Zenon DEF MailInv, InOrder
  <2>3. \A x \in (Upward \cup AtHub \cup Downward)', g \in Writing' : Older(x, g)
    BY <1>5, <2>1, Zenon DEF MailInv, InOrder
  <2>4. \A x \in (AtHub \cup Downward)', g \in Upward' : Older(x, g)
    BY <1>5, <2>2, Zenon DEF MailInv, InOrder
  <2>5. \A x \in Downward', g \in AtHub' : Older(x, g)
    BY <1>5, Zenon DEF MailInv, InOrder
  <2>6. \A r \in Machines : Sorted(up'[r]) /\ Sorted(down'[r])
    BY <1>1, <1>3, <1>4, Zenon DEF MailInv, InOrder
  <2>. QED
    BY <1>1, <2>3, <2>4, <2>5, <2>6 DEF MailInv, InOrder
<1>8. Own' /\ ShownFirst' /\ InSight'
  <2>1. Carried' = Carried
    BY <1>5, Zenon DEF Carried
  <2>2. \A r \in Machines : ToCome(r)' = ToCome(r)
    BY <1>1, <1>5, Zenon DEF ToCome
  <2>3. \A r \in Machines : /\ wr'[r] # None => wr'[r].m = r
                            /\ \A g \in Frames(up'[r]) : g.m = r
    BY <1>1, <1>3, <1>4 DEF MailInv, Own
  <2>4. \A g \in (AtHub \cup Downward)' : g.k > 0
    BY <1>5, Zenon DEF MailInv, Own
  <2>. QED
    BY <1>1, <2>1, <2>2, <2>3, <2>4, MoveKeeps, Zenon
<1>. QED
  BY <1>7, <1>8, Zenon DEF Delivery

\* The hub takes the oldest frame of a machine to forward it.
LEMMA ForwardKeeps ==
  ASSUME MailInv, Typed', NEW m \in Machines, NEW x \in Machines,
         hub = None, up[m] # <<>>, up' = [up EXCEPT ![m] = Tail(up[m])],
         Head(up[m]).to # Head(up[m]).from,
         hub' = [to |-> x, frame |-> Head(up[m])], UNCHANGED <<wr, down, mail>>
  PROVE  Delivery'
<1> DEFINE h == Head(up[m])
<1>1. /\ h \in Frame /\ Frames(up[m]) = {h} \cup Frames(Tail(up[m]))
      /\ Sorted(Tail(up[m])) /\ \A g \in Frames(Tail(up[m])) : Older(h, g)
  BY TailFrames, Zenon DEF MailInv, Typed, InOrder
<1> HIDE DEF h
<1>2. \A r \in Machines : up'[r] = IF r = m THEN Tail(up[m]) ELSE up[r]
  BY Zenon DEF MailInv, Typed
<1>3. h \in Upward /\ h.m = m /\ Frames(up'[m]) = Frames(Tail(up[m]))
      /\ \A r \in Machines \ {m} : Frames(up'[r]) = Frames(up[r])
  BY <1>1, <1>2, Zenon DEF Upward, MailInv, Own
<1>4. /\ Writing' = Writing /\ Downward' = Downward /\ AtHub = {} /\ AtHub' = {h}
      /\ Upward = Upward' \cup {h}
  <2>1. [to |-> x, frame |-> h] # None /\ [to |-> x, frame |-> h].frame = h
    BY <1>1, LinkAssumption
  <2>2. AtHub = {} /\ AtHub' = {h}
    BY <2>1, Zenon DEF AtHub, h
  <2>3. Upward = Upward' \cup {h}
    BY <1>1, <1>3 DEF Upward
  <2>. QED
    BY <2>2, <2>3, Zenon DEF Writing, Downward
<1>5. h.k > 0
  <2>1. h \in Carried /\ h.k \in Nat
    BY <1>1, <1>3, Zenon DEF Carried, Frame
  <2>. QED
    BY <2>1 DEF MailInv, Own, h
<1>6. \A g \in Upward' : Older(h, g)
  <2>1. ASSUME NEW r \in Machines, NEW g \in Frames(up'[r]) PROVE Older(h, g)
    <3>1. CASE r = m
      BY <1>1, <1>3, <3>1, Zenon
    <3>2. CASE r # m
      <4>1. g.m = r
        BY <1>3, <3>2, Zenon DEF MailInv, Own
      <4>. QED
        BY <1>3, <3>2, <4>1, Zenon DEF Older
    <3>. QED
      BY <3>1, <3>2, Zenon
  <2>. QED
    BY <2>1, Zenon DEF Upward
<1>7. InOrder'
  <2>1. /\ \A f \in (Upward \cup AtHub \cup Downward)', g \in Writing' : Older(f, g)
        /\ \A f \in (AtHub \cup Downward)', g \in Upward' : Older(f, g)
        /\ \A f \in Downward', g \in AtHub' : Older(f, g)
    BY <1>4, <1>6, Zenon DEF MailInv, InOrder
  <2>2. \A r \in Machines : Sorted(up'[r]) /\ Sorted(down'[r])
    BY <1>1, <1>2, Zenon DEF MailInv, InOrder
  <2>. QED
    BY <2>1, <2>2 DEF MailInv, InOrder
<1>8. Own' /\ ShownFirst' /\ InSight'
  <2>1. Carried' = Carried
    BY <1>4, Zenon DEF Carried
  <2>2. \A r \in Machines : ToCome(r)' = ToCome(r)
    BY <1>4, Zenon DEF ToCome
  <2>3. \A r \in Machines : /\ wr'[r] # None => wr'[r].m = r
                            /\ \A g \in Frames(up'[r]) : g.m = r
    BY <1>1, <1>3, Zenon DEF MailInv, Own
  <2>4. \A g \in (AtHub \cup Downward)' : g.k > 0
    BY <1>4, <1>5, Zenon DEF MailInv, Own
  <2>. QED
    BY <2>1, <2>2, <2>3, <2>4, MoveKeeps, Zenon
<1>. QED
  BY <1>7, <1>8, Zenon DEF Delivery

\* The hub puts the frame it forwards on the line down, behind older ones.
LEMMA SendKeeps ==
  ASSUME MailInv, Typed', HubSend
  PROVE  Delivery'
<1> DEFINE h == hub.frame
           t == hub.to
<1>1. /\ hub # None /\ t \in Machines /\ h \in Frame /\ hub' = None
      /\ down' = [down EXCEPT ![t] = Append(down[t], h)] /\ UNCHANGED <<wr, up, mail>>
      /\ down[t] \in Seq(Frame)
  BY Zenon DEF HubSend, MailInv, Typed
<1>2. AtHub = {h} /\ AtHub' = {}
  BY <1>1, Zenon DEF AtHub
<1> HIDE DEF h, t
<1>3. /\ \A g \in Downward : Older(g, h) /\ h.k > 0 /\ g.k > 0
      /\ \A r \in Machines : Frames(down[r]) \subseteq Downward
      /\ Sorted(down[t])
  BY <1>1, <1>2, Zenon DEF MailInv, InOrder, Own, Downward
<1>4. Frames(down'[t]) = Frames(down[t]) \cup {h} /\ Sorted(down'[t])
  <2>1. down'[t] = Append(down[t], h)
    BY <1>1, Zenon DEF MailInv, Typed
  <2>2. \A g \in Frames(down[t]) : Older(g, h)
    BY <1>1, <1>3, Zenon
  <2>. QED
    BY <1>1, <1>3, <2>1, <2>2, AppendFrames, Zenon
<1>5. \A r \in Machines \ {t} : down'[r] = down[r]
  BY <1>1, Zenon DEF MailInv, Typed
<1>6. Writing' = Writing /\ Upward' = Upward /\ Downward' = Downward \cup {h}
  <2>1. Downward' = Downward \cup {h}
    BY <1>1, <1>4, <1>5, Zenon DEF Downward
  <2>. QED
    BY <1>1, <2>1, Zenon DEF Writing, Upward
<1>7. InOrder'
  <2>1. /\ \A f \in (Upward \cup AtHub \cup Downward)', g \in Writing' : Older(f, g)
        /\ \A f \in (AtHub \cup Downward)', g \in Upward' : Older(f, g)
        /\ \A f \in Downward', g \in AtHub' : Older(f, g)
    BY <1>2, <1>6, Zenon DEF MailInv, InOrder
  <2>2. \A r \in Machines : Sorted(up'[r]) /\ Sorted(down'[r])
    BY <1>1, <1>4, <1>5, Zenon DEF MailInv, InOrder
  <2>3. h.k \in Nat
    BY <1>1, Zenon DEF Frame
  <2>4. \A g \in Downward : ~(g.m = h.m /\ g.k = h.k)
    BY <1>3, <2>3 DEF Older
  <2>5. ASSUME NEW r \in Machines, NEW s \in Machines, r # s,
               NEW f \in Frames(down'[r]), NEW g \in Frames(down'[s])
        PROVE  ~(f.m = g.m /\ f.k = g.k)
    <3>1. f \in Frames(down[r]) \/ (r = t /\ f = h)
      BY <1>4, <1>5, Zenon
    <3>2. g \in Frames(down[s]) \/ (s = t /\ g = h)
      BY <1>4, <1>5, Zenon
    <3>3. CASE f \in Frames(down[r]) /\ g \in Frames(down[s])
      BY <2>5, <3>3, Zenon DEF MailInv, InOrder
    <3>4. CASE r = t /\ f = h
      BY <1>3, <2>4, <2>5, <3>2, <3>4, Zenon
    <3>5. CASE s = t /\ g = h
      BY <1>3, <2>4, <2>5, <3>1, <3>5, Zenon
    <3>. QED
      BY <3>1, <3>2, <3>3, <3>4, <3>5, Zenon
  <2>. QED
    BY <2>1, <2>2, <2>5, Zenon DEF InOrder
<1>8. Own' /\ ShownFirst' /\ InSight'
  <2>1. Carried' = Carried
    BY <1>2, <1>6, Zenon DEF Carried
  <2>2. \A r \in Machines : ToCome(r)' \subseteq ToCome(r)
    BY <1>2, <1>4, <1>5, <1>6, Zenon DEF ToCome
  <2>3. \A r \in Machines : /\ wr'[r] # None => wr'[r].m = r
                            /\ \A g \in Frames(up'[r]) : g.m = r
    BY <1>1, Zenon DEF MailInv, Own
  <2>4. \A g \in (AtHub \cup Downward)' : g.k > 0
    BY <1>2, <1>6, Zenon DEF MailInv, Own
  <2>. QED
    BY <1>1, <2>1, <2>2, <2>3, <2>4, MoveKeeps, Zenon
<1>. QED
  BY <1>7, <1>8, Zenon DEF Delivery

-----------------------------------------------------------------------------
(* The invariant                                                           *)

\* At power on nothing is carried.
LEMMA InitMailInv == Init => MailInv
<1> SUFFICES ASSUME Init PROVE MailInv
  BY Zenon
<1>1. Typed
  BY LinkAssumption DEF Init, Typed
<1>2. Modes
  BY LinkAssumption DEF Init, Modes
<1>3. Writing = {} /\ AtHub = {}
  BY Zenon DEF Init, Writing, AtHub
<1>4. \A m \in Machines : Frames(up[m]) = {} /\ Frames(down[m]) = {}
                          /\ Sorted(up[m]) /\ Sorted(down[m])
  BY NoFrames, Zenon DEF Init
<1>5. Upward = {} /\ Downward = {}
  BY <1>4, Zenon DEF Upward, Downward
<1>6. Carried = {}
  BY <1>3, <1>5, Zenon DEF Carried
<1>7. Own
  BY <1>3, <1>4, <1>5, <1>6, Zenon DEF Init, Own
<1>8. InOrder
  BY <1>3, <1>4, <1>5, Zenon DEF InOrder
<1>9. \A m \in Machines : DOMAIN mail[m] = {}
  BY DEF Init
<1>10. ShownFirst /\ InSight
  BY <1>9, Zenon DEF ShownFirst, InSight
<1>. QED
  BY <1>1, <1>2, <1>7, <1>8, <1>10, Zenon DEF MailInv

\* Steps that move no frame and change no message.
LEMMA StillKeeps ==
  ASSUME MailInv, UNCHANGED <<wr, up, down, hub, mail>>
  PROVE  Delivery'
<1>1. /\ Writing' = Writing /\ Upward' = Upward /\ AtHub' = AtHub /\ Downward' = Downward
      /\ \A r \in Machines : ToCome(r)' = ToCome(r)
  BY DEF Writing, Upward, AtHub, Downward, ToCome
<1>2. Carried' = Carried
  BY <1>1, Zenon DEF Carried
<1>3. Own'
  BY <1>1, <1>2, Zenon DEF MailInv, Own
<1>4. InOrder'
  BY <1>1, Zenon DEF MailInv, InOrder
<1>5. ShownFirst' /\ InSight'
  BY <1>1, <1>2 DEF MailInv, ShownFirst, InSight
<1>. QED
  BY <1>3, <1>4, <1>5, Zenon DEF Delivery

\* What the hub does with the next frame of m: it forwards it, or loses it.
LEMMA TakeCases ==
  ASSUME NEW m \in Machines, HubTake(m)
  PROVE  \/ mail' = Mark(mail, {Head(up[m])}, Lost) /\ hub' = hub
         \/ /\ Head(up[m]).to # Head(up[m]).from /\ UNCHANGED mail
            /\ \E x \in Machines : hub' = [to |-> x, frame |-> Head(up[m])]
<1> DEFINE f == Head(up[m])
           to == Routed(Learn(reg, m, f.from), f)
<1>1. /\ hub = None
      /\ hub' = IF to = {} THEN None ELSE [to |-> CHOOSE x \in to : TRUE, frame |-> f]
      /\ mail' = IF to = {} THEN Mark(mail, {f}, Lost) ELSE mail
  BY Zenon DEF HubTake
<1>2. to \in SUBSET Machines /\ (to # {} => f.to # f.from)
  BY Zenon DEF Routed
<1> HIDE DEF to, f
<1>3. CASE to = {}
  BY <1>1, <1>3, Zenon DEF f
<1>4. CASE to # {}
  <2>1. (CHOOSE x \in to : TRUE) \in Machines
    BY <1>2, <1>4, Zenon
  <2>. QED
    BY <1>1, <1>2, <1>4, <2>1, Zenon DEF f
<1>. QED
  BY <1>3, <1>4, Zenon

\* Every step of machines and hub keeps the invariant.
LEMMA NextMailInv == MailInv /\ [Next]_vars => MailInv'
<1> SUFFICES ASSUME MailInv, [Next]_vars PROVE MailInv'
  BY Zenon
<1>0. Delivery' /\ Typed' /\ Modes' => MailInv'
  BY Zenon DEF Delivery, MailInv
<1>1. CASE UNCHANGED vars
  <2>1. Typed' /\ Modes'
    BY <1>1, Zenon DEF vars, MailInv, Typed, Modes
  <2>2. Delivery'
    BY <1>1, StillKeeps, Zenon DEF vars
  <2>. QED
    BY <1>0, <2>1, <2>2, Zenon
<1>2. CASE Next
  <2>1. Typed' /\ Modes'
    <3>1. Typed /\ Modes
      BY Zenon DEF MailInv
    <3>. QED
      BY <1>2, <3>1, MachineTypes, HubTypes, Zenon DEF Next
  <2>2. Lost \notin Machines
    BY LinkAssumption, Zenon
  <2>3. ASSUME Sends PROVE Delivery'
    BY <2>1, <2>3, SendKeeps, FailKeeps, Zenon DEF Sends
  <2>4. ASSUME NEW m \in Machines, NEW n \in Node, SetId(m, n) \/ SendMsg(m, n)
        PROVE  Delivery'
    BY <2>1, <2>4, SetIdKeeps, SendMsgKeeps, Zenon
  <2>5. ASSUME NEW m \in Machines, Reads(m) PROVE Delivery'
    <3>1. PICK at \in {m, Lost} : mail' = Mark(mail, {Head(down[m])}, at)
      BY <2>5, Zenon DEF Reads, Poll, PollNoise, ConnReads
    <3>2. /\ down[m] # <<>> /\ down' = [down EXCEPT ![m] = Tail(down[m])]
          /\ UNCHANGED <<wr, up, hub>>
      BY <2>5, Zenon DEF Reads, Poll, PollNoise, ConnReads
    <3>. QED
      BY <2>1, <3>1, <3>2, ReadKeeps, Zenon
  <2>6. ASSUME NEW m \in Machines, EnterConn(m) \/ LeaveConn(m) \/ Halt(m) \/ HubDrop(m)
        PROVE  Delivery'
    BY <2>6, StillKeeps, Zenon DEF EnterConn, LeaveConn, Halt, HubDrop
  <2>7. ASSUME NEW m \in Machines, Reset(m) \/ Quit(m) PROVE Delivery'
    <3>1. PICK F : /\ mail' = Mark(mail, F, Lost)
                   /\ \/ down' = down /\ F = {wr[m]}
                      \/ down' = [down EXCEPT ![m] = <<>>] /\ F = {wr[m]} \cup Frames(down[m])
      BY <2>7, Zenon DEF Reset, Quit
    <3>2. wr' = [wr EXCEPT ![m] = None] /\ UNCHANGED <<up, hub>>
      BY <2>7, Zenon DEF Reset, Quit
    <3>. QED
      BY <2>1, <3>1, <3>2, StopKeeps, Zenon
  <2>8. ASSUME NEW m \in Machines, Takes(m) PROVE Delivery'
    <3>1. /\ up[m] # <<>> /\ up' = [up EXCEPT ![m] = Tail(up[m])] /\ hub = None
          /\ UNCHANGED <<wr, down>>
      BY <2>8, Zenon DEF Takes, HubTake, HubNoise
    <3>2. CASE mail' = Mark(mail, {Head(up[m])}, Lost) /\ hub' = hub
      BY <2>1, <3>1, <3>2, TakeKeeps, Zenon
    <3>3. ASSUME NEW x \in Machines, Head(up[m]).to # Head(up[m]).from, UNCHANGED mail,
                 hub' = [to |-> x, frame |-> Head(up[m])]
          PROVE  Delivery'
      BY <2>1, <3>1, <3>3, ForwardKeeps, Zenon
    <3>. QED
      BY <2>8, <3>2, <3>3, TakeCases, Zenon DEF Takes, HubNoise
  <2>9. ASSUME NEW m \in Machines, Written(m) PROVE Delivery'
    BY <2>1, <2>9, WrittenKeeps, Zenon
  <2>10. Delivery'
    BY <1>2, <2>3, <2>4, <2>5, <2>6, <2>7, <2>8, <2>9, Zenon DEF Next, Faults
  <2>. QED
    BY <1>0, <2>1, <2>10, Zenon
<1>. QED
  BY <1>1, <1>2, Zenon

\* The invariant holds in every state of the machines and the hub.
THEOREM LinkInvariant == Spec => []MailInv
BY InitMailInv, NextMailInv, PTL DEF Spec

-----------------------------------------------------------------------------
(* What it shows                                                           *)

\* The size of a set with at most one element.
LEMMA AtMostOne ==
  ASSUME NEW S, \A x, y \in S : x = y
  PROVE  Cardinality(S) = IF S = {} THEN 0 ELSE 1
<1>1. CASE S = {}
  BY <1>1, FS_EmptySet, Zenon
<1>2. CASE S # {}
  <2>1. PICK x : x \in S
    BY <1>2, Zenon
  <2>2. S = {x}
    BY <2>1, Zenon
  <2>. QED
    BY <1>2, <2>2, FS_Singleton, Zenon
<1>. QED
  BY <1>1, <1>2, Zenon

\* Whatever machines restart, halt, end or take each other's ids, and however the
\* lines fill up: a message that was neither shown nor lost is in exactly one place,
\* and one that was shown or lost is in none, so that it cannot be shown again.
THEOREM LinkOneCopy == Spec => []OneCopy
<1>1. MailInv => TypeOK
  BY Zenon DEF MailInv, Typed, Modes, TypeOK
<1>2. ASSUME MailInv, NEW m \in Machines, NEW k \in DOMAIN mail[m]
      PROVE  Carries(m, k) = IF mail[m][k].at = OnTheWay THEN 1 ELSE 0
  <2> DEFINE is(f) == f # None /\ f.m = m /\ f.k = k
             U == {i \in DOMAIN up[m] : is(up[m][i])}
             D == {p \in Machines \X (1 .. DownCap) :
                     p[2] \in DOMAIN down[p[1]] /\ is(down[p[1]][p[2]])}
             W == is(wr[m])
             H == hub # None /\ is(hub.frame)
             way == mail[m][k].at = OnTheWay
  <2>0. k \in Nat /\ k > 0 /\ up[m] \in Seq(Frame) /\ Carried \in SUBSET Frame
        /\ DownCap \in Nat
    <3>1. mail[m] \in Seq(Letter) /\ up[m] \in Seq(Frame)
      BY <1>2, Zenon DEF MailInv, Typed
    <3>2. k \in Nat /\ k > 0
      BY <3>1
    <3>. QED
      BY <1>2, <3>1, <3>2, CarriedType, LinkAssumption, Zenon DEF MailInv
  <2>1. W => wr[m] \in Writing
    BY Zenon DEF Writing
  <2>2. H => hub.frame \in AtHub
    BY Zenon DEF AtHub
  <2>3. \A i \in U : up[m][i] \in Frames(up[m]) /\ up[m][i] \in Upward /\ is(up[m][i])
    BY DEF Frames, Upward
  <2>4. \A p \in D : down[p[1]][p[2]] \in Frames(down[p[1]]) /\ down[p[1]][p[2]] \in Downward
                     /\ is(down[p[1]][p[2]]) /\ p[1] \in Machines
    BY DEF Frames, Downward
  <2>5. \A f, g : is(f) /\ is(g) => ~Older(f, g)
    BY <2>0 DEF Older
  <2>6. ASSUME NEW f \in Carried, is(f) PROVE way
    <3>1. mail[m][k] = [to |-> f.to, at |-> OnTheWay]
      BY <1>2, <2>0, <2>6, Zenon DEF MailInv, Own
    <3>. QED
      BY <3>1
  <2>7. \A i, j \in U : i = j
    <3>1. ASSUME NEW i \in U, NEW j \in U, i < j PROVE FALSE
      BY <1>2, <2>3, <2>5, <3>1, Zenon DEF MailInv, InOrder, Sorted
    <3>2. \A i \in U : i \in Nat
      BY <2>0
    <3> HIDE DEF U
    <3>. QED
      BY <3>1, <3>2
  <2>8. \A p, q \in D : p = q
    <3>1. ASSUME NEW p \in D, NEW q \in D PROVE p = q
      <4>1. p[1] = q[1]
        BY <1>2, <2>4 DEF MailInv, InOrder
      <4>2. /\ p[2] \in Nat /\ q[2] \in Nat /\ p = <<p[1], p[2]>> /\ q = <<q[1], q[2]>>
            /\ p[2] \in DOMAIN down[p[1]] /\ q[2] \in DOMAIN down[q[1]]
        BY <2>0
      <4>3. Sorted(down[p[1]])
        BY <1>2, <2>4, ZenonT(30) DEF MailInv, InOrder
      <4>4. ~(p[2] < q[2]) /\ ~(q[2] < p[2])
        BY <2>4, <2>5, <4>1, <4>2, <4>3 DEF Sorted
      <4>. QED
        BY <4>1, <4>2, <4>4
    <3>. QED
      BY <3>1, Zenon
  <2>9. Cardinality(U) = IF U = {} THEN 0 ELSE 1
    <3> HIDE DEF U
    <3>. QED
      BY <2>7, AtMostOne, Zenon
  <2>10. Cardinality(D) = IF D = {} THEN 0 ELSE 1
    <3> HIDE DEF D
    <3>. QED
      BY <2>8, AtMostOne, Zenon
  <2>11. W => ~H /\ U = {} /\ D = {}
    <3> HIDE DEF is, U, D
    <3>. QED
      BY <1>2, <2>1, <2>2, <2>3, <2>4, <2>5 DEF MailInv, InOrder
  <2>12. H => U = {} /\ D = {}
    <3> HIDE DEF is, U, D
    <3>. QED
      BY <1>2, <2>2, <2>3, <2>4, <2>5 DEF MailInv, InOrder
  <2>13. U # {} => D = {}
    <3> HIDE DEF is, U, D
    <3>. QED
      BY <1>2, <2>3, <2>4, <2>5 DEF MailInv, InOrder
  <2>14. way => W \/ H \/ U # {} \/ D # {}
    <3>1. ASSUME way PROVE W \/ H \/ U # {} \/ D # {}
      <4>1. PICK f \in Carried : f.m = m /\ f.k = k
        BY <1>2, <3>1, Zenon DEF MailInv, InSight
      <4>2. is(f)
        BY <1>2, <4>1, CarriedType, Zenon DEF MailInv
      <4>3. CASE f \in Writing
        BY <1>2, <4>1, <4>2, <4>3 DEF Writing, MailInv, Own
      <4>4. CASE f \in AtHub
        BY <4>2, <4>4, Zenon DEF AtHub
      <4>5. CASE f \in Upward
        <5>1. PICK r \in Machines : f \in Frames(up[r])
          BY <4>5, Zenon DEF Upward
        <5>2. r = m
          BY <1>2, <4>1, <5>1, Zenon DEF MailInv, Own
        <5>. QED
          BY <4>2, <5>1, <5>2, Zenon DEF Frames
      <4>6. CASE f \in Downward
        <5>1. PICK r \in Machines : f \in Frames(down[r])
          BY <4>6, Zenon DEF Downward
        <5>2. PICK i \in DOMAIN down[r] : f = down[r][i]
          BY <5>1, Zenon DEF Frames
        <5>3. i \in 1 .. DownCap
          <6>1. down[r] \in Seq(Frame) /\ Len(down[r]) <= DownCap
            BY <1>2, Zenon DEF MailInv, Typed, Modes
          <6>. QED
            BY <2>0, <6>1
        <5>4. <<r, i>> \in D
          BY <4>2, <5>2, <5>3, Zenon
        <5>. QED
          BY <5>4, Zenon
      <4>. QED
        BY <4>3, <4>4, <4>5, <4>6, Zenon DEF Carried
    <3>. QED
      BY <3>1, Zenon
  <2>15. (W \/ H \/ U # {} \/ D # {}) => way
    <3> HIDE DEF is, U, D, way
    <3>. QED
      BY <2>1, <2>2, <2>3, <2>4, <2>6, Zenon DEF Carried
  <2>16. Carries(m, k) = (IF W THEN 1 ELSE 0) + (IF H THEN 1 ELSE 0) + Cardinality(U) + Cardinality(D)
    BY Zenon DEF Carries
  <2> HIDE DEF W, H, U, D, way
  <2>17. Carries(m, k) = IF way THEN 1 ELSE 0
    BY <2>9, <2>10, <2>11, <2>12, <2>13, <2>14, <2>15, <2>16
  <2>. QED
    BY <2>17, Zenon DEF way
<1>3. MailInv => OneCopy
  BY <1>1, <1>2, Zenon DEF OneCopy
<1>. QED
  BY <1>3, LinkInvariant, PTL

\* Marking frames as lost is losing messages, as Mail has it.
LEMMA LostIsLost ==
  ASSUME MailInv, NEW F, F \ {None} \subseteq Carried, mail' = Mark(mail, F, Lost)
  PROVE  M!SomeLost
<1>1. /\ mail \in [Machines -> Seq(Letter)] /\ Lost \in Machines \cup {OnTheWay, Lost}
  BY Zenon DEF MailInv, Typed
<1>2. \A m \in Machines :
        /\ DOMAIN mail'[m] = DOMAIN mail[m]
        /\ \A k \in DOMAIN mail[m] :
             mail'[m][k] = IF Among(F, m, k) THEN [mail[m][k] EXCEPT !.at = Lost] ELSE mail[m][k]
  <2>1. \A m \in Machines :
          /\ DOMAIN Mark(mail, F, Lost)[m] = DOMAIN mail[m]
          /\ \A k \in DOMAIN mail[m] :
               Mark(mail, F, Lost)[m][k] = IF Among(F, m, k) THEN [mail[m][k] EXCEPT !.at = Lost]
                                           ELSE mail[m][k]
    BY <1>1, Marked, ZenonT(30)
  <2>. QED
    BY <2>1, Zenon
<1>3. ASSUME NEW m \in Machines, NEW k \in DOMAIN mail[m], Among(F, m, k)
      PROVE  mail[m][k].at = OnTheWay
  <2>1. PICK f \in F : f # None /\ f.m = m /\ f.k = k
    BY <1>3, Zenon DEF Among
  <2>2. f \in Carried /\ f.k > 0
    BY <1>1, <2>1
  <2>3. mail[m][k] = [to |-> f.to, at |-> OnTheWay]
    BY <2>1, <2>2, Zenon DEF MailInv, Own
  <2>. QED
    BY <2>3
<1>. QED
  BY <1>2, <1>3, Zenon DEF M!SomeLost, M!OnTheWay, M!Lost, OnTheWay, Lost

\* A machine that shows the next frame on its line does what Mail allows: the message
\* was on its way, to the id the machine has, and it has shown no later one.
LEMMA PollShows ==
  ASSUME MailInv, NEW m \in Machines, down[m] # <<>>, UNCHANGED id,
         Head(down[m]).to = id[m], mail' = Mark(mail, {Head(down[m])}, m)
  PROVE  \E s \in Machines : \E k \in DOMAIN mail[s] : M!Show(s, k, m)
<1> DEFINE f == Head(down[m])
           s == f.m
           k == f.k
<1>1. f \in Frame /\ f \in Frames(down[m])
  BY TailFrames DEF MailInv, Typed
<1> HIDE DEF f
<1>2. f \in Downward /\ f \in Carried /\ f \in ToCome(m) /\ s \in Machines /\ k \in Nat /\ k > 0
  BY <1>1, Zenon DEF Downward, Carried, ToCome, MailInv, Own, Frame
<1>3. /\ k \in DOMAIN mail[s] /\ mail[s][k] = [to |-> f.to, at |-> OnTheWay]
      /\ \A j \in DOMAIN mail[s] : mail[s][j].at = m => j < k
  BY <1>2, Zenon DEF MailInv, Own, ShownFirst
<1>4. \A j \in DOMAIN mail[s] : j > k => mail[s][j].at # m
  <2>1. \A j \in DOMAIN mail[s] : j \in Nat
    BY <1>2 DEF MailInv, Typed
  <2>. QED
    BY <1>2, <1>3, <2>1
<1>5. mail' = [mail EXCEPT ![s][k].at = m]
  <2> DEFINE v == [mail[s][k] EXCEPT !.at = m]
             row(r) == [j \in DOMAIN mail[r] |->
                          IF \E g \in {f} : g # None /\ g.m = r /\ g.k = j
                          THEN [mail[r][j] EXCEPT !.at = m] ELSE mail[r][j]]
  <2>1. mail' = [r \in Machines |-> row(r)]
    BY Zenon DEF Mark, f
  <2>2. \A r \in Machines : /\ mail[r] = [j \in DOMAIN mail[r] |-> mail[r][j]]
                            /\ DOMAIN mail[r] \in SUBSET Nat
    BY DEF MailInv, Typed
  <2>3. f # None
    BY <1>1, LinkAssumption, Zenon
  <2>4. ASSUME NEW r \in Machines, r # s PROVE row(r) = mail[r]
    <3>1. row(r) = [j \in DOMAIN mail[r] |-> mail[r][j]]
      BY <2>4, Zenon
    <3>. QED
      BY <2>2, <3>1, Zenon
  <2>5. row(s) = [mail[s] EXCEPT ![k] = v]
    <3>1. \A j \in DOMAIN mail[s] : row(s)[j] = IF j = k THEN v ELSE mail[s][j]
      BY <2>3, Zenon
    <3>2. row(s) = [j \in DOMAIN mail[s] |-> IF j = k THEN v ELSE mail[s][j]]
      BY <3>1, Zenon
    <3> HIDE DEF row, v
    <3>. QED
      BY <3>2, Zenon
  <2>6. mail = [r \in Machines |-> mail[r]]
    BY Zenon DEF MailInv, Typed
  <2>7. [mail EXCEPT ![s][k].at = m] = [mail EXCEPT ![s] = [mail[s] EXCEPT ![k] = v]]
    BY Zenon
  <2> HIDE DEF row, v
  <2>8. [mail EXCEPT ![s] = [mail[s] EXCEPT ![k] = v]] = [r \in Machines |-> row(r)]
    BY <1>2, <2>4, <2>5, <2>6, ZenonT(30)
  <2>. QED
    BY <2>1, <2>7, <2>8, Zenon
<1>6. mail[s][k].at = M!OnTheWay /\ mail[s][k].to = id[m]
  BY <1>3 DEF f, M!OnTheWay, OnTheWay
<1>7. M!Show(s, k, m)
  BY <1>3, <1>4, <1>5, <1>6, Zenon DEF M!Show
<1>. QED
  BY <1>2, <1>3, <1>7, Zenon

\* The link implements Mail, for any number of machines and faults: a message is
\* shown at most once, only on a machine that has the id it was sent to, and two
\* messages of one machine never in the wrong order on another.
THEOREM LinkImplementsMail == Spec => ImplementsMail
<1>1. Init => M!Init
  BY Zenon DEF Init, M!Init
<1>2. MailInv /\ [Next]_vars => [M!Next]_<<id, mail>>
  <2> SUFFICES ASSUME MailInv, [Next]_vars PROVE M!Next \/ UNCHANGED <<id, mail>>
    BY Zenon
  <2>1. CASE UNCHANGED vars
    BY <2>1, Zenon DEF vars
  <2>2. ASSUME NEW F, F \ {None} \subseteq Carried, mail' = Mark(mail, F, Lost), UNCHANGED id
        PROVE  M!Next
    BY <2>2, LostIsLost, Zenon DEF M!Next, M!Lose
  <2>3. ASSUME NEW m \in Machines, NEW n \in Node, SetId(m, n) \/ SendMsg(m, n)
        PROVE  M!Next
    <3>1. CASE SetId(m, n)
      BY <3>1, Zenon DEF SetId, M!SetId, M!Next
    <3>2. CASE SendMsg(m, n)
      BY <3>2, Zenon DEF SendMsg, M!Send, M!Next, M!OnTheWay, OnTheWay, MailInv, Modes
    <3>. QED
      BY <2>3, <3>1, <3>2, Zenon
  <2>4. ASSUME NEW m \in Machines, Reads(m) PROVE M!Next
    <3>1. down[m] # <<>> /\ UNCHANGED id /\ {Head(down[m])} \ {None} \subseteq Carried
      <4>1. down[m] # <<>> /\ UNCHANGED id
        BY <2>4, Zenon DEF Reads, Poll, PollNoise, ConnReads
      <4>2. Head(down[m]) \in Frames(down[m])
        BY <4>1, TailFrames DEF MailInv, Typed
      <4>. QED
        BY <4>1, <4>2, Zenon DEF Carried, Downward
    <3>2. CASE mail' = Mark(mail, {Head(down[m])}, Lost)
      BY <2>2, <3>1, <3>2, Zenon
    <3>3. CASE Head(down[m]).to = id[m] /\ mail' = Mark(mail, {Head(down[m])}, m)
      BY <3>1, <3>3, PollShows, Zenon DEF M!Next
    <3>. QED
      BY <2>4, <3>2, <3>3, Zenon DEF Reads, Poll, PollNoise, ConnReads
  <2>5. ASSUME NEW m \in Machines, Reset(m) \/ Quit(m) PROVE M!Next
    <3>1. PICK F \in {{wr[m]}, {wr[m]} \cup Frames(down[m])} : mail' = Mark(mail, F, Lost)
      BY <2>5, Zenon DEF Reset, Quit
    <3>2. F \ {None} \subseteq Carried
      BY <3>1, Zenon DEF Carried, Writing, Downward
    <3>3. id' = [id EXCEPT ![m] = NoId]
      BY <2>5, Zenon DEF Reset, Quit
    <3>. QED
      BY <3>1, <3>2, <3>3, LostIsLost, Zenon DEF M!Restart, M!Next
  <2>6. ASSUME NEW m \in Machines, Takes(m) PROVE M!Next \/ UNCHANGED <<id, mail>>
    <3>1. up[m] # <<>> /\ UNCHANGED id
      BY <2>6, Zenon DEF Takes, HubTake, HubNoise
    <3>2. Head(up[m]) \in Frames(up[m])
      BY <3>1, TailFrames DEF MailInv, Typed
    <3>3. {Head(up[m])} \ {None} \subseteq Carried
      BY <3>2, Zenon DEF Carried, Upward
    <3>4. mail' = Mark(mail, {Head(up[m])}, Lost) \/ UNCHANGED mail
      BY <2>6, TakeCases, Zenon DEF Takes, HubNoise
    <3>. QED
      BY <2>2, <3>1, <3>3, <3>4, Zenon
  <2>7. CASE HubSendFails
    <3>1. hub # None /\ hub.to \in Machines
      BY <2>7, Zenon DEF HubSendFails, MailInv, Typed
    <3>2. ({hub.frame} \cup Frames(up[hub.to])) \ {None} \subseteq Carried
      BY <3>1, Zenon DEF Carried, AtHub, Upward
    <3>3. mail' = Mark(mail, {hub.frame} \cup Frames(up[hub.to]), Lost) /\ UNCHANGED id
      BY <2>7, Zenon DEF HubSendFails
    <3>. QED
      BY <2>2, <3>2, <3>3, Zenon
  <2>8. CASE HubSend
    BY <2>8, Zenon DEF HubSend
  <2>9. ASSUME NEW m \in Machines,
               Written(m) \/ LeaveConn(m) \/ EnterConn(m) \/ Halt(m) \/ HubDrop(m)
        PROVE  UNCHANGED <<id, mail>>
    BY <2>9, Zenon DEF Written, LeaveConn, EnterConn, Halt, HubDrop
  <2>. QED
    BY <2>1, <2>3, <2>4, <2>5, <2>6, <2>7, <2>8, <2>9, Zenon DEF Next, Sends, Faults
<1>. QED
  BY <1>1, <1>2, LinkInvariant, PTL DEF Spec, ImplementsMail, M!Spec
=============================================================================
