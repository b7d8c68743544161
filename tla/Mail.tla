-------------------------------- MODULE Mail --------------------------------
(***************************************************************************)
(* What the link promises the user of sendmsg: a message may be lost, but  *)
(* it is shown at most once, only on a machine that has the id it was sent *)
(* to, and two messages of one machine are never shown in the wrong order  *)
(* on another.                                                             *)
(***************************************************************************)
EXTENDS Naturals, Sequences

CONSTANTS Machines, Node, NoId

VARIABLES
  id,      \* machine -> its node id, or NoId
  mail     \* machine -> the messages it sent: target, and where each one is

OnTheWay == "way"
Lost == "lost"

Init == id = [m \in Machines |-> NoId] /\ mail = [m \in Machines |-> <<>>]

SetId(m, n) == id' = [id EXCEPT ![m] = n] /\ UNCHANGED mail

Send(m, n) == /\ id[m] # NoId
              /\ mail' = [mail EXCEPT ![m] = Append(@, [to |-> n, at |-> OnTheWay])]
              /\ UNCHANGED id

\* Message k of m appears on r's screen.
Show(m, k, r) ==
  /\ k \in DOMAIN mail[m] /\ mail[m][k].at = OnTheWay /\ mail[m][k].to = id[r]
  /\ \A j \in DOMAIN mail[m] : j > k => mail[m][j].at # r
  /\ mail' = [mail EXCEPT ![m][k].at = r]
  /\ UNCHANGED id

\* Messages of any machines are lost.
SomeLost == \A m \in Machines :
              /\ DOMAIN mail'[m] = DOMAIN mail[m]
              /\ \A k \in DOMAIN mail[m] :
                   \/ mail'[m][k] = mail[m][k]
                   \/ /\ mail[m][k].at = OnTheWay
                      /\ mail'[m][k] = [mail[m][k] EXCEPT !.at = Lost]

Lose == SomeLost /\ UNCHANGED id

\* A machine restarts, with what it had not sent or read.
Restart(m) == SomeLost /\ id' = [id EXCEPT ![m] = NoId]

Next == \/ \E m \in Machines, n \in Node : SetId(m, n) \/ Send(m, n)
        \/ \E m, r \in Machines : \E k \in DOMAIN mail[m] : Show(m, k, r)
        \/ Lose \/ \E m \in Machines : Restart(m)

Spec == Init /\ [][Next]_<<id, mail>>
=============================================================================
