------------------------------- MODULE MCMsg --------------------------------
(***************************************************************************)
(* Msg with bytes of three bits, magic bytes 6 and 2, and nodes 0..2.  The *)
(* commands that send do not touch the receiver: they are tried before the *)
(* first frame arrives, and afterwards only setid with two numbers.        *)
(***************************************************************************)
EXTENDS Msg

\* Frames for this machine and for another; a text of the longest length with the
\* magic bytes in it, and one with a first magic byte as check byte.
MCArriving == {[from |-> 1, to |-> 0, text |-> <<3>>],
               [from |-> 2, to |-> 1, text |-> <<4, 6, 2, 5, 1>>],
               [from |-> 2, to |-> 0, text |-> <<3, 1>>]}
MCIds == {-1, 0, 1, 3, 8}
MCWord == {<<>>, <<3>>, <<4, 3>>}
MCWords == BoundedSeq(MCWord, 3) \ {<<>>}

MCNext == \/ \E f \in Arriving : Arrive(f)
          \/ Poll \/ EnterConn \/ ConnReads \/ LeaveConn \/ Reboot
          \/ \E n \in TypedIds : (count = 0 \/ n \in {0, 3}) /\ SetId(n)
          \/ \E n \in TypedIds, words \in TypedWords : count = 0 /\ SendMsg(n, words)
MCSpec == MsgInit /\ [][MCNext]_msgVars
=============================================================================
