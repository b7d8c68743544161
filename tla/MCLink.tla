------------------------------- MODULE MCLink -------------------------------
(* Link with two machines that go on for ever, or three in any order.      *)
EXTENDS Link, TLC

CONSTANTS m1, m2, m3

AnyOrder == Permutations(Machines)

\* Two machines have started, one after the other, and have told the hub their ids.
Started ==
  /\ mode = [m \in Machines |-> "shell"]
  /\ id = [m \in Machines |-> IF m = m1 THEN 0 ELSE 1] /\ reg = id
  /\ wr = [m \in Machines |-> None]
  /\ up = [m \in Machines |-> <<>>] /\ down = [m \in Machines |-> <<>>]
  /\ upNoise = [m \in Machines |-> 0] /\ downNoise = [m \in Machines |-> 0]
  /\ hub = None /\ mail = [m \in Machines |-> <<>>] /\ sends = 0 /\ faults = 0

\* From power on, and from there with MaxSends more frames.
LiveInit == Init \/ Started
LiveSpec == LiveInit /\ [][Next]_vars /\ LinkFair
=============================================================================
