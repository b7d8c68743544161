------------------------------- MODULE MCHub --------------------------------
(***************************************************************************)
(* Hub with bytes of three bits and magic bytes 6 and 2, in three scenes,  *)
(* one per behaviour: "table" has more machines than slots, and frames     *)
(* received whole; "stream" has one machine with text that looks like a    *)
(* frame, typed characters and cut frames, received in pieces; "busy" has  *)
(* two machines received in pieces.                                        *)
(***************************************************************************)
EXTENDS Hub

VARIABLE scene
mcVars == <<vars, scene>>

Whole(f) == [bytes |-> f, whole |-> TRUE]
Part(bytes) == [bytes |-> bytes, whole |-> FALSE]

\* For each scene: its connections, what is written and how often, and how many
\* bytes a recv returns at most.
Scenes == [
  table |-> [conns |-> 1 .. 3, max |-> 2, chunks |-> {64},
             items |-> {Whole(Frame(0, 0, <<5>>)), Whole(Frame(1, 0, <<3>>)),
                        Whole(Frame(0, 7, <<3>>))}],
  stream |-> [conns |-> {1}, max |-> 4, chunks |-> {1, 3, 64},
              items |-> {Whole(Frame(1, 0, <<4, 6, 2, 5>>)), Whole(Frame(0, 0, <<5>>)),
                         Part(<<5, 3>>), Part(SubSeq(Frame(1, 0, <<4, 6, 2, 5>>), 1, 7)),
                         Part(SubSeq(Frame(1, 0, <<3>>), 1, 4))}],
  busy |-> [conns |-> {1, 2}, max |-> 3, chunks |-> {5, 64},
            items |-> {Whole(Frame(1, 0, <<3>>)), Whole(Frame(0, 7, <<3>>)), Part(<<5>>)}]]

MCItems == UNION {Scenes[s].items : s \in DOMAIN Scenes}

\* A recv returns as many bytes as the scene lets it.
InScene ==
  LET c == peers[First(ready)[1]].conn
      got == Len(sock[c].up) - Len(sock'[c].up)
  IN  (pc = "serve" /\ pc' = "process") =>
        \E k \in Scenes[scene].chunks : got = Min({k, BufCap - Len(peers[cur'].buf), Len(sock[c].up)})

MCHubStep == HubStep /\ InScene /\ UNCHANGED scene

\* Machines are alike until they connect: they do it in the order of their numbers.
MCMachines ==
  /\ UNCHANGED scene
  /\ \E c \in Scenes[scene].conns :
       \/ Connect(c) /\ \A d \in 1 .. c - 1 : sock[d].state # "off"
       \/ Close(c)
       \/ \E x \in Scenes[scene].items : written < Scenes[scene].max /\ Write(c, x)

\* Weak fairness of MCHubStep, written out: every step of the hub changes one of
\* these variables and no step of a machine does, and one is possible unless Idle.
HubMoves == <<peers, pc, ready>>' # <<peers, pc, ready>>
HubFair == []<>Idle \/ []<><<HubMoves>>_mcVars

MCInit == Init /\ scene \in DOMAIN Scenes
MCSpec == MCInit /\ [][MCHubStep \/ MCMachines]_mcVars /\ HubFair
=============================================================================
