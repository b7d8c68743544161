------------------------------- MODULE Launch -------------------------------
(***************************************************************************)
(* How the hub comes up (scripts/qemu-conn.sh, main and cleanup of         *)
(* ioslink-hub.c): calls of the script run at the same time; one that      *)
(* finds no socket takes the lock, looks again, starts a hub and waits a   *)
(* while for its socket.  The lock is a flock on descriptor 9 of the       *)
(* subshell: it belongs to the open file, which the hub inherits, and is   *)
(* held until both have closed it.  Each call starts at most one hub, so   *)
(* the hub is named after its call.                                        *)
(***************************************************************************)
EXTENDS Naturals

CONSTANTS
  Calls,     \* calls of qemu-conn.sh
  Nobody     \* no call, no hub, no file

VARIABLES
  script,    \* call -> where the script is
  lock,      \* the call whose open lock file holds the lock
  hub,       \* call -> its hub: "none", "started", "unlinked", "bound" (not yet
             \* listening), "up", "dead"
  file,      \* whose socket $SOCK is: the hub that bound it, perhaps dead
  killed     \* some hub was killed before its cleanup
launchVars == <<script, lock, hub, file, killed>>

ASSUME LaunchAssumption == Nobody \notin Calls

\* Where the subshell has descriptor 9 locked.
InSubshell == {"locked", "start", "wait", "unlock"}

Alive(h) == hub[h] \notin {"none", "dead"}

LaunchInit == /\ script = [c \in Calls |-> "call"] /\ lock = Nobody
              /\ hub = [c \in Calls |-> "none"] /\ file = Nobody /\ killed = FALSE

Goto(c, l) == script' = [script EXCEPT ![c] = l]

-----------------------------------------------------------------------------
(* The script                                                              *)

\* [ ! -S "$SOCK" ], without the lock.
Look(c) == /\ script[c] = "call"
           /\ Goto(c, IF file = Nobody THEN "flock" ELSE "qemu")
           /\ UNCHANGED <<lock, hub, file, killed>>

\* flock 9.
Lock(c) == /\ script[c] = "flock" /\ lock = Nobody
           /\ lock' = c /\ Goto(c, "locked")
           /\ UNCHANGED <<hub, file, killed>>

\* [ ! -S "$SOCK" ] again, with the lock.
LookAgain(c) == /\ script[c] = "locked"
                /\ Goto(c, IF file = Nobody THEN "start" ELSE "unlock")
                /\ UNCHANGED <<lock, hub, file, killed>>

\* start_hub.
StartHub(c) == /\ script[c] = "start"
               /\ hub' = [hub EXCEPT ![c] = "started"] /\ Goto(c, "wait")
               /\ UNCHANGED <<lock, file, killed>>

\* The loop ends when the socket is there, or after its hundred turns.
WaitEnds(c) == /\ script[c] = "wait"
               /\ Goto(c, "unlock")
               /\ UNCHANGED <<lock, hub, file, killed>>

\* Mutant of Released: the hub has closed descriptor 9.
ReleasedBySubshell(c) == lock' = IF lock = c THEN Nobody ELSE lock

\* The subshell has closed the lock file; the hub may still have it open.
Released(c) == lock' = IF lock = c /\ ~Alive(c) THEN Nobody ELSE lock

Unlock(c) == /\ script[c] = "unlock"
             /\ Released(c) /\ Goto(c, "last")
             /\ UNCHANGED <<hub, file, killed>>

\* The look behind the subshell: an error, or QEMU is started.
LastLook(c) == /\ script[c] = "last"
               /\ Goto(c, IF file = Nobody THEN "failed" ELSE "qemu")
               /\ UNCHANGED <<lock, hub, file, killed>>

\* QEMU connects, or finds no listening socket behind the file.
Qemu(c) == /\ script[c] = "qemu"
           /\ Goto(c, IF file # Nobody /\ hub[file] = "up" THEN "linked" ELSE "failed")
           /\ UNCHANGED <<lock, hub, file, killed>>

-----------------------------------------------------------------------------
(* The hub                                                                 *)

\* unlink(sock_path), whoever's it is.
HubUnlink(h) == /\ hub[h] = "started"
                /\ hub' = [hub EXCEPT ![h] = "unlinked"] /\ file' = Nobody
                /\ UNCHANGED <<script, lock, killed>>

\* Mutant of Gone: a hub that ends does not give the lock back.
GoneKeepsLock(h) == hub' = [hub EXCEPT ![h] = "dead"] /\ lock' = lock

\* A hub is gone, and with it its copy of descriptor 9.
Gone(h) == /\ hub' = [hub EXCEPT ![h] = "dead"]
           /\ lock' = IF lock = h /\ script[h] \notin InSubshell
                      THEN Nobody ELSE lock

\* bind makes the file, or fails on one that is there.
HubBind(h) == /\ hub[h] = "unlinked"
              /\ IF file = Nobody
                 THEN file' = h /\ hub' = [hub EXCEPT ![h] = "bound"] /\ lock' = lock
                 ELSE Gone(h) /\ file' = file
              /\ UNCHANGED <<script, killed>>

HubListen(h) == /\ hub[h] = "bound"
                /\ hub' = [hub EXCEPT ![h] = "up"]
                /\ UNCHANGED <<script, lock, file, killed>>

\* Mutant of HubSignal: the file stays.
HubSignalKeepsFile(h) == /\ hub[h] = "up"
                         /\ Gone(h)
                         /\ UNCHANGED <<script, file, killed>>

\* SIGINT, SIGTERM or SIGHUP: cleanup removes the file, whoever's it is.
HubSignal(h) == /\ hub[h] = "up"
                /\ Gone(h) /\ file' = Nobody
                /\ UNCHANGED <<script, killed>>

\* The hub dies without cleanup (a signal it does not catch, or not yet).
HubKilled(h) == /\ Alive(h)
                /\ Gone(h) /\ killed' = TRUE
                /\ UNCHANGED <<script, file>>

ScriptStep(c) == \/ Look(c) \/ Lock(c) \/ LookAgain(c) \/ StartHub(c)
                 \/ WaitEnds(c) \/ Unlock(c) \/ LastLook(c) \/ Qemu(c)
HubComesUp(h) == HubUnlink(h) \/ HubBind(h) \/ HubListen(h)

LaunchNext == \E c \in Calls : ScriptStep(c) \/ HubComesUp(c) \/ HubSignal(c) \/ HubKilled(c)

LaunchSpec == LaunchInit /\ [][LaunchNext]_launchVars

\* Scripts and hubs run; nobody has to stop a hub.
FairLaunch ==
  LaunchSpec /\ \A c \in Calls : SF_launchVars(ScriptStep(c)) /\ WF_launchVars(HubComesUp(c))

-----------------------------------------------------------------------------
(* Properties                                                              *)

\* Type: positions, the lock and the file; the subshell works under the lock.
LaunchTypeOK ==
  /\ script \in [Calls -> {"call", "flock", "locked", "start", "wait", "unlock", "last",
                           "qemu", "linked", "failed"}]
  /\ lock \in Calls \cup {Nobody} /\ file \in Calls \cup {Nobody} /\ killed \in BOOLEAN
  /\ hub \in [Calls -> {"none", "started", "unlinked", "bound", "up", "dead"}]
  /\ \A c \in Calls : script[c] \in InSubshell => lock = c

\* "only one ends up spawning the hub": never two hubs run at once, even when one
\* takes longer to come up than the script waits, dies or is stopped.
OneHub == \A g, h \in Calls : Alive(g) /\ Alive(h) => g = h

\* A hub that is up is the one behind the socket's file: no other one has removed
\* the file or put its own there, so that machines that connect get to this hub.
UpIsReachable == \A h \in Calls : hub[h] = "up" => file = h

\* Calls and hubs in any order lead to one hub, and machines connect to that one.
OneReachableHub == LaunchTypeOK /\ OneHub /\ UpIsReachable

\* A socket without a hub behind it is left only by a hub that was killed.
StaleOnlyWhenKilled == (file # Nobody /\ ~killed) => Alive(file)

\* A call that waits for the lock gets its turn, unless a hub that came up keeps the
\* lock it inherited for ever: no call that fails, gives up or starts no hub, and no
\* hub that ends, leaves the lock taken.
WaitsOnlyForHub ==
  \A c \in Calls :
    script[c] = "flock" ~> (script[c] # "flock" \/ [](lock # Nobody /\ hub[lock] = "up"))

\* "A lockfile serializes concurrent `make conn` calls": a call that waits for the
\* lock gets its turn when the one before has done its part.  (It does not, while
\* the hub runs.)
EveryCallGetsItsTurn == \A c \in Calls : script[c] = "flock" ~> script[c] # "flock"
=============================================================================
