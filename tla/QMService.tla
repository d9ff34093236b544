----------------------------- MODULE QMService -----------------------------
(***************************************************************************)
(* What the container promises about the life of its queue manager, with   *)
(* no goroutines, signals or processes in it.  A start-up may create and   *)
(* start the queue manager; it is ended only by a stop that begins after   *)
(* the start-up is over, at most once per start of the container; the      *)
(* ready file is published only after the start-up, and withdrawn only by  *)
(* the next one.  RunMQServer implements it.                               *)
(***************************************************************************)
VARIABLES
    phase,   \* of the container
    qmgr,    \* the queue manager
    ready    \* the ready file exists

vars == <<phase, qmgr, ready>>

Phase == {"starting", "up", "stopping", "stopped", "down"}

Init ==
    /\ phase = "starting"
    /\ qmgr \in {"absent", "defined"}
    /\ ready = FALSE

Create ==
    /\ phase = "starting"
    /\ qmgr = "absent"
    /\ qmgr' = "defined"
    /\ UNCHANGED <<phase, ready>>

StartQM ==
    /\ phase = "starting"
    /\ qmgr' = "running"
    /\ UNCHANGED <<phase, ready>>

Withdraw ==
    /\ phase = "starting"
    /\ ready' = FALSE
    /\ UNCHANGED <<phase, qmgr>>

StartupOver ==
    /\ phase = "starting"
    /\ phase' = "up"
    /\ UNCHANGED <<qmgr, ready>>

Publish ==
    /\ phase \in {"up", "stopping", "stopped"}
    /\ ready' = TRUE
    /\ UNCHANGED <<phase, qmgr>>

BeginStop ==
    /\ phase = "up"
    /\ phase' = "stopping"
    /\ UNCHANGED <<qmgr, ready>>

EndQM ==
    /\ phase = "stopping"
    /\ qmgr = "running"
    /\ qmgr' = "defined"
    /\ UNCHANGED <<phase, ready>>

StopOver ==
    /\ phase = "stopping"
    /\ phase' = "stopped"
    /\ UNCHANGED <<qmgr, ready>>

GoDown ==
    /\ phase # "down"
    /\ phase' = "down"
    /\ UNCHANGED <<qmgr, ready>>

StartAgain ==
    /\ phase = "down"
    /\ phase' = "starting"
    /\ qmgr' = IF qmgr = "absent" THEN "absent" ELSE "defined"
    /\ UNCHANGED ready

Next ==
    \/ Create \/ StartQM \/ Withdraw \/ StartupOver \/ Publish
    \/ BeginStop \/ EndQM \/ StopOver \/ GoDown \/ StartAgain

Spec == Init /\ [][Next]_vars
============================================================================
