----------------------------- MODULE ReadyProbe -----------------------------
(***************************************************************************)
(* cmd/chkmqready and cmd/chkmqhealthy, the readiness and liveness probes, *)
(* with the ready file of internal/ready, which outlives a restart of the  *)
(* container.  A run of chkmqready looks at the file, at dspmq and at the  *)
(* port, in this order, while the server and the queue manager go on.      *)
(***************************************************************************)
EXTENDS Integers

CONSTANT MaxRestarts   \* bound: restarts of the container

ASSUME RestartsAssumption == MaxRestarts \in Nat

None == -1   \* no answer
NotRun == "" \* dspmq not run

(* What dspmq displays.                                                    *)
Status == {"ENDED", "STARTING", "RUNNING", "RUNNING AS STANDBY", "REPLICA",
           "RECOVERY GROUP LEADER"}

VARIABLES
    life,       \* which start of the container this is
    server,     \* runmqserver: before ready.Clear, after it, after strmqm has
                \* begun, after ready.Set
    qm,         \* the status of the queue manager
    listening,  \* port 1414 accepts connections
    readyFile,  \* /run/runmqserver/ready exists
    probe,      \* chkmqready: where it is, what dspmq said, and whether it
                \* began after ready.Clear
    readyRC,    \* the last answer of chkmqready
    healthRC    \* the answer of chkmqhealthy for the present status

serverVars == <<life, server, readyFile>>
readyVars == <<serverVars, qm, listening, probe, readyRC, healthRC>>

IdleProbe == [at |-> "idle", saw |-> NotRun, fresh |-> FALSE]

ReadyTypeOK ==
    /\ life \in 0 .. MaxRestarts
    /\ server \in {"booting", "cleared", "starting", "configured"}
    /\ qm \in Status
    /\ listening \in BOOLEAN
    /\ readyFile \in BOOLEAN
    /\ probe \in [at : {"idle", "check", "status", "port"},
                  saw : Status \union {NotRun}, fresh : BOOLEAN]
    /\ readyRC \in {None, 0, 1, 10, 20}
    /\ healthRC \in {None, 0, 1, 2}
    /\ probe.at = "port" => probe.saw = "RUNNING"

ReadyInit ==
    /\ life = 0
    /\ server = "booting"
    /\ qm = "ENDED"
    /\ listening = FALSE
    /\ readyFile = FALSE
    /\ probe = IdleProbe
    /\ readyRC = None
    /\ healthRC = None

----------------------------------------------------------------------------
(* runmqserver.                                                            *)

Bug_LeaveReadyFile ==
    /\ server = "booting"
    /\ server' = "cleared"
    /\ UNCHANGED <<life, readyFile, qm, listening, probe, readyRC, healthRC>>

(* ready.Clear, of which only this file matters here.                      *)
ClearReady ==
    /\ server = "booting"
    /\ server' = "cleared"
    /\ readyFile' = FALSE
    /\ UNCHANGED <<life, qm, listening, probe, readyRC, healthRC>>

(* startQueueManager.                                                      *)
StartQM ==
    /\ server = "cleared"
    /\ server' = "starting"
    /\ qm' = "STARTING"
    /\ healthRC' = None
    /\ UNCHANGED <<life, readyFile, listening, probe, readyRC>>

(* ready.Set, the last step of doMain, whatever has become of the queue    *)
(* manager since strmqm returned.                                          *)
SetReady ==
    /\ server = "starting"
    /\ server' = "configured"
    /\ readyFile' = TRUE
    /\ UNCHANGED <<life, qm, listening, probe, readyRC, healthRC>>

(* The container is restarted: every process in it is gone, the file is    *)
(* not.                                                                    *)
Restart ==
    /\ life < MaxRestarts
    /\ life' = life + 1
    /\ server' = "booting"
    /\ qm' = "ENDED"
    /\ listening' = FALSE
    /\ probe' = IdleProbe
    /\ readyRC' = None
    /\ healthRC' = None
    /\ UNCHANGED readyFile

(* The queue manager changes (external), as long as it has not ended; its  *)
(* listener comes and goes.                                                *)
QMChanges ==
    /\ qm # "ENDED"
    /\ qm' \in Status
    /\ listening' \in (IF qm' = "RUNNING" THEN BOOLEAN ELSE {FALSE})
    /\ <<qm, listening>>' # <<qm, listening>>
    /\ healthRC' = IF qm' = qm THEN healthRC ELSE None
    /\ UNCHANGED <<serverVars, probe, readyRC>>

----------------------------------------------------------------------------
(* chkmqready.                                                             *)

ProbeBegins ==
    /\ probe.at = "idle"
    /\ probe' = [at |-> "check", saw |-> NotRun, fresh |-> server # "booting"]
    /\ readyRC' = None
    /\ UNCHANGED <<serverVars, qm, listening, healthRC>>

ProbeAnswers(saw, rc) ==
    /\ probe' = [probe EXCEPT !.at = "idle", !.saw = saw]
    /\ readyRC' = rc

ProbeGoesOn(saw, to) ==
    /\ probe' = [probe EXCEPT !.at = to, !.saw = saw]
    /\ UNCHANGED readyRC

(* ready.Check.                                                            *)
CheckReady ==
    /\ probe.at = "check"
    /\ IF readyFile THEN ProbeGoesOn(NotRun, "status") ELSE ProbeAnswers(NotRun, 1)
    /\ UNCHANGED <<serverVars, qm, listening, healthRC>>

(* ready.Status: a replica is reported as a standby, so that the exit code *)
(* of chkmqready for replicas, 20, is never used.                          *)
QMStatus ==
    CASE qm = "RUNNING" -> "active"
      [] qm \in {"RUNNING AS STANDBY", "REPLICA"} -> "standby"
      [] qm = "RECOVERY GROUP LEADER" -> "recovery"
      [] OTHER -> "unknown"

Query ==
    /\ probe.at = "status"
    /\ \/ QMStatus = "active" /\ ProbeGoesOn(qm, "port")
       \/ QMStatus = "recovery" /\ ProbeAnswers(qm, 0)
       \/ QMStatus = "standby" /\ ProbeAnswers(qm, 10)
       \/ QMStatus = "unknown" /\ ProbeAnswers(qm, 1)
    /\ UNCHANGED <<serverVars, qm, listening, healthRC>>

(* dspmq fails, or the name of the queue manager cannot be had.            *)
QueryFails ==
    /\ probe.at = "status"
    /\ ProbeAnswers(NotRun, 1)
    /\ UNCHANGED <<serverVars, qm, listening, healthRC>>

(* checkPort.                                                              *)
CheckPort ==
    /\ probe.at = "port"
    /\ ProbeAnswers(probe.saw, IF listening THEN 0 ELSE 1)
    /\ UNCHANGED <<serverVars, qm, listening, healthRC>>

Bug_ReplicaUnhealthy ==
    {"RUNNING", "RUNNING AS STANDBY", "RECOVERY GROUP LEADER", "STARTING"}

(* readyStrings of chkmqhealthy.                                           *)
HealthyStrings ==
    {"RUNNING", "RUNNING AS STANDBY", "RECOVERY GROUP LEADER", "STARTING",
     "REPLICA"}

(* chkmqhealthy: one dspmq, which may fail.                                *)
CheckHealth ==
    /\ \/ healthRC' = IF qm \in HealthyStrings THEN 0 ELSE 1
       \/ healthRC' = 2
    /\ UNCHANGED <<serverVars, qm, listening, probe, readyRC>>

----------------------------------------------------------------------------
ReadyNext ==
    \/ ClearReady \/ StartQM \/ SetReady \/ Restart \/ QMChanges
    \/ ProbeBegins \/ CheckReady \/ Query \/ QueryFails \/ CheckPort
    \/ CheckHealth

ReadySpec == ReadyInit /\ [][ReadyNext]_readyVars

----------------------------------------------------------------------------
(* Properties.                                                             *)

(* chkmqready answers that the queue manager is there, serving or standing *)
(* by, only if this start of the container has configured it; the ready    *)
(* file of an earlier start is never mistaken for this one's, provided     *)
(* the probe began after ready.Clear.                                      *)
ReadyMeansConfigured ==
    /\ ReadyTypeOK
    /\ readyRC \in {0, 10, 20} /\ probe.fresh => server = "configured"

(* As long as the status that chkmqready reported as good lasts,           *)
(* chkmqhealthy does not report it as dead: the platform does not kill     *)
(* what it has been told is ready.                                         *)
ProbesAgree ==
    readyRC \in {0, 10, 20} /\ probe.saw = qm => healthRC # 1
============================================================================
