---------------------------- MODULE StartedProbe ----------------------------
(***************************************************************************)
(* cmd/chkmqstarted for a Native HA queue manager, and the ready-to-sync   *)
(* file of internal/ready, which it shares with runmqserver.               *)
(*                                                                         *)
(* The platform runs the command over and over.  Runs may overlap, each    *)
(* reads and writes the file without a lock, and one that takes too long   *)
(* is killed.  The file outlives a restart of the container.               *)
(*                                                                         *)
(* Times are kept as ages, counted up to the in-sync timeout.              *)
(***************************************************************************)
EXTENDS Integers

CONSTANTS
    Runs,          \* runs of chkmqstarted that may overlap
    Timeout        \* MQ_NATIVE_HA_IN_SYNC_TIMEOUT

ASSUME TimeoutAssumption == Timeout \in Nat

Age == 0 .. Timeout
None == -1    \* no file, no answer
Empty == -2   \* a file with nothing in it

(* What dspmq displays.                                                    *)
Status == {"ENDED", "STARTING", "RUNNING", "RUNNING AS STANDBY", "REPLICA",
           "RECOVERY GROUP LEADER"}

VARIABLES
    server,    \* runmqserver: before ready.Clear, or after it
    qm,        \* the status of the queue manager
    inSync,    \* dspmq -o nativeha says INSYNC(YES)
    syncFile,  \* /run/runmqserver/ready-to-sync: the age of the time in it
    started,   \* the runs of chkmqstarted: where each is, its time, its answer
    upAge      \* history: how long ago this start was first seen to be up

qmVars == <<qm, inSync, upAge>>
vars == <<server, qmVars, syncFile, started>>

StartedRun == [at : {"idle", "dspmq", "exists", "create", "write", "read"},
               time : Age,
               answer : {"none", "inSync", "expired", "notStarted", "error"}]

TypeOK ==
    /\ server \in {"booting", "starting"}
    /\ qm \in Status
    /\ inSync \in BOOLEAN
    /\ syncFile \in Age \union {None, Empty}
    /\ started \in [Runs -> StartedRun]
    /\ upAge \in Age \union {None}
    /\ \A r \in Runs : started[r].at = "write" => syncFile # None

IdleRun == [at |-> "idle", time |-> 0, answer |-> "none"]

(* The first start of the container.                                       *)
Init ==
    /\ server = "booting"
    /\ qm = "ENDED"
    /\ inSync = FALSE
    /\ syncFile = None
    /\ started = [r \in Runs |-> IdleRun]
    /\ upAge = None

----------------------------------------------------------------------------
(* runmqserver.                                                            *)

Bug_LeaveSyncFile ==
    /\ server = "booting"
    /\ server' = "starting"
    /\ UNCHANGED <<qmVars, syncFile, started>>

(* ready.Clear, of which only this file matters here.                      *)
ClearReadyToSync ==
    /\ server = "booting"
    /\ server' = "starting"
    /\ syncFile' = None
    /\ UNCHANGED <<qmVars, started>>

(* The container is restarted: every process in it is gone, the file is    *)
(* not.                                                                    *)
Restart ==
    /\ server' = "booting"
    /\ qm' = "ENDED"
    /\ inSync' = FALSE
    /\ upAge' = None
    /\ started' = [r \in Runs |-> IdleRun]
    /\ UNCHANGED syncFile

----------------------------------------------------------------------------
(* The queue manager (external).  It is not started before doMain has      *)
(* cleared the files.                                                      *)

(* readyStrings.                                                           *)
Up == qm \in {"RUNNING", "RUNNING AS STANDBY", "RECOVERY GROUP LEADER",
              "STARTING", "REPLICA"}

QMChanges ==
    /\ server = "starting"
    /\ \E s \in Status \ {qm} : qm' = s /\ (qm = "ENDED" => s = "STARTING")
    /\ inSync' \in (IF Up' THEN BOOLEAN ELSE {FALSE})
    /\ upAge' = IF Up' /\ upAge = None THEN 0 ELSE upAge
    /\ UNCHANGED <<server, syncFile, started>>

SyncChanges ==
    /\ Up
    /\ inSync' = ~inSync
    /\ UNCHANGED <<server, qm, upAge, syncFile, started>>

Older(age) == IF age \in Age /\ age < Timeout THEN age + 1 ELSE age

Tick ==
    /\ syncFile' = Older(syncFile)
    /\ upAge' = Older(upAge)
    /\ started' = [r \in Runs |->
                     IF started[r].at \in {"create", "write"}
                     THEN [started[r] EXCEPT !.time = Older(@)] ELSE started[r]]
    /\ UNCHANGED <<server, qm, inSync>>

----------------------------------------------------------------------------
(* chkmqstarted for a Native HA queue manager, run r.                      *)

StartedStep(r, from, to) ==
    /\ started[r].at = from
    /\ started' = [started EXCEPT ![r].at = to]

StartedAnswers(r, from, answer) ==
    /\ started[r].at = from
    /\ started' = [started EXCEPT ![r] = [IdleRun EXCEPT !.answer = answer]]

StartedBegins(r) ==
    /\ started[r].at = "idle"
    /\ started' = [started EXCEPT ![r] = [IdleRun EXCEPT !.at = "dspmq"]]
    /\ UNCHANGED <<server, qmVars, syncFile>>

(* isInSyncWithReplicas, and what queueManagerStarted makes of it.         *)
StartedQueries(r) ==
    /\ \/ inSync /\ StartedAnswers(r, "dspmq", "inSync")
       \/ ~inSync /\ Up /\ StartedStep(r, "dspmq", "exists")
       \/ ~inSync /\ ~Up /\ StartedAnswers(r, "dspmq", "notStarted")
    /\ UNCHANGED <<server, qmVars, syncFile>>

Bug_AlwaysSet(r) ==
    /\ StartedStep(r, "exists", "create")
    /\ UNCHANGED <<server, qmVars, syncFile>>

(* SetReadyToSync: nothing to do if the file is there, or take the time    *)
(* (its age is 0 now)...                                                   *)
SyncFileExists(r) ==
    /\ StartedStep(r, "exists", IF syncFile = None THEN "create" ELSE "read")
    /\ UNCHANGED <<server, qmVars, syncFile>>

(* ...create or truncate the file...                                       *)
CreateSyncFile(r) ==
    /\ StartedStep(r, "create", "write")
    /\ syncFile' = Empty
    /\ UNCHANGED <<server, qmVars>>

(* ...and write the time into it.                                          *)
WriteSyncFile(r) ==
    /\ started[r].at = "write"
    /\ started' = [started EXCEPT ![r] = [IdleRun EXCEPT !.at = "read"]]
    /\ syncFile' = started[r].time
    /\ UNCHANGED <<server, qmVars>>

(* hasInSyncTimePeriodExpired: a file without a number is an error.        *)
ReadSyncFile(r) ==
    /\ StartedAnswers(r, "read", CASE syncFile = None -> "notStarted"
                                   [] syncFile = Empty -> "error"
                                   [] syncFile = Timeout -> "expired"
                                   [] OTHER -> "notStarted")
    /\ UNCHANGED <<server, qmVars, syncFile>>

(* A command or a system call fails, or the platform kills the probe.  In  *)
(* the middle of os.WriteFile that leaves the file empty.                  *)
StartedFails(r) ==
    /\ started[r].at # "idle"
    /\ StartedAnswers(r, started[r].at, "error")
    /\ UNCHANGED <<server, qmVars, syncFile>>

----------------------------------------------------------------------------
Next ==
    \/ ClearReadyToSync \/ Restart
    \/ QMChanges \/ SyncChanges \/ Tick
    \/ \E r \in Runs : StartedBegins(r) \/ StartedQueries(r)
                         \/ SyncFileExists(r) \/ CreateSyncFile(r)
                         \/ WriteSyncFile(r) \/ ReadSyncFile(r)
                         \/ StartedFails(r)

Spec == Init /\ [][Next]_vars

(* The platform keeps running chkmqstarted, time passes, and no step of a  *)
(* run is killed, or fails, every time.                                    *)
FairSpec ==
    /\ Spec
    /\ WF_vars(Tick)
    /\ \A r \in Runs :
         /\ WF_vars(StartedBegins(r))
         /\ SF_vars(StartedQueries(r))
         /\ SF_vars(SyncFileExists(r))
         /\ SF_vars(CreateSyncFile(r))
         /\ SF_vars(WriteSyncFile(r))
         /\ SF_vars(ReadSyncFile(r))

----------------------------------------------------------------------------
(* Properties.                                                             *)

(* chkmqstarted gives up waiting for replicas only when this start of the  *)
(* queue manager has been up for the whole timeout: the time in the file   *)
(* is never one of an earlier start, whatever the overlap of the probes    *)
(* with ready.Clear and with one another.                                  *)
GraceHeld ==
    \A r \in Runs : started[r].answer = "expired" => upAge = Timeout

Reported == \E r \in Runs : started[r].answer \in {"inSync", "expired"}

(* What main.go says of the timeout: "this ensures we do not block         *)
(* indefinitely".  A queue manager that stays up would be reported as      *)
(* started sooner or later, in sync or not.  It need not be: the time is   *)
(* written to a file that os.WriteFile has made empty, and a run that is   *)
(* killed or fails in between leaves it so.  Every later run finds the     *)
(* file, and no number in it.                                              *)
GraceEnds == <>[]Up => <>Reported

(* That file is the only obstacle.  Unless it is empty for good, a queue   *)
(* manager that stays up is reported again and again, however the runs     *)
(* overlap, fail and are killed, and however the replicas come and go.     *)
GraceEndsUnlessTorn == <>[]Up => []<>Reported \/ <>[](syncFile = Empty)
============================================================================
