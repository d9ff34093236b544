--------------------------- MODULE MultiInstance ---------------------------
(***************************************************************************)
(* Containers that share the storage of one multi-instance queue manager:  *)
(* createQueueManager, updateQMini, startQueueManager and stopQueueManager *)
(* of cmd/runmqserver/qmgr.go, as doMain calls them, in every container.   *)
(* Each container has an mqs.ini of its own; the data directory with       *)
(* qm.ini is shared, and nothing locks it.                                 *)
(*                                                                         *)
(* The commands crtmqm, addmqinf, strmqm and endmqm are external: what     *)
(* they do is what qmgr.go relies on.                                      *)
(***************************************************************************)
EXTENDS Naturals, Sequences

CONSTANTS
    Containers,
    QMName,             \* the queue manager's name, a sequence of characters
    MQ_MULTI_INSTANCE,  \* the environment variable is "true"
    SimpleAuth,         \* developer image with simpleauth: qm.ini is edited
    CheckLogPages,      \* MQ_QMGR_LOG_FILE_PAGES is set
    MaxDisruptions      \* bound: kills, failed commands and stop requests

ASSUME InstanceAssumption ==
    /\ QMName \in Seq(STRING)
    /\ {MQ_MULTI_INSTANCE, SimpleAuth, CheckLogPages} \subseteq BOOLEAN
    /\ MaxDisruptions \in Nat

(* Names and paths.                                                        *)

NoPath == <<>>

(* The characters a directory name cannot have.                            *)
replaceCharsInQMName(name) ==
    [i \in DOMAIN name |-> CASE name[i] = "." -> "!"
                             [] name[i] = "/" -> "&"
                             [] OTHER -> name[i]]

(* Where crtmqm puts the data, and where qm.ini is looked for.             *)
DataDir == replaceCharsInQMName(QMName)

(* The DataPath that addmqinf is given: the name as it is.                 *)
StandbyDataPath == QMName

Paths == {NoPath, DataDir, StandbyDataPath}

VARIABLES
    stage,       \* where doMain or stopQueueManager is, per container
    registered,  \* mqs.ini: the data path it gives for the queue manager
    created,     \* the shared data directory: none, made by a crtmqm that is
                 \* not over, or complete
    qmIni,       \* the shared qm.ini: none, empty or cut short, with or without
                 \* the ServiceComponent stanza
    inst,        \* this container's instance of the queue manager
    saw,         \* what updateQMini or stopQueueManager has read: qm.ini, or
                 \* the status
    damaged,     \* a container was killed, or failed, while it wrote to the
                 \* shared storage
    disruptions

shared == <<created, qmIni, damaged>>
vars == <<stage, registered, shared, inst, saw, disruptions>>

Contents == {"none", "empty", "with stanza", "without stanza"}
Running == {"RUNNING", "RUNNING AS STANDBY"}
Status == Running \union {"ENDED"}

TypeOK ==
    /\ stage \in [Containers -> {"down", "dspmqinf", "stat", "crtmqm", "creating",
                                 "configuring", "addmqinf", "created", "rewriting",
                                 "truncated", "starting", "up", "status", "endmqm",
                                 "exiting"}]
    /\ registered \in [Containers -> Paths]
    /\ created \in {"none", "begun", "complete"}
    /\ qmIni \in Contents
    /\ inst \in [Containers -> Status]
    /\ saw \in [Containers -> Contents \union Status]
    /\ damaged \in BOOLEAN
    /\ disruptions \in 0 .. MaxDisruptions

Init ==
    /\ stage = [c \in Containers |-> "down"]
    /\ registered = [c \in Containers |-> NoPath]
    /\ created = "none"
    /\ qmIni = "none"
    /\ inst = [c \in Containers |-> "ENDED"]
    /\ saw = [c \in Containers |-> "none"]
    /\ damaged = FALSE
    /\ disruptions = 0

At(c, from) == stage[c] = from
Go(c, to) == stage' = [stage EXCEPT ![c] = to]
Disrupt == disruptions < MaxDisruptions /\ disruptions' = disruptions + 1

----------------------------------------------------------------------------
(* createQueueManager.                                                     *)

(* dspmqinf finds the queue manager in this container's mqs.ini.  Only     *)
(* then, and only if MQ_QMGR_LOG_FILE_PAGES is set, qm.ini is read to      *)
(* compare the setting; a difference is logged and nothing else.           *)
Detected(c) ==
    /\ At(c, "dspmqinf")
    /\ registered[c] # NoPath
    /\ Go(c, IF CheckLogPages /\ qmIni = "none" THEN "exiting" ELSE "created")
    /\ UNCHANGED <<registered, shared, inst, saw, disruptions>>

(* It does not, or dspmqinf fails for another reason, which is taken for   *)
(* the same answer.                                                        *)
NotDetected(c) ==
    /\ At(c, "dspmqinf")
    /\ \/ registered[c] = NoPath /\ UNCHANGED disruptions
       \/ registered[c] # NoPath /\ Disrupt
    /\ Go(c, "stat")
    /\ UNCHANGED <<registered, shared, inst, saw>>

Bug_AlwaysCreate(c) ==
    /\ At(c, "stat")
    /\ Go(c, "crtmqm")
    /\ UNCHANGED <<registered, shared, inst, saw, disruptions>>

(* os.Stat of qm.ini decides between creating the queue manager and        *)
(* adding an instance.  What it finds may change before the command runs,  *)
(* and any error is taken for a missing file.                              *)
StatQMIni(c) ==
    /\ At(c, "stat")
    /\ \/ Go(c, IF qmIni = "none" THEN "crtmqm" ELSE "addmqinf")
         /\ UNCHANGED disruptions
       \/ qmIni # "none" /\ Go(c, "crtmqm") /\ Disrupt
    /\ UNCHANGED <<registered, shared, inst, saw>>

(* crtmqm: refuses an existing data directory; otherwise makes it, then    *)
(* writes qm.ini, then completes it and registers it in mqs.ini.           *)
Crtmqm(c) ==
    /\ At(c, "crtmqm")
    /\ IF created = "none"
       THEN created' = "begun" /\ Go(c, "creating")
       ELSE Go(c, "exiting") /\ UNCHANGED created
    /\ UNCHANGED <<registered, qmIni, damaged, inst, saw, disruptions>>

CrtmqmWritesIni(c) ==
    /\ At(c, "creating")
    /\ qmIni' = "with stanza"
    /\ Go(c, "configuring")
    /\ UNCHANGED <<registered, created, damaged, inst, saw, disruptions>>

CrtmqmEnds(c) ==
    /\ At(c, "configuring")
    /\ created' = "complete"
    /\ registered' = [registered EXCEPT ![c] = DataDir]
    /\ Go(c, "created")
    /\ UNCHANGED <<qmIni, damaged, inst, saw, disruptions>>

(* addmqinf registers the instance; it refuses a name mqs.ini already has. *)
Addmqinf(c) ==
    /\ At(c, "addmqinf")
    /\ IF registered[c] = NoPath
       THEN /\ registered' = [registered EXCEPT ![c] = StandbyDataPath]
            /\ Go(c, "created")
       ELSE Go(c, "exiting") /\ UNCHANGED registered
    /\ UNCHANGED <<shared, inst, saw, disruptions>>

----------------------------------------------------------------------------
(* updateQMini and startQueueManager.                                      *)

Bug_WriteWhatWasRead == {"empty", "with stanza", "without stanza"}

(* The contents that updateQMini writes back.                              *)
Rewritten == {"with stanza"}

(* updateQMini reads qm.ini; it writes it only if the stanza is there.     *)
ReadQMIni(c) ==
    /\ At(c, "created")
    /\ saw' = [saw EXCEPT ![c] = qmIni]
    /\ Go(c, CASE ~SimpleAuth -> "starting"
               [] SimpleAuth /\ qmIni = "none" -> "exiting"
               [] SimpleAuth /\ qmIni \in Rewritten -> "rewriting"
               [] OTHER -> "starting")
    /\ UNCHANGED <<registered, shared, inst, disruptions>>

(* os.WriteFile truncates the file ...                                     *)
TruncateQMIni(c) ==
    /\ At(c, "rewriting")
    /\ qmIni' = "empty"
    /\ Go(c, "truncated")
    /\ UNCHANGED <<registered, created, damaged, inst, saw, disruptions>>

(* ... and writes what was read, less the stanza.                          *)
WriteQMIni(c) ==
    /\ At(c, "truncated")
    /\ qmIni' = IF saw[c] = "with stanza" THEN "without stanza" ELSE saw[c]
    /\ Go(c, "starting")
    /\ UNCHANGED <<registered, created, damaged, inst, saw, disruptions>>

CanStart(c) ==
    /\ registered[c] = DataDir
    /\ created = "complete"
    /\ qmIni \in {"with stanza", "without stanza"}

(* strmqm -x: this instance becomes the active one if there is none, and   *)
(* merges the stanza of /etc/mqm into qm.ini; otherwise it stands by, and  *)
(* the exit code 30 counts as success.                                     *)
Strmqm(c) ==
    /\ At(c, "starting")
    /\ IF ~CanStart(c)
       THEN Go(c, "exiting") /\ UNCHANGED <<inst, qmIni>>
       ELSE /\ Go(c, "up")
            /\ IF \E d \in Containers : inst[d] = "RUNNING"
               THEN /\ inst' = [inst EXCEPT ![c] = "RUNNING AS STANDBY"]
                    /\ UNCHANGED qmIni
               ELSE /\ inst' = [inst EXCEPT ![c] = "RUNNING"]
                    /\ qmIni' = "with stanza"
    /\ UNCHANGED <<registered, created, damaged, saw, disruptions>>

----------------------------------------------------------------------------
(* stopQueueManager.                                                       *)

(* A stop signal; one that comes during start-up waits for its end.        *)
StopRequested(c) ==
    /\ At(c, "up")
    /\ Disrupt
    /\ Go(c, "status")
    /\ UNCHANGED <<registered, shared, inst, saw>>

ReadStatus(c) ==
    /\ At(c, "status")
    /\ saw' = [saw EXCEPT ![c] = inst[c]]
    /\ Go(c, "endmqm")
    /\ UNCHANGED <<registered, shared, inst, disruptions>>

Bug_EndAll(c) == "-r"

(* The options of endmqm, from the status that was read.                   *)
EndmqmArgs(c) ==
    CASE ~MQ_MULTI_INSTANCE -> "-r"
      [] MQ_MULTI_INSTANCE /\ saw[c] = "RUNNING AS STANDBY" -> "-x"
      [] OTHER -> "-s"

(* endmqm: -x ends a standby and refuses an active instance; -s ends the   *)
(* active instance in favour of a standby and refuses if there is none; -r *)
(* ends every instance.  If it refuses, stopQueueManager fails and the     *)
(* instance ends with the container.                                       *)
Endmqm(c) ==
    /\ At(c, "endmqm")
    /\ inst' = CASE EndmqmArgs(c) = "-x" /\ inst[c] = "RUNNING AS STANDBY" ->
                      [inst EXCEPT ![c] = "ENDED"]
                 [] /\ EndmqmArgs(c) = "-s"
                    /\ inst[c] = "RUNNING"
                    /\ \E d \in Containers : inst[d] = "RUNNING AS STANDBY" ->
                      [inst EXCEPT ![c] = "ENDED"]
                 [] EndmqmArgs(c) = "-r" -> [d \in Containers |-> "ENDED"]
                 [] OTHER -> inst
    /\ Go(c, "exiting")
    /\ UNCHANGED <<registered, shared, saw, disruptions>>

----------------------------------------------------------------------------
(* The environment.                                                        *)

(* A command, a look at the mounts, or the opening of qm.ini fails, and    *)
(* with it doMain or stopQueueManager; at "created" it may be              *)
(* updateCommandLevel's strmqm.                                            *)
CommandFails(c) ==
    /\ stage[c] \in {"dspmqinf", "crtmqm", "addmqinf", "created", "rewriting",
                     "starting", "status"}
    /\ Disrupt
    /\ Go(c, "exiting")
    /\ UNCHANGED <<registered, shared, inst, saw>>

(* In the middle of crtmqm, or of os.WriteFile in updateQMini.             *)
Writing(c) == stage[c] \in {"creating", "configuring", "truncated"}

(* crtmqm fails half way, or os.WriteFile after it has truncated qm.ini:   *)
(* doMain returns the error, and nobody repairs the storage.               *)
WriteFails(c) ==
    /\ Writing(c)
    /\ Disrupt
    /\ damaged' = TRUE
    /\ Go(c, "exiting")
    /\ UNCHANGED <<registered, created, qmIni, inst, saw>>

(* The processes of the container end, the queue manager's with them.      *)
Gone(c) ==
    /\ Go(c, "down")
    /\ inst' = [inst EXCEPT ![c] = "ENDED"]
    /\ saw' = [saw EXCEPT ![c] = "none"]

Exit(c) ==
    /\ At(c, "exiting")
    /\ Gone(c)
    /\ UNCHANGED <<registered, shared, disruptions>>

Kill(c) ==
    /\ stage[c] \notin {"down", "exiting"}
    /\ Disrupt
    /\ Gone(c)
    /\ damaged' = (damaged \/ Writing(c))
    /\ UNCHANGED <<registered, created, qmIni>>

(* The platform starts the container again, with its /var/mqm or, if that  *)
(* was not on a volume, with a new one.                                    *)
Boot(c) ==
    /\ At(c, "down")
    /\ Go(c, "dspmqinf")
    /\ \/ UNCHANGED registered
       \/ registered' = [registered EXCEPT ![c] = NoPath]
    /\ UNCHANGED <<shared, inst, saw, disruptions>>

(* The lock of the active instance is free: a standby takes it.            *)
TakeOver(c) ==
    /\ inst[c] = "RUNNING AS STANDBY"
    /\ \A d \in Containers : inst[d] # "RUNNING"
    /\ inst' = [inst EXCEPT ![c] = "RUNNING"]
    /\ UNCHANGED <<stage, registered, shared, saw, disruptions>>

----------------------------------------------------------------------------
ContainerNext(c) ==
    \/ Detected(c) \/ NotDetected(c) \/ StatQMIni(c)
    \/ Crtmqm(c) \/ CrtmqmWritesIni(c) \/ CrtmqmEnds(c) \/ Addmqinf(c)
    \/ ReadQMIni(c) \/ TruncateQMIni(c) \/ WriteQMIni(c) \/ Strmqm(c)
    \/ ReadStatus(c) \/ Endmqm(c)
    \/ Exit(c) \/ Boot(c)

Next ==
    \E c \in Containers :
        \/ ContainerNext(c) \/ TakeOver(c)
        \/ StopRequested(c) \/ CommandFails(c) \/ WriteFails(c) \/ Kill(c)

Spec == Init /\ [][Next]_vars

(* Commands end, the platform restarts what has ended, and a free lock is  *)
(* taken.                                                                  *)
Fairness ==
    \A c \in Containers : WF_vars(ContainerNext(c)) /\ WF_vars(TakeOver(c))

FairSpec == Spec /\ Fairness

----------------------------------------------------------------------------
(* Properties.                                                             *)

(* However the containers interleave their checks, creations and rewrites  *)
(* of the shared qm.ini, the storage is whole whenever none of them is     *)
(* writing to it: without a queue manager, or with a complete one and a    *)
(* qm.ini that has its contents.  No race spoils it: only a container that *)
(* is killed, or fails, in the middle of crtmqm or of updateQMini's write. *)
StorageWhole ==
    /\ TypeOK
    /\ ~damaged /\ (\A c \in Containers : ~Writing(c)) =>
           \/ created = "none" /\ qmIni = "none"
           \/ created = "complete" /\ qmIni \in {"with stanza", "without stanza"}

(* stopQueueManager in one container never ends the instance of another:   *)
(* a container that has started its instance, and has not been asked to    *)
(* stop, keeps it, active or standing by.                                  *)
OthersKeepRunning ==
    \A c \in Containers : stage[c] \in {"up", "status"} => inst[c] \in Running

(* Every container registers the directory that crtmqm has made: what      *)
(* addmqinf writes to mqs.ini is where the queue manager's data are.       *)
StandbyFindsData ==
    \A c \in Containers : registered[c] \in {NoPath, DataDir}

(* Whoever loses the race to create the queue manager, and whoever is      *)
(* killed or stopped: in the end one instance is active and every other    *)
(* one stands by, unless a container was killed, or failed, while it wrote *)
(* to the shared storage.                                                  *)
Served ==
    \E c \in Containers :
        /\ inst[c] = "RUNNING"
        /\ \A d \in Containers \ {c} : inst[d] = "RUNNING AS STANDBY"

Settles == <>[](damaged \/ Served)
============================================================================
