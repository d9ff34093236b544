---------------------------- MODULE RunMQServer ----------------------------
(***************************************************************************)
(* PID 1 of the container: cmd/runmqserver.                                *)
(*                                                                         *)
(* Four kinds of thread share this state: the main goroutine (doMain), the *)
(* signal-handler goroutine (signalHandler), the goroutine it spawns to    *)
(* end the queue manager (stopQueueManager), and the background goroutines *)
(* that run commands of their own (the web server launcher and the metrics *)
(* poller).  Every command is a child process; orphans of the queue        *)
(* manager's process tree are adopted by PID 1.  A child that exits stays  *)
(* a zombie until either the goroutine that ran it, or the reaper, waits   *)
(* for it.                                                                 *)
(*                                                                         *)
(* The container runtime may restart the container after every exit: the   *)
(* process state is new, the file system and the queue manager's data      *)
(* survive.                                                                *)
(***************************************************************************)
EXTENDS Naturals

CONSTANTS
    Orphans,      \* processes PID 1 adopts (each dies at most once per start)
    Background,   \* background goroutines switched on: a subset of {"web", "metrics"}
    MaxStops      \* bound: SIGTERM/SIGINT signals sent during one start

ASSUME BackgroundAssumption == Background \subseteq {"web", "metrics"}
ASSUME MaxStopsAssumption == MaxStops \in Nat

Runners == {"main", "stop", "web", "metrics"}

VARIABLES
    main,          \* where doMain is
    exit,          \* what doMain returned (or how the process died)
    ready,         \* the ready file exists
    qm,            \* the queue manager
    startupDone,   \* startupCtx is cancelled
    handler,       \* where the signal-handler goroutine is
    stopTriggered, \* its local flag of the same name
    stopNotify,    \* SIGTERM and SIGINT are relayed to stopSignals
    stopBuf,       \* stopSignals (capacity 1) holds a signal
    stopsSent,     \* stop signals sent so far in this start
    reapNotify,    \* SIGCHLD is relayed to reapSignals
    reapBuf,       \* reapSignals (capacity 1) holds a signal
    chldPending,   \* a SIGCHLD is raised and not yet relayed
    stopper,       \* where the goroutine running stopQueueManager is
    shutdownDone,  \* shutdownCtx is cancelled
    controlClosed, \* the control channel is closed
    polling,       \* GatherMetrics still polls for an active queue manager
    cmd,           \* the child process of each goroutine that runs commands
    orphan         \* the adopted processes

signalVars == <<stopNotify, stopBuf, stopsSent>>
chldVars   == <<reapNotify, reapBuf, chldPending>>
procVars   == <<cmd, orphan, polling>>
stopVars   == <<stopper, shutdownDone>>
mainSide    == <<main, exit, ready, qm, startupDone>>
handlerSide == <<handler, stopTriggered, signalVars, chldVars, stopVars,
                 controlClosed>>
vars == <<mainSide, handlerSide, procVars>>

MainPc == {"boot", "license", "prepare", "crtmqdir", "prepared",
           "configured", "crtmqm", "created", "strmqm", "started",
           "sendStartReaping", "sendReapNow", "markComplete", "setReady",
           "waiting", "unwind", "exiting", "exited"}

HandlerPc == {"off", "select", "reap", "stopReceived", "drain", "drainReap",
              "stopMetrics", "finalReap", "ended"}

(* "ok" and "failed" are zombies with their exit status; "stolen" is a     *)
(* process the reaper waited for before the goroutine that runs it did.    *)
CmdState == {"idle", "running", "ok", "failed", "stolen"}
ZombieState == {"ok", "failed"}

TypeOK ==
    /\ main \in MainPc
    /\ exit \in {"none", "stopped", "ok", "error", "killed"}
    /\ ready \in BOOLEAN
    /\ qm \in {"absent", "defined", "running"}
    /\ startupDone \in BOOLEAN
    /\ handler \in HandlerPc
    /\ stopTriggered \in BOOLEAN
    /\ stopNotify \in BOOLEAN
    /\ stopBuf \in BOOLEAN
    /\ stopsSent \in 0 .. MaxStops
    /\ reapNotify \in BOOLEAN
    /\ reapBuf \in BOOLEAN
    /\ chldPending \in BOOLEAN
    /\ stopper \in {"idle", "dspmq", "endmqm", "ok", "error"}
    /\ shutdownDone \in BOOLEAN
    /\ controlClosed \in BOOLEAN
    /\ polling \in BOOLEAN
    /\ cmd \in [Runners -> CmdState]
    /\ orphan \in [Orphans -> {"alive", "zombie", "reaped"}]

Up == main # "exited"

ZombieCmds == {r \in Runners : cmd[r] \in ZombieState}
ZombieOrphans == {o \in Orphans : orphan[o] = "zombie"}
NoZombies == ZombieCmds = {} /\ ZombieOrphans = {}

----------------------------------------------------------------------------
Init ==
    /\ ready = FALSE
    /\ qm \in {"absent", "defined"}
    /\ main = "boot" /\ exit = "none" /\ startupDone = FALSE
    /\ handler = "off" /\ stopTriggered = FALSE /\ stopNotify = FALSE
    /\ stopBuf = FALSE /\ stopsSent = 0 /\ reapNotify = FALSE
    /\ reapBuf = FALSE /\ chldPending = FALSE /\ stopper = "idle"
    /\ shutdownDone = FALSE /\ controlClosed = FALSE /\ polling = FALSE
    /\ cmd = [r \in Runners |-> "idle"]
    /\ orphan = [o \in Orphans |-> "alive"]

(* The container runtime starts the container again: a new process on the  *)
(* same volumes.                                                           *)
Restart ==
    /\ main = "exited"
    /\ qm' = IF qm = "absent" THEN "absent" ELSE "defined"
    /\ UNCHANGED ready
    /\ main' = "boot" /\ exit' = "none" /\ startupDone' = FALSE
    /\ handler' = "off" /\ stopTriggered' = FALSE /\ stopNotify' = FALSE
    /\ stopBuf' = FALSE /\ stopsSent' = 0 /\ reapNotify' = FALSE
    /\ reapBuf' = FALSE /\ chldPending' = FALSE /\ stopper' = "idle"
    /\ shutdownDone' = FALSE /\ controlClosed' = FALSE
    /\ polling' = FALSE /\ cmd' = [r \in Runners |-> "idle"]
    /\ orphan' = [o \in Orphans |-> "alive"]

----------------------------------------------------------------------------
(* The main goroutine.                                                     *)

(* doMain returns: its deferred functions run next.                        *)
Return(result) ==
    /\ main' = "unwind"
    /\ exit' = result

(* A return before the signal handler exists leaves no deferred function.  *)
ReturnEarly(result) ==
    /\ main \in (IF result = "ok" THEN {"boot"} ELSE {"boot", "license"})
    /\ main' = "exited"
    /\ exit' = result
    /\ UNCHANGED <<ready, qm, startupDone, handlerSide, procVars>>

Bug_KeepReady ==
    /\ main = "boot"
    /\ main' = "license"
    /\ UNCHANGED ready
    /\ UNCHANGED <<exit, qm, startupDone, handlerSide, procVars>>

(* configureLogger, -info, verifySingleProcess, ready.Clear.               *)
ClearReady ==
    /\ main = "boot"
    /\ main' = "license"
    /\ ready' = FALSE
    /\ UNCHANGED <<exit, qm, startupDone, handlerSide, procVars>>

Bug_ReapFromTheStart ==
    /\ main = "license"
    /\ main' = "prepare"
    /\ handler' = "select"
    /\ stopNotify' = TRUE
    /\ reapNotify' = TRUE
    /\ UNCHANGED <<exit, ready, qm, startupDone, stopTriggered,
                   stopBuf, stopsSent, reapBuf, chldPending, stopVars,
                   controlClosed, procVars>>

(* checkLicense accepted; the start-up context is created and signalHandler *)
(* registers for the stop signals before it starts its goroutine.          *)
StartSignalHandler ==
    /\ main = "license"
    /\ main' = "prepare"
    /\ handler' = "select"
    /\ stopNotify' = TRUE
    /\ UNCHANGED <<exit, ready, qm, startupDone, stopTriggered,
                   stopBuf, stopsSent, chldVars, stopVars, controlClosed,
                   procVars>>

(* Start the next command of the start-up sequence.  The clean-up of       *)
(* /run/scratch before crtmqdir takes the ready file with it.              *)
RunStartupCommand ==
    /\ main \in {"prepare", "configured", "created"}
    /\ main' = CASE main = "prepare" -> "crtmqdir"
                 [] main = "configured" -> "crtmqm"
                 [] main = "created" -> "strmqm"
    /\ ready' = (main # "prepare" /\ ready)
    /\ cmd' = [cmd EXCEPT !["main"] = "running"]
    /\ UNCHANGED <<exit, qm, startupDone, handlerSide, orphan, polling>>

(* FIPS, TLS, log mirroring; postInit launches the web server in the       *)
(* background.                                                             *)
Configure ==
    /\ main = "prepared"
    /\ main' = "configured"
    /\ cmd' = [cmd EXCEPT !["web"] = IF "web" \in Background
                                     THEN "running" ELSE "idle"]
    /\ UNCHANGED <<exit, ready, qm, startupDone, handlerSide,
                   orphan, polling>>

InCommand == main \in {"crtmqdir", "crtmqm", "strmqm"}

(* command.Run returns without an error.                                   *)
StartupCommandDone ==
    /\ InCommand
    /\ cmd["main"] = "ok"
    /\ main' = CASE main = "crtmqdir" -> "prepared"
                 [] main = "crtmqm" -> "created"
                 [] main = "strmqm" -> "started"
    /\ cmd' = [cmd EXCEPT !["main"] = "idle"]
    /\ UNCHANGED <<exit, ready, qm, startupDone, handlerSide,
                   orphan, polling>>

(* command.Run returns an error: a bad exit status, or no child to wait for. *)
StartupCommandFails ==
    /\ InCommand
    /\ cmd["main"] \in {"failed", "stolen"}
    /\ Return("error")
    /\ cmd' = [cmd EXCEPT !["main"] = "idle"]
    /\ UNCHANGED <<ready, qm, startupDone, handlerSide, orphan, polling>>

(* Every other step of the start-up that can fail (volumes, configuration  *)
(* files, TLS, native HA, log mirroring), and ready.Set.                   *)
StartupStepFails ==
    /\ main \in {"prepare", "prepared", "configured", "created", "started",
                "setReady"}
    /\ Return("error")
    /\ UNCHANGED <<ready, qm, startupDone, handlerSide, procVars>>

(* runmqserver -i: only initialise the volume.                             *)
InitOnly ==
    /\ main = "prepared"
    /\ Return("ok")
    /\ UNCHANGED <<ready, qm, startupDone, handlerSide, procVars>>

Bug_ReadyBeforeReaping ==
    /\ main = "started"
    /\ main' = "sendStartReaping"
    /\ ready' = TRUE
    /\ polling' = ("metrics" \in Background)
    /\ UNCHANGED <<exit, qm, startupDone, handlerSide, cmd, orphan>>

(* The queue manager runs; the metrics goroutine is launched if enabled.   *)
LaunchMetrics ==
    /\ main = "started"
    /\ main' = "sendStartReaping"
    /\ polling' = ("metrics" \in Background)
    /\ UNCHANGED <<exit, ready, qm, startupDone, handlerSide, cmd, orphan>>

Bug_HandlerDeafWhileDraining == handler = "select"

(* The handler is at a receive from the unbuffered control channel.        *)
HandlerReceivesControl == handler \in {"select", "drain"}

(* signalControl <- startReaping, and its processing by the handler.       *)
SendStartReaping ==
    /\ main = "sendStartReaping"
    /\ HandlerReceivesControl
    /\ main' = "sendReapNow"
    /\ reapNotify' = TRUE
    /\ UNCHANGED <<exit, ready, qm, startupDone, handler,
                   stopTriggered, signalVars, reapBuf, chldPending, stopVars,
                   controlClosed, procVars>>

Bug_NoFirstReap ==
    /\ main = "sendReapNow"
    /\ HandlerReceivesControl
    /\ main' = "markComplete"
    /\ UNCHANGED <<exit, ready, qm, startupDone, handlerSide, procVars>>

(* signalControl <- reapNow: the handler enters reapZombies.               *)
SendReapNow ==
    /\ main = "sendReapNow"
    /\ HandlerReceivesControl
    /\ main' = "markComplete"
    /\ handler' = IF handler = "select" THEN "reap" ELSE "drainReap"
    /\ UNCHANGED <<exit, ready, qm, startupDone, stopTriggered,
                   signalVars, chldVars, stopVars, controlClosed, procVars>>

MarkStartupComplete ==
    /\ main = "markComplete"
    /\ main' = "setReady"
    /\ startupDone' = TRUE
    /\ UNCHANGED <<exit, ready, qm, handlerSide, procVars>>

(* ready.Set.                                                              *)
SetReady ==
    /\ main = "setReady"
    /\ main' = "waiting"
    /\ ready' = TRUE
    /\ UNCHANGED <<exit, qm, startupDone, handlerSide, procVars>>

(* <-signalControl returns only when the handler has closed the channel.   *)
ControlClosedSeen ==
    /\ main = "waiting"
    /\ controlClosed
    /\ Return("stopped")
    /\ UNCHANGED <<ready, qm, startupDone, handlerSide, procVars>>

(* The deferred functions; the one that cancels startupCtx runs last.      *)
Unwind ==
    /\ main = "unwind"
    /\ main' = "exiting"
    /\ startupDone' = TRUE
    /\ UNCHANGED <<exit, ready, qm, handlerSide, procVars>>

(* The process ends, and with it every goroutine.                          *)
Exit ==
    /\ main = "exiting"
    /\ main' = "exited"
    /\ UNCHANGED <<exit, ready, qm, startupDone, handlerSide, procVars>>

----------------------------------------------------------------------------
(* Signals.                                                                *)

(* The runtime stops the container.  A relayed signal is dropped when the  *)
(* buffer is full; one that is not relayed (before Notify, after Stop)     *)
(* takes the default action and ends the process.                          *)
SendStopSignal ==
    /\ Up
    /\ stopsSent < MaxStops
    /\ stopsSent' = stopsSent + 1
    /\ IF stopNotify
       THEN stopBuf' = TRUE /\ UNCHANGED <<main, exit>>
       ELSE main' = "exited" /\ exit' = "killed" /\ UNCHANGED stopBuf
    /\ UNCHANGED <<ready, qm, startupDone, handler,
                   stopTriggered, stopNotify, chldVars, stopVars,
                   controlClosed, procVars>>

(* SIGKILL, or a crash.                                                    *)
Kill ==
    /\ Up
    /\ main' = "exited"
    /\ exit' = "killed"
    /\ UNCHANGED <<ready, qm, startupDone, handlerSide, procVars>>

(* The Go runtime relays a SIGCHLD; a full buffer drops it.                *)
RelaySIGCHLD ==
    /\ Up
    /\ chldPending
    /\ chldPending' = FALSE
    /\ reapBuf' = (reapBuf \/ reapNotify)
    /\ UNCHANGED <<mainSide, handler, stopTriggered,
                   signalVars, reapNotify, stopVars, controlClosed, procVars>>

----------------------------------------------------------------------------
(* Child processes.                                                        *)

(* What the queue manager's state becomes when the command of r ends well. *)
CommandEffect(r) ==
    CASE r = "main" /\ main = "crtmqm" /\ qm = "absent" -> "defined"
      [] r = "main" /\ main = "strmqm" -> "running"
      [] r = "stop" /\ stopper = "endmqm" /\ qm = "running" -> "defined"
      [] OTHER -> qm

CommandExits(r) ==
    /\ Up
    /\ cmd[r] = "running"
    /\ \E status \in ZombieState :
         /\ cmd' = [cmd EXCEPT ![r] = status]
         /\ qm' = IF status = "ok" THEN CommandEffect(r) ELSE qm
    /\ chldPending' = TRUE
    /\ UNCHANGED <<main, exit, ready, startupDone, handler,
                   stopTriggered, signalVars, reapNotify, reapBuf, stopVars,
                   controlClosed, orphan, polling>>

OrphanDies(o) ==
    /\ Up
    /\ orphan[o] = "alive"
    /\ orphan' = [orphan EXCEPT ![o] = "zombie"]
    /\ chldPending' = TRUE
    /\ UNCHANGED <<mainSide, handler, stopTriggered,
                   signalVars, reapNotify, reapBuf, stopVars, controlClosed,
                   cmd, polling>>

(* The web server launcher's command.Run returns; errors are only logged.  *)
WebServerLaunched ==
    /\ Up
    /\ cmd["web"] \in ZombieState \union {"stolen"}
    /\ cmd' = [cmd EXCEPT !["web"] = "idle"]
    /\ UNCHANGED <<mainSide, handlerSide, orphan, polling>>

(* GatherMetrics asks dspmq for the status...                              *)
PollStatus ==
    /\ Up
    /\ polling
    /\ cmd["metrics"] = "idle"
    /\ cmd' = [cmd EXCEPT !["metrics"] = "running"]
    /\ UNCHANGED <<mainSide, handlerSide, orphan, polling>>

(* ...until the queue manager is active; an error only costs a retry.      *)
PollStatusDone ==
    /\ Up
    /\ cmd["metrics"] \in ZombieState \union {"stolen"}
    /\ polling' \in (IF cmd["metrics"] = "ok" THEN BOOLEAN ELSE {TRUE})
    /\ cmd' = [cmd EXCEPT !["metrics"] = "idle"]
    /\ UNCHANGED <<mainSide, handlerSide, orphan>>

----------------------------------------------------------------------------
(* The signal-handler goroutine.                                           *)

(* case sig := <-stopSignals.                                              *)
ReceiveStop ==
    /\ Up
    /\ handler = "select"
    /\ stopBuf
    /\ stopBuf' = FALSE
    /\ handler' = IF stopTriggered THEN "select" ELSE "stopReceived"
    /\ UNCHANGED <<mainSide, stopTriggered, stopNotify,
                   stopsSent, chldVars, stopVars, controlClosed, procVars>>

Bug_StopAtOnce == "stopMetrics"

(* A stop signal is followed by the inner loop, which waits for start-up.  *)
AfterStopSignal == "drain"

(* signal.Stop(stopSignals); stopTriggered = true.                         *)
IgnoreFurtherStops ==
    /\ Up
    /\ handler = "stopReceived"
    /\ handler' = AfterStopSignal
    /\ stopNotify' = FALSE
    /\ stopTriggered' = TRUE
    /\ UNCHANGED <<mainSide, stopBuf, stopsSent, chldVars,
                   stopVars, controlClosed, procVars>>

(* The inner loop's case <-startupCtx.Done().                              *)
StartupSeenDone ==
    /\ Up
    /\ handler = "drain"
    /\ startupDone
    /\ handler' = "stopMetrics"
    /\ UNCHANGED <<mainSide, stopTriggered, signalVars,
                   chldVars, stopVars, controlClosed, procVars>>

Bug_CompleteBeforeStopping ==
    /\ Up
    /\ handler = "stopMetrics"
    /\ handler' = "select"
    /\ stopper' = "dspmq"
    /\ shutdownDone' = TRUE
    /\ cmd' = [cmd EXCEPT !["stop"] = "running"]
    /\ UNCHANGED <<mainSide, stopTriggered, signalVars,
                   chldVars, controlClosed, orphan, polling>>

(* metrics.StopMetricsGathering, then the goroutine that runs              *)
(* stopQueueManager, whose first command is dspmq.                         *)
StopMetricsAndSpawn ==
    /\ Up
    /\ handler = "stopMetrics"
    /\ handler' = "select"
    /\ stopper' = "dspmq"
    /\ cmd' = [cmd EXCEPT !["stop"] = "running"]
    /\ UNCHANGED <<mainSide, stopTriggered, signalVars,
                   chldVars, shutdownDone, controlClosed, orphan, polling>>

(* case <-reapSignals.                                                     *)
ReceiveReap ==
    /\ Up
    /\ handler = "select"
    /\ reapBuf
    /\ reapBuf' = FALSE
    /\ handler' = "reap"
    /\ UNCHANGED <<mainSide, stopTriggered, signalVars,
                   reapNotify, chldPending, stopVars, controlClosed,
                   procVars>>

(* case <-shutdownCtx.Done().                                              *)
ShutdownSeenDone ==
    /\ Up
    /\ handler = "select"
    /\ shutdownDone
    /\ handler' = "finalReap"
    /\ reapNotify' = FALSE
    /\ UNCHANGED <<mainSide, stopTriggered, signalVars,
                   reapBuf, chldPending, stopVars, controlClosed, procVars>>

Reaping == handler \in {"reap", "drainReap", "finalReap"}

(* One turn of reapZombies: Wait4(-1, WNOHANG) takes any zombie, also one  *)
(* of a command that a goroutine of this process is waiting for...         *)
ReapCommand ==
    /\ Up
    /\ Reaping
    /\ \E r \in ZombieCmds : cmd' = [cmd EXCEPT ![r] = "stolen"]
    /\ UNCHANGED <<mainSide, handlerSide, orphan, polling>>

(* ...or an adopted process.                                               *)
ReapOrphan(o) ==
    /\ Up
    /\ Reaping
    /\ orphan[o] = "zombie"
    /\ orphan' = [orphan EXCEPT ![o] = "reaped"]
    /\ UNCHANGED <<mainSide, handlerSide, cmd, polling>>

AfterReap == CASE handler = "reap" -> "select"
               [] handler = "drainReap" -> "drain"
               [] handler = "finalReap" -> "ended"

Bug_ReapOnlyOne == TRUE

(* pid == 0 || err == unix.ECHILD.                                         *)
NothingToReap == NoZombies

(* Wait4 finds nothing: reapZombies returns; after the final reap the      *)
(* handler closes the control channel and ends.                            *)
ReapNone ==
    /\ Up
    /\ Reaping
    /\ NothingToReap
    /\ handler' = AfterReap
    /\ controlClosed' = (handler = "finalReap")
    /\ UNCHANGED <<mainSide, stopTriggered, signalVars,
                   chldVars, stopVars, procVars>>

----------------------------------------------------------------------------
(* stopQueueManager, in its own goroutine; whatever it returns, the        *)
(* goroutine then cancels shutdownCtx.                                     *)

(* ready.Status answered: run endmqm.                                      *)
RunEndmqm ==
    /\ Up
    /\ stopper = "dspmq"
    /\ cmd["stop"] = "ok"
    /\ stopper' = "endmqm"
    /\ cmd' = [cmd EXCEPT !["stop"] = "running"]
    /\ UNCHANGED <<mainSide, handler, stopTriggered,
                   signalVars, chldVars, shutdownDone, controlClosed, orphan,
                   polling>>

Bug_StopFailsSilently ==
    /\ Up
    /\ stopper \in {"dspmq", "endmqm"}
    /\ cmd["stop"] \in {"failed", "stolen"}
    /\ stopper' = "error"
    /\ cmd' = [cmd EXCEPT !["stop"] = "idle"]
    /\ UNCHANGED <<mainSide, handler, stopTriggered,
                   signalVars, chldVars, shutdownDone, controlClosed, orphan,
                   polling>>

(* dspmq or endmqm returned an error: give up.                             *)
StopFails ==
    /\ Up
    /\ stopper \in {"dspmq", "endmqm"}
    /\ cmd["stop"] \in {"failed", "stolen"}
    /\ stopper' = "error"
    /\ shutdownDone' = TRUE
    /\ cmd' = [cmd EXCEPT !["stop"] = "idle"]
    /\ UNCHANGED <<mainSide, handler, stopTriggered,
                   signalVars, chldVars, controlClosed, orphan, polling>>

EndmqmDone ==
    /\ Up
    /\ stopper = "endmqm"
    /\ cmd["stop"] = "ok"
    /\ stopper' = "ok"
    /\ shutdownDone' = TRUE
    /\ cmd' = [cmd EXCEPT !["stop"] = "idle"]
    /\ UNCHANGED <<mainSide, handler, stopTriggered,
                   signalVars, chldVars, controlClosed, orphan, polling>>

----------------------------------------------------------------------------
MainNext ==
    \/ \E result \in {"ok", "error"} : ReturnEarly(result)
    \/ ClearReady
    \/ StartSignalHandler
    \/ RunStartupCommand
    \/ Configure
    \/ StartupCommandDone
    \/ StartupCommandFails
    \/ StartupStepFails
    \/ InitOnly
    \/ LaunchMetrics
    \/ SendStartReaping
    \/ SendReapNow
    \/ MarkStartupComplete
    \/ SetReady
    \/ ControlClosedSeen
    \/ Unwind
    \/ Exit

HandlerNext ==
    \/ ReceiveStop
    \/ IgnoreFurtherStops
    \/ StartupSeenDone
    \/ StopMetricsAndSpawn
    \/ ReceiveReap
    \/ ShutdownSeenDone
    \/ ReapCommand
    \/ \E o \in Orphans : ReapOrphan(o)
    \/ ReapNone

StopperNext == RunEndmqm \/ StopFails \/ EndmqmDone

BackgroundNext == WebServerLaunched \/ PollStatus \/ PollStatusDone

Environment ==
    \/ Restart
    \/ SendStopSignal
    \/ Kill
    \/ RelaySIGCHLD
    \/ \E r \in Runners : CommandExits(r)
    \/ \E o \in Orphans : OrphanDies(o)

Next == MainNext \/ HandlerNext \/ StopperNext \/ BackgroundNext \/ Environment

Spec == Init /\ [][Next]_vars

(* Goroutines run when they can; commands end; a raised SIGCHLD is relayed. *)
(* Go's select chooses at random among the ready cases, so no ready case is *)
(* passed over for ever.  Wait4 scans the children in the order in which   *)
(* they came, so no zombie is passed over for ever either, and the 10 s    *)
(* between two polls of GatherMetrics let a reaping loop drain.            *)
Fairness ==
    /\ WF_vars(MainNext)
    /\ WF_vars(HandlerNext)
    /\ SF_vars(ReceiveStop)
    /\ SF_vars(ShutdownSeenDone)
    /\ SF_vars(SendStartReaping)
    /\ SF_vars(SendReapNow)
    /\ SF_vars(ReapNone)
    /\ \A o \in Orphans : SF_vars(ReapOrphan(o))
    /\ WF_vars(StopperNext)
    /\ WF_vars(WebServerLaunched)
    /\ WF_vars(PollStatusDone)
    /\ WF_vars(RelaySIGCHLD)
    /\ \A r \in Runners : WF_vars(CommandExits(r))

FairSpec == Spec /\ Fairness

----------------------------------------------------------------------------
(* Properties.                                                             *)

(* The queue manager is not being stopped, and the control channel is not  *)
(* closed, while doMain can still run a start-up command or send on the    *)
(* channel (a send on a closed channel panics): signals.go waits for       *)
(* startupCtx before it goes on.                                           *)
InStartup == main \in {"boot", "license", "prepare", "crtmqdir", "prepared",
                       "configured", "crtmqm", "created", "strmqm",
                       "started", "sendStartReaping", "sendReapNow", "markComplete"}

NoStopDuringStartup ==
    InStartup => stopper = "idle" /\ ~shutdownDone /\ ~controlClosed

(* The reaper never takes the exit status of a start-up command from       *)
(* doMain, which would turn a successful crtmqm or strmqm into a failed    *)
(* start: reaping is switched on only after the last of them.              *)
StartupCommandsKept == cmd["main"] # "stolen"

(* The control channel is closed only when nobody is left to stop and the  *)
(* last reap is over; doMain returns nil through it only after             *)
(* stopQueueManager has ended the queue manager or reported why not.       *)
StoppedMeansEnded ==
    /\ controlClosed => shutdownDone /\ handler = "ended"
    /\ exit = "stopped" => stopper = "error" \/ qm # "running"

(* No lost wake-up: once the first reap has been asked for, every zombie   *)
(* has a SIGCHLD on its way, a token in reapSignals, or a reaping loop     *)
(* that has yet to see it, although signals are dropped when the buffer is *)
(* full and the handler is deaf to SIGCHLD while it waits for start-up.    *)
NoLostZombie ==
    main \in {"markComplete", "setReady", "waiting"} =>
        \/ NoZombies
        \/ chldPending
        \/ reapBuf
        \/ Reaping
        \/ handler = "ended"

(* After ready.Clear, the ready file is the word of this start of the      *)
(* container: start-up has been completed, whatever the start before this  *)
(* one left behind and wherever it was killed.                             *)
ReadyMeansStarted ==
    ready /\ main \notin {"boot", "exited"} =>
        main \in {"waiting", "unwind", "exiting"} /\ startupDone

(* A stop signal that reached the handler ends the process, whenever in    *)
(* the start-up it came: main and handler never wait for each other.       *)
StopLeadsToExit == stopBuf ~> main = "exited"

(* The start-up never hangs on the control channel.                        *)
StartupEnds == main = "prepare" ~> main \in {"waiting", "exited"}

(* What TestZombies looks for: while the queue manager runs, an adopted    *)
(* process that dies is waited for.                                        *)
ZombiesReaped ==
    \A o \in Orphans :
        main = "waiting" /\ orphan[o] = "zombie" ~> orphan[o] # "zombie" \/ ~Up

(* The phases of QMService, as this process lives through them.            *)
Phase ==
    CASE main = "exited" -> "down"
      [] main # "exited" /\ ~startupDone -> "starting"
      [] main # "exited" /\ startupDone /\ stopper = "idle" -> "up"
      [] main # "exited" /\ startupDone /\ stopper \in {"dspmq", "endmqm"} ->
           "stopping"
      [] main # "exited" /\ startupDone /\ stopper \in {"ok", "error"} ->
           "stopped"

Service == INSTANCE QMService WITH phase <- Phase, qmgr <- qm, ready <- ready

(* The process, with all its goroutines, signals and child processes, is   *)
(* an implementation of the service: it never ends the queue manager       *)
(* outside a stop that follows start-up, nor publishes readiness in it.    *)
ImplementsService == Service!Spec

(* main.go, at startReaping: "so that we don't reap any sub-processes      *)
(* created by this process".                                               *)
OwnCommandsKept == \A r \in Runners : cmd[r] # "stolen"
============================================================================
