-------------------------- MODULE RunMQServer_proof --------------------------
(***************************************************************************)
(* The safety properties of RunMQServer, proved for any set of adopted     *)
(* processes, any set of background goroutines and any number of stop      *)
(* signals.                                                                *)
(***************************************************************************)
EXTENDS RunMQServer, TLAPS

(* Where doMain may be once startupCtx is cancelled.                       *)
Late == {"setReady", "waiting", "unwind", "exiting", "exited"}

(* The two contexts, the control channel and the stop goroutine are only   *)
(* ever advanced in one order: start-up over, stop running, stop over,     *)
(* handler's last reap, channel closed.                                    *)
StopOrder ==
    /\ startupDone => main \in Late
    /\ main \in {"setReady", "waiting", "exiting"} => startupDone
    /\ stopper # "idle" => startupDone /\ stopTriggered
    /\ handler = "stopMetrics" => startupDone
    /\ handler = "stopReceived" => ~stopTriggered
    /\ handler \in {"drain", "drainReap", "stopMetrics"} => stopper = "idle"
    /\ handler \in {"drain", "drainReap", "stopMetrics"} => stopTriggered
    /\ shutdownDone => stopper \in {"ok", "error"}
    /\ handler \in {"finalReap", "ended"} => shutdownDone
    /\ controlClosed => handler = "ended"
    /\ exit = "stopped" =>
        controlClosed /\ main \in {"unwind", "exiting", "exited"}

(* Only doMain's own commands are running while it waits for one, and no   *)
(* reaping is possible before the last of them.                            *)
ReapOrder ==
    /\ Up /\ cmd["main"] # "idle" => InCommand
    /\ reapNotify \/ reapBuf \/ Reaping =>
         main \in {"sendReapNow", "markComplete"} \union Late
    /\ main \in {"sendReapNow", "markComplete", "setReady", "waiting"} =>
         reapNotify \/ handler \in {"finalReap", "ended"}

(* An endmqm that succeeded leaves no running queue manager, and nothing   *)
(* starts one again.                                                       *)
EndedStaysEnded ==
    stopper = "ok" \/ (stopper = "endmqm" /\ cmd["stop"] = "ok") =>
        qm # "running"

IInv ==
    /\ TypeOK
    /\ StopOrder
    /\ ReapOrder
    /\ EndedStaysEnded
    /\ StartupCommandsKept
    /\ NoLostZombie
    /\ ReadyMeansStarted

(* Every step of every goroutine keeps every variable in its type.         *)
LEMMA TypeStep == TypeOK /\ [Next]_vars => TypeOK'
<1>. SUFFICES ASSUME TypeOK, [Next]_vars PROVE TypeOK'
  OBVIOUS
<1>. USE MaxStopsAssumption DEF TypeOK, MainPc, HandlerPc, CmdState,
       ZombieState, Runners, vars, mainSide, handlerSide, signalVars,
       chldVars, procVars, stopVars
<1>1. CASE \E result \in {"ok", "error"} : ReturnEarly(result)
  BY <1>1 DEF ReturnEarly
<1>2. CASE ClearReady
  <2>1. ready' \in BOOLEAN
    BY <1>2, Zenon DEF ClearReady
  <2>. QED  BY <1>2, <2>1 DEF ClearReady
<1>3. CASE StartSignalHandler
  BY <1>3 DEF StartSignalHandler
<1>4. CASE RunStartupCommand
  BY <1>4 DEF RunStartupCommand
<1>5. CASE Configure
  BY <1>5 DEF Configure
<1>6. CASE StartupCommandDone
  <2>1. cmd' \in [Runners -> CmdState]
    BY <1>6 DEF StartupCommandDone
  <2>2. main' \in MainPc
    BY <1>6 DEF StartupCommandDone, InCommand
  <2>3. UNCHANGED <<exit, ready, qm, startupDone, handlerSide, orphan, polling>>
    BY <1>6 DEF StartupCommandDone
  <2>. QED  BY <2>1, <2>2, <2>3
<1>7. CASE StartupCommandFails
  BY <1>7 DEF StartupCommandFails, Return
<1>8. CASE StartupStepFails
  BY <1>8 DEF StartupStepFails, Return
<1>9. CASE InitOnly
  BY <1>9 DEF InitOnly, Return
<1>10. CASE LaunchMetrics
  BY <1>10 DEF LaunchMetrics
<1>11. CASE SendStartReaping
  BY <1>11 DEF SendStartReaping
<1>12. CASE SendReapNow
  BY <1>12 DEF SendReapNow
<1>13. CASE MarkStartupComplete
  BY <1>13 DEF MarkStartupComplete
<1>14. CASE SetReady
  BY <1>14 DEF SetReady
<1>15. CASE ControlClosedSeen
  BY <1>15 DEF ControlClosedSeen, Return
<1>16. CASE Unwind
  BY <1>16 DEF Unwind
<1>17. CASE Exit
  BY <1>17 DEF Exit
<1>18. CASE ReceiveStop
  <2>1. stopBuf' \in BOOLEAN
    BY <1>18, Zenon DEF ReceiveStop
  <2>. QED  BY <1>18, <2>1 DEF ReceiveStop
<1>19. CASE IgnoreFurtherStops
  <2>1. stopNotify' \in BOOLEAN /\ stopTriggered' \in BOOLEAN
    BY <1>19, Zenon DEF IgnoreFurtherStops, AfterStopSignal
  <2>. QED  BY <1>19, <2>1 DEF IgnoreFurtherStops, AfterStopSignal
<1>20. CASE StartupSeenDone
  BY <1>20 DEF StartupSeenDone
<1>21. CASE StopMetricsAndSpawn
  BY <1>21 DEF StopMetricsAndSpawn
<1>22. CASE ReceiveReap
  <2>1. reapBuf' \in BOOLEAN
    BY <1>22, Zenon DEF ReceiveReap
  <2>. QED  BY <1>22, <2>1 DEF ReceiveReap
<1>23. CASE ShutdownSeenDone
  <2>1. reapNotify' \in BOOLEAN
    BY <1>23, Zenon DEF ShutdownSeenDone
  <2>. QED  BY <1>23, <2>1 DEF ShutdownSeenDone
<1>24. CASE ReapCommand
  BY <1>24 DEF ReapCommand, ZombieCmds
<1>25. CASE \E o \in Orphans : ReapOrphan(o)
  BY <1>25 DEF ReapOrphan
<1>26. CASE ReapNone
  BY <1>26 DEF ReapNone, AfterReap, Reaping
<1>27. CASE RunEndmqm
  BY <1>27 DEF RunEndmqm
<1>28. CASE StopFails
  BY <1>28 DEF StopFails
<1>29. CASE EndmqmDone
  BY <1>29 DEF EndmqmDone
<1>30. CASE WebServerLaunched
  BY <1>30 DEF WebServerLaunched
<1>31. CASE PollStatus
  BY <1>31 DEF PollStatus
<1>32. CASE PollStatusDone
  <2>1. polling' \in BOOLEAN
    BY <1>32, Zenon DEF PollStatusDone
  <2>. QED  BY <1>32, <2>1 DEF PollStatusDone
<1>33. CASE Restart
  <2>1. /\ startupDone' \in BOOLEAN
        /\ stopTriggered' \in BOOLEAN
        /\ stopNotify' \in BOOLEAN
        /\ stopBuf' \in BOOLEAN
        /\ reapNotify' \in BOOLEAN
        /\ reapBuf' \in BOOLEAN
        /\ chldPending' \in BOOLEAN
        /\ shutdownDone' \in BOOLEAN
        /\ controlClosed' \in BOOLEAN
        /\ polling' \in BOOLEAN
    BY <1>33, Zenon DEF Restart
  <2>. QED  BY <1>33, <2>1 DEF Restart
<1>34. CASE SendStopSignal
  <2>1. stopBuf' \in BOOLEAN
    BY <1>34, Zenon DEF SendStopSignal
  <2>. QED  BY <1>34, <2>1 DEF SendStopSignal
<1>35. CASE Kill
  BY <1>35 DEF Kill
<1>36. CASE RelaySIGCHLD
  <2>1. chldPending' \in BOOLEAN /\ reapBuf' \in BOOLEAN
    BY <1>36, Zenon DEF RelaySIGCHLD
  <2>. QED  BY <1>36, <2>1 DEF RelaySIGCHLD
<1>37. CASE \E r \in Runners : CommandExits(r)
  BY <1>37 DEF CommandExits, CommandEffect
<1>38. CASE \E o \in Orphans : OrphanDies(o)
  BY <1>38 DEF OrphanDies
<1>39. CASE UNCHANGED vars
  BY <1>39, SMTT(60)
<1>. QED
  BY <1>1, <1>2, <1>3, <1>4, <1>5, <1>6, <1>7, <1>8, <1>9, <1>10, <1>11,
     <1>12, <1>13, <1>14, <1>15, <1>16, <1>17, <1>18, <1>19, <1>20, <1>21,
     <1>22, <1>23, <1>24, <1>25, <1>26, <1>27, <1>28, <1>29, <1>30, <1>31,
     <1>32, <1>33, <1>34, <1>35, <1>36, <1>37, <1>38, <1>39
  DEF Next, MainNext, HandlerNext, StopperNext, BackgroundNext, Environment


(* The order of a stop is kept by every step. *)
LEMMA StopOrderStep ==
    TypeOK /\ StopOrder /\ [Next]_vars => StopOrder'
<1>. SUFFICES ASSUME TypeOK, StopOrder, [Next]_vars PROVE StopOrder'
  OBVIOUS
<1>. USE DEF StopOrder, Late, TypeOK, MainPc, HandlerPc, Reaping, InCommand,
             HandlerReceivesControl, Up, vars, mainSide, handlerSide,
             signalVars, chldVars, procVars, stopVars
<1>1. CASE \E result \in {"ok", "error"} : ReturnEarly(result)
  BY <1>1 DEF ReturnEarly
<1>2. CASE ClearReady
  BY <1>2 DEF ClearReady
<1>3. CASE StartSignalHandler
  BY <1>3 DEF StartSignalHandler
<1>4. CASE RunStartupCommand
  BY <1>4 DEF RunStartupCommand
<1>5. CASE Configure
  BY <1>5 DEF Configure
<1>6. CASE StartupCommandDone
  BY <1>6 DEF StartupCommandDone
<1>7. CASE StartupCommandFails
  BY <1>7 DEF StartupCommandFails, Return
<1>8. CASE StartupStepFails
  BY <1>8 DEF StartupStepFails, Return
<1>9. CASE InitOnly
  BY <1>9 DEF InitOnly, Return
<1>10. CASE LaunchMetrics
  BY <1>10 DEF LaunchMetrics
<1>11. CASE SendStartReaping
  BY <1>11 DEF SendStartReaping
<1>12. CASE SendReapNow
  BY <1>12 DEF SendReapNow
<1>13. CASE MarkStartupComplete
  BY <1>13 DEF MarkStartupComplete
<1>14. CASE SetReady
  BY <1>14 DEF SetReady
<1>15. CASE ControlClosedSeen
  BY <1>15 DEF ControlClosedSeen, Return
<1>16. CASE Unwind
  BY <1>16 DEF Unwind
<1>17. CASE Exit
  BY <1>17 DEF Exit
<1>18. CASE ReceiveStop
  BY <1>18 DEF ReceiveStop
<1>19. CASE IgnoreFurtherStops
  BY <1>19 DEF IgnoreFurtherStops, AfterStopSignal
<1>20. CASE StartupSeenDone
  BY <1>20 DEF StartupSeenDone
<1>21. CASE StopMetricsAndSpawn
  BY <1>21 DEF StopMetricsAndSpawn
<1>22. CASE ReceiveReap
  BY <1>22 DEF ReceiveReap
<1>23. CASE ShutdownSeenDone
  BY <1>23 DEF ShutdownSeenDone
<1>24. CASE ReapCommand
  BY <1>24 DEF ReapCommand
<1>25. CASE \E o \in Orphans : ReapOrphan(o)
  BY <1>25 DEF ReapOrphan
<1>26. CASE ReapNone
  BY <1>26 DEF ReapNone, AfterReap
<1>27. CASE RunEndmqm
  BY <1>27 DEF RunEndmqm
<1>28. CASE StopFails
  BY <1>28 DEF StopFails
<1>29. CASE EndmqmDone
  BY <1>29 DEF EndmqmDone
<1>30. CASE WebServerLaunched
  BY <1>30 DEF WebServerLaunched
<1>31. CASE PollStatus
  BY <1>31 DEF PollStatus
<1>32. CASE PollStatusDone
  BY <1>32 DEF PollStatusDone
<1>33. CASE Restart
  BY <1>33 DEF Restart
<1>34. CASE SendStopSignal
  BY <1>34 DEF SendStopSignal
<1>35. CASE Kill
  BY <1>35 DEF Kill
<1>36. CASE RelaySIGCHLD
  BY <1>36 DEF RelaySIGCHLD
<1>37. CASE \E r \in Runners : CommandExits(r)
  BY <1>37 DEF CommandExits, CommandEffect
<1>38. CASE \E o \in Orphans : OrphanDies(o)
  BY <1>38 DEF OrphanDies
<1>39. CASE UNCHANGED vars
  BY <1>39
<1>. QED
  BY <1>1, <1>2, <1>3, <1>4, <1>5, <1>6, <1>7, <1>8, <1>9, <1>10, <1>11,
     <1>12, <1>13, <1>14, <1>15, <1>16, <1>17, <1>18, <1>19, <1>20, <1>21,
     <1>22, <1>23, <1>24, <1>25, <1>26, <1>27, <1>28, <1>29, <1>30, <1>31,
     <1>32, <1>33, <1>34, <1>35, <1>36, <1>37, <1>38, <1>39
  DEF Next, MainNext, HandlerNext, StopperNext, BackgroundNext, Environment

(* Reaping stays behind the last start-up command. *)
LEMMA ReapOrderStep ==
    TypeOK /\ StopOrder /\ ReapOrder /\ [Next]_vars => ReapOrder'
<1>. SUFFICES ASSUME TypeOK, StopOrder, ReapOrder, [Next]_vars PROVE ReapOrder'
  OBVIOUS
<1>. USE DEF StopOrder, ReapOrder, TypeOK, MainPc, HandlerPc, CmdState,
             ZombieState, Runners, Reaping, InCommand, HandlerReceivesControl,
             Up, Late, vars, mainSide, handlerSide, signalVars, chldVars,
             procVars, stopVars
<1>1. CASE \E result \in {"ok", "error"} : ReturnEarly(result)
  BY <1>1 DEF ReturnEarly
<1>2. CASE ClearReady
  BY <1>2 DEF ClearReady
<1>3. CASE StartSignalHandler
  BY <1>3 DEF StartSignalHandler
<1>4. CASE RunStartupCommand
  BY <1>4 DEF RunStartupCommand
<1>5. CASE Configure
  BY <1>5 DEF Configure
<1>6. CASE StartupCommandDone
  BY <1>6 DEF StartupCommandDone
<1>7. CASE StartupCommandFails
  BY <1>7 DEF StartupCommandFails, Return
<1>8. CASE StartupStepFails
  BY <1>8 DEF StartupStepFails, Return
<1>9. CASE InitOnly
  BY <1>9 DEF InitOnly, Return
<1>10. CASE LaunchMetrics
  BY <1>10 DEF LaunchMetrics
<1>11. CASE SendStartReaping
  BY <1>11 DEF SendStartReaping
<1>12. CASE SendReapNow
  BY <1>12 DEF SendReapNow
<1>13. CASE MarkStartupComplete
  BY <1>13 DEF MarkStartupComplete
<1>14. CASE SetReady
  BY <1>14 DEF SetReady
<1>15. CASE ControlClosedSeen
  BY <1>15 DEF ControlClosedSeen, Return
<1>16. CASE Unwind
  BY <1>16 DEF Unwind
<1>17. CASE Exit
  BY <1>17 DEF Exit
<1>18. CASE ReceiveStop
  BY <1>18 DEF ReceiveStop
<1>19. CASE IgnoreFurtherStops
  BY <1>19 DEF IgnoreFurtherStops, AfterStopSignal
<1>20. CASE StartupSeenDone
  BY <1>20 DEF StartupSeenDone
<1>21. CASE StopMetricsAndSpawn
  BY <1>21 DEF StopMetricsAndSpawn
<1>22. CASE ReceiveReap
  BY <1>22 DEF ReceiveReap
<1>23. CASE ShutdownSeenDone
  BY <1>23 DEF ShutdownSeenDone
<1>24. CASE ReapCommand
  BY <1>24 DEF ReapCommand, ZombieCmds
<1>25. CASE \E o \in Orphans : ReapOrphan(o)
  BY <1>25 DEF ReapOrphan
<1>26. CASE ReapNone
  BY <1>26 DEF ReapNone, AfterReap
<1>27. CASE RunEndmqm
  BY <1>27 DEF RunEndmqm
<1>28. CASE StopFails
  BY <1>28 DEF StopFails
<1>29. CASE EndmqmDone
  BY <1>29 DEF EndmqmDone
<1>30. CASE WebServerLaunched
  BY <1>30 DEF WebServerLaunched
<1>31. CASE PollStatus
  BY <1>31 DEF PollStatus
<1>32. CASE PollStatusDone
  BY <1>32 DEF PollStatusDone
<1>33. CASE Restart
  BY <1>33 DEF Restart
<1>34. CASE SendStopSignal
  BY <1>34 DEF SendStopSignal
<1>35. CASE Kill
  BY <1>35 DEF Kill
<1>36. CASE RelaySIGCHLD
  BY <1>36 DEF RelaySIGCHLD
<1>37. CASE \E r \in Runners : CommandExits(r)
  BY <1>37 DEF CommandExits, CommandEffect
<1>38. CASE \E o \in Orphans : OrphanDies(o)
  BY <1>38 DEF OrphanDies
<1>39. CASE UNCHANGED vars
  BY <1>39
<1>. QED
  BY <1>1, <1>2, <1>3, <1>4, <1>5, <1>6, <1>7, <1>8, <1>9, <1>10, <1>11,
     <1>12, <1>13, <1>14, <1>15, <1>16, <1>17, <1>18, <1>19, <1>20, <1>21,
     <1>22, <1>23, <1>24, <1>25, <1>26, <1>27, <1>28, <1>29, <1>30, <1>31,
     <1>32, <1>33, <1>34, <1>35, <1>36, <1>37, <1>38, <1>39
  DEF Next, MainNext, HandlerNext, StopperNext, BackgroundNext, Environment

(* No step reaps a start-up command. *)
LEMMA StartupCommandsKeptStep ==
    TypeOK /\ ReapOrder /\ StartupCommandsKept /\ [Next]_vars =>
        StartupCommandsKept'
<1>. SUFFICES ASSUME TypeOK, ReapOrder, StartupCommandsKept, [Next]_vars
             PROVE  StartupCommandsKept'
  OBVIOUS
<1>. USE DEF StartupCommandsKept, ReapOrder, ZombieCmds, TypeOK, MainPc,
             HandlerPc, CmdState, ZombieState, Runners, Reaping, InCommand,
             HandlerReceivesControl, Up, Late, vars, mainSide, handlerSide,
             signalVars, chldVars, procVars, stopVars
<1>1. CASE \E result \in {"ok", "error"} : ReturnEarly(result)
  BY <1>1 DEF ReturnEarly
<1>2. CASE ClearReady
  BY <1>2 DEF ClearReady
<1>3. CASE StartSignalHandler
  BY <1>3 DEF StartSignalHandler
<1>4. CASE RunStartupCommand
  BY <1>4 DEF RunStartupCommand
<1>5. CASE Configure
  BY <1>5 DEF Configure
<1>6. CASE StartupCommandDone
  BY <1>6 DEF StartupCommandDone
<1>7. CASE StartupCommandFails
  BY <1>7 DEF StartupCommandFails, Return
<1>8. CASE StartupStepFails
  BY <1>8 DEF StartupStepFails, Return
<1>9. CASE InitOnly
  BY <1>9 DEF InitOnly, Return
<1>10. CASE LaunchMetrics
  BY <1>10 DEF LaunchMetrics
<1>11. CASE SendStartReaping
  BY <1>11 DEF SendStartReaping
<1>12. CASE SendReapNow
  BY <1>12 DEF SendReapNow
<1>13. CASE MarkStartupComplete
  BY <1>13 DEF MarkStartupComplete
<1>14. CASE SetReady
  BY <1>14 DEF SetReady
<1>15. CASE ControlClosedSeen
  BY <1>15 DEF ControlClosedSeen, Return
<1>16. CASE Unwind
  BY <1>16 DEF Unwind
<1>17. CASE Exit
  BY <1>17 DEF Exit
<1>18. CASE ReceiveStop
  BY <1>18 DEF ReceiveStop
<1>19. CASE IgnoreFurtherStops
  BY <1>19 DEF IgnoreFurtherStops, AfterStopSignal
<1>20. CASE StartupSeenDone
  BY <1>20 DEF StartupSeenDone
<1>21. CASE StopMetricsAndSpawn
  BY <1>21 DEF StopMetricsAndSpawn
<1>22. CASE ReceiveReap
  BY <1>22 DEF ReceiveReap
<1>23. CASE ShutdownSeenDone
  BY <1>23 DEF ShutdownSeenDone
<1>24. CASE ReapCommand
  <2>1. PICK r \in ZombieCmds : cmd' = [cmd EXCEPT ![r] = "stolen"]
    BY <1>24 DEF ReapCommand
  <2>2. Up /\ ~InCommand
    BY <1>24 DEF ReapCommand
  <2>3. cmd["main"] = "idle"
    BY <2>2
  <2>4. r # "main"
    BY <2>3
  <2>. QED  BY <2>1, <2>4
<1>25. CASE \E o \in Orphans : ReapOrphan(o)
  BY <1>25 DEF ReapOrphan
<1>26. CASE ReapNone
  BY <1>26 DEF ReapNone, AfterReap
<1>27. CASE RunEndmqm
  BY <1>27 DEF RunEndmqm
<1>28. CASE StopFails
  BY <1>28 DEF StopFails
<1>29. CASE EndmqmDone
  BY <1>29 DEF EndmqmDone
<1>30. CASE WebServerLaunched
  BY <1>30 DEF WebServerLaunched
<1>31. CASE PollStatus
  BY <1>31 DEF PollStatus
<1>32. CASE PollStatusDone
  BY <1>32 DEF PollStatusDone
<1>33. CASE Restart
  BY <1>33 DEF Restart
<1>34. CASE SendStopSignal
  BY <1>34 DEF SendStopSignal
<1>35. CASE Kill
  BY <1>35 DEF Kill
<1>36. CASE RelaySIGCHLD
  BY <1>36 DEF RelaySIGCHLD
<1>37. CASE \E r \in Runners : CommandExits(r)
  BY <1>37 DEF CommandExits, CommandEffect
<1>38. CASE \E o \in Orphans : OrphanDies(o)
  BY <1>38 DEF OrphanDies
<1>39. CASE UNCHANGED vars
  BY <1>39
<1>. QED
  BY <1>1, <1>2, <1>3, <1>4, <1>5, <1>6, <1>7, <1>8, <1>9, <1>10, <1>11,
     <1>12, <1>13, <1>14, <1>15, <1>16, <1>17, <1>18, <1>19, <1>20, <1>21,
     <1>22, <1>23, <1>24, <1>25, <1>26, <1>27, <1>28, <1>29, <1>30, <1>31,
     <1>32, <1>33, <1>34, <1>35, <1>36, <1>37, <1>38, <1>39
  DEF Next, MainNext, HandlerNext, StopperNext, BackgroundNext, Environment

(* No step runs a queue manager that endmqm has ended. *)
LEMMA EndedStaysEndedStep ==
    TypeOK /\ StopOrder /\ ReapOrder /\ EndedStaysEnded /\ [Next]_vars =>
        EndedStaysEnded'
<1>. SUFFICES ASSUME TypeOK, StopOrder, ReapOrder, EndedStaysEnded, [Next]_vars
             PROVE  EndedStaysEnded'
  OBVIOUS
<1>. USE DEF EndedStaysEnded, StopOrder, ReapOrder, ZombieCmds, TypeOK,
             MainPc, HandlerPc, CmdState, ZombieState, Runners, Reaping,
             InCommand, HandlerReceivesControl, Up, Late, vars, mainSide,
             handlerSide, signalVars, chldVars, procVars, stopVars
<1>1. CASE \E result \in {"ok", "error"} : ReturnEarly(result)
  BY <1>1 DEF ReturnEarly
<1>2. CASE ClearReady
  BY <1>2 DEF ClearReady
<1>3. CASE StartSignalHandler
  BY <1>3 DEF StartSignalHandler
<1>4. CASE RunStartupCommand
  BY <1>4 DEF RunStartupCommand
<1>5. CASE Configure
  BY <1>5 DEF Configure
<1>6. CASE StartupCommandDone
  BY <1>6 DEF StartupCommandDone
<1>7. CASE StartupCommandFails
  BY <1>7 DEF StartupCommandFails, Return
<1>8. CASE StartupStepFails
  BY <1>8 DEF StartupStepFails, Return
<1>9. CASE InitOnly
  BY <1>9 DEF InitOnly, Return
<1>10. CASE LaunchMetrics
  BY <1>10 DEF LaunchMetrics
<1>11. CASE SendStartReaping
  BY <1>11 DEF SendStartReaping
<1>12. CASE SendReapNow
  BY <1>12 DEF SendReapNow
<1>13. CASE MarkStartupComplete
  BY <1>13 DEF MarkStartupComplete
<1>14. CASE SetReady
  BY <1>14 DEF SetReady
<1>15. CASE ControlClosedSeen
  BY <1>15 DEF ControlClosedSeen, Return
<1>16. CASE Unwind
  BY <1>16 DEF Unwind
<1>17. CASE Exit
  BY <1>17 DEF Exit
<1>18. CASE ReceiveStop
  BY <1>18 DEF ReceiveStop
<1>19. CASE IgnoreFurtherStops
  BY <1>19 DEF IgnoreFurtherStops, AfterStopSignal
<1>20. CASE StartupSeenDone
  BY <1>20 DEF StartupSeenDone
<1>21. CASE StopMetricsAndSpawn
  BY <1>21 DEF StopMetricsAndSpawn
<1>22. CASE ReceiveReap
  BY <1>22 DEF ReceiveReap
<1>23. CASE ShutdownSeenDone
  BY <1>23 DEF ShutdownSeenDone
<1>24. CASE ReapCommand
  BY <1>24 DEF ReapCommand
<1>25. CASE \E o \in Orphans : ReapOrphan(o)
  BY <1>25 DEF ReapOrphan
<1>26. CASE ReapNone
  BY <1>26 DEF ReapNone, AfterReap
<1>27. CASE RunEndmqm
  BY <1>27 DEF RunEndmqm
<1>28. CASE StopFails
  BY <1>28 DEF StopFails
<1>29. CASE EndmqmDone
  BY <1>29 DEF EndmqmDone
<1>30. CASE WebServerLaunched
  BY <1>30 DEF WebServerLaunched
<1>31. CASE PollStatus
  BY <1>31 DEF PollStatus
<1>32. CASE PollStatusDone
  BY <1>32 DEF PollStatusDone
<1>33. CASE Restart
  BY <1>33 DEF Restart
<1>34. CASE SendStopSignal
  BY <1>34 DEF SendStopSignal
<1>35. CASE Kill
  BY <1>35 DEF Kill
<1>36. CASE RelaySIGCHLD
  BY <1>36 DEF RelaySIGCHLD
<1>37. CASE \E r \in Runners : CommandExits(r)
  BY <1>37 DEF CommandExits, CommandEffect
<1>38. CASE \E o \in Orphans : OrphanDies(o)
  BY <1>38 DEF OrphanDies
<1>39. CASE UNCHANGED vars
  BY <1>39
<1>. QED
  BY <1>1, <1>2, <1>3, <1>4, <1>5, <1>6, <1>7, <1>8, <1>9, <1>10, <1>11,
     <1>12, <1>13, <1>14, <1>15, <1>16, <1>17, <1>18, <1>19, <1>20, <1>21,
     <1>22, <1>23, <1>24, <1>25, <1>26, <1>27, <1>28, <1>29, <1>30, <1>31,
     <1>32, <1>33, <1>34, <1>35, <1>36, <1>37, <1>38, <1>39
  DEF Next, MainNext, HandlerNext, StopperNext, BackgroundNext, Environment

(* No step loses the wake-up of a zombie. *)
LEMMA NoLostZombieStep ==
    TypeOK /\ ReapOrder /\ NoLostZombie /\ [Next]_vars => NoLostZombie'
<1>. SUFFICES ASSUME TypeOK, ReapOrder, NoLostZombie, [Next]_vars
             PROVE  NoLostZombie'
  OBVIOUS
<1>. USE DEF NoLostZombie, ReapOrder, NoZombies, NothingToReap, ZombieCmds,
             ZombieOrphans, TypeOK, MainPc, HandlerPc, CmdState, ZombieState,
             Runners, Reaping, InCommand, HandlerReceivesControl, Up, Late,
             vars, mainSide, handlerSide, signalVars, chldVars, procVars,
             stopVars
<1>1. CASE \E result \in {"ok", "error"} : ReturnEarly(result)
  BY <1>1 DEF ReturnEarly
<1>2. CASE ClearReady
  BY <1>2 DEF ClearReady
<1>3. CASE StartSignalHandler
  BY <1>3 DEF StartSignalHandler
<1>4. CASE RunStartupCommand
  BY <1>4 DEF RunStartupCommand
<1>5. CASE Configure
  BY <1>5 DEF Configure
<1>6. CASE StartupCommandDone
  BY <1>6 DEF StartupCommandDone
<1>7. CASE StartupCommandFails
  BY <1>7 DEF StartupCommandFails, Return
<1>8. CASE StartupStepFails
  BY <1>8 DEF StartupStepFails, Return
<1>9. CASE InitOnly
  BY <1>9 DEF InitOnly, Return
<1>10. CASE LaunchMetrics
  BY <1>10 DEF LaunchMetrics
<1>11. CASE SendStartReaping
  BY <1>11 DEF SendStartReaping
<1>12. CASE SendReapNow
  BY <1>12 DEF SendReapNow
<1>13. CASE MarkStartupComplete
  BY <1>13 DEF MarkStartupComplete
<1>14. CASE SetReady
  BY <1>14 DEF SetReady
<1>15. CASE ControlClosedSeen
  BY <1>15 DEF ControlClosedSeen, Return
<1>16. CASE Unwind
  BY <1>16 DEF Unwind
<1>17. CASE Exit
  BY <1>17 DEF Exit
<1>18. CASE ReceiveStop
  BY <1>18 DEF ReceiveStop
<1>19. CASE IgnoreFurtherStops
  BY <1>19 DEF IgnoreFurtherStops, AfterStopSignal
<1>20. CASE StartupSeenDone
  BY <1>20 DEF StartupSeenDone
<1>21. CASE StopMetricsAndSpawn
  BY <1>21 DEF StopMetricsAndSpawn
<1>22. CASE ReceiveReap
  BY <1>22 DEF ReceiveReap
<1>23. CASE ShutdownSeenDone
  BY <1>23 DEF ShutdownSeenDone
<1>24. CASE ReapCommand
  BY <1>24 DEF ReapCommand
<1>25. CASE \E o \in Orphans : ReapOrphan(o)
  BY <1>25 DEF ReapOrphan
<1>26. CASE ReapNone
  BY <1>26 DEF ReapNone, AfterReap
<1>27. CASE RunEndmqm
  BY <1>27 DEF RunEndmqm
<1>28. CASE StopFails
  BY <1>28 DEF StopFails
<1>29. CASE EndmqmDone
  BY <1>29 DEF EndmqmDone
<1>30. CASE WebServerLaunched
  BY <1>30 DEF WebServerLaunched
<1>31. CASE PollStatus
  BY <1>31 DEF PollStatus
<1>32. CASE PollStatusDone
  BY <1>32 DEF PollStatusDone
<1>33. CASE Restart
  BY <1>33 DEF Restart
<1>34. CASE SendStopSignal
  BY <1>34 DEF SendStopSignal
<1>35. CASE Kill
  BY <1>35 DEF Kill
<1>36. CASE RelaySIGCHLD
  BY <1>36 DEF RelaySIGCHLD
<1>37. CASE \E r \in Runners : CommandExits(r)
  BY <1>37 DEF CommandExits, CommandEffect
<1>38. CASE \E o \in Orphans : OrphanDies(o)
  BY <1>38 DEF OrphanDies
<1>39. CASE UNCHANGED vars
  BY <1>39
<1>. QED
  BY <1>1, <1>2, <1>3, <1>4, <1>5, <1>6, <1>7, <1>8, <1>9, <1>10, <1>11,
     <1>12, <1>13, <1>14, <1>15, <1>16, <1>17, <1>18, <1>19, <1>20, <1>21,
     <1>22, <1>23, <1>24, <1>25, <1>26, <1>27, <1>28, <1>29, <1>30, <1>31,
     <1>32, <1>33, <1>34, <1>35, <1>36, <1>37, <1>38, <1>39
  DEF Next, MainNext, HandlerNext, StopperNext, BackgroundNext, Environment

(* No step publishes readiness early. *)
LEMMA ReadyMeansStartedStep ==
    TypeOK /\ StopOrder /\ ReadyMeansStarted /\ [Next]_vars =>
        ReadyMeansStarted'
<1>. SUFFICES ASSUME TypeOK, StopOrder, ReadyMeansStarted, [Next]_vars
             PROVE  ReadyMeansStarted'
  OBVIOUS
<1>. USE DEF ReadyMeansStarted, StopOrder, TypeOK, MainPc, HandlerPc,
             CmdState, ZombieState, Runners, Reaping, InCommand,
             HandlerReceivesControl, Up, Late, vars, mainSide, handlerSide,
             signalVars, chldVars, procVars, stopVars
<1>1. CASE \E result \in {"ok", "error"} : ReturnEarly(result)
  BY <1>1 DEF ReturnEarly
<1>2. CASE ClearReady
  BY <1>2 DEF ClearReady
<1>3. CASE StartSignalHandler
  BY <1>3 DEF StartSignalHandler
<1>4. CASE RunStartupCommand
  BY <1>4 DEF RunStartupCommand
<1>5. CASE Configure
  BY <1>5 DEF Configure
<1>6. CASE StartupCommandDone
  BY <1>6 DEF StartupCommandDone
<1>7. CASE StartupCommandFails
  BY <1>7 DEF StartupCommandFails, Return
<1>8. CASE StartupStepFails
  BY <1>8 DEF StartupStepFails, Return
<1>9. CASE InitOnly
  BY <1>9 DEF InitOnly, Return
<1>10. CASE LaunchMetrics
  BY <1>10 DEF LaunchMetrics
<1>11. CASE SendStartReaping
  BY <1>11 DEF SendStartReaping
<1>12. CASE SendReapNow
  BY <1>12 DEF SendReapNow
<1>13. CASE MarkStartupComplete
  BY <1>13 DEF MarkStartupComplete
<1>14. CASE SetReady
  BY <1>14 DEF SetReady
<1>15. CASE ControlClosedSeen
  BY <1>15 DEF ControlClosedSeen, Return
<1>16. CASE Unwind
  BY <1>16 DEF Unwind
<1>17. CASE Exit
  BY <1>17 DEF Exit
<1>18. CASE ReceiveStop
  BY <1>18 DEF ReceiveStop
<1>19. CASE IgnoreFurtherStops
  BY <1>19 DEF IgnoreFurtherStops, AfterStopSignal
<1>20. CASE StartupSeenDone
  BY <1>20 DEF StartupSeenDone
<1>21. CASE StopMetricsAndSpawn
  BY <1>21 DEF StopMetricsAndSpawn
<1>22. CASE ReceiveReap
  BY <1>22 DEF ReceiveReap
<1>23. CASE ShutdownSeenDone
  BY <1>23 DEF ShutdownSeenDone
<1>24. CASE ReapCommand
  BY <1>24 DEF ReapCommand
<1>25. CASE \E o \in Orphans : ReapOrphan(o)
  BY <1>25 DEF ReapOrphan
<1>26. CASE ReapNone
  BY <1>26 DEF ReapNone, AfterReap
<1>27. CASE RunEndmqm
  BY <1>27 DEF RunEndmqm
<1>28. CASE StopFails
  BY <1>28 DEF StopFails
<1>29. CASE EndmqmDone
  BY <1>29 DEF EndmqmDone
<1>30. CASE WebServerLaunched
  BY <1>30 DEF WebServerLaunched
<1>31. CASE PollStatus
  BY <1>31 DEF PollStatus
<1>32. CASE PollStatusDone
  BY <1>32 DEF PollStatusDone
<1>33. CASE Restart
  BY <1>33 DEF Restart
<1>34. CASE SendStopSignal
  BY <1>34 DEF SendStopSignal
<1>35. CASE Kill
  BY <1>35 DEF Kill
<1>36. CASE RelaySIGCHLD
  BY <1>36 DEF RelaySIGCHLD
<1>37. CASE \E r \in Runners : CommandExits(r)
  BY <1>37 DEF CommandExits, CommandEffect
<1>38. CASE \E o \in Orphans : OrphanDies(o)
  BY <1>38 DEF OrphanDies
<1>39. CASE UNCHANGED vars
  BY <1>39
<1>. QED
  BY <1>1, <1>2, <1>3, <1>4, <1>5, <1>6, <1>7, <1>8, <1>9, <1>10, <1>11,
     <1>12, <1>13, <1>14, <1>15, <1>16, <1>17, <1>18, <1>19, <1>20, <1>21,
     <1>22, <1>23, <1>24, <1>25, <1>26, <1>27, <1>28, <1>29, <1>30, <1>31,
     <1>32, <1>33, <1>34, <1>35, <1>36, <1>37, <1>38, <1>39
  DEF Next, MainNext, HandlerNext, StopperNext, BackgroundNext, Environment

(* The inductive invariant holds of every behaviour.                       *)
THEOREM Invariance == Spec => []IInv
<1>1. Init => IInv
  <2>. SUFFICES ASSUME Init PROVE IInv
    OBVIOUS
  <2>. USE DEF Init
  <2>1. TypeOK
    <3>1. /\ ready \in BOOLEAN /\ startupDone \in BOOLEAN
          /\ stopTriggered \in BOOLEAN /\ stopNotify \in BOOLEAN
          /\ stopBuf \in BOOLEAN /\ reapNotify \in BOOLEAN
          /\ reapBuf \in BOOLEAN /\ chldPending \in BOOLEAN
          /\ shutdownDone \in BOOLEAN /\ controlClosed \in BOOLEAN
          /\ polling \in BOOLEAN
      BY Zenon
    <3>. QED
      BY <3>1, MaxStopsAssumption
      DEF TypeOK, MainPc, HandlerPc, CmdState, Runners
  <2>2. StopOrder /\ ReapOrder /\ EndedStaysEnded /\ StartupCommandsKept
    BY DEF StopOrder, ReapOrder, EndedStaysEnded, StartupCommandsKept, Late,
       Reaping, Runners
  <2>3. NoLostZombie /\ ReadyMeansStarted
    BY DEF NoLostZombie, ReadyMeansStarted
  <2>. QED  BY <2>1, <2>2, <2>3 DEF IInv
<1>2. IInv /\ [Next]_vars => IInv'
  BY TypeStep, StopOrderStep, ReapOrderStep, EndedStaysEndedStep,
     StartupCommandsKeptStep, NoLostZombieStep, ReadyMeansStartedStep
  DEF IInv
<1>. QED  BY <1>1, <1>2, PTL DEF Spec

(* Every variable of the process keeps its type.                           *)
THEOREM TypeCorrect == Spec => []TypeOK
BY Invariance, PTL DEF IInv

(* signalHandler never stops the queue manager, nor closes the control     *)
(* channel doMain sends on, before doMain has finished starting up.        *)
THEOREM StopWaitsForStartup == Spec => []NoStopDuringStartup
<1>1. IInv => NoStopDuringStartup
  BY DEF IInv, StopOrder, NoStopDuringStartup, InStartup, Late, TypeOK
<1>. QED  BY <1>1, Invariance, PTL

(* reapZombies never takes the exit status of crtmqm or strmqm from doMain. *)
THEOREM StartupCommandsAreKept == Spec => []StartupCommandsKept
BY Invariance, PTL DEF IInv

(* The container reports a clean stop only after stopQueueManager returned *)
(* and, unless it reported an error, no queue manager is left running.     *)
THEOREM CleanStop == Spec => []StoppedMeansEnded
<1>1. IInv => StoppedMeansEnded
  BY DEF IInv, StopOrder, EndedStaysEnded, StoppedMeansEnded, TypeOK
<1>. QED  BY <1>1, Invariance, PTL

(* No SIGCHLD that matters is lost, for any number of adopted processes.   *)
THEOREM EveryZombieIsSeen == Spec => []NoLostZombie
BY Invariance, PTL DEF IInv

(* The ready file is never left over from an earlier start.                *)
THEOREM ReadinessIsFresh == Spec => []ReadyMeansStarted
BY Invariance, PTL DEF IInv

(* The phases of the service, one by one.                                  *)
PhaseMeaning ==
    /\ Phase = "down" <=> main = "exited"
    /\ Phase = "starting" <=> main # "exited" /\ ~startupDone
    /\ Phase = "up" <=> main # "exited" /\ startupDone /\ stopper = "idle"
    /\ Phase = "stopping" <=>
         main # "exited" /\ startupDone /\ stopper \in {"dspmq", "endmqm"}
    /\ Phase = "stopped" <=>
         main # "exited" /\ startupDone /\ stopper \in {"ok", "error"}

(* In a state of the right type the process is in one phase.               *)
LEMMA Phases == TypeOK => PhaseMeaning
<1>1. TypeOK => /\ stopper \in {"idle", "dspmq", "endmqm", "ok", "error"}
                /\ startupDone \in BOOLEAN
  BY DEF TypeOK
<1>. QED  BY <1>1 DEF Phase, PhaseMeaning

(* A step that leaves the start-up, the stop, the queue manager and the    *)
(* ready file alone, and neither begins nor ends the process, is invisible *)
(* to the service.                                                         *)
LEMMA InvisibleStep ==
    /\ TypeOK
    /\ UNCHANGED <<startupDone, stopper, qm, ready>>
    /\ main' = "exited" <=> main = "exited"
    => UNCHANGED Service!vars
BY DEF TypeOK, Phase, Service!vars

(* Every step of the process is a step of the service, or invisible to it. *)
LEMMA ServiceStep ==
    IInv /\ IInv' /\ [Next]_vars => [Service!Next]_(Service!vars)
<1>. SUFFICES ASSUME IInv, IInv', [Next]_vars
              PROVE  Service!Next \/ UNCHANGED Service!vars
  OBVIOUS
<1>p. /\ TypeOK /\ StopOrder /\ PhaseMeaning
      /\ TypeOK' /\ StopOrder' /\ PhaseMeaning'
  BY Phases, PTL DEF IInv
<1>. USE DEF PhaseMeaning, Up, Late, InCommand, Service!Next, mainSide,
             handlerSide, signalVars, chldVars, procVars, stopVars
<1>1. CASE \E result \in {"ok", "error"} : ReturnEarly(result)
  <2>. Service!GoDown
    BY <1>1, <1>p DEF ReturnEarly, Service!GoDown
  <2>. QED  OBVIOUS
<1>2. CASE ClearReady
  <2>. Service!Withdraw
    BY <1>2, <1>p DEF ClearReady, StopOrder, Service!Withdraw, PhaseMeaning
  <2>. QED  OBVIOUS
<1>3. CASE StartSignalHandler
  BY <1>3, <1>p, InvisibleStep DEF StartSignalHandler
<1>4. CASE RunStartupCommand
  <2>1. Phase = "starting" /\ Phase' = "starting" /\ qm' = qm
    BY <1>4, <1>p DEF RunStartupCommand, StopOrder
  <2>2. CASE main = "prepare"
    <3>1. ready' = FALSE
      BY <1>4, <2>2, Zenon DEF RunStartupCommand
    <3>. QED  BY <2>1, <3>1 DEF Service!Withdraw
  <2>3. CASE main # "prepare"
    <3>1. ready' = (TRUE /\ ready)
      BY <1>4, <2>3, Zenon DEF RunStartupCommand
    <3>2. ready \in BOOLEAN
      BY <1>p DEF TypeOK
    <3>3. ready' = ready
      BY <3>1, <3>2, Zenon
    <3>. QED  BY <2>1, <3>3 DEF Service!vars
  <2>. QED  BY <2>2, <2>3
<1>5. CASE Configure
  BY <1>5, <1>p, InvisibleStep DEF Configure
<1>6. CASE StartupCommandDone
  BY <1>6, <1>p, InvisibleStep DEF StartupCommandDone
<1>7. CASE StartupCommandFails
  BY <1>7, <1>p, InvisibleStep DEF StartupCommandFails, Return
<1>8. CASE StartupStepFails
  BY <1>8, <1>p, InvisibleStep DEF StartupStepFails, Return
<1>9. CASE InitOnly
  BY <1>9, <1>p, InvisibleStep DEF InitOnly, Return
<1>10. CASE LaunchMetrics
  BY <1>10, <1>p, InvisibleStep DEF LaunchMetrics
<1>11. CASE SendStartReaping
  BY <1>11, <1>p, InvisibleStep DEF SendStartReaping
<1>12. CASE SendReapNow
  BY <1>12, <1>p, InvisibleStep DEF SendReapNow
<1>13. CASE MarkStartupComplete
  <2>. Service!StartupOver
    BY <1>13, <1>p DEF MarkStartupComplete, StopOrder, Service!StartupOver
  <2>. QED  OBVIOUS
<1>14. CASE SetReady
  <2>. Service!Publish
    BY <1>14, <1>p DEF SetReady, StopOrder, Service!Publish, TypeOK
  <2>. QED  OBVIOUS
<1>15. CASE ControlClosedSeen
  BY <1>15, <1>p, InvisibleStep DEF ControlClosedSeen, Return
<1>16. CASE Unwind
  <2>1. CASE startupDone
    BY <1>16, <1>p, <2>1, InvisibleStep DEF Unwind
  <2>2. CASE ~startupDone
    <3>. Service!StartupOver
      BY <1>16, <1>p, <2>2 DEF Unwind, StopOrder, Service!StartupOver
    <3>. QED  OBVIOUS
  <2>. QED  BY <2>1, <2>2
<1>17. CASE Exit
  <2>. Service!GoDown
    BY <1>17, <1>p DEF Exit, Service!GoDown
  <2>. QED  OBVIOUS
<1>18. CASE ReceiveStop
  BY <1>18, <1>p, InvisibleStep DEF ReceiveStop
<1>19. CASE IgnoreFurtherStops
  BY <1>19, <1>p, InvisibleStep DEF IgnoreFurtherStops
<1>20. CASE StartupSeenDone
  BY <1>20, <1>p, InvisibleStep DEF StartupSeenDone
<1>21. CASE StopMetricsAndSpawn
  <2>. Service!BeginStop
    BY <1>21, <1>p DEF StopMetricsAndSpawn, StopOrder, Service!BeginStop
  <2>. QED  OBVIOUS
<1>22. CASE ReceiveReap
  BY <1>22, <1>p, InvisibleStep DEF ReceiveReap
<1>23. CASE ShutdownSeenDone
  BY <1>23, <1>p, InvisibleStep DEF ShutdownSeenDone
<1>24. CASE ReapCommand
  BY <1>24, <1>p, InvisibleStep DEF ReapCommand
<1>25. CASE \E o \in Orphans : ReapOrphan(o)
  BY <1>25, <1>p, InvisibleStep DEF ReapOrphan
<1>26. CASE ReapNone
  BY <1>26, <1>p, InvisibleStep DEF ReapNone
<1>27. CASE RunEndmqm
  <2>1. Phase' = Phase
    BY <1>27 DEF RunEndmqm, Phase
  <2>. QED  BY <1>27, <2>1 DEF RunEndmqm, Service!vars
<1>28. CASE StopFails
  <2>. Service!StopOver
    BY <1>28, <1>p DEF StopFails, StopOrder, Service!StopOver
  <2>. QED  OBVIOUS
<1>29. CASE EndmqmDone
  <2>. Service!StopOver
    BY <1>29, <1>p DEF EndmqmDone, StopOrder, Service!StopOver
  <2>. QED  OBVIOUS
<1>30. CASE WebServerLaunched
  BY <1>30, <1>p, InvisibleStep DEF WebServerLaunched
<1>31. CASE PollStatus
  BY <1>31, <1>p, InvisibleStep DEF PollStatus
<1>32. CASE PollStatusDone
  BY <1>32, <1>p, InvisibleStep DEF PollStatusDone
<1>33. CASE Restart
  <2>. Service!StartAgain
    BY <1>33, <1>p DEF Restart, Service!StartAgain
  <2>. QED  OBVIOUS
<1>34. CASE SendStopSignal
  <2>1. CASE stopNotify
    BY <1>34, <2>1, <1>p, InvisibleStep DEF SendStopSignal
  <2>2. CASE ~stopNotify
    <3>. Service!GoDown
      BY <1>34, <2>2, <1>p DEF SendStopSignal, Service!GoDown
    <3>. QED  OBVIOUS
  <2>. QED  BY <2>1, <2>2
<1>35. CASE Kill
  <2>. Service!GoDown
    BY <1>35, <1>p DEF Kill, Service!GoDown
  <2>. QED  OBVIOUS
<1>36. CASE RelaySIGCHLD
  BY <1>36, <1>p, InvisibleStep DEF RelaySIGCHLD
<1>37. CASE \E r \in Runners : CommandExits(r)
  <2>1. PICK r \in Runners : CommandExits(r)
    BY <1>37
  <2>2. /\ Phase' = Phase /\ ready' = ready
        /\ qm' \in {qm, CommandEffect(r)}
    BY <2>1 DEF CommandExits, Phase
  <2>3. CASE r = "main" /\ main = "crtmqm" /\ qm = "absent" /\ qm' = "defined"
    <3>. Service!Create
      BY <1>p, <2>2, <2>3 DEF StopOrder, Service!Create
    <3>. QED  OBVIOUS
  <2>4. CASE r = "main" /\ main = "strmqm" /\ qm' = "running"
    <3>. Service!StartQM
      BY <1>p, <2>2, <2>4 DEF StopOrder, Service!StartQM
    <3>. QED  OBVIOUS
  <2>5. CASE r = "stop" /\ stopper = "endmqm" /\ qm = "running" /\ qm' = "defined"
    <3>1. main # "exited"
      BY <2>1 DEF CommandExits
    <3>. Service!EndQM
      BY <1>p, <2>2, <2>5, <3>1 DEF StopOrder, Service!EndQM
    <3>. QED  OBVIOUS
  <2>6. CASE qm' = qm
    BY <2>2, <2>6 DEF Service!vars
  <2>. QED  BY <2>2, <2>3, <2>4, <2>5, <2>6 DEF CommandEffect
<1>38. CASE \E o \in Orphans : OrphanDies(o)
  BY <1>38, <1>p, InvisibleStep DEF OrphanDies
<1>39. CASE UNCHANGED vars
  BY <1>39, <1>p, InvisibleStep DEF vars
<1>. QED
  BY <1>1, <1>2, <1>3, <1>4, <1>5, <1>6, <1>7, <1>8, <1>9, <1>10, <1>11,
     <1>12, <1>13, <1>14, <1>15, <1>16, <1>17, <1>18, <1>19, <1>20, <1>21,
     <1>22, <1>23, <1>24, <1>25, <1>26, <1>27, <1>28, <1>29, <1>30, <1>31,
     <1>32, <1>33, <1>34, <1>35, <1>36, <1>37, <1>38, <1>39
  DEF Next, MainNext, HandlerNext, StopperNext, BackgroundNext, Environment

(* The process, with all its goroutines, signals, child processes, kills   *)
(* and restarts, implements the service: the queue manager is ended only   *)
(* by a stop that follows the start-up, and readiness published only then. *)
THEOREM ServiceIsImplemented == Spec => ImplementsService
<1>1. Init => Service!Init
  BY DEF Init, Phase, Service!Init
<1>. QED
  BY <1>1, Invariance, ServiceStep, PTL DEF Spec, ImplementsService, Service!Spec
============================================================================
