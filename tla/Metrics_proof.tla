---------------------------- MODULE Metrics_proof ----------------------------
(***************************************************************************)
(* Stopping the metrics never blocks, and requests and responses pair up:  *)
(* proved for any number of concurrent scrapes.  Every delta is counted    *)
(* once: proved for scrapes that do not overlap.                           *)
(***************************************************************************)
EXTENDS Metrics, TLAPS

(* A connection has room for its metrics map.                              *)
MapRoom == proc \in {"sendStart", "initialise"} => generation < MaxConnects

(* processMetrics is not there before GatherMetrics starts it.             *)
NotStarted == gather \in {"poll", "check"} => proc = "off"

(* Gathering fails before the server is launched, or the server fails      *)
(* afterwards: of these two callers of StopMetricsGathering only one       *)
(* comes.                                                                  *)
OneFailure ==
    /\ server # "off" => gather = "done"
    /\ stop["gather"] # "idle" => gather = "failing"
    /\ stop["server"] # "idle" => server = "failed"

(* Every token in stopChannel was sent by a caller that is past its send.  *)
Sent(c) == IF stop[c] \in {"shutdown", "done"} THEN 1 ELSE 0

TokensSent == stopChannel <= Sent("handler") + Sent("gather") + Sent("server")

MetricsInv ==
    /\ TypeOK
    /\ MapRoom
    /\ NotStarted
    /\ OneFailure
    /\ TokensSent
    /\ ResponsePaired

(* Every step of every goroutine keeps every variable in its type.         *)
LEMMA MetricsTypeStep ==
  TypeOK /\ MapRoom /\ [Next]_vars => TypeOK' /\ MapRoom'
<1>. SUFFICES ASSUME TypeOK, MapRoom, [Next]_vars PROVE TypeOK' /\ MapRoom'
  OBVIOUS
<1>. USE BoundsAssumption
     DEF TypeOK, MapRoom, Stoppers, Generations, threadVars, stopVars, dataVars,
         exportVars
<1>1. CASE QueueManagerActive
  BY <1>1 DEF QueueManagerActive
<1>2. CASE HandlerStops
  BY <1>2 DEF HandlerStops
<1>3. CASE GatherNext
  BY <1>3, SMTT(60) DEF GatherNext, StartProcessing, GatherFails, RequestDescribe,
              RespondToDescribe, LaunchServer
<1>4. CASE ServerNext
  BY <1>4, SMTT(60) DEF ServerNext, Listen, ServerCloses, ServerFails
<1>5. CASE ProcNext
  <2>1. CASE Connect
    <3>1. connected' \in BOOLEAN /\ firstConnect' \in BOOLEAN
      BY <2>1 DEF Connect
    <3>2. proc' \in {"sendStart", "initialise"}
      BY <2>1 DEF Connect
    <3>3. cached' \in Nat /\ discarded' \in Nat
      BY <2>1 DEF Connect
    <3>. QED
      BY <2>1, <3>1, <3>2, <3>3 DEF Connect
  <2>2. CASE ConnectFails
    BY <2>2, ZenonT(60) DEF ConnectFails
  <2>3. CASE SendStart
    BY <2>3 DEF SendStart
  <2>4. CASE InitialiseMetrics
    BY <2>4 DEF InitialiseMetrics
  <2>5. CASE ProcessPublications
    BY <2>5 DEF ProcessPublications
  <2>6. CASE PublicationsFail
    BY <2>6, ZenonT(60) DEF PublicationsFail
  <2>7. CASE RequestTimeout
    BY <2>7 DEF RequestTimeout
  <2>8. CASE ReceiveStop
    <3>1. connected' \in BOOLEAN
      BY <2>8 DEF ReceiveStop
    <3>. QED
      BY <2>8, <3>1 DEF ReceiveStop
  <2>. QED
    BY <1>5, <2>1, <2>2, <2>3, <2>4, <2>5, <2>6, <2>7, <2>8 DEF ProcNext
<1>6. ASSUME NEW c \in Stoppers, StopNext(c) PROVE TypeOK' /\ MapRoom'
  <2>1. CASE SendStop(c)
    BY <2>1 DEF SendStop, StopCapacity
  <2>2. CASE ShutdownServer(c)
    <3>1. serverDown' \in BOOLEAN
      BY <2>2 DEF ShutdownServer
    <3>2. stop' \in [Stoppers -> {"idle", "send", "shutdown", "done"}]
      BY <2>2 DEF ShutdownServer
    <3>. QED
      BY <2>2, <3>1, <3>2 DEF ShutdownServer
  <2>. QED
    BY <1>6, <2>1, <2>2 DEF StopNext
<1>7. ASSUME NEW s \in Scrapers, Scrape(s) \/ CollectNext(s)
      PROVE  TypeOK' /\ MapRoom'
  <2>1. CASE Scrape(s)
    BY <2>1 DEF Scrape
  <2>2. CASE RequestCollect(s)
    BY <2>2 DEF RequestCollect, CacheAfterUpdate
  <2>3. CASE RespondToCollect(s)
    BY <2>3 DEF RespondToCollect
  <2>4. CASE ApplyValues(s)
    BY <2>4, SMTT(60) DEF ApplyValues
  <2>5. CASE FinishCollect(s)
    <3>1. firstCollect' \in BOOLEAN
      BY <2>5 DEF FinishCollect
    <3>2. scrape' \in [Scrapers -> {"idle", "request", "wait", "apply", "finish"}]
      BY <2>5 DEF FinishCollect
    <3>. QED
      BY <2>5, <3>1, <3>2 DEF FinishCollect
  <2>. QED
    BY <1>7, <2>1, <2>2, <2>3, <2>4, <2>5 DEF CollectNext
<1>8. CASE UNCHANGED vars
  BY <1>8 DEF vars
<1>. QED
  BY <1>1, <1>2, <1>3, <1>4, <1>5, <1>6, <1>7, <1>8 DEF Next

(* No step brings a second failing caller, or a token nobody sent.         *)
LEMMA StopStep ==
  TypeOK /\ OneFailure /\ TokensSent /\ [Next]_vars => OneFailure' /\ TokensSent'
<1>. SUFFICES ASSUME TypeOK, OneFailure, TokensSent, [Next]_vars
              PROVE  OneFailure' /\ TokensSent'
  OBVIOUS
<1>. DEFINE CallState == {"idle", "send", "shutdown", "done"}
<1>0. /\ stop \in [Stoppers -> CallState]
      /\ stopChannel \in 0 .. 2
      /\ server \in {"off", "starting", "listening", "closed", "failed"}
  BY DEF TypeOK
<1>. USE <1>0 DEF OneFailure, TokensSent, Sent, Stoppers, threadVars, stopVars
<1>1. CASE /\ UNCHANGED <<server, stop, stopChannel>>
           /\ gather \in {"done", "failing"} => gather' = gather
  BY <1>1
<1>2. CASE HandlerStops
  BY <1>2 DEF HandlerStops
<1>3. CASE GatherFails
  BY <1>3 DEF GatherFails
<1>4. CASE LaunchServer
  BY <1>4 DEF LaunchServer
<1>5. CASE Listen \/ ServerCloses
  BY <1>5 DEF Listen, ServerCloses
<1>6. CASE ServerFails
  BY <1>6 DEF ServerFails
<1>7. CASE ReceiveStop
  BY <1>7 DEF ReceiveStop
<1>8. ASSUME NEW c \in Stoppers, SendStop(c) PROVE OneFailure' /\ TokensSent'
  BY <1>8 DEF SendStop
<1>9. ASSUME NEW c \in Stoppers, ShutdownServer(c)
      PROVE  OneFailure' /\ TokensSent'
  BY <1>9 DEF ShutdownServer
<1>10. CASE QueueManagerActive \/ StartProcessing \/ RequestDescribe
              \/ RespondToDescribe
  BY <1>1, <1>10 DEF QueueManagerActive, StartProcessing, RequestDescribe,
                     RespondToDescribe
<1>11. CASE Connect \/ ConnectFails \/ SendStart \/ InitialiseMetrics
              \/ ProcessPublications \/ PublicationsFail \/ RequestTimeout
  BY <1>1, <1>11 DEF Connect, ConnectFails, SendStart, InitialiseMetrics,
                     ProcessPublications, PublicationsFail, RequestTimeout
<1>12. ASSUME NEW s \in Scrapers, Scrape(s) \/ CollectNext(s)
       PROVE  OneFailure' /\ TokensSent'
  BY <1>1, <1>12 DEF Scrape, CollectNext, RequestCollect, RespondToCollect,
                     ApplyValues, FinishCollect
<1>13. CASE UNCHANGED vars
  BY <1>1, <1>13 DEF vars
<1>. QED
  BY <1>2, <1>3, <1>4, <1>5, <1>6, <1>7, <1>8, <1>9, <1>10, <1>11, <1>12, <1>13
  DEF Next, GatherNext, ServerNext, ProcNext, StopNext

(* Only StartProcessing takes processMetrics out of "off".                 *)
LEMMA NotStartedStep == NotStarted /\ [Next]_vars => NotStarted'
<1>. SUFFICES ASSUME NotStarted, [Next]_vars PROVE NotStarted'
  OBVIOUS
<1>. USE DEF NotStarted, threadVars
<1>1. CASE QueueManagerActive \/ HandlerStops \/ GatherNext \/ ServerNext
  BY <1>1 DEF QueueManagerActive, HandlerStops, GatherNext, StartProcessing,
              GatherFails, RequestDescribe, RespondToDescribe, LaunchServer,
              ServerNext, Listen, ServerCloses, ServerFails
<1>2. CASE ProcNext
  BY <1>2 DEF ProcNext, Connect, ConnectFails, SendStart, InitialiseMetrics,
              ProcessPublications, PublicationsFail, RequestTimeout, ReceiveStop,
              ListensForStop
<1>3. ASSUME NEW c \in Stoppers, StopNext(c) PROVE NotStarted'
  BY <1>3 DEF StopNext, SendStop, ShutdownServer
<1>4. ASSUME NEW s \in Scrapers, Scrape(s) \/ CollectNext(s) PROVE NotStarted'
  BY <1>4 DEF Scrape, CollectNext, RequestCollect, RespondToCollect, ApplyValues,
              FinishCollect
<1>5. CASE UNCHANGED vars
  BY <1>5 DEF vars
<1>. QED
  BY <1>1, <1>2, <1>3, <1>4, <1>5 DEF Next

(* Whoever takes part in a request leaves the pairing as it should be.     *)
LEMMA PairStep ==
  TypeOK /\ NotStarted /\ ResponsePaired /\ [Next]_vars => ResponsePaired'
<1>. SUFFICES ASSUME TypeOK, NotStarted, ResponsePaired, [Next]_vars
              PROVE  ResponsePaired'
  OBVIOUS
<1>. USE DEF ResponsePaired, threadVars, stopVars, exportVars
<1>0. scrape \in [Scrapers -> {"idle", "request", "wait", "apply", "finish"}]
  BY DEF TypeOK
<1>1. CASE /\ UNCHANGED scrape
           /\ gather' = "describing" <=> gather = "describing"
           /\ proc' = "respond" <=> proc = "respond"
  BY <1>1 DEF Waiters
<1>2. CASE RequestDescribe
  BY <1>2 DEF RequestDescribe, Waiters
<1>3. CASE RespondToDescribe
  BY <1>3 DEF RespondToDescribe, Waiters
<1>4. ASSUME NEW s \in Scrapers, RequestCollect(s) PROVE ResponsePaired'
  <2>1. Waiters = {} /\ gather' # "describing"
    BY <1>4 DEF RequestCollect
  <2>2. Waiters' = {s}
    BY <1>0, <1>4, <2>1 DEF RequestCollect, Waiters
  <2>. QED
    BY <1>4, <2>1, <2>2 DEF RequestCollect
<1>5. ASSUME NEW s \in Scrapers, RespondToCollect(s) PROVE ResponsePaired'
  <2>1. s \in Waiters
    BY <1>5 DEF RespondToCollect, Waiters
  <2>2. Waiters = {s} /\ gather # "describing"
    BY <1>5, <2>1 DEF RespondToCollect
  <2>3. Waiters' = {}
    BY <1>0, <1>5, <2>2 DEF RespondToCollect, Waiters
  <2>. QED
    BY <1>5, <2>2, <2>3 DEF RespondToCollect
<1>6. ASSUME NEW s \in Scrapers, Scrape(s) \/ ApplyValues(s) \/ FinishCollect(s)
      PROVE  ResponsePaired'
  <2>1. Waiters' = Waiters
    BY <1>0, <1>6 DEF Scrape, ApplyValues, FinishCollect, Waiters
  <2>. QED
    BY <1>6, <2>1 DEF Scrape, ApplyValues, FinishCollect
<1>7. CASE QueueManagerActive \/ HandlerStops \/ StartProcessing \/ GatherFails
             \/ LaunchServer \/ ServerNext
  BY <1>1, <1>7 DEF QueueManagerActive, HandlerStops, StartProcessing,
                    GatherFails, LaunchServer, ServerNext, Listen, ServerCloses,
                    ServerFails, NotStarted
<1>8. CASE ProcNext
  BY <1>1, <1>8 DEF ProcNext, Connect, ConnectFails, SendStart,
                    InitialiseMetrics, ProcessPublications, PublicationsFail,
                    RequestTimeout, ReceiveStop, ListensForStop
<1>9. ASSUME NEW c \in Stoppers, StopNext(c) PROVE ResponsePaired'
  BY <1>1, <1>9 DEF StopNext, SendStop, ShutdownServer
<1>10. CASE UNCHANGED vars
  BY <1>1, <1>10 DEF vars
<1>. QED
  BY <1>2, <1>3, <1>4, <1>5, <1>6, <1>7, <1>8, <1>9, <1>10
  DEF Next, GatherNext, CollectNext

(* The inductive invariant holds of every behaviour.                       *)
THEOREM MetricsInvariance == Spec => []MetricsInv
<1>1. Init => MetricsInv
  <2>. SUFFICES ASSUME Init PROVE MetricsInv
    OBVIOUS
  <2>1. TypeOK /\ MapRoom /\ NotStarted
    <3>1. /\ metricsEnabled \in BOOLEAN
          /\ firstConnect \in BOOLEAN
          /\ connected \in BOOLEAN
          /\ serverDown \in BOOLEAN
          /\ firstCollect \in BOOLEAN
      BY DEF Init
    <3>2. TypeOK
      BY <3>1, BoundsAssumption DEF Init, TypeOK, Stoppers, Generations
    <3>. QED
      BY <3>2 DEF Init, MapRoom, NotStarted
  <2>2. OneFailure /\ TokensSent
    BY DEF Init, OneFailure, TokensSent, Sent, Stoppers
  <2>3. ResponsePaired
    BY DEF Init, ResponsePaired, Waiters
  <2>. QED
    BY <2>1, <2>2, <2>3 DEF MetricsInv
<1>2. MetricsInv /\ [Next]_vars => MetricsInv'
  BY MetricsTypeStep, NotStartedStep, StopStep, PairStep DEF MetricsInv
<1>. QED
  BY <1>1, <1>2, PTL DEF Spec

(* Every variable of the metrics goroutines keeps its type.                *)
THEOREM MetricsTypes == Spec => []TypeOK
BY MetricsInvariance, PTL DEF MetricsInv

(* A call of StopMetricsGathering always finds room in stopChannel: with   *)
(* one caller still to send, at most one other has sent before it.         *)
THEOREM StoppingNeverBlocks == Spec => []StopNeverBlocks
<1>1. MetricsInv => StopNeverBlocks
  <2>. SUFFICES ASSUME MetricsInv, NEW c \in Stoppers, stop[c] = "send"
                PROVE  stopChannel < StopCapacity
    BY DEF StopNeverBlocks
  <2>1. stop["gather"] = "idle" \/ stop["server"] = "idle"
    BY DEF MetricsInv, OneFailure
  <2>2. stopChannel \in 0 .. 2
    BY DEF MetricsInv, TypeOK
  <2>. QED
    BY <2>1, <2>2 DEF MetricsInv, TokensSent, Sent, Stoppers, StopCapacity
<1>. QED
  BY <1>1, MetricsInvariance, PTL

(* processMetrics answers exactly the request it took, whatever the number *)
(* of scrapes.                                                             *)
THEOREM ResponsesArePaired == Spec => []ResponsePaired
BY MetricsInvariance, PTL DEF MetricsInv

----------------------------------------------------------------------------
(* What a scrape is holding: the values it has asked for, until it has     *)
(* added them to the counter.  They are the values of the map that is in   *)
(* use when processMetrics answers; while it is about to answer it makes   *)
(* no new map.                                                             *)
Pending(s) ==
    IF scrape[s] = "wait" THEN values[generation]
    ELSE IF scrape[s] = "apply" THEN values[held[s]] ELSE 0

Balanced(s) == published = cached + counter + discarded + Pending(s)

(* With one scrape at a time, every step keeps the sum.                    *)
LEMMA BalanceStep ==
  ASSUME NEW s, Scrapers = {s}
  PROVE  MetricsInv /\ Balanced(s) /\ [Next]_vars => Balanced(s)'
<1>. SUFFICES ASSUME MetricsInv, Balanced(s), [Next]_vars
              PROVE  Balanced(s)'
  OBVIOUS
<1>. USE DEF Balanced, Pending
<1>0. /\ scrape \in [Scrapers -> {"idle", "request", "wait", "apply", "finish"}]
      /\ held \in [Scrapers -> Generations]
      /\ values \in [Generations -> Nat]
      /\ generation \in Generations
      /\ cached \in Nat /\ counter \in Nat /\ discarded \in Nat
      /\ published \in Nat
  BY BoundsAssumption DEF MetricsInv, TypeOK
<1>1. scrape[s] = "wait" => proc = "respond"
  BY DEF MetricsInv, ResponsePaired, Waiters
<1>2. CASE UNCHANGED <<dataVars, exportVars, discarded>>
  BY <1>2 DEF dataVars, exportVars
<1>3. CASE QueueManagerActive \/ HandlerStops \/ GatherNext \/ ServerNext
  BY <1>2, <1>3 DEF QueueManagerActive, HandlerStops, GatherNext, StartProcessing,
              GatherFails, RequestDescribe, RespondToDescribe, LaunchServer,
              ServerNext, Listen, ServerCloses, ServerFails
<1>4. CASE Connect
  BY <1>0, <1>4 DEF Connect, exportVars
<1>5. CASE InitialiseMetrics
  BY <1>0, <1>1, <1>5 DEF InitialiseMetrics, exportVars
<1>6. CASE ProcessPublications
  BY <1>0, <1>6 DEF ProcessPublications, exportVars
<1>7. CASE ConnectFails \/ SendStart \/ PublicationsFail \/ RequestTimeout
             \/ ReceiveStop
  BY <1>2, <1>7 DEF ConnectFails, SendStart, PublicationsFail, RequestTimeout,
              ReceiveStop
<1>8. ASSUME NEW c \in Stoppers, StopNext(c) PROVE Balanced(s)'
  BY <1>2, <1>8 DEF StopNext, SendStop, ShutdownServer
<1>9. CASE Scrape(s)
  BY <1>0, <1>9 DEF Scrape, dataVars
<1>10. CASE RequestCollect(s)
  BY <1>0, <1>10 DEF RequestCollect, CacheAfterUpdate
<1>11. CASE RespondToCollect(s)
  BY <1>0, <1>11 DEF RespondToCollect, dataVars
<1>12. CASE ApplyValues(s)
  <2>1. values[held[s]] \in Nat
    BY <1>0
  <2>2. /\ counter' + discarded' = counter + discarded + values[held[s]]
        /\ counter' \in Nat /\ discarded' \in Nat
    BY <1>0, <1>12, <2>1 DEF ApplyValues
  <2>3. scrape[s] = "apply" /\ scrape'[s] = "finish" /\ UNCHANGED <<published, cached>>
    BY <1>0, <1>12 DEF ApplyValues, dataVars
  <2>. QED
    BY <1>0, <2>1, <2>2, <2>3
<1>13. CASE FinishCollect(s)
  BY <1>0, <1>13 DEF FinishCollect, dataVars
<1>14. CASE UNCHANGED vars
  BY <1>2, <1>14 DEF vars
<1>. QED
  BY <1>3, <1>4, <1>5, <1>6, <1>7, <1>8, <1>9, <1>10, <1>11, <1>12, <1>13, <1>14
  DEF Next, ProcNext, CollectNext

(* Between scrapes that do not overlap, everything published is counted    *)
(* once, waits in the cache or was knowingly left out, across any number   *)
(* of lost connections and of stops.  Metrics_overlap shows why the        *)
(* hypothesis is needed.                                                   *)
THEOREM DeltasAreCountedOnce ==
  ASSUME NEW CONSTANT s, Scrapers = {s}
  PROVE  Spec => []EveryDeltaCountedOnce
<1>1. Init => Balanced(s)
  BY DEF Init, Balanced, Pending
<1>2. MetricsInv /\ Balanced(s) /\ [Next]_vars => Balanced(s)'
  BY BalanceStep
<1>3. MetricsInv /\ Balanced(s) => EveryDeltaCountedOnce
  <2>. SUFFICES ASSUME MetricsInv, Balanced(s)
                PROVE  EveryDeltaCountedOnce
    OBVIOUS
  <2>1. TypeOK /\ cached + counter + discarded \in Nat
    BY DEF MetricsInv, TypeOK
  <2>. QED
    BY <2>1 DEF Balanced, Pending, EveryDeltaCountedOnce
<1>. QED
  BY <1>1, <1>2, <1>3, MetricsInvariance, PTL DEF Spec
=============================================================================
