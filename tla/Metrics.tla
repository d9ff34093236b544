------------------------------- MODULE Metrics -------------------------------
(***************************************************************************)
(* internal/metrics: the goroutines that gather the queue manager's metrics *)
(* and serve them to Prometheus.                                           *)
(*                                                                         *)
(* GatherMetrics starts processMetrics, which owns the MQ connection, and  *)
(* an HTTP server; every scrape is a call of exporter.Collect in a         *)
(* goroutine of its own.  The exporter talks to processMetrics over two    *)
(* unbuffered channels; StopMetricsGathering reaches it over stopChannel,  *)
(* and is called by the signal handler, by GatherMetrics when it fails and *)
(* by the server goroutine when it fails.                                  *)
(*                                                                         *)
(* The data is one delta metric: publications accumulate in the mqmetric   *)
(* cache, updateMetrics moves them to the values the exporter reads, and   *)
(* Collect adds those to a Prometheus counter.                             *)
(***************************************************************************)
EXTENDS Integers

CONSTANTS
    Scrapers,      \* concurrent scrapes
    MaxPublished,  \* bound: units published
    MaxConnects    \* bound: successful connections to the queue manager

ASSUME BoundsAssumption == MaxPublished \in Nat /\ MaxConnects \in Nat

Stoppers == {"handler", "gather", "server"}

VARIABLES
    gather,         \* where GatherMetrics is
    metricsEnabled, \* the package variable
    proc,           \* where processMetrics is
    firstConnect,   \* its local flag
    connected,      \* the MQ connection is open
    stopChannel,    \* tokens in the stop channel (capacity 2)
    stop,           \* where each call of StopMetricsGathering is
    server,         \* where the HTTP server goroutine is
    serverDown,     \* metricsServer.Shutdown has been called
    scrape,         \* where each Collect is
    held,           \* the metrics map each Collect was given
    generation,     \* the metrics map processMetrics uses; one per connection
    values,         \* metric.values in each of those maps
    cached,         \* metricElement.Values: published and not yet collected
    counter,        \* the Prometheus counter
    firstCollect,   \* the exporter's flag
    published,      \* history: everything published
    discarded       \* history: skipped on first collect, or lost with a connection

threadVars == <<gather, metricsEnabled, proc, firstConnect, connected>>
stopVars   == <<stopChannel, stop, server, serverDown>>
dataVars   == <<generation, values, cached, published>>
exportVars == <<scrape, held, counter, firstCollect>>
vars == <<threadVars, stopVars, dataVars, exportVars, discarded>>

Generations == 0 .. MaxConnects

TypeOK ==
    /\ gather \in {"poll", "check", "waitStart", "describe", "describing",
                   "serve", "failing", "done"}
    /\ metricsEnabled \in BOOLEAN
    /\ proc \in {"off", "connect", "sendStart", "initialise", "publications",
                 "select", "respond", "backoff", "ended"}
    /\ firstConnect \in BOOLEAN
    /\ connected \in BOOLEAN
    /\ stopChannel \in 0 .. 2
    /\ stop \in [Stoppers -> {"idle", "send", "shutdown", "done"}]
    /\ server \in {"off", "starting", "listening", "closed", "failed"}
    /\ serverDown \in BOOLEAN
    /\ scrape \in [Scrapers -> {"idle", "request", "wait", "apply", "finish"}]
    /\ held \in [Scrapers -> Generations]
    /\ generation \in Generations
    /\ values \in [Generations -> Nat]
    /\ cached \in Nat
    /\ counter \in Nat
    /\ firstCollect \in BOOLEAN
    /\ published \in 0 .. MaxPublished
    /\ discarded \in Nat

Init ==
    /\ gather = "poll" /\ metricsEnabled = FALSE
    /\ proc = "off" /\ firstConnect = TRUE /\ connected = FALSE
    /\ stopChannel = 0 /\ stop = [c \in Stoppers |-> "idle"]
    /\ server = "off" /\ serverDown = FALSE
    /\ scrape = [s \in Scrapers |-> "idle"] /\ held = [s \in Scrapers |-> 0]
    /\ generation = 0 /\ values = [g \in Generations |-> 0]
    /\ cached = 0 /\ counter = 0 /\ firstCollect = TRUE
    /\ published = 0 /\ discarded = 0

----------------------------------------------------------------------------
(* GatherMetrics and startMetricsGathering.                                *)

(* dspmq reports an active queue manager.                                  *)
QueueManagerActive ==
    /\ gather = "poll"
    /\ gather' = "check"
    /\ metricsEnabled' = TRUE
    /\ UNCHANGED <<proc, firstConnect, connected, stopVars, dataVars,
                   exportVars, discarded>>

(* The HTTPS keys and the audit log are in order: start processMetrics.    *)
StartProcessing ==
    /\ gather = "check"
    /\ gather' = "waitStart"
    /\ proc' = "connect"
    /\ UNCHANGED <<metricsEnabled, firstConnect, connected, stopVars,
                   dataVars, exportVars, discarded>>

Bug_FailAfterServing ==
    /\ gather \in {"check", "serve", "done"}
    /\ gather' = "failing"
    /\ stop' = [stop EXCEPT !["gather"] = "send"]
    /\ UNCHANGED <<metricsEnabled, proc, firstConnect, connected, stopChannel,
                   server, serverDown, dataVars, exportVars, discarded>>

(* startMetricsGathering returns an error (HTTPS keys, audit log, Register, *)
(* certificate monitor): GatherMetrics calls StopMetricsGathering.         *)
GatherFails ==
    /\ gather \in {"check", "serve"}
    /\ gather' = "failing"
    /\ stop' = [stop EXCEPT !["gather"] = "send"]
    /\ UNCHANGED <<metricsEnabled, proc, firstConnect, connected, stopChannel,
                   server, serverDown, dataVars, exportVars, discarded>>

(* prometheus.Register calls Describe, which asks for the metrics map...   *)
RequestDescribe ==
    /\ gather = "describe"
    /\ proc = "select"
    /\ gather' = "describing"
    /\ proc' = "respond"
    /\ UNCHANGED <<metricsEnabled, firstConnect, connected, stopVars,
                   dataVars, exportVars, discarded>>

(* ...and gets it.                                                         *)
RespondToDescribe ==
    /\ gather = "describing"
    /\ proc = "respond"
    /\ gather' = "serve"
    /\ proc' = "publications"
    /\ UNCHANGED <<metricsEnabled, firstConnect, connected, stopVars,
                   dataVars, exportVars, discarded>>

(* The handlers are installed and the server goroutine is launched.        *)
LaunchServer ==
    /\ gather = "serve"
    /\ gather' = "done"
    /\ server' = "starting"
    /\ UNCHANGED <<metricsEnabled, proc, firstConnect, connected, stopChannel,
                   stop, serverDown, dataVars, exportVars, discarded>>

----------------------------------------------------------------------------
(* The HTTP server goroutine.                                              *)

(* ListenAndServe; it returns ErrServerClosed at once after a Shutdown.    *)
Listen ==
    /\ server = "starting"
    /\ server' = IF serverDown THEN "closed" ELSE "listening"
    /\ UNCHANGED <<threadVars, stopChannel, stop, serverDown, dataVars,
                   exportVars, discarded>>

ServerCloses ==
    /\ server = "listening"
    /\ serverDown
    /\ server' = "closed"
    /\ UNCHANGED <<threadVars, stopChannel, stop, serverDown, dataVars,
                   exportVars, discarded>>

(* Any other error of ListenAndServe stops the gathering.                  *)
ServerFails ==
    /\ server \in {"starting", "listening"}
    /\ ~serverDown
    /\ server' = "failed"
    /\ stop' = [stop EXCEPT !["server"] = "send"]
    /\ UNCHANGED <<threadVars, stopChannel, serverDown, dataVars, exportVars,
                   discarded>>

----------------------------------------------------------------------------
(* StopMetricsGathering.                                                   *)

(* The signal handler calls it once; the test of metricsEnabled is not     *)
(* synchronised with GatherMetrics.                                        *)
HandlerStops ==
    /\ stop["handler"] = "idle"
    /\ stop' = [stop EXCEPT !["handler"] = IF metricsEnabled THEN "send"
                                           ELSE "done"]
    /\ UNCHANGED <<threadVars, stopChannel, server, serverDown, dataVars,
                   exportVars, discarded>>

StopCapacity == 2

(* stopChannel <- true.                                                    *)
SendStop(c) ==
    /\ stop[c] = "send"
    /\ stopChannel < StopCapacity
    /\ stopChannel' = stopChannel + 1
    /\ stop' = [stop EXCEPT ![c] = "shutdown"]
    /\ UNCHANGED <<threadVars, server, serverDown, dataVars, exportVars,
                   discarded>>

(* metricsServer.Shutdown: no new scrapes; it returns when the ones in     *)
(* flight end, or after 5 seconds.                                         *)
ShutdownServer(c) ==
    /\ stop[c] = "shutdown"
    /\ stop' = [stop EXCEPT ![c] = "done"]
    /\ serverDown' = TRUE
    /\ UNCHANGED <<threadVars, stopChannel, server, dataVars, exportVars,
                   discarded>>

----------------------------------------------------------------------------
(* processMetrics.                                                         *)

(* doConnect succeeds; what the old connection had cached is gone.         *)
Connect ==
    /\ proc = "connect"
    /\ generation < MaxConnects
    /\ connected' = TRUE
    /\ proc' = IF firstConnect THEN "sendStart" ELSE "initialise"
    /\ firstConnect' = FALSE
    /\ cached' = 0
    /\ discarded' = discarded + cached
    /\ UNCHANGED <<gather, metricsEnabled, stopVars, generation, values,
                   published, exportVars>>

(* doConnect fails; EndConnection.                                         *)
ConnectFails ==
    /\ proc = "connect"
    /\ proc' = "backoff"
    /\ connected' = FALSE
    /\ UNCHANGED <<gather, metricsEnabled, firstConnect, stopVars, dataVars,
                   exportVars, discarded>>

(* startChannel <- true, received by startMetricsGathering.                *)
SendStart ==
    /\ proc = "sendStart"
    /\ gather = "waitStart"
    /\ proc' = "initialise"
    /\ gather' = "describe"
    /\ UNCHANGED <<metricsEnabled, firstConnect, connected, stopVars,
                   dataVars, exportVars, discarded>>

(* initialiseMetrics makes a new metrics map.                              *)
InitialiseMetrics ==
    /\ proc = "initialise"
    /\ proc' = "publications"
    /\ generation' = generation + 1
    /\ UNCHANGED <<gather, metricsEnabled, firstConnect, connected, stopVars,
                   values, cached, published, exportVars, discarded>>

(* mqmetric.ProcessPublications adds what has been published to the cache. *)
ProcessPublications ==
    /\ proc = "publications"
    /\ proc' = "select"
    /\ \E n \in 0 .. 1 :
         /\ published + n <= MaxPublished
         /\ published' = published + n
         /\ cached' = cached + n
    /\ UNCHANGED <<gather, metricsEnabled, firstConnect, connected, stopVars,
                   generation, values, exportVars, discarded>>

(* ...or fails: EndConnection, and wait before the next attempt.           *)
PublicationsFail ==
    /\ proc = "publications"
    /\ proc' = "backoff"
    /\ connected' = FALSE
    /\ UNCHANGED <<gather, metricsEnabled, firstConnect, stopVars, dataVars,
                   exportVars, discarded>>

Bug_ResponseTimesOut ==
    /\ proc \in {"select", "backoff", "respond"}
    /\ proc' = IF proc = "backoff" THEN "connect" ELSE "publications"
    /\ UNCHANGED <<gather, metricsEnabled, firstConnect, connected, stopVars,
                   dataVars, exportVars, discarded>>

(* 10 seconds without a request, or before a retry.                        *)
RequestTimeout ==
    /\ proc \in {"select", "backoff"}
    /\ proc' = IF proc = "select" THEN "publications" ELSE "connect"
    /\ UNCHANGED <<gather, metricsEnabled, firstConnect, connected, stopVars,
                   dataVars, exportVars, discarded>>

Bug_NoStopWhileBackingOff == proc = "select"

(* The two selects of processMetrics that listen to stopChannel.           *)
ListensForStop == proc \in {"select", "backoff"}

(* <-stopChannel: EndConnection and return.                                *)
ReceiveStop ==
    /\ ListensForStop
    /\ stopChannel > 0
    /\ stopChannel' = stopChannel - 1
    /\ proc' = "ended"
    /\ connected' = FALSE
    /\ UNCHANGED <<gather, metricsEnabled, firstConnect, stop, server,
                   serverDown, dataVars, exportVars, discarded>>

----------------------------------------------------------------------------
(* exporter.Collect, once per scrape.                                      *)

(* A request for /metrics reaches the server.                              *)
Scrape(s) ==
    /\ server = "listening"
    /\ ~serverDown
    /\ scrape[s] = "idle"
    /\ scrape' = [scrape EXCEPT ![s] = "request"]
    /\ UNCHANGED <<threadVars, stopVars, dataVars, held, counter,
                   firstCollect, discarded>>

Bug_CacheNotReset == cached

(* updateMetrics replaces the cached values by empty ones.                 *)
CacheAfterUpdate == 0

(* requestChannel <- true; processMetrics runs updateMetrics.              *)
RequestCollect(s) ==
    /\ scrape[s] = "request"
    /\ proc = "select"
    /\ scrape' = [scrape EXCEPT ![s] = "wait"]
    /\ proc' = "respond"
    /\ values' = [values EXCEPT ![generation] = cached]
    /\ cached' = CacheAfterUpdate
    /\ UNCHANGED <<gather, metricsEnabled, firstConnect, connected, stopVars,
                   generation, published, held, counter, firstCollect,
                   discarded>>

(* responseChannel <- metrics: the exporter gets the map itself, no copy.  *)
RespondToCollect(s) ==
    /\ scrape[s] = "wait"
    /\ proc = "respond"
    /\ scrape' = [scrape EXCEPT ![s] = "apply"]
    /\ held' = [held EXCEPT ![s] = generation]
    /\ proc' = "publications"
    /\ UNCHANGED <<gather, metricsEnabled, firstConnect, connected, stopVars,
                   dataVars, counter, firstCollect, discarded>>

(* Read metric.values as it is now; add it to the counter, but not on the  *)
(* first collect.                                                          *)
ApplyValues(s) ==
    /\ scrape[s] = "apply"
    /\ scrape' = [scrape EXCEPT ![s] = "finish"]
    /\ IF firstCollect
       THEN /\ discarded' = discarded + values[held[s]]
            /\ UNCHANGED counter
       ELSE /\ counter' = counter + values[held[s]]
            /\ UNCHANGED discarded
    /\ UNCHANGED <<threadVars, stopVars, dataVars, held, firstCollect>>

FinishCollect(s) ==
    /\ scrape[s] = "finish"
    /\ scrape' = [scrape EXCEPT ![s] = "idle"]
    /\ firstCollect' = FALSE
    /\ UNCHANGED <<threadVars, stopVars, dataVars, held, counter, discarded>>

----------------------------------------------------------------------------
GatherNext ==
    \/ StartProcessing
    \/ GatherFails
    \/ RequestDescribe
    \/ RespondToDescribe
    \/ LaunchServer

ServerNext == Listen \/ ServerCloses \/ ServerFails

StopNext(c) == SendStop(c) \/ ShutdownServer(c)

ProcNext ==
    \/ Connect
    \/ ConnectFails
    \/ SendStart
    \/ InitialiseMetrics
    \/ ProcessPublications
    \/ PublicationsFail
    \/ RequestTimeout
    \/ ReceiveStop

CollectNext(s) ==
    \/ RequestCollect(s)
    \/ RespondToCollect(s)
    \/ ApplyValues(s)
    \/ FinishCollect(s)

Next ==
    \/ QueueManagerActive
    \/ HandlerStops
    \/ GatherNext
    \/ ServerNext
    \/ ProcNext
    \/ \E c \in Stoppers : StopNext(c)
    \/ \E s \in Scrapers : Scrape(s) \/ CollectNext(s)

Spec == Init /\ [][Next]_vars

(* Goroutines run when they can; a select that keeps coming back to a      *)
(* ready stopChannel takes that case in the end, because Go chooses among  *)
(* the ready cases at random.                                              *)
Fairness ==
    /\ WF_vars(GatherNext)
    /\ WF_vars(ServerNext)
    /\ WF_vars(ProcNext)
    /\ SF_vars(ReceiveStop)
    /\ \A c \in Stoppers : WF_vars(StopNext(c))
    /\ \A s \in Scrapers : WF_vars(CollectNext(s))

FairSpec == Spec /\ Fairness

----------------------------------------------------------------------------
(* Properties.                                                             *)

(* A call of StopMetricsGathering never waits for room in stopChannel,     *)
(* whichever callers come, in whatever order, and whether or not           *)
(* processMetrics still listens: it has gone after the first token.  So    *)
(* the signal handler goes on to end the queue manager.                    *)
StopNeverBlocks ==
    \A c \in Stoppers : stop[c] = "send" => stopChannel < StopCapacity

(* processMetrics answers exactly the request it took: while it is about   *)
(* to respond there is one goroutine, and only one, waiting for the        *)
(* response, and nobody waits for a response that will not come.           *)
Waiters == {s \in Scrapers : scrape[s] = "wait"}

ResponsePaired ==
    /\ proc = "respond" =>
         \/ gather = "describing" /\ Waiters = {}
         \/ gather # "describing" /\ \E s \in Scrapers : Waiters = {s}
    /\ proc # "respond" => Waiters = {} /\ gather # "describing"

(* Between scrapes, everything the queue manager has published is counted  *)
(* once, waits in the cache, or was knowingly left out: no delta is lost,  *)
(* none is counted twice.                                                  *)
EveryDeltaCountedOnce ==
    /\ TypeOK
    /\ (\A s \in Scrapers : scrape[s] \in {"idle", "request"}) =>
         published = cached + counter + discarded

(* A stop request reaches processMetrics whatever it is doing: connecting, *)
(* retrying, or serving scrapes without a pause.                           *)
ProcessingStops == stopChannel > 0 /\ proc # "off" ~> proc = "ended"
============================================================================
