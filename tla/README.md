# Verification of the MQ container

This directory holds TLA+ models of the programs in `src/` that make up the IBM
MQ container image: `runmqserver` (process 1 of the container), its three probe
commands, its metrics server, its log handling, its key databases with the
configurations made of them, the creation of a queue manager on shared storage,
and the developer image with its authorisation service. TLC checks each model on
small instances, and TLAPS proves the safety properties of all of them, and both
refinements, for all values of their constants.

`PROJECT.json` gives, for every definition, the source lines it stands for; this
file explains the models.

## 1. The system

### Parts, state and operations

| Part | Source | State it keeps | Operations |
|---|---|---|---|
| Container process | `cmd/runmqserver/{main,signals,qmgr,webserver}.go` | position of `doMain`; `startupCtx`, `shutdownCtx`; control channel; the buffers of the stop and reap signals; child processes | start-up sequence, handling of SIGTERM, SIGINT and SIGCHLD, reaping, `stopQueueManager` |
| Ready files | `internal/ready/ready.go` | `/run/runmqserver/ready`, `/run/runmqserver/ready-to-sync` | `Clear`, `Set`, `Check`, `SetReadyToSync`, `GetReadyToSyncStartTime`, `Status` |
| Probes | `cmd/chkmq{started,ready,healthy}/main.go` | none of their own (ready files, dspmq, port 1414) | one run each, over and over, by the platform |
| Metrics | `internal/metrics/{metrics,update,exporter}.go` | `metricsEnabled`, three channels, MQ connection, metric map, counters | gather, connect, scrape, stop |
| Certificate monitor | `internal/metrics/tlswatch.go` | current certificate, file watcher, context | load, watch, poll, stop |
| Rotating log | `pkg/logrotation/logrotation.go` | numbered files in a directory | `Init`, `Append` (deduplicate, rotate, write) |
| Log mirror | `cmd/runmqserver/mirror.go` | open file, offset, identity of the file | follow a path across rotations until cancelled |
| Console output | `cmd/runmqserver/logging.go` | none: settings are read for each line | select the logs to mirror; parse, filter and print each line |
| Audit log | `internal/metrics/audit.go` | a rotating log | one event per served request |
| Key databases | `internal/tls/tls.go`, `internal/keystore` | CMS keystore, PKCS#12 files, label lookup, known fingerprints | process keys, process trust certificates, configure TLS |
| Web server and Native HA configuration | `internal/tls/tls_web.go`, `internal/ha`, `internal/fips` | the generated files | configure the web keystore, `tls.xml`, the Native HA `.ini` files |
| Queue manager on shared storage | `cmd/runmqserver/{qmgr,crtmqvol}.go`, `pkg/mqini` | `mqs.ini` of each container; shared data directory with `qm.ini` | detect, create, add an instance, rewrite `qm.ini`, start, stop |
| Redaction of MQSC | `internal/mqscredact` | local variables of a scanner | read one character, copy or replace it |
| Developer image | `cmd/runmqdevserver`, `internal/simpleauth` | `10-dev.mqsc`, `qm-service-component.ini`, encoded passwords | prepare files, then become `runmqserver` |
| Authorisation service | `authservice/mqsimpleauth` | none: passwords are read for each connection | authenticate a user |
| Rest | version check, licence, names, copies, templates, container runtime, MQIPT | none | see section 8 |

### How the parts interact

* `doMain` starts the signal handler and talks to it over an unbuffered control
  channel (`startReaping`, `reapNow`); the handler answers by closing the channel
  when the queue manager has been stopped. `startupCtx` keeps a stop waiting for
  the start-up; `shutdownCtx` tells the handler that `stopQueueManager`, in a
  goroutine of its own, is over.
* The reaper waits for *any* child, so it shares the children of process 1 with
  every goroutine that runs a command: `doMain`, `stopQueueManager`, the web
  server launcher and the metrics poller.
* The signal handler calls `StopMetricsGathering` before it ends the queue
  manager. The metrics goroutines use `stopChannel`, `requestChannel` and
  `responseChannel` among themselves.
* `doMain` cancels the log mirrors on its way out and waits for them. What a
  mirror reads goes, line by line, through one mirror function to the console.
* The probes share the ready files with `runmqserver`, without a lock. These
  files survive a restart of the container.
* The metrics server's audit wrapper is the caller of the rotating log, which
  lives on a volume; the certificate monitor serves that server's TLS handshakes.
* The key databases are built by `doMain` before the queue manager is created;
  their outcome (labels, key ring, truststore) goes into MQSC, the web server's
  and the Native HA configuration.
* Containers of one multi-instance queue manager share its data directory, and
  each of them may create it, rewrite `qm.ini` and start an instance.
* `runmqdevserver` gives passwords to the web server, and the authorisation
  service looks up the same ones for itself, in the opposite order.

### What is hard, and the properties that make each part correct

The hazards are listed with their lines in `PROJECT.json`. In short:

* **Container process**: a stop signal at any point of the start-up; sends on a
  channel whose receiver may be waiting for the sender; a reaper that may take
  the exit status a goroutine is waiting for; SIGCHLDs that merge; kills and
  restarts. Correct: a stop waits for the start-up, no start-up command is
  reaped, no zombie is forgotten, a clean exit means an ended queue manager,
  readiness is never left over, and every stop leads to an exit.
* **Probes**: overlapping runs, files of earlier starts, time of check and time
  of use, a run killed in the middle of a write. Correct: the waiting period for
  replicas is not cut short, and ends unless a write of its file was torn; "ready" means that this start has
  configured the queue manager, and a ready container is healthy.
* **Metrics**: three callers of one stop channel whose only reader leaves after
  one token; scrapes racing with reconnections. Correct: stopping never blocks,
  requests and responses pair up, each delta is counted once.
* **Certificate monitor**: files replaced one at a time while they are being
  read; missed events. Correct: what is served always matches, and becomes the
  latest.
* **Rotating log, log mirror**: rotation, failure and kill between any two system
  calls; a mirror that is overtaken; lines torn by a poll. Correct: lines are kept
  or mirrored in order, once, none is lost in silence, and the space stays bounded.
* **Key databases**: several directories and key sets that share keys and
  certificates; three later configurations that rely on what the earlier ones
  returned. Correct: the label names the key the user gave, no trusted
  certificate is dropped, no private key goes where trust belongs, and the web
  server and Native HA are given keys and trust that exist and belong to them.
* **Shared storage**: check and creation in separate steps, a file that is
  truncated and written while others read it, a status that is stale when used.
  Correct: the storage stays whole, no instance is ended by another container, and
  in the end one is active and the others stand by.
* **Redaction**: a scanner that must agree with the language about where a value
  begins and ends. **Developer image**: two programs in two languages that must
  agree about a user's password.

## 2. Modules

| Module | Role |
|---|---|
| `RunMQServer` | container process: all its goroutines, signals, children, kills and restarts |
| `QMService` | what the container promises about its queue manager; `RunMQServer` implements it |
| `RunMQServer_proof` | TLAPS proofs of the safety properties of `RunMQServer`, and that it implements `QMService` |
| `StartedProbe` | `chkmqstarted` for Native HA and the ready-to-sync file |
| `StartedProbe_proof` | TLAPS proof that the waiting period is never cut short |
| `ReadyProbe` | `chkmqready`, `chkmqhealthy` and the ready file |
| `Metrics` | gathering, stopping and scraping |
| `Metrics_proof` | TLAPS proofs that stopping never blocks, that requests and responses pair up, and that deltas are counted once |
| `CertMonitor` | certificate monitor of the metrics server |
| `BoundedLog` | what a rotating log promises; `RotatingLog` implements it |
| `RotatingLog` | `RotatingLogger.Append`, system call by system call |
| `RotatingLog_proof` | TLAPS proofs of its invariants, and that it implements `BoundedLog` |
| `LogMirror` | one mirrored log file, its writer and its rotations |
| `Console` | extends `LogMirror` with the mirror function: what the console shows |
| `LogMirror_proof` | TLAPS proofs about order, completeness and the console |
| `Keystores` | key databases, for the default and the Native HA configuration, and the configurations made of them |
| `Keystores_proof` | TLAPS proofs about labels, trust, the truststore and the two configurations, for any directories |
| `MultiInstance` | containers that create, start and stop one queue manager on shared storage |
| `MultiInstance_proof` | TLAPS proofs about the storage and the instances, for any set of containers |
| `Redaction` | the scanner of `Redact`, fed by an automaton that produces MQSC |
| `Developer` | `runmqdevserver` and the authorisation service |
| `MCParts` | `Keystores`, `ReadyProbe`, `Redaction`, `Developer` and `RotatingLog`, which share no state, side by side in one run |
| `Parts_proof` | TLAPS proofs about `ReadyProbe`, `Redaction`, `Developer` and `CertMonitor` |
| other `MC*` | values of constants, symmetry and refinement mappings for TLC |

A definition named `Bug_...` is a plausible mistake in the definition it stands
before, with the same parameters. Nothing uses it; substituted for that
definition it makes one of the properties fail, which shows that the property
depends on the code.

## 3. Models and code

### RunMQServer

`main` is the position of `doMain`, `handler` that of the goroutine in
`signalHandler`, `stopper` that of the goroutine that runs `stopQueueManager`.
`cmd[r]` is the child process of the goroutine `r`: idle, running, a zombie with
a good or a bad exit status, or *stolen*, that is, waited for by the reaper
before its own goroutine did. `orphan` holds the processes that process 1
adopts. `stopBuf` and `reapBuf` are the two signal channels with room for one
signal; `chldPending` is the kernel's single pending SIGCHLD.

* Start-up: licence, `prepare` (storage, directories), `crtmqdir`, configuration,
  `crtmqm` if the queue manager does not exist, `strmqm`. Every step may fail,
  and then `doMain` returns an error and the process exits. `crtmqm` and `strmqm`
  are started and waited for in separate steps. What the steps configure belongs
  to other modules.
* Then `SendStartReaping` and `SendReapNow`, rendezvous on the control channel;
  `MarkStartupComplete` cancels `startupCtx`; `ready.Set`; then `doMain` waits for
  the control channel to be closed.
* The handler's `select` is one action per case. On a stop signal it stops the
  relaying of further ones, serves control messages until `startupCtx` is done
  (`drain`), calls `StopMetricsGathering` and starts the stopper. A stop signal
  that comes when signals are no longer relayed has its default action: the
  process dies.
* The reaper's `Wait4(-1, WNOHANG)` loop takes any zombie, in one step per child.
* The runtime may kill the process at any time and may start it again after any
  exit: the goroutines start anew, the ready file and the queue manager's data
  stay.

`StopMetricsGathering` is one step here. That it never blocks the handler is
shown by `Metrics`.

`QMService` has three variables (phase, queue manager, ready file) and no
processes. The mapping is at the end of `RunMQServer`: the phase is computed from the two
contexts and the stopper.

### StartedProbe and ReadyProbe

Both contain the few steps of `runmqserver` the probes depend on, the queue
manager with the states that dspmq displays (external), and the runs of the
probes, one file operation or command per step. In `StartedProbe` runs overlap.
Times are kept as ages that stop growing at the timeout, so the state space is
finite and no bound on time is needed. Ages count whole units, like the Unix
seconds the file holds; the comparison with the timeout is the code's `>=`.
`os.WriteFile` is two steps, because it truncates before it writes, and a run may
be killed or fail before any of its steps, so between these two as well.

### Metrics

`GatherMetrics`, `processMetrics`, the HTTP server goroutine, the three callers
of `StopMetricsGathering` and every `Collect` are processes. The metrics
themselves are one delta metric: publications gather in the mqmetric cache,
`updateMetrics` moves them to the map of the present connection, `Collect` adds
them to the Prometheus counter. `discarded` records what the code drops on
purpose (the first collection) or with a connection, so that the balance can be
stated.

### CertMonitor

Each of `tls.crt`, `ca.crt` and `tls.key` is a generation number; an installer
replaces them singly or together, or removes them. `fsnotify` is external: it
raises an event for a change of a watched directory, merges events, and stops
delivering after an error that nobody receives. The updater reads the three
files in three steps. `newline` says whether `tls.crt` ends in a line feed: the
separator is appended after the CA (`tlswatch.go:172`), so a `tls.crt` without
one fails to load, and liveness is stated only for the other case. A missing file is
modelled, other errors of reading and a failure to create the watcher are not.

### RotatingLog

`RotatingLog` executes the checks, the removal, each rename, the creation, the
re-opening and the write of `Append` in separate steps, any of which can fail or
be the last before a kill. `BoundedLog` is one sequence that grows at the end and
is shortened at the beginning. The mapping concatenates the files from the oldest
to the newest, and it holds in the middle of a rotation too. Two kinds of call
exist: the audit event of a served request (`AuditRequest`, never de-duplicated)
and `Append` with deduplication. `gone` records the calls whose message is not in
the log, with good reason, so that the others can be accounted for. A write that
fails drops its message as a whole: the fragment that a volume running full in the
middle of `WriteString` may leave at the end of the file is left out.

### LogMirror and Console

`LogMirror` identifies files by inode. A line may be written in two parts. The
writer renames the file away and creates a new one, in two steps, at any time: a
file may even be rotated away before the mirror opened it (`overtaken`). Then a
file is skipped, as the comment at `mirror.go:163` accepts, or the newest one is
mirrored twice, which it does not mention; what still holds is that the mirror
gets back in step. A system call may fail (`MirrorFails`): `mirrorLog` then returns
the error, or the goroutine ends and sends it to a channel that `doMain` ignores, and
nothing more is mirrored. There is no rotation between the `os.Stat` of
`mirror.go:85` and the `OpenFile` of `mirror.go:99`. For a container that is about to
create or start its queue manager nobody is there to make one; for a restarted
standby, whose error log the active instance's container writes, this leaves out a
rotation in the few instructions between the two calls.

`Console` has no state of its own. `MirrorFunction` is the function that
`configureLogger` returns, applied to a whole message or to a part of one. The
messages are all combinations of form (JSON, text, MQSC comment), position of an
excluded ID and host; the settings are all values of the three variables; and the
property asks, for the parts in which `LogMirror` has mirrored a message, whether
every such message and setting comes out as wanted. Every JSON line has a host.
`Selected` says which logs are mirrored: by the source they belong to, and that of
the authorisation service whatever the sources are.

### Keystores

Keys and certificates are model values, a PKCS#12 file is a key and a set of
certificates, the CMS keystore a set of labelled personal certificates and a set
of others; `runmqakm` is external. One action per key set, per trust directory,
and per later step: the MQSC of the queue manager, the web keystore, `tls.xml`
with the truststore and the FIPS setting, the Native HA files. The inputs are all
combinations of two key sets with shared keys, certificates and names, missing and
empty files, and trust certificates, in the one-directory and the two-directory
configuration; and, with fewer files, every environment. `IsInput` says what an
input is: one key directory where there is a truststore and two where there is none
(`tls.go:89`, `tls.go:130`), key sets with a name, any keys, files and certificates.
Of several `.crt` files that begin with the key's name the last one counts
(`tls.go:487`), which `TrustKept` states as an exception. A key set without a
private key makes the configuration fail. A repository given by
`MQ_NATIVE_HA_KEY_REPOSITORY` is not modelled.

A failing command or read ends the configuration, with two exceptions in the code.
The error of `ListAllCertificates` is discarded (`tls.go:170`): the MQSC then has a
label and a FIPS setting and no key ring, and the start-up goes on; `listed` in `mqsc`
remembers it. The errors of `os.ReadDir` are ignored (`tls.go:262-266`, `351-356`,
`752-771`): a directory that cannot be listed counts as empty. The inputs are what
these listings return, and a directory that is listed twice (`haveKeysAndCerts`, then
`processKeys` or `processTrustCertificates`) gives the same both times.

### MultiInstance

`stage[c]` is where `doMain` or `stopQueueManager` is in container `c`,
`registered[c]` the entry of its own `mqs.ini`; `created` and `qmIni` are the
shared data directory. `dspmqinf`, the `os.Stat` of `qm.ini` and the command that
follows are separate steps; so are the read, the truncation and the write of
`updateQMini`. The commands are external: `crtmqm` refuses a directory that
exists, `strmqm -x` gives an active or a standby instance, `endmqm` refuses what
its option does not fit. A restart may come with a new `/var/mqm`. Any error of the
`os.Stat` of `qm.ini`, not only a missing file, leads to `crtmqm`. `damaged` is
set by a kill or a failure in the middle of a write to the shared storage: `crtmqm`
that fails half way, or `os.WriteFile` that fails after it has truncated `qm.ini`
(`qmgr.go:354`), which the code does not repair. The queue manager's name is a sequence of characters, because
`replaceCharsInQMName` is about them.

### Redaction

The scanner reads one character at a time, so it is an automaton over classes of
characters; `mode` says which of the three functions of `mqscredact.go` it is in.
Its input comes from a second automaton that produces MQSC of any length, with
continued lines, quoted strings, comment lines and the line numbers of `runmqsc`,
and that knows by the language's rules which characters belong to a sensitive
value. Comment lines stand between commands, in the middle of them, in strings and
between brackets. Outside a string, the scanner does not know the last kind: it takes
a closing bracket or a quote in such a comment for the end of the value or the
beginning of a string. `misled` records that this has happened, and the property is
about the text before.
`formatMQSCOutput` (`qmgr.go:236`), through which `Redact` is reached, has no
caller outside tests.

### Developer

`runmqdevserver` in its order: empty the files, enable the service, take each
user's password from its variable or its secret file, write `10-dev.mqsc`. The
authorisation service then answers connections, for any of the inputs.
`EncodeSecrets` puts a password, without quotes, into a command line for the shell: a
plain one is encoded as it is, one with characters that mean something to the shell
may be altered or lost, a blank one gives nothing. The service compares passwords as
they are. A file that has nothing but a blank or a line end counts as a password for
the service (`simpleauth.c:138-147`), and gives the web server none. A user with
no password at all makes `get_secret_for_user` hand a null pointer to `strdup`;
such a connection has no answer in the model.

## 4. Runs

| Run | Question | Answer |
|---|---|---|
| `server_safety` | Two adopted processes, web server and metrics, two stop signals, kills and restarts: is the stop ordered after the start-up, are commands and zombies handled, is readiness fresh? | yes; and the process implements `QMService` |
| `server_liveness` | Does a stop always lead to an exit, does start-up never hang, are zombies reaped? | yes, under the fairness of section 6 |
| `server_own_commands` | Is the reaper kept from *all* the commands this process runs? | no: those of `stopQueueManager` are exposed |
| `metrics` | One scrape at a time, with reconnections and all stop callers | stopping never blocks and works; deltas are counted once |
| `metrics_concurrent_scrapes` | The same with two scrapes at a time | a delta is lost or counted twice |
| `mirror` | Rotations, torn lines and cancellation at any point of the loop, and what the console shows of it | each due line once, in order; nothing left behind or lost in silence; back in step after being overtaken; the goroutine ends |
| `started_probe` | Overlapping runs, restarts, stale files, failures and kills at any step | waiting period kept, and finite unless the file was left empty |
| `started_torn` | The same: is a queue manager that stays up always reported in the end? | no: not after a run that died in the middle of the write |
| `cert_monitor` | Files replaced singly or together, events lost | always a matching pair, in the end the latest |
| `multi_instance` | Two containers race to create, rewrite, start and stop one queue manager, with kills, failures and restarts | the storage stays whole, nobody ends another's instance, and in the end one is active and one stands by |
| `multi_instance_dotted` | The same with a name that contains a dot | the second container registers a directory that does not exist |
| `parts` | Key databases with their configurations (some 30,000 inputs), readiness and liveness probes, redaction, passwords of the developer image, the audit log with failures and kills between any two system calls | labels, trust, web server and Native HA fit; no stale readiness and the two probes agree; no sensitive value is copied; web server and service agree on a plain password given once; the log is bounded, deduplicated, one log (`BoundedLog`), and every call accounted for |

Four runs end in a counterexample. Each shows a statement of the repository that
the code does not keep:

* **The reaper and the commands of the stop.** `main.go:450` delays reaping so
  that commands of this process are not reaped. While `stopQueueManager` runs its
  `dspmq` and `endmqm`, reaping continues (`signals.go:86`), and `Wait4(-1)` may
  take their exit status. `dspmq` then appears to have failed and `endmqm` is not
  run.
* **Concurrent scrapes.** The Prometheus client says that `Collect` may be called
  concurrently. `exporter.Collect` reads values that the next scrape's
  `updateMetrics` replaces.
* **The end of the wait for replicas.** `chkmqstarted/main.go:51` says of the time for
  replicas that it "ensures we do not block indefinitely". `SetReadyToSync` writes its
  beginning with `os.WriteFile`, which creates the file first (`ready.go:99`). A run
  that is killed or fails in between leaves the file empty; every later run finds it,
  does not write it again and fails to parse it, until the next start of the
  container. `GraceEndsUnlessTorn`, of the run `started_probe`, says that this file is
  the only obstacle.
* **The name of the data directory.** `replaceCharsInQMName` replaces the
  characters that a directory name cannot have, and `qm.ini` is looked for under
  the result; the `DataPath` given to `addmqinf` for a second instance is made of
  the name as it is.

Other disagreements are modelled as the code has them and have no run:

* A blank entry in `MQ_LOGGING_CONSOLE_EXCLUDE_ID` (as after a trailing comma and
  a blank) is trimmed to the empty string after the test for empty entries, and so
  excludes every message.
* A message that is half written when `mirrorLog` decides where to begin loses its
  first half (`TornAtStart`).
* `runmqdevserver` enables the service whether or not there is a password, although
  the comment at `runmqdevserver/main.go:139` makes it depend on one; and
  `MQ_CONNAUTH_USE_HTP=false` counts as set for `10-dev.mqsc`. With a password in
  both places, the web server uses the variable and the service the file; with a
  file that is blank, the service does not fall back on the variable.
* A password with blanks or other characters that the shell interprets is not the same
  for the web server and for the service (`securityutility.go:41-50`).
* A keystore that cannot be listed leaves the queue manager without a key ring, with
  its label set, and without an error (`tls.go:170`).
* `getParameterString` does not know comment lines between brackets
  (`mqscredact.go:98-104`), unlike the other two functions of the scanner.
* `updateQMini` truncates the shared `qm.ini` before it writes it; a failed write ends
  the container, and leaves the file as it is for the others (`qmgr.go:354`).
* `chkmqready` has an exit code for replicas (20), but `ready.go:138` reports a
  replica as a standby, so it answers 10.
* `tls.crt` and `ca.crt` are joined with the separator in the wrong place
  (`tlswatch.go:172`).
* `processKeys` means to skip a key set without a private key (`tls.go:278`), but
  `processPrivateKey`, called just before, has already failed on the missing key
  (`tls.go:458`), and with it the whole configuration: in `Keystores`, the error
  "no key".
* Of several `.crt` files named after a key, the first certificates of all but the
  last are remembered as known and stored nowhere (`tls.go:487`).

## 5. Bounds

* `Orphans`: two, so that one zombie can be missed while another is reaped. The
  safety properties are proved for any set. They are interchangeable, so symmetry
  is used, for safety only; the liveness run has one.
* `MaxStops = 2`: one signal to start a stop and one to arrive during it. Kills and
  restarts are not bounded.
* `Runs = {r1, r2}`, `Timeout = 2`: two overlapping probes, and an age between the
  first and the last. Restarts are not bounded.
* `MaxRestarts = 2` (`ReadyProbe`): a stale file, its removal, and a second one.
* `MaxPublished = 3`, `MaxConnects = 2`: data before, between and after two
  collections, and one reconnection with the map of the old connection in use.
  One scraper in the passing run, because the property fails for two.
* `MaxLines = 3`, `MaxRotations = 2`: three files and a message in each, two parts
  of a line around a rotation, or a file overtaken by the next.
* `LogFilesCount = 3`, `MaxFileBytes = 3`, `MaxCalls = 4`: enough to fill all files,
  drop the oldest, and rotate again after an interrupted rotation; lines of 1, 2 and 4
  units, so that a line may fit twice, once, or be longer than the limit.
* `MaxGeneration = 3`: two replacements, the second during the load of the first.
* `Keystores`: two keys, two certificates, two authorities, two key sets.
* `Containers = {c1, c2}`, `MaxDisruptions = 4` (3 in the run with a dotted name):
  kills, failed commands and stop requests in any combination, enough for each
  container to be stopped and killed once during or after the race. Restarts are
  not bounded. The edit of `qm.ini` and the check of the log pages are both on,
  since they are what touches the shared file.
* `Redaction` needs no bound: its states are finite. In `Developer` the two users are
  given their passwords in the same one of 28 ways, or one of them none, in either
  order: they do not interact otherwise.

`CHECK_DEADLOCK FALSE` is used where the modelled component really ends: metrics,
the mirror, the certificate monitor and the parts (key databases that are built, a
developer image that failed), and `multi_instance`, where nothing happens any more
once every instance runs and the bound on disruptions is reached. The others run on
for ever, or are restarted, and TLC checks them for deadlock.

## 6. Fairness

* Weak fairness for each goroutine, the launcher of the web server and the poller
  of the metrics included: the Go scheduler runs what can run. Commands terminate
  and the kernel delivers pending signals (`RelaySIGCHLD`).
* Strong fairness for the cases of a `select` in a loop: Go chooses among the ready
  cases at random, so a case that is ready again and again is taken. The same holds
  for the child that `Wait4(-1)` returns: the kernel scans its list in order.
* No fairness for what the outside does: signals, kills, restarts, failures of system
  calls and commands, publications, scrapes, rotations, replacement of files. Where a
  failure ends what a liveness property waits for, the property says so: `CatchesUp`
  excuses a mirror that has failed, `Settles` a damaged storage.
* `StartedProbe`: the platform keeps running the probe and time passes (weak), and
  no step of a run is killed or fails every time (strong).
* `CertMonitor`: timers fire and the goroutines continue (weak), an installation that
  was begun is finished (weak), and a cancelled context is seen by a `select` in a
  loop (strong).
* `LogMirror`: the goroutine continues, and the queue manager finishes what it has
  begun: a line written in part, and a rotation whose new file does not exist yet
  (weak).
* `MultiInstance`: the steps of each container go on, the platform restarts what has
  ended, and a standby takes a lock that is free (weak). Stops, kills and failures
  are bounded, not fair: `Settles` speaks of what happens when they cease.

## 7. Proofs

### RunMQServer_proof

From the assumptions that `Background` is a set of goroutines of the two kinds and
`MaxStops` a natural number. `Orphans` is any set, finite or not.

`TypeCorrect`, `StopWaitsForStartup`, `StartupCommandsAreKept`, `CleanStop`,
`EveryZombieIsSeen` and `ReadinessIsFresh` state the type invariant and the
invariants of the run `server_safety`; all follow from one inductive invariant,
`IInv`:

* `StopOrder`: the stages of a stop come in one order (start-up over, stop
  running, stop over, last reap, channel closed), each implied by the next.
  `NoStopDuringStartup` and `StoppedMeansEnded` say only what the ends of this
  chain imply and are not inductive by themselves.
* `ReapOrder`: nothing in the reaping path (relay, buffer, loop) is active before
  `doMain` is past its last command, and `doMain` has a command only where it
  waits for one. This makes `StartupCommandsKept` inductive.
* `EndedStaysEnded`: a successful `endmqm` leaves no running queue manager, because
  by `StopOrder` no `strmqm` can follow.
* `NoLostZombie` and `ReadyMeansStarted` are inductive given the others.

There is one lemma per conjunct (`TypeStep`, `StopOrderStep`, ...), with one step
per action.

`ServiceIsImplemented` is the refinement of `QMService` that the run
`server_safety` also checks. Under the invariant, each of the process's actions is
one step of the service (a boot, the start of the queue manager, the publication of
readiness, a stop, a kill) or leaves the three mapped variables alone. `StopOrder`
is needed to know the phase before `endmqm` and after the last reap.

### StartedProbe_proof

From the assumption that `Timeout` is a natural number; `Runs` is any set. `GraceIsHeld` states the invariant of the run `started_probe`,
`StartedTypes` the type invariant. `GraceHeld` speaks of answers that were given; to keep it, one must
know that whatever a run will read is recent enough:

* `UpAfterClear`: the queue manager is up only in a start that has cleared the files;
* `RunsAfterUp`: a run past its `dspmq` has seen the queue manager of this start up,
  and the time it is about to write is not before that;
* `FileAfterUp`: hence the time in the file, once this start has cleared it, is not
  before that either.

The type invariant needs `RunsAfterUp` too: it is what keeps `ready.Clear` from
removing a file between the two halves of a write. The lemmas `Moves`, `Resets` and
`Answers` say what a step does to the record of its run, so that the steps about
actions need no facts about records.

### Metrics_proof

From the assumption that the two bounds are natural numbers; `Scrapers` is any set,
so overlapping scrapes are included. `StoppingNeverBlocks` and `ResponsesArePaired`
state invariants of the run `metrics`, `MetricsTypes` the type invariant.

* `OneFailure`: `GatherMetrics` fails before it launches the server, or the server
  fails afterwards. So at most two of the three callers of `StopMetricsGathering`
  come, which is what the capacity of `stopChannel` relies on.
* `TokensSent`: the channel holds no more tokens than callers have sent.
* `NotStarted`: `processMetrics` does not exist before `GatherMetrics` starts it;
  `ResponsePaired` needs this to be inductive.

`DeltasAreCountedOnce` states `EveryDeltaCountedOnce` for one scraper, that is, for
scrapes that do not overlap, and for any number of publications and connections;
`metrics_concurrent_scrapes` shows that the hypothesis is needed. Its invariant adds
a balance for the time in which values are on their way: what was published equals
what is counted, left out, in the cache, or in the map and not yet collected
(`Pending`). The last of these depends on where `processMetrics` and the scrape are.

### RotatingLog_proof

For any number of files, any limit, any set of lines with any lengths and any number
of calls. `FilesStayBounded`, `NoLineIsRepeated` and `EveryCallIsLogged` state the
invariants of the run `parts` about the log, `BoundedLogIsImplemented` its refinement.
None of them is inductive by itself; `IInv` adds what holds between the system calls
of one `Append`:

* `NothingOverwritten`: a missing file has no lines, and whatever is renamed or
  created takes the place of an empty one. Without it a rotation would lose lines.
* `RoomForLine`: at the write there is room in the first file, or it is empty, or a
  rotation has failed.
* `StillDiffers`: what was compared before the rotation is still so at the write.
* `LastCall`: identifiers of calls in the log are below that of the call in progress.

The log is the concatenation of the files (`FlattenSeq`, a recursive function in the
library). `Flattens` characterises it, by an induction over *sets* of indices:
`WFMin` and the well-foundedness of the natural numbers are facts without an operator
parameter, which these provers can use. `WholeAppend`, `WholeDrop`, `WholeMove` and
`WholeEmpty` then say what a write, a removal, a rename and a creation do to the log,
and the steps of the refinement follow from them.

### LogMirror_proof

For any number of messages and of rotations (`MaxLines` is at least one, because a
log may hold a line when `mirrorLog` is called). `LinesStayInOrder`,
`NoneIsLeftBehind` and `ConsoleStaysComplete` state the invariants of the run
`mirror`. The inductive invariant has three layers:

* the writer: messages are numbered across the files, a tail follows its head, a
  message that is complete is in some file (`FilesSound`, `InOrder`,
  `NothingMissing`);
* the position: which file is open, that `fi` and `newFI` are what was found, that a
  mirror that has not been overtaken is at most one file behind, and what lies before
  the start position (`FileKnown`, `NotOvertaken`, `StartKnown`);
* the output: all that is still to be read comes after all that is mirrored
  (`Behind`), every message that ends before the position is mirrored (`Covered`),
  the first half of a torn line is out before the second (`HeadsFirst`). `LastRound`
  follows the loop after the cancellation: the check that finds the same file proves
  that everything was mirrored, and one that finds another leads to a read of it.

`ScanLines` is characterised once for a well-formed file (`ScanFile`), again by
induction over a set; the steps use only `ScansAs`: the lines are in order, each
comes from a chunk, every message that ends in what was read ends one of the lines,
and a head at the end comes out as it is. For the console, `WholeTells`, `HeadTells`
and `WholeIsDiscreet` go through the mirror function for every setting, log and
message.

### Keystores_proof

From the assumptions that every input is one (`IsInput`), that the values for "no
key" and "no certificate" are not keys and certificates, and that the web server's
own key is a new one; keys, certificates, key sets, files and the environment are
otherwise any, in any number. `LabelsNameKeys`, `NoTrustIsLost`,
`TruststoreHasNoKey`, `WebServerHasItsKey` and `NativeHAFilesFit` state the five
invariants of the run `parts` that are about `Keystores`. All but one of them speak
of the end; what leads there is the inductive invariant `KeysInv`:

* `OnTheWay`: all key sets are behind when the trust directory is read, unless there
  was nothing to load; a keystore exists exactly if there was something.
* `SetInProgress`, `LookupNames`: a key that `keyLabelLookup` knows is in the CMS
  keystore under the name it was looked up with, except for the key set that is just
  being processed. This is what makes the label of a skipped duplicate right.
* `FilesMatch`: an entry of the CMS keystore has the key of the PKCS#12 file of that
  name. It survives a second directory with a key set of the same name because the
  file is overwritten only together with a failure of the relabelling.
* `LabelsMatch`: a directory has a label as soon as its first key set is done
  (`Begun`), and that label names its first key.
* `KnownIsHeld`: what `KnownFingerPrints` knows is in the keystore, or comes with the
  key set in progress, or was overridden by a later file of its key set.
* `TrustIsCollected`, `TruststoreIsThere`: what the truststore must hold is in
  `TrustedCerts` before it is in the file.
* `MQSCFits`, `WebFits`: the configurations say what labels and environment say, the
  key ring also whether the keystore could be listed. The
  error of `ConfigureWebKeystore` for a missing file cannot occur.

The key sets are processed in the order of a flattened sequence; `TodoInTurn`
characterises it for the one and the two directories that there can be, and the steps
use only that. `CertificatesGo` is the other lemma about data: each certificate of a
key set is an authority's, the public one, or overridden.

### MultiInstance_proof

For any set of containers, any name and any number of disruptions. `StorageStaysWhole`
and `OthersAreKept` state the properties of the run `multi_instance`.

* `OneCreator`: at most one container is inside `crtmqm`, and the shared storage is
  as far as that container has come.
* `RewritesKeepContents`: `updateQMini` is past its read only with contents to write
  back, and an empty `qm.ini` has a writer, or was left by a kill or a failed write.

`OthersAreKept` assumes `MQ_MULTI_INSTANCE`: without it there is one container by
configuration. `PlainNamesFindData` is the positive side of `multi_instance_dotted`:
a name without `.` and `/` is registered where its data are.

### Parts_proof

* `ReadyIsConfigured` and `ReadyIsNotDead`, for any number of restarts. A ready file
  is this start's once `ready.Clear` has run, and a run of `chkmqready` that began
  afterwards and found it did so after `ready.Set`.
* `SensitiveIsRedacted`, for text of any length. `InStep` relates the states of the
  scanner to those of the automaton that writes the text, and `KnowsName` says that
  the scanner remembers of the name what the language says of it, both until a comment
  between brackets has misled it.
* `LastGoodIsKept`, for any number of rotations of the files. `LoadedBeforeWatch`
  strengthens `KeepsLastGood`: the directory is watched, and the monitor handed out,
  only after a pair was accepted; from then on `updateCert` replaces the pair only by
  one that `tls.X509KeyPair` accepts.
* `PasswordsAgree`: the two orders of looking for a password find the same one if
  there is only one and the shell leaves it as it is (`OnePassword`).

### What is only model-checked

* Liveness (`CatchesUp`, `CancelEnds`, `RecoversFromOvertaking`,
  `GraceEndsUnlessTorn`, `Settles` and the liveness of the process, the metrics and the certificate
  monitor): properties under fairness are out of the prover's reach.
* The properties that fail: `server_own_commands`, `metrics_concurrent_scrapes`,
  `started_torn`, `multi_instance_dotted`.

## 8. Not modelled

* External programs (`crtmqm`, `addmqinf`, `strmqm`, `endmqm`, `dspmq`,
  `runmqakm`), the Go runtime, the kernel, fsnotify and the Prometheus client:
  modelled only in how they affect this code.
* Formatting, templates and texts: `mqtemplate`, the web server's XML, `qm.ini`,
  the wording of log lines (`formatBasic`, where a message with inserts is not
  escaped, and `getLogFormat`), the termination log.
* The limit of `bufio.Scanner` on the length of a mirrored line, and errors of reading
  an open log, which end a scan like the end of the file.
* `GatherMetrics` as seen from `RunMQServer` is only its polling command; the data
  race on `metricsEnabled` (`metrics.go:171`) has no observable effect in either
  model.
* Product version check: one comparison of two strings and log lines.
* Container runtime information, user checks, licence, names, copies: read and log
  facts, or fail; a failure is a failed start-up step of `RunMQServer`.
* The authorisation service's registration, memory and log file (`log.c`).
* Permissions of directories (`crtmqvol.go`), and the copy of the web server's
  configuration.
* MQIPT: a script of another image.

## 9. Plan

The order in which the models were written, the most important behaviour first:

1. `RunMQServer`, `QMService`, proofs of the safety properties.
2. Probes: `StartedProbe` and `ReadyProbe`; proof about the waiting period.
3. `Metrics` with proofs about its channels, `CertMonitor`.
4. `RotatingLog` with `BoundedLog` and the audit log; `LogMirror`, `Console`.
5. `Keystores`, with the web server's and the Native HA configuration.
6. `MultiInstance`.
7. `Redaction`, `Developer`.

The proofs came in the order of section 7, those about `Keystores` last.
