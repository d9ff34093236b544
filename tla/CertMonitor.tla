----------------------------- MODULE CertMonitor -----------------------------
(***************************************************************************)
(* internal/metrics/tlswatch.go: the metrics server's certificate, loaded  *)
(* from three files and loaded again when they change.                     *)
(*                                                                         *)
(* The files are replaced one by one, or all at once, by someone who does  *)
(* not know of the monitor; each is a generation number here, 0 when the   *)
(* file is missing.  One goroutine waits for file system events and for    *)
(* the poll timer, another loads the files.                                *)
(***************************************************************************)
EXTENDS Naturals

CONSTANT
    MaxGeneration   \* bound: generations of the files

ASSUME GenerationAssumption == MaxGeneration \in Nat \ {0}

Files == {"crt", "ca", "key"}
Generation == 1 .. MaxGeneration
NoFile == 0

VARIABLES
    disk,      \* the files
    target,    \* the generation being installed
    newline,   \* tls.crt ends with a line feed
    pending,   \* fsnotify has an event to deliver
    watching,  \* fsnotify delivers events
    starting,  \* loadAndWatchCertificates has not returned
    updater,   \* the loading goroutine (the caller's, while starting)
    read,      \* what it has read so far
    cert,      \* cm.cert, as the generations of its leaf, its key and its CA
    watcher,   \* the goroutine that waits for events
    cancelled  \* cm.ctx

diskVars == <<disk, target, newline>>
vars == <<diskVars, pending, watching, starting, updater, read, cert, watcher,
          cancelled>>

NoCert == [crt |-> NoFile, ca |-> NoFile, key |-> NoFile]

TypeOK ==
    /\ disk \in [Files -> Generation \union {NoFile}]
    /\ target \in Generation
    /\ newline \in BOOLEAN
    /\ pending \in BOOLEAN
    /\ watching \in BOOLEAN
    /\ starting \in BOOLEAN
    /\ updater \in {"crt", "ca", "key", "set", "watch", "select", "debounce",
                    "ended", "failed"}
    /\ read \in [Files -> Generation \union {NoFile}]
    /\ cert \in [Files -> Generation \union {NoFile}]
    /\ watcher \in {"none", "select", "ended"}
    /\ cancelled \in BOOLEAN
    /\ starting <=> watcher = "none"

Init ==
    /\ target = 1
    /\ disk = [f \in Files |-> target]
    /\ newline \in BOOLEAN
    /\ pending = FALSE
    /\ watching = FALSE
    /\ starting = TRUE
    /\ updater = "crt"
    /\ read = NoCert
    /\ cert = NoCert
    /\ watcher = "none"
    /\ cancelled = FALSE

----------------------------------------------------------------------------
(* Whoever installs the certificates (external).                           *)

Installed == \A f \in Files : disk[f] = target

(* A new generation, file by file or in one stroke (a symbolic link).      *)
BeginRotation ==
    /\ Installed
    /\ target < MaxGeneration
    /\ target' = target + 1
    /\ UNCHANGED <<disk, newline, pending, watching, starting, updater, read, cert,
                   watcher, cancelled>>

Install(files) ==
    /\ disk' = [f \in Files |-> IF f \in files THEN target ELSE disk[f]]
    /\ disk' # disk
    /\ pending' = watching
    /\ UNCHANGED <<target, newline, watching, starting, updater, read, cert, watcher,
                   cancelled>>

RemoveFile(f) ==
    /\ disk[f] \notin {target, NoFile}
    /\ disk' = [disk EXCEPT ![f] = NoFile]
    /\ pending' = watching
    /\ UNCHANGED <<target, newline, watching, starting, updater, read, cert, watcher,
                   cancelled>>

(* fsnotify meets an error, and waits for ever for someone to receive it.  *)
WatchBreaks ==
    /\ watching
    /\ watching' = FALSE
    /\ pending' = FALSE
    /\ UNCHANGED <<diskVars, starting, updater, read, cert, watcher, cancelled>>

----------------------------------------------------------------------------
(* updateCert: the three files are read one after the other.               *)

ReadFile(f, next) ==
    /\ updater = f
    /\ updater' = next
    /\ read' = [read EXCEPT ![f] = disk[f]]
    /\ UNCHANGED <<diskVars, pending, watching, starting, cert, watcher,
                   cancelled>>

(* Missing certificates are left out.                                      *)
ReadCrt == ReadFile("crt", "ca")
ReadCA == ReadFile("ca", "key")
ReadKey == ReadFile("key", "set")

(* tls.X509KeyPair: the first certificate of certPEM goes with the key.    *)
(* Two PEM blocks that share a line are not recognised: without a line     *)
(* feed between them the certificate is lost and the CA's comes first.     *)
KeyPairLoads ==
    /\ read.key # NoFile
    /\ read.crt = read.key
    /\ newline \/ read.ca = NoFile

(* Where updateCert returns to, with and without an error.                 *)
Return(loaded) ==
    updater' = IF ~starting THEN "select" ELSE IF loaded THEN "watch" ELSE "failed"

(* The new pair replaces the old one under the lock.                       *)
SetCert ==
    /\ updater = "set"
    /\ KeyPairLoads
    /\ cert' = read
    /\ Return(TRUE)
    /\ UNCHANGED <<diskVars, pending, watching, starting, read, watcher,
                   cancelled>>

Bug_ForgetCert ==
    /\ updater = "set"
    /\ ~KeyPairLoads
    /\ cert' = NoCert
    /\ Return(FALSE)
    /\ UNCHANGED <<diskVars, pending, watching, starting, read, watcher,
                   cancelled>>

(* An error leaves the old one in place; at startup it ends the monitor.   *)
LoadFails ==
    /\ updater = "set"
    /\ ~KeyPairLoads
    /\ Return(FALSE)
    /\ cancelled' = (cancelled \/ starting)
    /\ UNCHANGED <<diskVars, pending, watching, starting, read, cert, watcher>>

(* watch: the directory is watched from here on, by two goroutines.        *)
Watch ==
    /\ updater = "watch"
    /\ updater' = "select"
    /\ watching' = TRUE
    /\ starting' = FALSE
    /\ watcher' = "select"
    /\ UNCHANGED <<diskVars, pending, read, cert, cancelled>>

(* fsnotify cannot be set up.                                              *)
WatchFails ==
    /\ updater = "watch"
    /\ updater' = "failed"
    /\ cancelled' = TRUE
    /\ UNCHANGED <<diskVars, pending, watching, starting, read, cert, watcher>>

----------------------------------------------------------------------------
(* The two goroutines.                                                     *)

(* triggerUpdate does not wait: while a load goes on the event is dropped. *)
TriggerUpdate == updater' = IF updater = "select" THEN "debounce" ELSE updater

FileSystemEvent ==
    /\ watcher = "select"
    /\ pending
    /\ pending' = FALSE
    /\ TriggerUpdate
    /\ UNCHANGED <<diskVars, watching, starting, read, cert, watcher, cancelled>>

Bug_NoPoll ==
    /\ watcher = "select"
    /\ UNCHANGED vars

Poll ==
    /\ watcher = "select"
    /\ TriggerUpdate
    /\ UNCHANGED <<diskVars, pending, watching, starting, read, cert, watcher,
                   cancelled>>

WatcherEnds ==
    /\ watcher = "select"
    /\ cancelled
    /\ watcher' = "ended"
    /\ watching' = FALSE
    /\ UNCHANGED <<diskVars, pending, starting, updater, read, cert, cancelled>>

Debounced ==
    /\ updater = "debounce"
    /\ updater' = "crt"
    /\ read' = NoCert
    /\ UNCHANGED <<diskVars, pending, watching, starting, cert, watcher,
                   cancelled>>

Bug_UpdaterNeverEnds == FALSE /\ UNCHANGED vars

UpdaterEnds ==
    /\ updater = "select"
    /\ cancelled
    /\ updater' = "ended"
    /\ UNCHANGED <<diskVars, pending, watching, starting, read, cert, watcher,
                   cancelled>>

(* stop, called when the metrics server ends.                              *)
Stop ==
    /\ ~starting
    /\ ~cancelled
    /\ cancelled' = TRUE
    /\ UNCHANGED <<diskVars, pending, watching, starting, updater, read, cert,
                   watcher>>

----------------------------------------------------------------------------
Installer ==
    \/ BeginRotation
    \/ \E f \in Files : Install({f}) \/ RemoveFile(f)
    \/ Install(Files)

Updater ==
    \/ ReadCrt \/ ReadCA \/ ReadKey \/ SetCert \/ LoadFails
    \/ Watch \/ WatchFails \/ Debounced

Next ==
    \/ Installer \/ WatchBreaks \/ Updater
    \/ FileSystemEvent \/ Poll \/ WatcherEnds \/ UpdaterEnds \/ Stop

Spec == Init /\ [][Next]_vars

(* A rotation that has begun is completed, the timer ticks, and each       *)
(* goroutine runs; select takes a case that stays ready.                   *)
FairSpec ==
    /\ Spec
    /\ WF_vars(\E f \in Files : Install({f}))
    /\ WF_vars(Updater)
    /\ WF_vars(Poll)
    /\ SF_vars(WatcherEnds)
    /\ SF_vars(UpdaterEnds)

----------------------------------------------------------------------------
(* Properties.                                                             *)

(* The server always has a certificate that goes with its key, however the *)
(* loads interleave with the installation and whichever of them fail: "the *)
(* previously loaded certificates will not be overwritten".                *)
KeepsLastGood ==
    /\ TypeOK
    /\ ~starting => cert.key # NoFile /\ cert.crt = cert.key

(* Once an installation is complete the server gets that generation, CA    *)
(* included, whichever events were dropped or missed.  A tls.crt without a *)
(* line feed at its end does not load together with a ca.crt.              *)
ServesLatest ==
    newline /\ <>[]Installed =>
        <>[](cancelled \/ updater = "failed" \/ cert = disk)

(* After stop both goroutines end.                                         *)
StopEnds == cancelled /\ ~starting ~> updater = "ended" /\ watcher = "ended"
============================================================================
