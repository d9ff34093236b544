----------------------------- MODULE RotatingLog -----------------------------
(***************************************************************************)
(* pkg/logrotation: RotatingLogger, the audit log of the metrics server.   *)
(*                                                                         *)
(* Append holds a lock, so one call runs at a time; each of its system     *)
(* calls is a step here, because the process can be killed between any two *)
(* of them and restarted on the same directory, and because each of them   *)
(* can fail.                                                               *)
(***************************************************************************)
EXTENDS Naturals, Sequences, SequencesExt

CONSTANTS
    Texts,          \* the message lines
    Length,         \* their lengths in bytes, line feed included
    LogFilesCount,  \* logFilesCount
    MaxFileBytes,   \* maxFileBytes
    MaxCalls        \* bound: calls of Append

ASSUME LengthAssumption == Length \in [Texts -> Nat \ {0}]
ASSUME CountAssumption == LogFilesCount \in Nat \ {0}
ASSUME BytesAssumption == MaxFileBytes \in Nat
ASSUME CallsAssumption == MaxCalls \in Nat

Instances == 1 .. LogFilesCount
Message == [id : 1 .. MaxCalls, text : Texts, deduplicate : BOOLEAN]

VARIABLES
    lines,    \* the lines in each file; empty when there is no file
    size,     \* the size of each file
    present,  \* the files that exist
    step,     \* where Append is; "idle" between calls, "down" before Init
    msg,      \* its parameters
    inst,     \* the loop variable of performLogRotation
    calls,    \* calls of Append so far
    failed,   \* history: a rotation has failed, or was cut short
    gone      \* history: calls whose message was suppressed, dropped with an error,
              \* cut short by a kill, or deleted with the last file

fileVars == <<lines, size, present>>
logVars == <<fileVars, step, msg, inst, calls, failed, gone>>

NoMessage == [id |-> 0]   \* before the first call

LogTypeOK ==
    /\ lines \in [Instances -> Seq(Message)]
    /\ size \in [Instances -> Nat]
    /\ present \subseteq Instances
    /\ step \in {"down", "idle", "check", "remove", "rename", "create",
                 "reopen", "write"}
    /\ msg \in Message \union {NoMessage}
    /\ inst \in 0 .. LogFilesCount
    /\ calls \in 0 .. MaxCalls
    /\ failed \in BOOLEAN
    /\ gone \subseteq 1 .. MaxCalls
    /\ step \notin {"down", "idle"} => msg \in Message
    /\ step = "rename" => inst \in 2 .. LogFilesCount
    /\ step \in {"check", "write"} => 1 \in present

LogInit ==
    /\ lines = [i \in Instances |-> <<>>]
    /\ size = [i \in Instances |-> 0]
    /\ present = {}
    /\ step = "down"
    /\ msg = NoMessage
    /\ inst = 0
    /\ calls = 0
    /\ failed = FALSE
    /\ gone = {}

----------------------------------------------------------------------------
(* RotatingLogger.Init: O_CREATE makes the files that do not exist.        *)
InitFiles ==
    /\ step = "down"
    /\ step' = "idle"
    /\ present' = Instances
    /\ UNCHANGED <<lines, size, msg, inst, calls, failed, gone>>

(* The process is killed; the directory survives.                          *)
Crash ==
    /\ step # "down"
    /\ step' = "down"
    /\ failed' = (failed \/ step \notin {"idle", "check"})
    /\ gone' = gone \union (IF step = "idle" THEN {} ELSE {msg.id})
    /\ UNCHANGED <<fileVars, msg, inst, calls>>

(* Append is called and opens (or creates) the first file.                 *)
Open(text, deduplicate) ==
    /\ step = "idle"
    /\ calls < MaxCalls
    /\ calls' = calls + 1
    /\ msg' = [id |-> calls', text |-> text, deduplicate |-> deduplicate]
    /\ present' = present \union {1}
    /\ step' = "check"
    /\ UNCHANGED <<lines, size, inst, failed, gone>>

(* The metrics server's audit handler: the request has been served, by any *)
(* of the server's goroutines, and the event is always to be appended.     *)
AuditRequest(text) == Open(text, FALSE)

(* The other use of the interface, so far of its tests only.               *)
AppendDeduplicated(text) == Open(text, TRUE)

Bug_DeduplicateNothing == TRUE

(* checkIfMessageShouldBeAppended: compare with the last line of the first *)
(* file, if asked to.                                                      *)
ShouldBeAppended ==
    \/ ~msg.deduplicate
    \/ lines[1] = <<>>
    \/ Last(lines[1]).text # msg.text

Bug_SizeBeforeAppending == size[1] >= MaxFileBytes

(* checkIfLogFileSizeExceeded.                                             *)
LogFileSizeExceeded == size[1] + Length[msg.text] >= MaxFileBytes

Check ==
    /\ step = "check"
    /\ step' = IF ~ShouldBeAppended THEN "idle"
               ELSE IF LogFileSizeExceeded THEN "remove" ELSE "write"
    /\ gone' = gone \union (IF ShouldBeAppended THEN {} ELSE {msg.id})
    /\ UNCHANGED <<fileVars, msg, inst, calls, failed>>

(* performLogRotation begins by deleting the last file.                    *)
RemoveLast ==
    /\ step = "remove"
    /\ step' = IF LogFilesCount >= 2 THEN "rename" ELSE "create"
    /\ inst' = LogFilesCount
    /\ lines' = [lines EXCEPT ![LogFilesCount] = <<>>]
    /\ size' = [size EXCEPT ![LogFilesCount] = 0]
    /\ present' = present \ {LogFilesCount}
    /\ gone' = gone \union {m.id : m \in ToSet(lines[LogFilesCount])}
    /\ UNCHANGED <<msg, calls, failed>>

(* os.Rename(i - 1, i): the target is replaced; a missing source is not an *)
(* error.                                                                  *)
Rename ==
    /\ step = "rename"
    /\ step' = IF inst = 2 THEN "create" ELSE "rename"
    /\ inst' = inst - 1
    /\ IF inst - 1 \in present
       THEN /\ lines' = [lines EXCEPT ![inst] = lines[inst - 1],
                                      ![inst - 1] = <<>>]
            /\ size' = [size EXCEPT ![inst] = size[inst - 1],
                                    ![inst - 1] = 0]
            /\ present' = (present \ {inst - 1}) \union {inst}
       ELSE UNCHANGED fileVars
    /\ UNCHANGED <<msg, calls, failed, gone>>

(* os.WriteFile makes an empty first file.                                 *)
CreateFirst ==
    /\ step = "create"
    /\ step' = "reopen"
    /\ lines' = [lines EXCEPT ![1] = <<>>]
    /\ size' = [size EXCEPT ![1] = 0]
    /\ present' = present \union {1}
    /\ UNCHANGED <<msg, inst, calls, failed, gone>>

Bug_CarryOnAfterError ==
    /\ step \in {"remove", "rename", "create"}
    /\ step' = IF step = "create" \/ LogFilesCount < 2 \/ (step = "rename" /\ inst = 2)
               THEN "create" ELSE "rename"
    /\ inst' = IF step = "remove" THEN LogFilesCount
               ELSE IF inst > 2 THEN inst - 1 ELSE inst
    /\ failed' = TRUE
    /\ UNCHANGED <<fileVars, msg, calls, gone>>

Bug_GiveUpAfterError ==
    /\ step \in {"remove", "rename", "create"}
    /\ step' = "idle"
    /\ failed' = TRUE
    /\ UNCHANGED <<fileVars, msg, inst, calls, gone>>

(* Any of these three fails: performLogRotation returns the error, which   *)
(* Append only reports.                                                    *)
RotationFails ==
    /\ step \in {"remove", "rename", "create"}
    /\ step' = "reopen"
    /\ failed' = TRUE
    /\ UNCHANGED <<fileVars, msg, inst, calls, gone>>

(* The first file is opened again (O_CREATE).                              *)
Reopen ==
    /\ step = "reopen"
    /\ step' = "write"
    /\ present' = present \union {1}
    /\ UNCHANGED <<lines, size, msg, inst, calls, failed, gone>>

Write ==
    /\ step = "write"
    /\ step' = "idle"
    /\ lines' = [lines EXCEPT ![1] = Append(@, msg)]
    /\ size' = [size EXCEPT ![1] = @ + Length[msg.text]]
    /\ UNCHANGED <<present, msg, inst, calls, failed, gone>>

(* A check, the open or the write fails: the message is dropped.  A write  *)
(* that fails part of the way also leaves the beginning of the line in the *)
(* file, and the next line goes on from there; the fragment is left out.   *)
DropMessage ==
    /\ step \in {"check", "reopen", "write"}
    /\ step' = "idle"
    /\ gone' = gone \union {msg.id}
    /\ UNCHANGED <<fileVars, msg, inst, calls, failed>>

LogNext ==
    \/ InitFiles
    \/ Crash
    \/ \E t \in Texts : AuditRequest(t) \/ AppendDeduplicated(t)
    \/ Check
    \/ RemoveLast
    \/ Rename
    \/ CreateFirst
    \/ RotationFails
    \/ Reopen
    \/ Write
    \/ DropMessage

LogSpec == LogInit /\ [][LogNext]_logVars

----------------------------------------------------------------------------
(* Properties.                                                             *)

(* No file reaches maxFileBytes, unless a single line does or a rotation   *)
(* did not go through: the size is checked with the new line included.     *)
FilesBounded ==
    /\ LogTypeOK
    /\ failed \/ \A i \in Instances :
         size[i] < MaxFileBytes \/ Len(lines[i]) <= 1

(* A line appended with deduplication differs from the line before it in   *)
(* the same file, wherever that file has been moved to since.              *)
NoRepeatedLine ==
    \A i \in Instances : \A k \in DOMAIN lines[i] :
        k > 1 /\ lines[i][k].deduplicate =>
            lines[i][k].text # lines[i][k - 1].text

(* The files, from the last to the first, are one bounded log: whatever    *)
(* step of a rotation fails, and wherever the process is killed, lines     *)
(* stay in order and only the oldest are ever lost.                        *)
WholeLog == FlattenSeq([i \in Instances |-> lines[LogFilesCount + 1 - i]])

Promise == INSTANCE BoundedLog WITH log <- WholeLog, Messages <- Message

ImplementsBoundedLog == Promise!Spec

(* Every call is accounted for: its message is in the log unless it was    *)
(* suppressed as a repetition, dropped because the first file could not be *)
(* opened, checked or written, cut short by a kill, or deleted with the    *)
(* last file.  A rotation that fails loses no line, the one to be appended *)
(* included.                                                               *)
InProgress == IF step \in {"down", "idle"} THEN {} ELSE {msg.id}

EveryCallLogged ==
    1 .. calls = InProgress \union gone
                   \union {m.id : m \in ToSet(WholeLog)}
============================================================================
