------------------------------ MODULE LogMirror ------------------------------
(***************************************************************************)
(* cmd/runmqserver/mirror.go: a goroutine that follows a log file by name  *)
(* and copies its lines to the container's log, across rotations of the    *)
(* file and until it is cancelled.                                         *)
(*                                                                         *)
(* Files are inodes 1, 2, ...; the path names the newest of them, or none  *)
(* in the middle of a rotation.  A message is a number; what a file holds  *)
(* is the sequence of chunks written to it, because a line may reach the   *)
(* file in two writes.                                                     *)
(***************************************************************************)
EXTENDS Naturals, Sequences

CONSTANTS
    MaxLines,      \* bound: messages written
    MaxRotations   \* bound: rotations of the file

ASSUME BoundsAssumption ==
    /\ MaxLines \in Nat \ {0}
    /\ MaxRotations \in Nat

Inodes == 1 .. MaxRotations + 1

(* What is written to the file, and what is mirrored: messages, or parts.  *)
Chunk == [msg : 1 .. MaxLines, part : {"whole", "head", "tail"}]

VARIABLES
    content,    \* the chunks in each inode
    newest,     \* the inode created last; 0 before there is one
    missing,    \* the path names no file
    written,    \* messages written, or begun
    fromStart,  \* the parameter of mirrorLog
    cancelled,  \* ctx is cancelled
    mirror,     \* where mirrorLog is
    offset,     \* its local variables offset, f, f's position, fi, newFI, closing
    file,
    pos,
    fi,
    newFI,
    closing,
    output,     \* the lines mirrored
    notDue,     \* history: messages up to this one need not be mirrored
    atCancel,   \* history: messages complete when ctx was cancelled
    overtaken   \* history: a file was rotated away before the mirror opened it

writerVars == <<content, newest, missing, written>>
localVars  == <<offset, file, pos, fi, newFI, closing>>
history    == <<notDue, atCancel, overtaken>>
vars == <<writerVars, fromStart, cancelled, mirror, localVars, output, history>>

Path == IF missing THEN 0 ELSE newest   \* what os.Stat(path) finds, 0 for ENOENT

TypeOK ==
    /\ content \in [Inodes -> Seq(Chunk)]
    /\ newest \in 0 .. MaxRotations + 1
    /\ missing \in BOOLEAN
    /\ written \in 0 .. MaxLines
    /\ fromStart \in BOOLEAN
    /\ cancelled \in BOOLEAN
    /\ mirror \in {"stat", "open", "wait", "openFirst", "seek", "read", "check",
                   "readOld", "reopen", "readNew", "pause", "ended", "failed"}
    /\ offset \in Nat /\ pos \in Nat
    /\ file \in 0 .. MaxRotations + 1
    /\ fi \in 0 .. MaxRotations + 1
    /\ newFI \in 0 .. MaxRotations + 1
    /\ closing \in BOOLEAN
    /\ output \in Seq(Chunk)
    /\ notDue \in 0 .. MaxLines /\ atCancel \in 0 .. MaxLines
    /\ overtaken \in BOOLEAN

(* mirrorLog is called on a path with no file, or on a file that may       *)
(* already hold a line.                                                    *)
Init ==
    /\ \E n \in {0, 1}, k \in {0, 1} :
         /\ k <= n
         /\ newest = n
         /\ written = k
         /\ content = [i \in Inodes |->
                         IF i = 1 /\ k = 1
                         THEN <<[msg |-> 1, part |-> "whole"]>> ELSE <<>>]
    /\ missing = (newest = 0)
    /\ fromStart \in BOOLEAN
    /\ cancelled = FALSE
    /\ mirror = "stat"
    /\ offset = 0 /\ file = 0 /\ pos = 0 /\ fi = 0 /\ newFI = 0
    /\ closing = FALSE
    /\ output = <<>>
    /\ notDue = 0 /\ atCancel = 0 /\ overtaken = FALSE

----------------------------------------------------------------------------
(* The program that writes the log (external).                             *)

Write(m, part) ==
    content' = [content EXCEPT ![newest] = Append(@, [msg |-> m, part |-> part])]

HalfWritten ==
    /\ newest > 0
    /\ content[newest] # <<>>
    /\ content[newest][Len(content[newest])].part = "head"

Complete == IF HalfWritten THEN written - 1 ELSE written

WriteMessage ==
    /\ ~missing
    /\ ~HalfWritten
    /\ written < MaxLines
    /\ written' = written + 1
    /\ Write(written', "whole") \/ Write(written', "head")
    /\ UNCHANGED <<newest, missing, fromStart, cancelled, mirror, localVars,
                   output, history>>

WriteRest ==
    /\ HalfWritten
    /\ Write(written, "tail")
    /\ UNCHANGED <<newest, missing, written, fromStart, cancelled, mirror,
                   localVars, output, history>>

(* A rotation renames the file, then makes a new one.  With a very small   *)
(* log a file can be rotated away before the mirror has opened it: the     *)
(* race mirror.go warns of.  Left out is a rotation between the os.Stat    *)
(* and the os.OpenFile of mirrorLog itself.  A container's own queue       *)
(* manager is not running yet, but the active container may rotate the log *)
(* that it shares with a standby that is starting: mirrorLog then seeks    *)
(* the old file's size in the new file, and misses that much of it.        *)
RenameAway ==
    /\ mirror \notin {"stat", "open"}
    /\ ~missing
    /\ ~HalfWritten
    /\ newest <= MaxRotations
    /\ missing' = TRUE
    /\ overtaken' = (overtaken \/ file # newest)
    /\ UNCHANGED <<content, newest, written, fromStart, cancelled, mirror,
                   localVars, output, notDue, atCancel>>

CreateFile ==
    /\ missing
    /\ newest' = newest + 1
    /\ missing' = FALSE
    /\ UNCHANGED <<content, written, fromStart, cancelled, mirror, localVars,
                   output, history>>

(* doMain cancels the mirror when it returns.                              *)
Cancel ==
    /\ mirror # "stat" /\ mirror # "open"
    /\ ~cancelled
    /\ cancelled' = TRUE
    /\ atCancel' = Complete
    /\ UNCHANGED <<writerVars, fromStart, mirror, localVars, output, notDue,
                   overtaken>>

----------------------------------------------------------------------------
(* mirrorLog, before it starts its goroutine.                              *)

(* os.Stat(path), with the offset it implies.                              *)
StatFirst ==
    /\ mirror = "stat"
    /\ IF Path = 0
       THEN mirror' = "wait" /\ offset' = 0 /\ notDue' = Complete
       ELSE /\ mirror' = "open"
            /\ offset' = Len(content[Path])
            /\ notDue' = IF fromStart THEN 0 ELSE Complete
    /\ UNCHANGED <<writerVars, fromStart, cancelled, file, pos, fi, newFI,
                   closing, output, atCancel, overtaken>>

(* The file existed: open it before returning.                             *)
OpenNow ==
    /\ mirror = "open"
    /\ mirror' = "seek"
    /\ file' = Path
    /\ UNCHANGED <<writerVars, fromStart, cancelled, offset, pos, fi, newFI,
                   closing, output, history>>

----------------------------------------------------------------------------
(* The goroutine.                                                          *)

Bug_WaitForEver(found) ==
    /\ Path # 0
    /\ mirror' = found

(* waitForFile keeps polling for a missing file until ctx is cancelled,    *)
(* and then returns the error.  Any other error of os.Stat is MirrorFails. *)
WaitForFile(found) ==
    /\ Path # 0 \/ cancelled
    /\ mirror' = IF Path = 0 THEN "failed" ELSE found

WaitFirst ==
    /\ mirror = "wait"
    /\ WaitForFile("openFirst")
    /\ UNCHANGED <<writerVars, fromStart, cancelled, localVars, output, history>>

(* OpenFile; the path may name no file in the middle of a rotation.        *)
OpenFirst ==
    /\ mirror = "openFirst"
    /\ mirror' = IF Path = 0 THEN "failed" ELSE "seek"
    /\ file' = Path
    /\ UNCHANGED <<writerVars, fromStart, cancelled, offset, pos, fi, newFI,
                   closing, output, history>>

StartPosition == IF offset # 0 /\ ~fromStart THEN offset ELSE 0

(* f.Stat, and the seek.                                                   *)
SeekFirst ==
    /\ mirror = "seek"
    /\ mirror' = "read"
    /\ fi' = file
    /\ pos' = StartPosition
    /\ UNCHANGED <<writerVars, fromStart, cancelled, offset, file, newFI,
                   closing, output, history>>

(* The lines a new Scanner finds in a sequence of chunks: a head with its  *)
(* tail is a whole line; a head at the end of the file, and a tail at the  *)
(* start, come out as lines of their own.                                  *)
BeginsLine(chunks, i) == chunks[i].part # "tail" \/ i = 1

LineAt(chunks, i) ==
    [msg |-> chunks[i].msg,
     part |-> IF chunks[i].part = "head" /\ i < Len(chunks)
              THEN "whole" ELSE chunks[i].part]

ScanLines(chunks) ==
    LET scanned[i \in 0 .. Len(chunks)] ==
          IF i = 0 THEN <<>>
          ELSE IF BeginsLine(chunks, i)
          THEN Append(scanned[i - 1], LineAt(chunks, i)) ELSE scanned[i - 1]
    IN  scanned[Len(chunks)]

Bug_PositionNotKept ==
    /\ output' = output \o ScanLines(SubSeq(content[file], pos + 1,
                                             Len(content[file])))
    /\ UNCHANGED pos

(* mirrorAvailableMessages: everything from the position to the end.       *)
MirrorAvailableMessages ==
    /\ output' = output \o ScanLines(SubSeq(content[file], pos + 1,
                                             Len(content[file])))
    /\ pos' = Len(content[file])

(* Mirror what is there...                                                 *)
Read ==
    /\ mirror = "read"
    /\ mirror' = "check"
    /\ MirrorAvailableMessages
    /\ UNCHANGED <<writerVars, fromStart, cancelled, offset, file, fi, newFI,
                   closing, history>>

(* ...and look whether the path names another file by now.                 *)
Check ==
    /\ mirror = "check"
    /\ WaitForFile(IF Path = fi THEN "pause" ELSE "readOld")
    /\ newFI' = Path
    /\ UNCHANGED <<writerVars, fromStart, cancelled, offset, file, pos, fi,
                   closing, output, history>>

Bug_SkipRestOfOldFile ==
    /\ mirror = "readOld"
    /\ mirror' = "reopen"
    /\ UNCHANGED <<writerVars, fromStart, cancelled, localVars, output, history>>

(* The rest of the old file.                                               *)
ReadOld ==
    /\ mirror = "readOld"
    /\ mirror' = "reopen"
    /\ MirrorAvailableMessages
    /\ UNCHANGED <<writerVars, fromStart, cancelled, offset, file, fi, newFI,
                   closing, history>>

Bug_SeekAgain ==
    /\ mirror = "reopen"
    /\ IF Path = 0
       THEN mirror' = "failed" /\ UNCHANGED <<file, pos, fi>>
       ELSE mirror' = "readNew" /\ file' = Path /\ pos' = StartPosition /\ fi' = newFI
    /\ UNCHANGED <<writerVars, fromStart, cancelled, offset, newFI, closing,
                   output, history>>

(* Close it and open the path again: whatever it names now, fi is what it  *)
(* named at the check.                                                     *)
Reopen ==
    /\ mirror = "reopen"
    /\ IF Path = 0
       THEN mirror' = "failed" /\ UNCHANGED <<file, pos, fi>>
       ELSE mirror' = "readNew" /\ file' = Path /\ pos' = 0 /\ fi' = newFI
    /\ UNCHANGED <<writerVars, fromStart, cancelled, offset, newFI, closing,
                   output, history>>

ReadNew ==
    /\ mirror = "readNew"
    /\ mirror' = "pause"
    /\ MirrorAvailableMessages
    /\ UNCHANGED <<writerVars, fromStart, cancelled, offset, file, fi, newFI,
                   closing, history>>

Bug_EndAtOnce ==
    /\ mirror = "pause"
    /\ mirror' = IF cancelled THEN "ended" ELSE "read"
    /\ UNCHANGED <<writerVars, fromStart, cancelled, localVars, output, history>>

(* Sleep, or, once cancelled, go round once more and end.                  *)
Pause ==
    /\ mirror = "pause"
    /\ mirror' = IF cancelled /\ closing THEN "ended" ELSE "read"
    /\ closing' = cancelled
    /\ UNCHANGED <<writerVars, fromStart, cancelled, offset, file, pos, fi,
                   newFI, output, history>>

(* Any of the system calls on the file may fail for a reason of its own,   *)
(* such as a permission, a stale handle or no free descriptor: os.Stat and *)
(* OpenFile in mirrorLog, os.Stat in waitForFile, and OpenFile and f.Stat  *)
(* in the goroutine.  mirrorLog returns the error; the goroutine sends it  *)
(* to errorChannel, which no caller reads, and ends.                       *)
MirrorFails ==
    /\ mirror \in {"stat", "open", "wait", "openFirst", "seek", "check", "reopen"}
    /\ mirror' = "failed"
    /\ UNCHANGED <<writerVars, fromStart, cancelled, localVars, output, history>>

----------------------------------------------------------------------------
Writer == WriteMessage \/ WriteRest \/ RenameAway \/ CreateFile

Mirror ==
    \/ StatFirst \/ OpenNow
    \/ WaitFirst \/ OpenFirst \/ SeekFirst
    \/ Read \/ Check \/ ReadOld \/ Reopen \/ ReadNew \/ Pause

Next == Writer \/ Cancel \/ Mirror \/ MirrorFails

Spec == Init /\ [][Next]_vars

(* The goroutine runs, and a rotation or a line that is begun is finished; *)
(* a log nobody has ever written need not come into being.                 *)
FairSpec ==
    /\ Spec
    /\ WF_vars(Mirror)
    /\ WF_vars(newest > 0 /\ CreateFile)
    /\ WF_vars(WriteRest)

----------------------------------------------------------------------------
(* Properties.                                                             *)

(* Messages come out in the order they were written, and none comes out    *)
(* twice, whatever the rotation and the polling do to each other; a line   *)
(* that was half written at a poll comes out as two.  Only a file rotated  *)
(* away before the mirror opened it disturbs that.  Nothing comes out that *)
(* was in the file before mirrorLog was called, unless it was told to read *)
(* from the start.                                                         *)
Before(x, y) ==
    \/ x.msg < y.msg
    \/ x.msg = y.msg /\ x.part = "head" /\ y.part = "tail"

InOrderOnce ==
    /\ TypeOK
    /\ ~overtaken =>
         \A i, j \in DOMAIN output : i < j => Before(output[i], output[j])
    /\ \A i \in DOMAIN output : output[i].msg > notDue

Mirrored(m) ==
    \E i \in DOMAIN output : output[i].msg = m /\ output[i].part # "head"

(* A mirror that ends because it was cancelled has mirrored every message  *)
(* written before the cancellation: "one more time through the loop".      *)
NothingLeftBehind ==
    mirror = "ended" /\ ~overtaken =>
        \A m \in notDue + 1 .. atCancel : Mirrored(m)

(* Every message is mirrored sooner or later, unless the mirror is         *)
(* cancelled or overtaken first, or one of its system calls fails: nobody  *)
(* starts the mirror again.  A file that is missing for a while, in the    *)
(* middle of a rotation or because it is not made yet, is no excuse.       *)
CatchesUp ==
    \A m \in 1 .. MaxLines :
        written >= m /\ mirror # "stat" /\ m > notDue ~>
            cancelled \/ overtaken \/ mirror = "failed" \/ Mirrored(m)

(* A mirror that was overtaken by a second rotation loses or repeats a     *)
(* file, and no more: unless it fails, because it finds no file to open or *)
(* otherwise, it gets back to the newest file and mirrors all of it.       *)
InStep ==
    /\ file = newest /\ fi = newest
    /\ \A i \in DOMAIN content[newest] :
         LET m == content[newest][i].msg IN m > notDue => Mirrored(m)

RecoversFromOvertaking ==
    <>[](overtaken => cancelled \/ mirror = "failed" \/ InStep)

(* The goroutine ends after a cancellation, whatever state the file is in, *)
(* so that doMain's wait for the mirrors ends.                             *)
CancelEnds == cancelled ~> mirror \in {"ended", "failed"}
============================================================================
