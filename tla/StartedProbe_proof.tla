-------------------------- MODULE StartedProbe_proof --------------------------
(***************************************************************************)
(* chkmqstarted never cuts the wait for replicas short: proved for any     *)
(* number of overlapping runs and any timeout, and wherever a run dies.    *)
(***************************************************************************)
EXTENDS StartedProbe, TLAPS

(* A run that has seen the queue manager up, and the time it will write.   *)
PastQuery == {"exists", "create", "write", "read"}

RunsAfterUp ==
    \A r \in Runs :
        /\ started[r].at \in {"idle", "dspmq"} => started[r].time = 0
        /\ started[r].at \in PastQuery =>
             upAge # None /\ started[r].time <= upAge

(* The queue manager is up only in a start that has cleared the file...    *)
UpAfterClear ==
    /\ server = "booting" => upAge = None /\ ~Up
    /\ Up => upAge # None

(* ...and from then on the time in the file is no earlier than that.       *)
FileAfterUp ==
    server = "starting" /\ syncFile \in Age =>
        upAge # None /\ syncFile <= upAge

GraceInv ==
    /\ TypeOK
    /\ RunsAfterUp
    /\ UpAfterClear
    /\ FileAfterUp
    /\ GraceHeld

(* The record of run r is replaced, and no other.                          *)
Becomes(r, at, time, answer) ==
    /\ started' \in [Runs -> StartedRun]
    /\ started'[r].at = at
    /\ started'[r].time = time
    /\ started'[r].answer = answer
    /\ \A q \in Runs \ {r} : started'[q] = started[q]

At == {"idle", "dspmq", "exists", "create", "write", "read"}
Answer == {"none", "inSync", "expired", "notStarted", "error"}

(* A step that assigns a whole record to one run.                          *)
LEMMA Assigned ==
  ASSUME TypeOK, NEW r \in Runs, NEW run \in StartedRun,
         started' = [started EXCEPT ![r] = run]
  PROVE  Becomes(r, run.at, run.time, run.answer)
<1>1. started \in [Runs -> StartedRun]
  BY DEF TypeOK
<1>2. started' \in [Runs -> StartedRun]
  BY <1>1
<1>3. started'[r] = run
  BY <1>1
<1>4. \A q \in Runs \ {r} : started'[q] = started[q]
  BY <1>1
<1>. QED
  BY <1>2, <1>3, <1>4 DEF Becomes

(* A run goes on to its next step and keeps its time and its last answer.  *)
LEMMA Moves ==
  ASSUME TypeOK, NEW r \in Runs, NEW from \in At, NEW to \in At,
         StartedStep(r, from, to)
  PROVE  /\ started[r].at = from
         /\ Becomes(r, to, started[r].time, started[r].answer)
<1>. DEFINE run == [started[r] EXCEPT !.at = to]
<1>1. started[r] \in StartedRun
  BY DEF TypeOK
<1>2. /\ run \in StartedRun
      /\ run.at = to
      /\ run.time = started[r].time
      /\ run.answer = started[r].answer
  BY <1>1 DEF StartedRun, At
<1>3. started' = [started EXCEPT ![r] = run]
  BY DEF StartedStep
<1>. HIDE DEF run
<1>4. Becomes(r, run.at, run.time, run.answer)
  BY <1>2, <1>3, Assigned
<1>. QED
  BY <1>2, <1>4 DEF StartedStep

(* A run starts afresh at one of its steps.                                *)
LEMMA Resets ==
  ASSUME TypeOK, NEW r \in Runs, NEW to \in At,
         started' = [started EXCEPT ![r] = [IdleRun EXCEPT !.at = to]]
  PROVE  Becomes(r, to, 0, "none")
<1>. DEFINE run == [IdleRun EXCEPT !.at = to]
<1>1. /\ run \in StartedRun
      /\ run.at = to
      /\ run.time = 0
      /\ run.answer = "none"
  BY TimeoutAssumption DEF StartedRun, At, IdleRun, Age
<1>2. started' = [started EXCEPT ![r] = run]
  OBVIOUS
<1>. HIDE DEF run
<1>. QED
  BY <1>1, <1>2, Assigned, ZenonT(60)

(* A run ends with an answer.                                              *)
LEMMA Answers ==
  ASSUME TypeOK, NEW r \in Runs, NEW from \in At, NEW answer \in Answer,
         StartedAnswers(r, from, answer)
  PROVE  started[r].at = from /\ Becomes(r, "idle", 0, answer)
<1>. DEFINE run == [IdleRun EXCEPT !.answer = answer]
<1>1. /\ run \in StartedRun
      /\ run.at = "idle"
      /\ run.time = 0
      /\ run.answer = answer
  BY TimeoutAssumption DEF StartedRun, Answer, IdleRun, Age
<1>2. started' = [started EXCEPT ![r] = run]
  BY DEF StartedAnswers
<1>. HIDE DEF run
<1>3. Becomes(r, run.at, run.time, run.answer)
  BY <1>1, <1>2, Assigned
<1>. QED
  BY <1>1, <1>3 DEF StartedAnswers

(* What runmqserver, the queue manager and the passing of time do.         *)
LEMMA OutsideStep ==
  ASSUME GraceInv,
         ClearReadyToSync \/ Restart \/ QMChanges \/ SyncChanges \/ Tick
  PROVE  GraceInv'
<1>. USE TimeoutAssumption DEF GraceInv, qmVars
<1>1. CASE ClearReadyToSync
  <2>. USE <1>1 DEF ClearReadyToSync
  <2>1. TypeOK'
    BY DEF TypeOK, RunsAfterUp, UpAfterClear, PastQuery, None
  <2>2. RunsAfterUp' /\ GraceHeld'
    BY DEF RunsAfterUp, GraceHeld
  <2>3. UpAfterClear'
    BY DEF UpAfterClear, Up
  <2>4. FileAfterUp'
    BY DEF FileAfterUp, Age, None
  <2>. QED
    BY <2>1, <2>2, <2>3, <2>4
<1>2. CASE Restart
  <2>. USE <1>2 DEF Restart
  <2>1. \A r \in Runs : started'[r] = IdleRun
    OBVIOUS
  <2>2. IdleRun \in StartedRun
    BY DEF IdleRun, StartedRun, Age
  <2>3. started' \in [Runs -> StartedRun]
    BY <2>2
  <2>4. TypeOK'
    BY <2>1, <2>3 DEF TypeOK, Status, IdleRun
  <2>5. RunsAfterUp' /\ GraceHeld'
    BY <2>1 DEF RunsAfterUp, GraceHeld, IdleRun, PastQuery
  <2>6. UpAfterClear' /\ FileAfterUp'
    BY DEF UpAfterClear, FileAfterUp, Up
  <2>. QED
    BY <2>4, <2>5, <2>6
<1>3. CASE QMChanges
  <2>. USE <1>3 DEF QMChanges
  <2>1. upAge' = upAge \/ (upAge = None /\ upAge' = 0)
    OBVIOUS
  <2>2. TypeOK'
    <3>1. inSync' \in BOOLEAN
      OBVIOUS
    <3>2. qm' \in Status
      OBVIOUS
    <3>3. upAge' \in Age \union {None}
      BY <2>1 DEF TypeOK, Age
    <3>. QED
      BY <3>1, <3>2, <3>3 DEF TypeOK
  <2>3. RunsAfterUp'
    BY <2>1 DEF RunsAfterUp
  <2>4. UpAfterClear'
    BY <2>1 DEF UpAfterClear, None, TypeOK
  <2>5. FileAfterUp'
    BY <2>1 DEF FileAfterUp
  <2>6. GraceHeld'
    BY <2>1 DEF GraceHeld, None
  <2>. QED
    BY <2>2, <2>3, <2>4, <2>5, <2>6
<1>4. CASE SyncChanges
  <2>. USE <1>4 DEF SyncChanges
  <2>1. inSync' \in BOOLEAN
    OBVIOUS
  <2>2. TypeOK'
    BY <2>1 DEF TypeOK
  <2>3. RunsAfterUp' /\ UpAfterClear' /\ FileAfterUp' /\ GraceHeld'
    BY DEF RunsAfterUp, UpAfterClear, Up, FileAfterUp, GraceHeld
  <2>. QED
    BY <2>2, <2>3
<1>5. CASE Tick
  <2>. USE <1>5 DEF Tick
  <2>1. \A r \in Runs : started[r] \in StartedRun
    BY DEF TypeOK
  <2>2. \A r \in Runs :
          /\ started'[r] \in StartedRun
          /\ started'[r].at = started[r].at
          /\ started'[r].answer = started[r].answer
          /\ started'[r].time =
               IF started[r].at \in {"create", "write"}
               THEN Older(started[r].time) ELSE started[r].time
    BY <2>1 DEF StartedRun, Older, Age
  <2>3. upAge' = Older(upAge) /\ syncFile' = Older(syncFile)
    OBVIOUS
  <2>4. started' \in [Runs -> StartedRun]
    BY <2>2
  <2>5. TypeOK'
    BY <2>2, <2>3, <2>4 DEF TypeOK, Older, Age, None, Empty
  <2>6. RunsAfterUp'
    BY <2>1, <2>2, <2>3
    DEF TypeOK, RunsAfterUp, PastQuery, StartedRun, Older, Age, None
  <2>7. UpAfterClear' /\ FileAfterUp'
    <3>1. upAge' = None <=> upAge = None
      BY <2>3 DEF TypeOK, Older, Age, None
    <3>2. UpAfterClear'
      BY <3>1 DEF UpAfterClear, Up
    <3>3. syncFile' \in Age => syncFile \in Age
      BY <2>3 DEF TypeOK, Older, Age, None, Empty
    <3>4. syncFile \in Age /\ upAge # None /\ syncFile <= upAge =>
            syncFile' <= upAge'
      BY <2>3 DEF TypeOK, Older, Age, None
    <3>5. FileAfterUp'
      BY <3>1, <3>3, <3>4 DEF FileAfterUp
    <3>. QED
      BY <3>2, <3>5
  <2>8. GraceHeld'
    BY <2>2, <2>3 DEF GraceHeld, Older, Age
  <2>. QED
    BY <2>5, <2>6, <2>7, <2>8
<1>. QED
  BY <1>1, <1>2, <1>3, <1>4, <1>5


(* A step of run r keeps the invariant if what the run becomes, and what   *)
(* it makes of the file, agree with it.                                    *)
LEMMA RunKeeps ==
  ASSUME GraceInv, NEW r \in Runs,
         NEW at \in At, NEW time \in Age, NEW answer \in Answer,
         Becomes(r, at, time, answer),
         UNCHANGED <<server, qm, inSync, upAge>>,
         at \in {"idle", "dspmq"} => time = 0,
         at \in PastQuery => upAge # None /\ time <= upAge,
         answer = "expired" => upAge = Timeout,
         syncFile' \in Age \union {None, Empty},
         syncFile' = None => syncFile = None /\ at # "write",
         syncFile' \in Age =>
            syncFile' = syncFile \/ (upAge # None /\ syncFile' <= upAge)
  PROVE  GraceInv'
<1>. USE DEF GraceInv
<1>1. TypeOK'
  BY DEF TypeOK, Becomes
<1>2. RunsAfterUp'
  BY DEF RunsAfterUp, Becomes
<1>3. UpAfterClear'
  BY DEF UpAfterClear, Up
<1>4. FileAfterUp'
  BY DEF FileAfterUp
<1>5. GraceHeld'
  BY DEF GraceHeld, Becomes
<1>. QED
  BY <1>1, <1>2, <1>3, <1>4, <1>5

(* Every step of chkmqstarted keeps the invariant.                         *)
LEMMA RunStep ==
  ASSUME GraceInv, NEW r \in Runs,
         StartedBegins(r) \/ StartedQueries(r) \/ SyncFileExists(r)
           \/ CreateSyncFile(r) \/ WriteSyncFile(r) \/ ReadSyncFile(r)
           \/ StartedFails(r)
  PROVE  GraceInv'
<1>0. /\ TypeOK
      /\ syncFile \in Age \union {None, Empty}
      /\ started[r].at \in At
      /\ started[r].time \in Age
      /\ started[r].answer \in Answer
      /\ started[r].answer = "expired" => upAge = Timeout
      /\ started[r].at \in {"idle", "dspmq"} => started[r].time = 0
      /\ started[r].at \in PastQuery =>
            upAge # None /\ started[r].time <= upAge
  BY DEF GraceInv, TypeOK, StartedRun, At, Answer, GraceHeld, RunsAfterUp
<1>a. upAge # None => upAge >= 0 /\ upAge <= Timeout
  BY TimeoutAssumption DEF GraceInv, TypeOK, Age, None
<1>b. 0 \in Age
  BY TimeoutAssumption DEF Age
<1>1. CASE StartedBegins(r)
  <2>1. Becomes(r, "dspmq", 0, "none")
    BY <1>0, <1>1, Resets DEF StartedBegins, At
  <2>. QED
    BY <1>0, <1>1, <1>b, <2>1, RunKeeps
    DEF StartedBegins, qmVars, PastQuery, At, Answer
<1>2. CASE StartedQueries(r)
  <2>. USE <1>2 DEF StartedQueries, qmVars
  <2>1. CASE inSync /\ StartedAnswers(r, "dspmq", "inSync")
    BY <1>0, <1>b, <2>1, Answers, RunKeeps DEF PastQuery, At, Answer
  <2>2. CASE ~inSync /\ Up /\ StartedStep(r, "dspmq", "exists")
    <3>1. /\ started[r].at = "dspmq"
          /\ Becomes(r, "exists", started[r].time, started[r].answer)
      BY <1>0, <2>2, Moves DEF At
    <3>2. upAge # None
      BY <2>2 DEF GraceInv, UpAfterClear
    <3>3. started[r].time <= upAge
      BY <1>0, <1>a, <3>1, <3>2
    <3>. QED
      BY <1>0, <3>1, <3>2, <3>3, RunKeeps DEF At
  <2>3. CASE ~inSync /\ ~Up /\ StartedAnswers(r, "dspmq", "notStarted")
    BY <1>0, <1>b, <2>3, Answers, RunKeeps DEF PastQuery, At, Answer
  <2>. QED
    BY <2>1, <2>2, <2>3
<1>3. CASE SyncFileExists(r)
  <2>. DEFINE to == IF syncFile = None THEN "create" ELSE "read"
  <2>1. to \in {"create", "read"}
    OBVIOUS
  <2>2. StartedStep(r, "exists", to)
    BY <1>3 DEF SyncFileExists
  <2>. HIDE DEF to
  <2>3. /\ started[r].at = "exists"
        /\ Becomes(r, to, started[r].time, started[r].answer)
    BY <1>0, <2>1, <2>2, Moves DEF At
  <2>. QED
    BY <1>0, <1>3, <2>1, <2>3, RunKeeps
    DEF SyncFileExists, qmVars, At, PastQuery
<1>4. CASE CreateSyncFile(r)
  <2>1. /\ started[r].at = "create"
        /\ Becomes(r, "write", started[r].time, started[r].answer)
    BY <1>0, <1>4, Moves, SMTT(60) DEF CreateSyncFile, At
  <2>2. syncFile' = Empty /\ Empty # None /\ Empty \notin Age
    BY <1>4, SMTT(60) DEF CreateSyncFile, Empty, None, Age
  <2>. QED
    BY <1>0, <1>4, <2>1, <2>2, RunKeeps
    DEF CreateSyncFile, qmVars, At, PastQuery
<1>5. CASE WriteSyncFile(r)
  <2>1. Becomes(r, "read", 0, "none")
    BY <1>0, <1>5, Resets DEF WriteSyncFile, At
  <2>2. upAge # None /\ 0 <= upAge
    BY <1>0, <1>5, <1>a DEF WriteSyncFile, PastQuery
  <2>3. syncFile' \in Age /\ syncFile' <= upAge
    BY <1>0, <1>5 DEF WriteSyncFile, PastQuery
  <2>4. None \notin Age
    BY DEF None, Age
  <2>. QED
    BY <1>5, <1>b, <2>1, <2>2, <2>3, <2>4, RunKeeps
    DEF WriteSyncFile, qmVars, At, Answer
<1>6. CASE ReadSyncFile(r)
  <2>. DEFINE a == CASE syncFile = None -> "notStarted"
                     [] syncFile = Empty -> "error"
                     [] syncFile = Timeout -> "expired"
                     [] OTHER -> "notStarted"
  <2>1. a \in Answer
    BY DEF Answer
  <2>2. a = "expired" => syncFile = Timeout
    OBVIOUS
  <2>3. StartedAnswers(r, "read", a)
    BY <1>6 DEF ReadSyncFile
  <2>. HIDE DEF a
  <2>4. started[r].at = "read" /\ Becomes(r, "idle", 0, a)
    BY <1>0, <2>1, <2>3, Answers DEF At
  <2>5. upAge # None /\ server = "starting"
    BY <1>0, <2>4 DEF PastQuery, GraceInv, UpAfterClear, TypeOK
  <2>6. a = "expired" => upAge = Timeout
    BY <1>a, <2>2, <2>5, TimeoutAssumption
    DEF GraceInv, FileAfterUp, TypeOK, Age, None
  <2>. QED
    BY <1>0, <1>6, <1>b, <2>1, <2>4, <2>6, RunKeeps
    DEF ReadSyncFile, qmVars, At, PastQuery
<1>7. CASE StartedFails(r)
  <2>1. Becomes(r, "idle", 0, "error")
    BY <1>0, <1>7, Answers DEF StartedFails, Answer
  <2>. QED
    BY <1>0, <1>7, <1>b, <2>1, RunKeeps
    DEF StartedFails, qmVars, At, Answer, PastQuery
<1>. QED
  BY <1>1, <1>2, <1>3, <1>4, <1>5, <1>6, <1>7

(* The inductive invariant holds of every behaviour.                       *)
THEOREM GraceInvariance == Spec => []GraceInv
<1>1. Init => GraceInv
  <2>. SUFFICES ASSUME Init PROVE GraceInv
    OBVIOUS
  <2>1. IdleRun \in StartedRun
    BY TimeoutAssumption DEF IdleRun, StartedRun, Age
  <2>2. \A r \in Runs : started[r] = IdleRun
    BY DEF Init
  <2>3. started \in [Runs -> StartedRun]
    BY <2>1 DEF Init
  <2>4. TypeOK
    BY <2>2, <2>3 DEF Init, TypeOK, Status, IdleRun
  <2>5. RunsAfterUp /\ GraceHeld
    BY <2>2 DEF RunsAfterUp, GraceHeld, IdleRun, PastQuery
  <2>6. UpAfterClear /\ FileAfterUp
    BY DEF Init, UpAfterClear, FileAfterUp, Up
  <2>. QED
    BY <2>4, <2>5, <2>6 DEF GraceInv
<1>2. GraceInv /\ [Next]_vars => GraceInv'
  <2>. SUFFICES ASSUME GraceInv, [Next]_vars PROVE GraceInv'
    OBVIOUS
  <2>1. CASE Next
    BY <2>1, OutsideStep, RunStep DEF Next
  <2>2. CASE UNCHANGED vars
    BY <2>2 DEF vars, qmVars, GraceInv, TypeOK, RunsAfterUp, UpAfterClear, Up,
                FileAfterUp, GraceHeld
  <2>. QED
    BY <2>1, <2>2
<1>. QED
  BY <1>1, <1>2, PTL DEF Spec

(* chkmqstarted answers that the time for replicas is over only when this  *)
(* start of the queue manager has been up for all of that time.            *)
THEOREM GraceIsHeld == Spec => []GraceHeld
BY GraceInvariance, PTL DEF GraceInv

(* Every variable of the probes keeps its type, and a run that is about to *)
(* write the file finds it there.                                          *)
THEOREM StartedTypes == Spec => []TypeOK
BY GraceInvariance, PTL DEF GraceInv
=============================================================================
