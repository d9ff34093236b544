------------------------- MODULE MultiInstance_proof -------------------------
(***************************************************************************)
(* The safety properties of MultiInstance, proved for any set of           *)
(* containers, any name of the queue manager and any number of kills,      *)
(* failures and stops.                                                     *)
(***************************************************************************)
EXTENDS MultiInstance, TLAPS

Creating(c) == stage[c] \in {"creating", "configuring"}

(* One container at most is inside crtmqm, and what the others have done   *)
(* to the shared storage fits how far it has come.                         *)
OneCreator ==
    /\ \A c, d \in Containers : Creating(c) /\ Creating(d) => c = d
    /\ \A c \in Containers : Creating(c) => created = "begun"
    /\ \A c \in Containers : stage[c] = "creating" => qmIni = "none"
    /\ created = "none" => qmIni = "none"
    /\ created = "begun" => damaged \/ \E c \in Containers : Creating(c)
    /\ created = "complete" => qmIni # "none"

(* updateQMini is past its read only with contents to write back, and an   *)
(* empty qm.ini has somebody who is about to write it.                     *)
RewritesKeepContents ==
    /\ \A c \in Containers :
         stage[c] \in {"rewriting", "truncated"} => saw[c] = "with stanza"
    /\ qmIni = "none" =>
         \A c \in Containers : stage[c] \notin {"configuring", "rewriting", "truncated"}
    /\ qmIni = "empty" => damaged \/ \E c \in Containers : stage[c] = "truncated"

IInv == TypeOK /\ OneCreator /\ RewritesKeepContents

(* The bound on disruptions is a number.                                   *)
LEMMA BoundType == MaxDisruptions \in Nat
BY InstanceAssumption

(* A disruption keeps their count within the bound.                        *)
LEMMA DisruptType ==
    ASSUME disruptions \in 0 .. MaxDisruptions, Disrupt
    PROVE  disruptions' \in 0 .. MaxDisruptions
BY BoundType DEF Disrupt

(* Every step of every container keeps every variable in its type.         *)
LEMMA TypeStep ==
    TypeOK /\ RewritesKeepContents /\ [Next]_vars => TypeOK'
<1>. SUFFICES ASSUME TypeOK, RewritesKeepContents, [Next]_vars
              PROVE  TypeOK'
  OBVIOUS
<1>. USE DEF TypeOK, Paths, Contents, Running, Status, At, Go, shared
<1>1. ASSUME NEW c \in Containers, Detected(c) PROVE TypeOK'
  BY <1>1 DEF Detected
<1>2. ASSUME NEW c \in Containers, NotDetected(c) PROVE TypeOK'
  <2>1. disruptions' \in 0 .. MaxDisruptions
    BY <1>2, DisruptType DEF NotDetected
  <2>. QED  BY <1>2, <2>1 DEF NotDetected
<1>3. ASSUME NEW c \in Containers, StatQMIni(c) PROVE TypeOK'
  <2>1. disruptions' \in 0 .. MaxDisruptions
    BY <1>3, DisruptType DEF StatQMIni
  <2>. QED  BY <1>3, <2>1 DEF StatQMIni
<1>4. ASSUME NEW c \in Containers, Crtmqm(c) PROVE TypeOK'
  BY <1>4, ZenonT(60) DEF Crtmqm
<1>5. ASSUME NEW c \in Containers, CrtmqmWritesIni(c) PROVE TypeOK'
  BY <1>5 DEF CrtmqmWritesIni
<1>6. ASSUME NEW c \in Containers, CrtmqmEnds(c) PROVE TypeOK'
  BY <1>6 DEF CrtmqmEnds
<1>7. ASSUME NEW c \in Containers, Addmqinf(c) PROVE TypeOK'
  BY <1>7, ZenonT(60) DEF Addmqinf
<1>8. ASSUME NEW c \in Containers, ReadQMIni(c) PROVE TypeOK'
  BY <1>8 DEF ReadQMIni, Rewritten
<1>9. ASSUME NEW c \in Containers, TruncateQMIni(c) PROVE TypeOK'
  BY <1>9 DEF TruncateQMIni
<1>10. ASSUME NEW c \in Containers, WriteQMIni(c) PROVE TypeOK'
  <2>1. qmIni' = "without stanza"
    BY <1>10 DEF WriteQMIni, RewritesKeepContents
  <2>. QED  BY <1>10, <2>1 DEF WriteQMIni
<1>11. ASSUME NEW c \in Containers, Strmqm(c) PROVE TypeOK'
  BY <1>11, ZenonT(60) DEF Strmqm, CanStart
<1>12. ASSUME NEW c \in Containers, ReadStatus(c) PROVE TypeOK'
  BY <1>12 DEF ReadStatus
<1>13. ASSUME NEW c \in Containers, Endmqm(c) PROVE TypeOK'
  BY <1>13 DEF Endmqm, EndmqmArgs
<1>14. ASSUME NEW c \in Containers, Exit(c) PROVE TypeOK'
  BY <1>14 DEF Exit, Gone
<1>15. ASSUME NEW c \in Containers, Boot(c) PROVE TypeOK'
  BY <1>15 DEF Boot
<1>16. ASSUME NEW c \in Containers, TakeOver(c) PROVE TypeOK'
  BY <1>16 DEF TakeOver
<1>17. ASSUME NEW c \in Containers, StopRequested(c) PROVE TypeOK'
  <2>1. disruptions' \in 0 .. MaxDisruptions
    BY <1>17, DisruptType DEF StopRequested
  <2>. QED  BY <1>17, <2>1 DEF StopRequested
<1>18. ASSUME NEW c \in Containers, CommandFails(c) PROVE TypeOK'
  <2>1. disruptions' \in 0 .. MaxDisruptions
    BY <1>18, DisruptType DEF CommandFails
  <2>. QED  BY <1>18, <2>1 DEF CommandFails
<1>19. ASSUME NEW c \in Containers, Kill(c) PROVE TypeOK'
  <2>1. disruptions' \in 0 .. MaxDisruptions
    BY <1>19, DisruptType DEF Kill
  <2>2. damaged' \in BOOLEAN
    BY <1>19, Zenon DEF Kill
  <2>. QED  BY <1>19, <2>1, <2>2 DEF Kill, Gone
<1>21. ASSUME NEW c \in Containers, WriteFails(c) PROVE TypeOK'
  <2>1. disruptions' \in 0 .. MaxDisruptions
    BY <1>21, DisruptType DEF WriteFails
  <2>2. damaged' \in BOOLEAN
    BY <1>21, Zenon DEF WriteFails
  <2>. QED  BY <1>21, <2>1, <2>2 DEF WriteFails
<1>20. CASE UNCHANGED vars
  BY <1>20 DEF vars
<1>. QED
  BY <1>1, <1>2, <1>3, <1>4, <1>5, <1>6, <1>7, <1>8, <1>9, <1>10, <1>11,
     <1>12, <1>13, <1>14, <1>15, <1>16, <1>17, <1>18, <1>19, <1>20, <1>21
  DEF Next, ContainerNext

(* No step lets a second container into crtmqm.                            *)
LEMMA OneCreatorStep ==
    IInv /\ [Next]_vars => OneCreator'
<1>. SUFFICES ASSUME IInv, [Next]_vars
              PROVE  OneCreator'
  OBVIOUS
<1>. USE DEF IInv, OneCreator, RewritesKeepContents, Creating, TypeOK,
         Paths, Contents, Running, Status, At, Go, shared
<1>1. ASSUME NEW c \in Containers, Detected(c) PROVE OneCreator'
  BY <1>1, ZenonT(60) DEF Detected
<1>2. ASSUME NEW c \in Containers, NotDetected(c) PROVE OneCreator'
  BY <1>2, ZenonT(60) DEF NotDetected, Disrupt
<1>3. ASSUME NEW c \in Containers, StatQMIni(c) PROVE OneCreator'
  BY <1>3, ZenonT(60) DEF StatQMIni, Disrupt
<1>4. ASSUME NEW c \in Containers, Crtmqm(c) PROVE OneCreator'
  BY <1>4, ZenonT(60) DEF Crtmqm
<1>5. ASSUME NEW c \in Containers, CrtmqmWritesIni(c) PROVE OneCreator'
  BY <1>5, ZenonT(60) DEF CrtmqmWritesIni
<1>6. ASSUME NEW c \in Containers, CrtmqmEnds(c) PROVE OneCreator'
  <2>1. \A d \in Containers : ~Creating(d)'
    <3>. SUFFICES ASSUME NEW d \in Containers, Creating(d)' PROVE FALSE
      OBVIOUS
    <3>1. d # c
      BY <1>6 DEF CrtmqmEnds
    <3>2. Creating(d)
      BY <1>6, <3>1 DEF CrtmqmEnds
    <3>. QED  BY <1>6, <3>1, <3>2 DEF CrtmqmEnds
  <2>2. qmIni' # "none"
    BY <1>6 DEF CrtmqmEnds
  <2>. QED  BY <1>6, <2>1, <2>2 DEF CrtmqmEnds
<1>7. ASSUME NEW c \in Containers, Addmqinf(c) PROVE OneCreator'
  <2>1. \A d \in Containers : stage'[d] = stage[d] \/ d = c
    BY <1>7 DEF Addmqinf
  <2>2. ~Creating(c) /\ ~Creating(c)'
    BY <1>7 DEF Addmqinf
  <2>3. UNCHANGED <<created, qmIni, damaged>>
    BY <1>7 DEF Addmqinf
  <2>. QED  BY <2>1, <2>2, <2>3, ZenonT(60)
<1>8. ASSUME NEW c \in Containers, ReadQMIni(c) PROVE OneCreator'
  BY <1>8, ZenonT(60) DEF ReadQMIni, Rewritten
<1>9. ASSUME NEW c \in Containers, TruncateQMIni(c) PROVE OneCreator'
  BY <1>9, ZenonT(60) DEF TruncateQMIni
<1>10. ASSUME NEW c \in Containers, WriteQMIni(c) PROVE OneCreator'
  BY <1>10, ZenonT(60) DEF WriteQMIni
<1>11. ASSUME NEW c \in Containers, Strmqm(c) PROVE OneCreator'
  BY <1>11, ZenonT(60) DEF Strmqm, CanStart
<1>12. ASSUME NEW c \in Containers, ReadStatus(c) PROVE OneCreator'
  BY <1>12, ZenonT(60) DEF ReadStatus
<1>13. ASSUME NEW c \in Containers, Endmqm(c) PROVE OneCreator'
  BY <1>13, ZenonT(60) DEF Endmqm, EndmqmArgs
<1>14. ASSUME NEW c \in Containers, Exit(c) PROVE OneCreator'
  BY <1>14, ZenonT(60) DEF Exit, Gone
<1>15. ASSUME NEW c \in Containers, Boot(c) PROVE OneCreator'
  BY <1>15, ZenonT(60) DEF Boot
<1>16. ASSUME NEW c \in Containers, TakeOver(c) PROVE OneCreator'
  BY <1>16 DEF TakeOver
<1>17. ASSUME NEW c \in Containers, StopRequested(c) PROVE OneCreator'
  BY <1>17, ZenonT(60) DEF StopRequested, Disrupt
<1>18. ASSUME NEW c \in Containers, CommandFails(c) PROVE OneCreator'
  BY <1>18, ZenonT(60) DEF CommandFails, Disrupt
<1>19. ASSUME NEW c \in Containers, Kill(c) PROVE OneCreator'
  BY <1>19, ZenonT(60) DEF Kill, Gone, Writing, Disrupt
<1>21. ASSUME NEW c \in Containers, WriteFails(c) PROVE OneCreator'
  BY <1>21, ZenonT(60) DEF WriteFails, Writing, Disrupt
<1>20. CASE UNCHANGED vars
  BY <1>20 DEF vars
<1>. QED
  BY <1>1, <1>2, <1>3, <1>4, <1>5, <1>6, <1>7, <1>8, <1>9, <1>10, <1>11,
     <1>12, <1>13, <1>14, <1>15, <1>16, <1>17, <1>18, <1>19, <1>20, <1>21
  DEF Next, ContainerNext

(* No step leaves qm.ini empty with nobody to write it, or writes nothing. *)
LEMMA RewritesStep ==
    IInv /\ [Next]_vars => RewritesKeepContents'
<1>. SUFFICES ASSUME IInv, [Next]_vars
              PROVE  RewritesKeepContents'
  OBVIOUS
<1>. USE DEF IInv, OneCreator, RewritesKeepContents, Creating, TypeOK,
         Paths, Contents, Running, Status, At, Go, shared
<1>1. ASSUME NEW c \in Containers, Detected(c) PROVE RewritesKeepContents'
  BY <1>1 DEF Detected
<1>2. ASSUME NEW c \in Containers, NotDetected(c) PROVE RewritesKeepContents'
  BY <1>2 DEF NotDetected, Disrupt
<1>3. ASSUME NEW c \in Containers, StatQMIni(c) PROVE RewritesKeepContents'
  BY <1>3 DEF StatQMIni, Disrupt
<1>4. ASSUME NEW c \in Containers, Crtmqm(c) PROVE RewritesKeepContents'
  BY <1>4, ZenonT(60) DEF Crtmqm
<1>5. ASSUME NEW c \in Containers, CrtmqmWritesIni(c) PROVE RewritesKeepContents'
  BY <1>5 DEF CrtmqmWritesIni
<1>6. ASSUME NEW c \in Containers, CrtmqmEnds(c) PROVE RewritesKeepContents'
  BY <1>6 DEF CrtmqmEnds
<1>7. ASSUME NEW c \in Containers, Addmqinf(c) PROVE RewritesKeepContents'
  BY <1>7, ZenonT(60) DEF Addmqinf
<1>8. ASSUME NEW c \in Containers, ReadQMIni(c) PROVE RewritesKeepContents'
  BY <1>8 DEF ReadQMIni, Rewritten
<1>9. ASSUME NEW c \in Containers, TruncateQMIni(c) PROVE RewritesKeepContents'
  BY <1>9 DEF TruncateQMIni
<1>10. ASSUME NEW c \in Containers, WriteQMIni(c) PROVE RewritesKeepContents'
  BY <1>10 DEF WriteQMIni
<1>11. ASSUME NEW c \in Containers, Strmqm(c) PROVE RewritesKeepContents'
  BY <1>11, ZenonT(60) DEF Strmqm, CanStart
<1>12. ASSUME NEW c \in Containers, ReadStatus(c) PROVE RewritesKeepContents'
  BY <1>12 DEF ReadStatus
<1>13. ASSUME NEW c \in Containers, Endmqm(c) PROVE RewritesKeepContents'
  BY <1>13 DEF Endmqm, EndmqmArgs
<1>14. ASSUME NEW c \in Containers, Exit(c) PROVE RewritesKeepContents'
  BY <1>14 DEF Exit, Gone
<1>15. ASSUME NEW c \in Containers, Boot(c) PROVE RewritesKeepContents'
  BY <1>15 DEF Boot
<1>16. ASSUME NEW c \in Containers, TakeOver(c) PROVE RewritesKeepContents'
  BY <1>16 DEF TakeOver
<1>17. ASSUME NEW c \in Containers, StopRequested(c) PROVE RewritesKeepContents'
  BY <1>17 DEF StopRequested, Disrupt
<1>18. ASSUME NEW c \in Containers, CommandFails(c) PROVE RewritesKeepContents'
  BY <1>18 DEF CommandFails, Disrupt
<1>19. ASSUME NEW c \in Containers, Kill(c) PROVE RewritesKeepContents'
  BY <1>19 DEF Kill, Gone, Writing, Disrupt
<1>21. ASSUME NEW c \in Containers, WriteFails(c) PROVE RewritesKeepContents'
  BY <1>21 DEF WriteFails, Writing, Disrupt
<1>20. CASE UNCHANGED vars
  BY <1>20 DEF vars
<1>. QED
  BY <1>1, <1>2, <1>3, <1>4, <1>5, <1>6, <1>7, <1>8, <1>9, <1>10, <1>11,
     <1>12, <1>13, <1>14, <1>15, <1>16, <1>17, <1>18, <1>19, <1>20, <1>21
  DEF Next, ContainerNext

(* No step of one container ends the instance of another.                  *)
LEMMA OthersStep ==
    MQ_MULTI_INSTANCE /\ TypeOK /\ OthersKeepRunning /\ [Next]_vars
        => OthersKeepRunning'
<1>. SUFFICES ASSUME MQ_MULTI_INSTANCE, TypeOK, OthersKeepRunning,
                    [Next]_vars
              PROVE  OthersKeepRunning'
  OBVIOUS
<1>. USE DEF OthersKeepRunning, TypeOK, Paths, Contents, Running, Status,
         At, Go, shared
<1>1. ASSUME NEW c \in Containers, Detected(c) PROVE OthersKeepRunning'
  BY <1>1 DEF Detected
<1>2. ASSUME NEW c \in Containers, NotDetected(c) PROVE OthersKeepRunning'
  BY <1>2 DEF NotDetected, Disrupt
<1>3. ASSUME NEW c \in Containers, StatQMIni(c) PROVE OthersKeepRunning'
  BY <1>3 DEF StatQMIni, Disrupt
<1>4. ASSUME NEW c \in Containers, Crtmqm(c) PROVE OthersKeepRunning'
  BY <1>4 DEF Crtmqm
<1>5. ASSUME NEW c \in Containers, CrtmqmWritesIni(c) PROVE OthersKeepRunning'
  BY <1>5 DEF CrtmqmWritesIni
<1>6. ASSUME NEW c \in Containers, CrtmqmEnds(c) PROVE OthersKeepRunning'
  BY <1>6 DEF CrtmqmEnds
<1>7. ASSUME NEW c \in Containers, Addmqinf(c) PROVE OthersKeepRunning'
  BY <1>7 DEF Addmqinf
<1>8. ASSUME NEW c \in Containers, ReadQMIni(c) PROVE OthersKeepRunning'
  BY <1>8 DEF ReadQMIni, Rewritten
<1>9. ASSUME NEW c \in Containers, TruncateQMIni(c) PROVE OthersKeepRunning'
  BY <1>9 DEF TruncateQMIni
<1>10. ASSUME NEW c \in Containers, WriteQMIni(c) PROVE OthersKeepRunning'
  BY <1>10 DEF WriteQMIni
<1>11. ASSUME NEW c \in Containers, Strmqm(c) PROVE OthersKeepRunning'
  BY <1>11, ZenonT(60) DEF Strmqm, CanStart
<1>12. ASSUME NEW c \in Containers, ReadStatus(c) PROVE OthersKeepRunning'
  BY <1>12 DEF ReadStatus
<1>13. ASSUME NEW c \in Containers, Endmqm(c) PROVE OthersKeepRunning'
  BY <1>13 DEF Endmqm, EndmqmArgs
<1>14. ASSUME NEW c \in Containers, Exit(c) PROVE OthersKeepRunning'
  BY <1>14 DEF Exit, Gone
<1>15. ASSUME NEW c \in Containers, Boot(c) PROVE OthersKeepRunning'
  BY <1>15 DEF Boot
<1>16. ASSUME NEW c \in Containers, TakeOver(c) PROVE OthersKeepRunning'
  BY <1>16 DEF TakeOver
<1>17. ASSUME NEW c \in Containers, StopRequested(c) PROVE OthersKeepRunning'
  BY <1>17 DEF StopRequested, Disrupt
<1>18. ASSUME NEW c \in Containers, CommandFails(c) PROVE OthersKeepRunning'
  BY <1>18 DEF CommandFails, Disrupt
<1>19. ASSUME NEW c \in Containers, Kill(c) PROVE OthersKeepRunning'
  BY <1>19 DEF Kill, Gone, Writing, Disrupt
<1>21. ASSUME NEW c \in Containers, WriteFails(c) PROVE OthersKeepRunning'
  BY <1>21 DEF WriteFails, Writing, Disrupt
<1>20. CASE UNCHANGED vars
  BY <1>20 DEF vars
<1>. QED
  BY <1>1, <1>2, <1>3, <1>4, <1>5, <1>6, <1>7, <1>8, <1>9, <1>10, <1>11,
     <1>12, <1>13, <1>14, <1>15, <1>16, <1>17, <1>18, <1>19, <1>20, <1>21
  DEF Next, ContainerNext

(* The inductive invariant holds of every behaviour.                       *)
THEOREM Invariance == Spec => []IInv
<1>1. Init => IInv
  <2>. SUFFICES ASSUME Init PROVE IInv
    OBVIOUS
  <2>. USE DEF Init
  <2>1. damaged \in BOOLEAN
    BY Zenon
  <2>2. TypeOK
    BY <2>1, InstanceAssumption DEF TypeOK, Contents, Running, Status, Paths
  <2>3. OneCreator /\ RewritesKeepContents
    BY DEF OneCreator, RewritesKeepContents, Creating
  <2>. QED  BY <2>2, <2>3 DEF IInv
<1>2. IInv /\ [Next]_vars => IInv'
  BY TypeStep, OneCreatorStep, RewritesStep DEF IInv
<1>. QED  BY <1>1, <1>2, PTL DEF Spec

(* However many containers race to create the queue manager and to rewrite *)
(* its qm.ini, the shared storage is whole whenever none of them is in the *)
(* middle of writing, unless one was killed or has failed there.           *)
THEOREM StorageStaysWhole == Spec => []StorageWhole
<1>1. IInv => StorageWhole
  BY DEF IInv, OneCreator, RewritesKeepContents, Creating, Writing, StorageWhole,
         TypeOK, Contents
<1>. QED  BY <1>1, Invariance, PTL

(* In a multi-instance configuration, for any number of instances,         *)
(* stopQueueManager never ends the instance of another container, however  *)
(* stale the status it has read.                                           *)
THEOREM OthersAreKept ==
    ASSUME MQ_MULTI_INSTANCE
    PROVE  Spec => []OthersKeepRunning
<1>1. Init => OthersKeepRunning
  BY DEF Init, OthersKeepRunning
<1>2. TypeOK /\ OthersKeepRunning /\ [Next]_vars => OthersKeepRunning'
  BY OthersStep
<1>3. IInv => TypeOK
  BY DEF IInv
<1>. QED  BY <1>1, <1>2, <1>3, Invariance, PTL DEF Spec

(* A name without the characters that replaceCharsInQMName replaces is its *)
(* own directory's, and every instance is registered where the data are.   *)
THEOREM PlainNamesFindData ==
    ASSUME \A i \in DOMAIN QMName : QMName[i] \notin {".", "/"}
    PROVE  Spec => []StandbyFindsData
<1>1. DataDir = QMName
  BY InstanceAssumption DEF DataDir, replaceCharsInQMName
<1>2. Init => StandbyFindsData
  BY DEF Init, StandbyFindsData
<1>3. TypeOK /\ StandbyFindsData /\ [Next]_vars => StandbyFindsData'
  <2>. SUFFICES ASSUME TypeOK, StandbyFindsData, [Next]_vars
                PROVE  StandbyFindsData'
    OBVIOUS
  <2>1. \A c \in Containers :
          registered'[c] \in {registered[c], NoPath, DataDir, StandbyDataPath}
    BY ZenonT(60) DEF TypeOK, Next, ContainerNext, vars, shared, Detected, NotDetected,
           StatQMIni, Crtmqm, CrtmqmWritesIni, CrtmqmEnds, Addmqinf, ReadQMIni,
           TruncateQMIni, WriteQMIni, Strmqm, ReadStatus, Endmqm, Exit, Boot,
           TakeOver, StopRequested, CommandFails, WriteFails, Kill
  <2>. QED  BY <1>1, <2>1 DEF StandbyFindsData, StandbyDataPath
<1>4. IInv => TypeOK
  BY DEF IInv
<1>. QED  BY <1>2, <1>3, <1>4, Invariance, PTL DEF Spec
============================================================================
