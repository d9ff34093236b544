----------------------------- MODULE Parts_proof -----------------------------
(***************************************************************************)
(* Proofs about the parts of the container that keep no state in common:   *)
(* the readiness and liveness probes, the redaction of MQSC, the developer *)
(* image, and the certificate monitor of the metrics server.               *)
(***************************************************************************)
EXTENDS CertMonitor, ReadyProbe, Redaction, Developer, TLAPS

----------------------------------------------------------------------------
(* The probes.                                                             *)

(* A ready file, once ready.Clear has run, is this start's; a run of       *)
(* chkmqready that began after ready.Clear and found one did so after      *)
(* ready.Set; chkmqhealthy calls dead only a status that is not among its  *)
(* strings, and chkmqready calls good only one that is.                    *)
FileIsThisStarts == readyFile /\ server # "booting" => server = "configured"

FreshProbe ==
    /\ probe.fresh => server # "booting"
    /\ probe.fresh /\ probe.at \in {"status", "port"} => server = "configured"
    /\ probe.fresh /\ readyRC \in {0, 10, 20} => server = "configured"

Verdicts ==
    /\ healthRC = 1 => qm \notin HealthyStrings
    /\ readyRC \in {0, 10, 20} => probe.saw \in HealthyStrings
    /\ probe.at # "idle" => readyRC = None

ReadyInv == ReadyTypeOK /\ FileIsThisStarts /\ FreshProbe /\ Verdicts

(* Every step keeps every variable in its type.                            *)
LEMMA ReadyTypeStep ==
    ReadyTypeOK /\ [ReadyNext]_readyVars => ReadyTypeOK'
<1>. SUFFICES ASSUME ReadyTypeOK, [ReadyNext]_readyVars
              PROVE  ReadyTypeOK'
  OBVIOUS
<1>. USE RestartsAssumption DEF ReadyTypeOK, serverVars
<1>1. CASE ClearReady
  <2>1. readyFile' \in BOOLEAN
    BY <1>1, Zenon DEF ClearReady
  <2>. QED  BY <1>1, <2>1 DEF ClearReady
<1>2. CASE StartQM
  BY <1>2, ZenonT(60) DEF StartQM, Status
<1>3. CASE SetReady
  <2>1. readyFile' \in BOOLEAN
    BY <1>3, Zenon DEF SetReady
  <2>. QED  BY <1>3, <2>1 DEF SetReady
<1>4. CASE Restart
  <2>1. listening' \in BOOLEAN
    BY <1>4, Zenon DEF Restart
  <2>2. /\ probe' \in [at : {"idle", "check", "status", "port"},
                     saw : Status \union {NotRun}, fresh : BOOLEAN]
        /\ probe'.at # "port"
    BY <1>4 DEF Restart, IdleProbe
  <2>3. /\ life' \in 0 .. MaxRestarts
        /\ server' = "booting" /\ qm' = "ENDED"
        /\ readyRC' = None /\ healthRC' = None /\ UNCHANGED readyFile
    BY <1>4 DEF Restart
  <2>. QED  BY <2>1, <2>2, <2>3 DEF Status
<1>5. CASE QMChanges
  BY <1>5, ZenonT(60) DEF QMChanges
<1>6. CASE ProbeBegins
  BY <1>6 DEF ProbeBegins
<1>7. CASE CheckReady
  BY <1>7, ZenonT(60) DEF CheckReady, ProbeGoesOn, ProbeAnswers
<1>8. CASE Query
  BY <1>8, ZenonT(60) DEF Query, QMStatus, ProbeGoesOn, ProbeAnswers
<1>9. CASE QueryFails
  BY <1>9 DEF QueryFails, ProbeAnswers
<1>10. CASE CheckPort
  BY <1>10 DEF CheckPort, ProbeAnswers
<1>11. CASE CheckHealth
  BY <1>11 DEF CheckHealth
<1>12. CASE UNCHANGED readyVars
  BY <1>12 DEF readyVars
<1>. QED
  BY <1>1, <1>2, <1>3, <1>4, <1>5, <1>6, <1>7, <1>8, <1>9, <1>10, <1>11,
     <1>12
  DEF ReadyNext

(* No answer is an answer.                                                 *)
LEMMA NoneIsNoAnswer == None \notin {0, 1, 2, 10, 20}
BY DEF None

(* Only ready.Set makes a ready file.                                       *)
LEMMA FileStep ==
    ReadyTypeOK /\ FileIsThisStarts /\ [ReadyNext]_readyVars
        => FileIsThisStarts'
<1>. SUFFICES ASSUME ReadyTypeOK, FileIsThisStarts, [ReadyNext]_readyVars
              PROVE  FileIsThisStarts'
  OBVIOUS
<1>. USE NoneIsNoAnswer DEF FileIsThisStarts, serverVars
<1>. server \in {"booting", "cleared", "starting", "configured"}
  BY DEF ReadyTypeOK
<1>. probe \in [at : {"idle", "check", "status", "port"},
               saw : Status \union {NotRun}, fresh : BOOLEAN]
  BY DEF ReadyTypeOK
<1>1. CASE ClearReady
  BY <1>1 DEF ClearReady
<1>2. CASE StartQM
  BY <1>2 DEF StartQM
<1>3. CASE SetReady
  BY <1>3 DEF SetReady
<1>4. CASE Restart
  BY <1>4 DEF Restart, IdleProbe
<1>5. CASE QMChanges
  BY <1>5 DEF QMChanges
<1>6. CASE ProbeBegins
  BY <1>6 DEF ProbeBegins
<1>7. CASE CheckReady
  BY <1>7 DEF CheckReady, ProbeGoesOn, ProbeAnswers
<1>8. CASE Query
  BY <1>8 DEF Query, ProbeGoesOn, ProbeAnswers
<1>9. CASE QueryFails
  BY <1>9 DEF QueryFails, ProbeAnswers
<1>10. CASE CheckPort
  BY <1>10 DEF CheckPort, ProbeAnswers
<1>11. CASE CheckHealth
  BY <1>11 DEF CheckHealth
<1>12. CASE UNCHANGED readyVars
  BY <1>12 DEF readyVars
<1>. QED
  BY <1>1, <1>2, <1>3, <1>4, <1>5, <1>6, <1>7, <1>8, <1>9, <1>10, <1>11,
     <1>12
  DEF ReadyNext

(* A fresh probe gets past ready.Check only on this start's file.           *)
LEMMA FreshStep ==
    ReadyTypeOK /\ FileIsThisStarts /\ FreshProbe /\ [ReadyNext]_readyVars
        => FreshProbe'
<1>. SUFFICES ASSUME ReadyTypeOK, FileIsThisStarts, FreshProbe,
                    [ReadyNext]_readyVars
              PROVE  FreshProbe'
  OBVIOUS
<1>. USE NoneIsNoAnswer DEF FileIsThisStarts, FreshProbe, serverVars
<1>. server \in {"booting", "cleared", "starting", "configured"}
  BY DEF ReadyTypeOK
<1>. probe \in [at : {"idle", "check", "status", "port"},
               saw : Status \union {NotRun}, fresh : BOOLEAN]
  BY DEF ReadyTypeOK
<1>1. CASE ClearReady
  BY <1>1 DEF ClearReady
<1>2. CASE StartQM
  BY <1>2 DEF StartQM
<1>3. CASE SetReady
  BY <1>3 DEF SetReady
<1>4. CASE Restart
  BY <1>4 DEF Restart, IdleProbe
<1>5. CASE QMChanges
  BY <1>5 DEF QMChanges
<1>6. CASE ProbeBegins
  <2>1. probe'.at = "check" /\ readyRC' = None /\ UNCHANGED server
    BY <1>6 DEF ProbeBegins
  <2>2. probe'.fresh => server # "booting"
    BY <1>6 DEF ProbeBegins
  <2>. QED  BY <2>1, <2>2
<1>7. CASE CheckReady
  <2>1. probe'.fresh = probe.fresh /\ UNCHANGED <<server, readyFile>>
    BY <1>7 DEF CheckReady, ProbeGoesOn, ProbeAnswers
  <2>2. CASE readyFile
    <3>1. UNCHANGED readyRC
      BY <1>7, <2>2 DEF CheckReady, ProbeGoesOn
    <3>2. probe.fresh => server = "configured"
      BY <2>2
    <3>. QED  BY <2>1, <3>1, <3>2
  <2>3. CASE ~readyFile
    <3>1. readyRC' = 1 /\ probe'.at = "idle"
      BY <1>7, <2>3 DEF CheckReady, ProbeAnswers
    <3>. QED  BY <2>1, <3>1
  <2>. QED  BY <2>2, <2>3
<1>8. CASE Query
  BY <1>8 DEF Query, ProbeGoesOn, ProbeAnswers
<1>9. CASE QueryFails
  BY <1>9 DEF QueryFails, ProbeAnswers
<1>10. CASE CheckPort
  BY <1>10 DEF CheckPort, ProbeAnswers
<1>11. CASE CheckHealth
  BY <1>11 DEF CheckHealth
<1>12. CASE UNCHANGED readyVars
  BY <1>12 DEF readyVars
<1>. QED
  BY <1>1, <1>2, <1>3, <1>4, <1>5, <1>6, <1>7, <1>8, <1>9, <1>10, <1>11,
     <1>12
  DEF ReadyNext

(* Every answer fits the status it is about.                                *)
LEMMA VerdictStep ==
    ReadyTypeOK /\ Verdicts /\ [ReadyNext]_readyVars => Verdicts'
<1>. SUFFICES ASSUME ReadyTypeOK, Verdicts, [ReadyNext]_readyVars
              PROVE  Verdicts'
  OBVIOUS
<1>. USE NoneIsNoAnswer DEF Verdicts, serverVars
<1>. server \in {"booting", "cleared", "starting", "configured"}
  BY DEF ReadyTypeOK
<1>. probe \in [at : {"idle", "check", "status", "port"},
               saw : Status \union {NotRun}, fresh : BOOLEAN]
  BY DEF ReadyTypeOK
<1>1. CASE ClearReady
  BY <1>1 DEF ClearReady
<1>2. CASE StartQM
  BY <1>2 DEF StartQM
<1>3. CASE SetReady
  BY <1>3 DEF SetReady
<1>4. CASE Restart
  BY <1>4 DEF Restart, IdleProbe
<1>5. CASE QMChanges
  BY <1>5 DEF QMChanges
<1>6. CASE ProbeBegins
  <2>1. readyRC' = None /\ UNCHANGED <<qm, healthRC>>
    BY <1>6 DEF ProbeBegins
  <2>. QED  BY <2>1
<1>7. CASE CheckReady
  <2>1. readyRC' \in {None, 1} /\ UNCHANGED <<qm, healthRC>>
    BY <1>7 DEF CheckReady, ProbeGoesOn, ProbeAnswers
  <2>2. probe'.at = "idle" \/ readyRC' = None
    BY <1>7 DEF CheckReady, ProbeGoesOn, ProbeAnswers
  <2>. QED  BY <2>1, <2>2
<1>8. CASE Query
  <2>1. UNCHANGED <<qm, healthRC>>
    BY <1>8 DEF Query
  <2>2. CASE QMStatus = "active"
    <3>1. readyRC' = None
      BY <1>8, <2>2 DEF Query, ProbeGoesOn
    <3>. QED  BY <2>1, <3>1
  <2>3. CASE QMStatus # "active"
    <3>1. probe'.at = "idle" /\ probe'.saw = qm
      BY <1>8, <2>3 DEF Query, ProbeAnswers
    <3>2. readyRC' \in {0, 10, 20} => QMStatus \in {"recovery", "standby"}
      BY <1>8, <2>3 DEF Query, ProbeAnswers
    <3>3. QMStatus \in {"recovery", "standby"} => qm \in HealthyStrings
      BY DEF QMStatus, HealthyStrings
    <3>. QED  BY <2>1, <3>1, <3>2, <3>3
  <2>. QED  BY <2>2, <2>3
<1>9. CASE QueryFails
  <2>1. readyRC' \in {None, 1} /\ UNCHANGED <<qm, healthRC>>
    BY <1>9 DEF QueryFails, ProbeAnswers
  <2>2. probe'.at = "idle" \/ readyRC' = None
    BY <1>9 DEF QueryFails, ProbeAnswers
  <2>. QED  BY <2>1, <2>2
<1>10. CASE CheckPort
  <2>1. probe'.at = "idle" /\ probe'.saw = "RUNNING"
    BY <1>10 DEF CheckPort, ProbeAnswers, ReadyTypeOK
  <2>2. UNCHANGED <<qm, healthRC>>
    BY <1>10 DEF CheckPort
  <2>. QED  BY <2>1, <2>2 DEF HealthyStrings
<1>11. CASE CheckHealth
  BY <1>11 DEF CheckHealth
<1>12. CASE UNCHANGED readyVars
  BY <1>12 DEF readyVars
<1>. QED
  BY <1>1, <1>2, <1>3, <1>4, <1>5, <1>6, <1>7, <1>8, <1>9, <1>10, <1>11,
     <1>12
  DEF ReadyNext

(* The invariant of the probes, for any number of restarts.                *)
THEOREM ReadyInvariance == ReadySpec => []ReadyInv
<1>1. ReadyInit => ReadyInv
  <2>. SUFFICES ASSUME ReadyInit PROVE ReadyInv
    OBVIOUS
  <2>1. listening \in BOOLEAN /\ readyFile \in BOOLEAN
    BY Zenon DEF ReadyInit
  <2>2. ReadyTypeOK
    BY <2>1, RestartsAssumption
    DEF ReadyInit, ReadyTypeOK, IdleProbe, Status
  <2>3. FileIsThisStarts /\ FreshProbe /\ Verdicts
    BY NoneIsNoAnswer
    DEF ReadyInit, FileIsThisStarts, FreshProbe, Verdicts, IdleProbe
  <2>. QED  BY <2>2, <2>3 DEF ReadyInv
<1>2. ReadyInv /\ [ReadyNext]_readyVars => ReadyInv'
  BY ReadyTypeStep, FileStep, FreshStep, VerdictStep DEF ReadyInv
<1>. QED  BY <1>1, <1>2, PTL DEF ReadySpec

(* A probe that began after ready.Clear answers that the queue manager is  *)
(* there only if this start of the container has configured it, however    *)
(* often the container was restarted and whatever file was left behind.    *)
THEOREM ReadyIsConfigured == ReadySpec => []ReadyMeansConfigured
<1>1. ReadyInv => ReadyMeansConfigured
  BY DEF ReadyInv, FreshProbe, ReadyMeansConfigured
<1>. QED  BY <1>1, ReadyInvariance, PTL

(* What chkmqready reported as good is not reported as dead by             *)
(* chkmqhealthy while it lasts.                                            *)
THEOREM ReadyIsNotDead == ReadySpec => []ProbesAgree
<1>1. ReadyInv => ProbesAgree
  BY DEF ReadyInv, Verdicts, ProbesAgree
<1>. QED  BY <1>1, ReadyInvariance, PTL

----------------------------------------------------------------------------
(* The redaction of MQSC.                                                  *)

(* What is known of a name, the text and the scanner.                      *)
Verbs == {"other", "PASS", "sensitive"}
TextType ==
    [at : {"line start", "line", "continued", "comment", "value start", "value",
           "value comment", "string start", "string", "string comment"},
     quote : Quotes, name : Verbs, named : BOOLEAN, gap : BOOLEAN,
     secret : BOOLEAN, sinceValue : BOOLEAN, misled : BOOLEAN]

ScanType ==
    [mode : {"main", "comment", "parameter", "string", "string line",
             "string comment"},
     verb : Verbs, lineContinuation : BOOLEAN, foundGap : BOOLEAN,
     redacting : BOOLEAN, checkComment : BOOLEAN, newline : BOOLEAN,
     denoter : Quotes]

(* Both automata are in one of their states.                               *)
RedactionTypeOK == text \in TextType /\ scan \in ScanType

(* The scanner is where the text is...                                     *)
Between == text.at \in {"line start", "line", "continued", "comment"}

InStep ==
    /\ text.at = "line start" => /\ scan.mode = "main" /\ scan.newline
                                 /\ scan.checkComment
    /\ text.at = "line" =>
         scan.mode = "main" /\ ~scan.newline /\ ~scan.lineContinuation
    /\ text.at = "continued" =>
         scan.mode = "main" /\ ~scan.newline /\ scan.lineContinuation
    /\ text.at = "comment" => scan.mode = "comment"
    /\ text.at \in {"value start", "value", "value comment"} => scan.mode = "parameter"
    /\ text.at = "string start" => scan.mode = "string line"
    /\ text.at = "string" => scan.mode = "string"
    /\ text.at = "string comment" => scan.mode = "string comment"
    /\ text.at \in {"string start", "string", "string comment"} =>
         scan.denoter = text.quote
    /\ ~Between => ~scan.newline

(* ...and remembers of the name what the text is about.                    *)
KnowsName ==
    /\ Between => /\ scan.verb = text.name
                  /\ scan.foundGap <=> text.gap
                  /\ ~text.secret
    /\ text.name = "sensitive" => text.sinceValue
    /\ scan.redacting => text.sinceValue
    /\ text.secret => scan.redacting

(* The invariant of the redaction: all this until the scanner is misled.   *)
RedactionInv ==
    /\ RedactionTypeOK
    /\ ~text.misled => InStep /\ KnowsName
    /\ RedactsSensitive

(* The verb, the text and the scanner stay what they are.                  *)
LEMMA AppendVerbType ==
    ASSUME NEW verb \in Verbs, NEW char \in Characters
    PROVE  AppendVerb(verb, char) \in Verbs
BY DEF AppendVerb, Verbs

(* The text goes from one of its states to another.                        *)
LEMMA TextStays ==
    ASSUME NEW t \in TextType, NEW char \in Characters
    PROVE  Text(t, char) \in TextType
<1>1. CASE t.at \in {"line", "line start"}
  <2>0. Named(t, char) \in TextType
    BY AppendVerbType, ZenonT(60) DEF Named, TextType, Verbs
  <2>. QED BY <1>1, <2>0, ZenonT(60) DEF Text, TextType
<1>2. CASE t.at \in {"continued", "comment"}
  BY <1>2 DEF Text, TextType
<1>3. CASE t.at \in {"value", "value start"}
  BY <1>3, ZenonT(60) DEF Text, TextType, Verbs
<1>4. CASE t.at \in {"string", "string start"}
  BY <1>4 DEF Text, TextType
<1>5. CASE t.at = "string comment"
  BY <1>5 DEF Text, TextType
<1>6. CASE t.at = "value comment"
  BY <1>6 DEF Text, TextType
<1>. QED BY <1>1, <1>2, <1>3, <1>4, <1>5, <1>6 DEF TextType

(* Being misled is not forgotten.                                          *)
LEMMA MisledStays ==
    ASSUME NEW t \in TextType, NEW char \in Characters, t.misled
    PROVE  Text(t, char).misled
BY DEF Text, Named, TextType

(* So does the scanner.                                                    *)
LEMMA ScanStays ==
    ASSUME NEW s \in ScanType, NEW char \in Characters
    PROVE  Redact(s, char) \in ScanType
<1>1. CASE s.mode = "main" /\ s.newline /\ ~StartOutput(char)
  BY <1>1 DEF Redact
<1>2. CASE s.mode = "main" /\ (~s.newline \/ StartOutput(char))
  <2>. DEFINE u == [s EXCEPT !.newline = FALSE]
  <2>1. u \in ScanType
    BY DEF ScanType
  <2>2. MainLoop(u, char) \in ScanType
    <3>. HIDE DEF u
    <3>. QED BY <2>1, AppendVerbType, ZenonT(60) DEF MainLoop, ScanType, Verbs
  <2>. QED BY <1>2, <2>2 DEF Redact
<1>3. CASE s.mode = "comment"
  BY <1>3 DEF Redact, ScanType
<1>4. CASE s.mode = "parameter"
  BY <1>4, ZenonT(60) DEF Redact, ScanType, Parameter, Reset, Verbs
<1>5. CASE s.mode \in {"string", "string line"}
  BY <1>5 DEF Redact, ScanType, String
<1>6. CASE s.mode = "string comment"
  BY <1>6 DEF Redact, ScanType
<1>. QED BY <1>1, <1>2, <1>3, <1>4, <1>5, <1>6 DEF ScanType

(* Between values.                                                         *)
LEMMA BetweenStep ==
    ASSUME RedactionInv, NEW char \in Characters, ReadRune(char),
           ~text.misled, text.at \in {"line", "line start"}
    PROVE  (InStep /\ KnowsName)'
<1>. text \in TextType /\ scan \in ScanType
  BY DEF RedactionInv, RedactionTypeOK
<1>. DEFINE s == [scan EXCEPT !.newline = FALSE]
            name == AppendVerb(IF text.gap THEN "other" ELSE text.name, char)
<1>1. /\ scan.mode = "main" /\ scan.verb = text.name
      /\ scan.foundGap <=> text.gap
      /\ text.at = "line" => ~scan.lineContinuation /\ ~scan.newline
      /\ text.at = "line start" => scan.checkComment /\ scan.newline
      /\ text.name = "sensitive" => text.sinceValue
      /\ scan.redacting => text.sinceValue
      /\ ~text.secret
  BY DEF RedactionInv, InStep, KnowsName, Between
<1>2. s \in ScanType /\ s.mode = "main" /\ s.newline = FALSE
  BY <1>1 DEF ScanType
<1>3. /\ s.verb = scan.verb /\ (s.foundGap <=> scan.foundGap)
      /\ (s.lineContinuation <=> scan.lineContinuation)
      /\ (s.redacting <=> scan.redacting)
      /\ (s.checkComment <=> scan.checkComment)
  BY DEF ScanType
<1>4. CASE text.at = "line start" /\ ~StartOutput(char)
  <2>1. scan' = scan
    BY <1>1, <1>4 DEF ReadRune, Redact
  <2>2. text' = text
    <3>1. char \in {"blank", "newline", "digit"}
      BY <1>4 DEF StartOutput, Blank
    <3>2. CASE char = "digit"
      BY <1>4, <3>2 DEF ReadRune, Text, TextType
    <3>3. CASE char \in {"blank", "newline"}
      <4>1. text.gap \in BOOLEAN
        BY DEF TextType
      <4>. QED  BY <1>4, <3>3, <4>1 DEF ReadRune, Text, TextType
    <3>. QED  BY <3>1, <3>2, <3>3
  <2>. QED  BY <2>1, <2>2 DEF RedactionInv, InStep, KnowsName, Between
<1>5. CASE text.at = "line" \/ StartOutput(char)
  <2>. HIDE DEF s
  <2>1. scan' = MainLoop(s, char)
    BY <1>1, <1>5 DEF ReadRune, Redact, s
  <2>2. CASE char = "+"
    <3>1. /\ scan'.mode = "main" /\ ~scan'.newline /\ scan'.lineContinuation
          /\ scan'.verb = text.name /\ ~scan'.foundGap
          /\ scan'.redacting <=> scan.redacting
      BY <1>1, <1>2, <1>3, <2>1, <2>2 DEF MainLoop, ScanType, Blank
    <3>2. text' = [text EXCEPT !.at = "continued", !.gap = FALSE]
      BY <2>2 DEF ReadRune, Text
    <3>. QED  BY <1>1, <3>1, <3>2 DEF InStep, KnowsName, Between, TextType
  <2>3. CASE char \in Blank
    <3>1. text.at = "line"
      BY <1>5, <2>3 DEF StartOutput
    <3>2. scan' = [s EXCEPT !.foundGap = @ \/ ~s.lineContinuation,
                            !.checkComment = @ \/ char = "newline",
                            !.newline = (char = "newline")]
      BY <2>1, <2>3 DEF MainLoop, Blank
    <3>3. text' = [text EXCEPT !.gap = TRUE,
                               !.at = IF char = "newline" THEN "line start" ELSE "line"]
      BY <2>3, <3>1 DEF ReadRune, Text, Blank, TextType
    <3>4. scan'.foundGap /\ scan'.mode = "main" /\ scan'.verb = text.name
      BY <1>1, <1>2, <1>3, <3>1, <3>2 DEF ScanType
    <3>5. scan'.redacting => text.sinceValue
      BY <1>1, <1>2, <1>3, <3>2 DEF ScanType
    <3>6. char = "newline" => scan'.newline /\ scan'.checkComment
      BY <1>2, <3>2 DEF ScanType
    <3>7. char # "newline" => ~scan'.newline /\ ~scan'.lineContinuation
      BY <1>1, <1>2, <1>3, <3>1, <3>2 DEF ScanType
    <3>. QED
      BY <1>1, <3>3, <3>4, <3>5, <3>6, <3>7 DEF InStep, KnowsName, Between, TextType
  <2>4. CASE char = "*"
    <3>1. text.at = "line start"
      BY <2>4 DEF ReadRune, Legal, Blank, Letters
    <3>2. scan' = [s EXCEPT !.mode = "comment"]
      BY <1>1, <1>3, <2>1, <2>4, <3>1 DEF MainLoop, Blank
    <3>3. text' = [text EXCEPT !.at = "comment"]
      BY <2>4, <3>1 DEF ReadRune, Text
    <3>. QED
      BY <1>1, <1>2, <1>3, <3>2, <3>3 DEF InStep, KnowsName, Between, TextType, ScanType
  <2>5. CASE char = "("
    <3>1. /\ scan' \in ScanType /\ scan'.mode = "parameter" /\ ~scan'.newline
          /\ scan'.redacting <=> scan.redacting \/ text.name = "sensitive"
      BY <1>1, <1>2, <1>3, <2>1, <2>5, AppendVerbType, ZenonT(60)
      DEF MainLoop, Blank, ScanType, Verbs
    <3>2. text' = [text EXCEPT !.at = "value", !.secret = (text.name = "sensitive")]
      BY <2>5 DEF ReadRune, Text
    <3>. QED
      BY <1>1, <3>1, <3>2 DEF InStep, KnowsName, Between, TextType
  <2>6. CASE char \notin Blank \union {"+", "*", "("}
    <3>. HIDE DEF name
    <3>1. text' = [text EXCEPT !.at = "line", !.name = name, !.named = TRUE,
                               !.gap = FALSE,
                               !.sinceValue = @ \/ name = "sensitive"]
      <4>1. text.at = "line start" => char # "digit"
        BY <1>5 DEF StartOutput
      <4>. QED  BY <2>6, <4>1 DEF ReadRune, Text, Named, Blank, name
    <3>2. scan'.verb = name
      BY <1>1, <1>2, <1>3, <2>1, <2>6 DEF MainLoop, ScanType, Blank, name
    <3>3. /\ scan'.mode = "main" /\ ~scan'.newline /\ ~scan'.lineContinuation
          /\ ~scan'.foundGap
      BY <1>2, <2>1, <2>6 DEF MainLoop, ScanType, Blank
    <3>4. scan'.redacting => text.sinceValue
      BY <1>1, <1>2, <1>3, <2>1, <2>6 DEF MainLoop, ScanType, Blank
    <3>. QED
      BY <1>1, <3>1, <3>2, <3>3, <3>4 DEF InStep, KnowsName, Between, TextType
  <2>. QED  BY <2>2, <2>3, <2>4, <2>5, <2>6
<1>. QED  BY <1>4, <1>5

(* Inside a value, a string or a comment.                                  *)
LEMMA InsideStep ==
    ASSUME RedactionInv, NEW char \in Characters, ReadRune(char),
           ~text.misled, ~text'.misled, text.at \notin {"line", "line start"}
    PROVE  (InStep /\ KnowsName)'
<1>. text \in TextType /\ scan \in ScanType
  BY DEF RedactionInv, RedactionTypeOK
<1>. InStep /\ KnowsName
  BY DEF RedactionInv
<1>1. CASE text.at = "continued"
  <2>1. char \in Blank
    BY <1>1 DEF ReadRune, Legal
  <2>2. /\ scan.mode = "main" /\ scan.newline = FALSE /\ scan.lineContinuation
        /\ scan.foundGap \in BOOLEAN
    BY <1>1 DEF InStep, ScanType
  <2>3. scan' = MainLoop([scan EXCEPT !.newline = FALSE], char)
    BY <2>2 DEF ReadRune, Redact
  <2>4. /\ scan'.mode = "main" /\ scan'.verb = scan.verb
        /\ scan'.foundGap <=> scan.foundGap
        /\ scan'.redacting <=> scan.redacting
        /\ scan'.newline <=> char = "newline"
        /\ char = "newline" => scan'.checkComment
        /\ scan'.lineContinuation
    BY <2>1, <2>2, <2>3 DEF MainLoop, ScanType, Blank
  <2>5. text' = IF char = "newline" THEN [text EXCEPT !.at = "line start"] ELSE text
    BY <1>1 DEF ReadRune, Text
  <2>. QED  BY <1>1, <2>4, <2>5, ZenonT(60) DEF InStep, KnowsName, Between, TextType
<1>2. CASE text.at = "comment"
  <2>1. text' = IF char = "newline" THEN [text EXCEPT !.at = "line start"] ELSE text
    BY <1>2 DEF ReadRune, Text
  <2>2. scan' = IF char = "newline"
                THEN [scan EXCEPT !.mode = "main", !.checkComment = TRUE, !.newline = TRUE]
                ELSE scan
    BY <1>2 DEF ReadRune, Redact, InStep
  <2>. QED  BY <1>2, <2>1, <2>2 DEF InStep, KnowsName, Between, TextType, ScanType
<1>3. CASE text.at \in {"value", "value start"}
  <2>1. scan' = Parameter(scan, char) /\ ~scan.newline
    BY <1>3 DEF ReadRune, Redact, InStep, Between
  <2>2. CASE char = ")"
    <3>1. /\ text'.at = "line" /\ text'.name = "other" /\ ~text'.gap
          /\ ~text'.secret
      BY <1>3, <2>2 DEF ReadRune, Text, TextType, Quotes, StartOutput, Blank
    <3>. DEFINE r == Reset(scan)
    <3>2. r \in ScanType
      BY DEF Reset, ScanType, Verbs
    <3>3. /\ ~r.newline /\ ~r.lineContinuation /\ r.verb = "other"
          /\ ~r.foundGap /\ ~r.redacting
      BY <2>1 DEF Reset, ScanType
    <3>4. scan' = [r EXCEPT !.mode = "main"]
      BY <2>1, <2>2 DEF Parameter, Quotes
    <3>. HIDE DEF r
    <3>5. /\ scan'.mode = "main" /\ ~scan'.newline /\ ~scan'.lineContinuation
          /\ scan'.verb = "other" /\ ~scan'.foundGap /\ ~scan'.redacting
      BY <3>2, <3>3, <3>4 DEF ScanType
    <3>. QED  BY <3>1, <3>5 DEF InStep, KnowsName, Between
  <2>3. CASE char \in Quotes
    <3>1. /\ text'.at = "string" /\ text'.quote = char /\ text'.name = text.name
          /\ text'.secret = text.secret /\ text'.sinceValue = text.sinceValue
      BY <1>3, <2>3 DEF ReadRune, Text, TextType, Quotes, StartOutput, Blank
    <3>2. scan' = [scan EXCEPT !.mode = "string", !.denoter = char]
      BY <2>1, <2>3 DEF Parameter, Quotes
    <3>. QED
      BY <1>3, <2>1, <3>1, <3>2, ZenonT(60) DEF InStep, KnowsName, Between, TextType, ScanType
  <2>4. CASE char \notin Quotes \union {")"}
    <3>1. scan' = scan
      BY <2>1, <2>4 DEF Parameter
    <3>2. \/ text' = [text EXCEPT !.at = "value start"]
          \/ text' = [text EXCEPT !.at = "value comment"]
          \/ text' = [text EXCEPT !.at = "value"]
      <4>. DEFINE starts == \/ char = "newline"
                            \/ text.at = "value start" /\ ~StartOutput(char)
      <4>1. CASE starts
        <5>1. char # ")" /\ char \notin Quotes /\ ~(char = "*" /\ starts)
          BY <2>4, <4>1 DEF StartOutput, Blank
        <5>2. Text(text, char) = [text EXCEPT !.at = "value start"]
          BY <1>3, <4>1, <5>1 DEF Text
        <5>. QED  BY <5>2 DEF ReadRune
      <4>2. CASE ~starts /\ char = "*" /\ text.at = "value start"
        BY <1>3, <2>4, <4>2 DEF ReadRune, Text
      <4>3. CASE ~starts /\ ~(char = "*" /\ text.at = "value start")
        BY <1>3, <2>4, <4>3 DEF ReadRune, Text
      <4>. QED  BY <4>1, <4>2, <4>3
    <3>. QED  BY <1>3, <2>1, <3>1, <3>2, ZenonT(60) DEF InStep, KnowsName, Between, TextType
  <2>. QED  BY <2>2, <2>3, <2>4
<1>4. CASE text.at \in {"string", "string start"}
  <2>1. /\ scan' = String(scan, char) /\ ~scan.newline
        /\ scan.denoter = text.quote
        /\ scan.mode = "string line" <=> text.at = "string start"
    BY <1>4 DEF ReadRune, Redact, InStep, Between
  <2>2. /\ text'.quote = text.quote /\ text'.name = text.name
        /\ text'.secret = text.secret /\ text'.sinceValue = text.sinceValue
    BY <1>4 DEF ReadRune, Text, TextType
  <2>3. /\ scan'.denoter = scan.denoter /\ scan'.newline = scan.newline
        /\ scan'.redacting = scan.redacting
    BY <2>1 DEF String, ScanType
  <2>4. CASE char = text.quote
    BY <1>4, <2>1, <2>2, <2>3, <2>4, ZenonT(60)
    DEF ReadRune, Text, String, InStep, KnowsName, Between, TextType, ScanType,
        Quotes, StartOutput, Blank
  <2>5. CASE /\ char # text.quote
             /\ char = "newline" \/ (text.at = "string start" /\ ~StartOutput(char))
    <3>1. text'.at = "string start"
      BY <1>4, <2>5 DEF ReadRune, Text, TextType, StartOutput, Blank
    <3>2. scan'.mode = "string line"
      BY <1>4, <2>1, <2>5 DEF String, ScanType, StartOutput, Blank
    <3>. QED  BY <1>4, <2>1, <2>2, <2>3, <3>1, <3>2 DEF InStep, KnowsName, Between
  <2>6. CASE /\ char # text.quote /\ char # "newline"
             /\ text.at = "string start" => StartOutput(char)
    <3>1. CASE text.at = "string start" /\ char = "*"
      <4>1. text'.at = "string comment"
        BY <1>4, <2>6, <3>1 DEF ReadRune, Text, TextType
      <4>2. scan'.mode = "string comment"
        BY <1>4, <2>1, <2>6, <3>1 DEF String, ScanType
      <4>. QED  BY <1>4, <2>1, <2>2, <2>3, <4>1, <4>2 DEF InStep, KnowsName, Between
    <3>2. CASE ~(text.at = "string start" /\ char = "*")
      <4>1. text'.at = "string"
        BY <1>4, <2>6, <3>2 DEF ReadRune, Text, TextType
      <4>2. scan'.mode = "string"
        BY <1>4, <2>1, <2>6, <3>2 DEF String, ScanType
      <4>. QED  BY <1>4, <2>1, <2>2, <2>3, <4>1, <4>2 DEF InStep, KnowsName, Between
    <3>. QED  BY <3>1, <3>2
  <2>. QED  BY <2>4, <2>5, <2>6
<1>5. CASE text.at = "string comment"
  <2>1. text' = IF char = "newline" THEN [text EXCEPT !.at = "string start"] ELSE text
    BY <1>5 DEF ReadRune, Text
  <2>2. scan' = IF char = "newline" THEN [scan EXCEPT !.mode = "string line"] ELSE scan
    BY <1>5 DEF ReadRune, Redact, InStep
  <2>. QED  BY <1>5, <2>1, <2>2 DEF InStep, KnowsName, Between, TextType, ScanType
<1>6. CASE text.at = "value comment"
  <2>1. scan' = Parameter(scan, char)
    BY <1>6 DEF ReadRune, Redact, InStep
  <2>2. text' = [text EXCEPT !.at = IF char = "newline" THEN "value start"
                                    ELSE "value comment",
                             !.misled = @ \/ char \in Quotes \union {")"}]
    BY <1>6 DEF ReadRune, Text
  <2>3. char \notin Quotes \union {")"}
    BY <2>2 DEF TextType
  <2>4. scan' = scan
    BY <2>1, <2>3 DEF Parameter
  <2>5. /\ text'.at \in {"value start", "value comment"} /\ text'.name = text.name
        /\ text'.secret = text.secret /\ text'.sinceValue = text.sinceValue
    BY <2>2 DEF TextType
  <2>. QED  BY <1>6, <2>4, <2>5 DEF InStep, KnowsName, Between
<1>. QED  BY <1>1, <1>2, <1>3, <1>4, <1>5, <1>6 DEF TextType

(* No character of a sensitive value is copied, for text of any length, up *)
(* to the first comment between brackets and outside a string that has a   *)
(* closing bracket or a quote in it.                                       *)
THEOREM SensitiveIsRedacted == RedactionSpec => []RedactsSensitive
<1>1. RedactionInit => RedactionInv
  <2>. SUFFICES ASSUME RedactionInit PROVE RedactionInv
    OBVIOUS
  <2>1. RedactionTypeOK
    BY DEF RedactionInit, RedactionTypeOK, TextType, ScanType, Verbs, Quotes
  <2>2. InStep
    BY DEF RedactionInit, InStep, Between
  <2>3. KnowsName
    BY DEF RedactionInit, KnowsName, Between
  <2>4. RedactsSensitive
    BY DEF RedactionInit, RedactsSensitive
  <2>. QED  BY <2>1, <2>2, <2>3, <2>4 DEF RedactionInv
<1>2. RedactionInv /\ [RedactionNext]_redactionVars => RedactionInv'
  <2>. SUFFICES ASSUME RedactionInv, [RedactionNext]_redactionVars
                PROVE  RedactionInv'
    OBVIOUS
  <2>1. ASSUME NEW char \in Characters, ReadRune(char) PROVE RedactionInv'
    <3>1. RedactionTypeOK'
      BY <2>1, TextStays, ScanStays DEF RedactionInv, RedactionTypeOK, ReadRune
    <3>2. ~text'.misled => ~text.misled
      BY <2>1, MisledStays DEF RedactionInv, RedactionTypeOK, ReadRune
    <3>3. ~text'.misled => (InStep /\ KnowsName)'
      BY <2>1, <3>2, BetweenStep, InsideStep
    <3>4. RedactsSensitive'
      <4>1. /\ last'.secret = text.secret /\ last'.sinceValue = text.sinceValue
            /\ last'.misled = text.misled /\ last'.copied = Copied(scan)
        BY <2>1 DEF ReadRune
      <4>2. ~text.misled /\ text.secret =>
              scan.redacting /\ scan.mode \notin {"main", "comment"}
        BY DEF RedactionInv, RedactionTypeOK, TextType, InStep, KnowsName, Between
      <4>3. ~text.misled /\ scan.redacting => text.sinceValue
        BY DEF RedactionInv, KnowsName
      <4>. QED  BY <4>1, <4>2, <4>3 DEF RedactsSensitive, Copied
    <3>. QED  BY <3>1, <3>3, <3>4 DEF RedactionInv
  <2>2. CASE UNCHANGED redactionVars
    BY <2>2
    DEF redactionVars, RedactionInv, RedactionTypeOK, InStep, KnowsName, Between,
        RedactsSensitive
  <2>. QED  BY <2>1, <2>2 DEF RedactionNext
<1>. QED  BY <1>1, <1>2, PTL DEF RedactionSpec, RedactionInv

----------------------------------------------------------------------------
(* The developer image.                                                    *)

(* The web server has what the shell has made of the password it was       *)
(* given; the service is there, once runmqdevserver has decided, exactly   *)
(* if it was asked for; and an answer goes by the password the service     *)
(* finds.                                                                  *)
SecureIsGiven ==
    \A u \in DeveloperUsers : secure[u] \in {NoPassword} \union EncodeSecrets(Given(u))

ServiceFollows ==
    devAt \in {"admin", "app", "mqsc", "running"} => (service <=> UseHTP)

AnswerFits ==
    answer # NoAnswer =>
        /\ UseHTP
        /\ answer.user \notin DeveloperUsers => answer.then = "continue"
        /\ answer.user \in DeveloperUsers /\ answer.password # NoPassword =>
             (answer.code = "ok" <=> answer.password = GetSecretForUser(answer.user))

DeveloperInv ==
    /\ devEnv \in DeveloperEnv
    /\ secure \in [DeveloperUsers -> {NoPassword} \union Passwords]
    /\ SecureIsGiven
    /\ ServiceFollows
    /\ AnswerFits

(* The two ways of looking for a password find the same one if there is    *)
(* only one to find and the shell leaves it as it is.                      *)
LEMMA OnePassword ==
    ASSUME DeveloperInv, NEW u \in DeveloperUsers, secure[u] # NoPassword,
           NEW p \in Plain, SourcesOf(u) = {p}
    PROVE  GetSecretForUser(u) = secure[u]
<1>. DEFINE env == devEnv.password[u].env
            file == devEnv.password[u].file
<1>1. secure[u] \in EncodeSecrets(Given(u))
  BY DEF DeveloperInv, SecureIsGiven
<1>2. /\ env \in {NoPassword, " "} \union {p}
      /\ file \in {NoPassword, ""} \union {p}
      /\ env = p \/ file = p
  BY DEF SourcesOf
<1>3. p \in {"fromEnv", "fromFile"}
  BY DEF Plain
<1>. HIDE DEF env, file
<1>4. Given(u) = p
  <2>1. CASE env = p
    BY <1>3, <2>1 DEF Given, FromEnvironment, NoPassword, env
  <2>2. CASE env # p
    <3>1. env \in {NoPassword, " "} /\ file = p
      BY <1>2, <2>2
    <3>. QED  BY <3>1 DEF Given, FromEnvironment, env, file
  <2>. QED  BY <1>2, <2>1, <2>2
<1>5. secure[u] = p
  <2>1. EncodeSecrets(p) = {NoPassword} \union {p}
    BY <1>3 DEF EncodeSecrets, Plain, Special
  <2>. QED  BY <1>1, <1>4, <2>1
<1>6. GetSecretForUser(u) = p
  <2>1. CASE file = p
    BY <1>3, <2>1 DEF GetSecretForUser, ReadSecret, NoPassword, file
  <2>2. CASE file \in {NoPassword, ""} /\ env = p
    BY <2>2 DEF GetSecretForUser, ReadSecret, NoPassword, env, file
  <2>. QED  BY <1>2, <2>1, <2>2
<1>. QED  BY <1>5, <1>6

(* Every step of runmqdevserver and of the service keeps the invariant.    *)
LEMMA DeveloperStep ==
    DeveloperInv /\ [DeveloperNext]_developerVars => DeveloperInv'
<1>. SUFFICES ASSUME DeveloperInv, [DeveloperNext]_developerVars
              PROVE  DeveloperInv'
  OBVIOUS
<1>. USE DEF DeveloperInv
<1>1. CASE InitialiseFiles
  BY <1>1
  DEF InitialiseFiles, SecureIsGiven, ServiceFollows, AnswerFits, Given,
      FromEnvironment, EncodeSecrets, UseHTP, GetSecretForUser
<1>2. CASE EnableService
  BY <1>2
  DEF EnableService, SecureIsGiven, ServiceFollows, AnswerFits, Given,
      FromEnvironment, UseHTP, GetSecretForUser
<1>3. ASSUME NEW u \in DeveloperUsers, NEW next \in {"app", "mqsc"},
             CheckForPassword(u, next)
      PROVE  DeveloperInv'
  <2>1. /\ devAt = u /\ devAt' = next /\ UNCHANGED <<devEnv, service, answer>>
    BY <1>3 DEF CheckForPassword
  <2>2. PICK encoded \in EncodeSecrets(Given(u)) :
          secure' = [secure EXCEPT ![u] = encoded]
    BY <1>3 DEF CheckForPassword
  <2>3. encoded \in {NoPassword} \union Passwords
    BY <2>2 DEF EncodeSecrets, Passwords
  <2>4. \A v : Given(v)' = Given(v)
    BY <2>1 DEF Given, FromEnvironment
  <2>5. SecureIsGiven'
    BY <2>1, <2>2, <2>4 DEF SecureIsGiven, EncodeSecrets
  <2>6. ServiceFollows' /\ AnswerFits'
    BY <2>1 DEF ServiceFollows, AnswerFits, UseHTP, GetSecretForUser, DeveloperUsers
  <2>. QED  BY <2>1, <2>2, <2>3, <2>5, <2>6
<1>4. CASE UpdateMQSC
  BY <1>4
  DEF UpdateMQSC, SecureIsGiven, ServiceFollows, AnswerFits, Given,
      FromEnvironment, UseHTP, GetSecretForUser
<1>5. CASE DevServerFails
  BY <1>5
  DEF DevServerFails, devFiles, SecureIsGiven, ServiceFollows, AnswerFits, Given,
      FromEnvironment, UseHTP, GetSecretForUser
<1>6. ASSUME NEW user \in DeveloperUsers \union OtherUsers, AuthenticateUser(user)
      PROVE  DeveloperInv'
  <2>1. UseHTP /\ UNCHANGED <<devEnv, devAt, service, secure>>
    BY <1>6 DEF AuthenticateUser, ServiceFollows, devFiles
  <2>2. SecureIsGiven' /\ ServiceFollows'
    BY <2>1 DEF SecureIsGiven, ServiceFollows, Given, FromEnvironment, UseHTP
  <2>3. /\ answer'.user \notin DeveloperUsers => answer'.then = "continue"
        /\ answer'.user \in DeveloperUsers /\ answer'.password # NoPassword =>
             (answer'.code = "ok" <=> answer'.password = GetSecretForUser(answer'.user))
    <3>1. CASE \E password \in Passwords : AuthenticateUserCSP(user, password)
      <4>1. PICK password \in Passwords : AuthenticateUserCSP(user, password)
        BY <3>1
      <4>2. CASE user \notin DeveloperUsers
        <5>1. answer' = [user |-> user, password |-> password,
                         code |-> "warning", then |-> "continue"]
          BY <4>1, <4>2 DEF AuthenticateUserCSP, Answer
        <5>. QED  BY <4>2, <5>1
      <4>3. CASE user \in DeveloperUsers /\ GetSecretForUser(user) = password
        <5>1. answer' = [user |-> user, password |-> password,
                         code |-> "ok", then |-> "stop"]
          BY <4>1, <4>3 DEF AuthenticateUserCSP, Answer
        <5>. QED  BY <4>3, <5>1
      <4>4. CASE user \in DeveloperUsers /\ GetSecretForUser(user) # password
        <5>1. answer' = [user |-> user, password |-> password,
                         code |-> "not authorized", then |-> "stop"]
          BY <4>1, <4>4 DEF AuthenticateUserCSP, Answer
        <5>. QED  BY <4>4, <5>1
      <4>. QED  BY <4>2, <4>3, <4>4
    <3>2. CASE AuthenticateUserID(user)
      <4>1. CASE user \in DeveloperUsers
        <5>1. answer' = [user |-> user, password |-> NoPassword,
                         code |-> "ok", then |-> "stop"]
          BY <3>2, <4>1 DEF AuthenticateUserID, Answer
        <5>. QED  BY <4>1, <5>1
      <4>2. CASE user \notin DeveloperUsers
        <5>1. answer' = [user |-> user, password |-> NoPassword,
                         code |-> "warning", then |-> "continue"]
          BY <3>2, <4>2 DEF AuthenticateUserID, Answer
        <5>. QED  BY <4>2, <5>1
      <4>. QED  BY <4>1, <4>2
    <3>. QED  BY <1>6, <3>1, <3>2 DEF AuthenticateUser
  <2>4. AnswerFits'
    BY <2>1, <2>3 DEF AnswerFits, UseHTP, GetSecretForUser
  <2>. QED  BY <2>1, <2>2, <2>4
<1>7. CASE UNCHANGED developerVars
  BY <1>7
  DEF developerVars, devFiles, SecureIsGiven, ServiceFollows, AnswerFits, Given,
      FromEnvironment, UseHTP, GetSecretForUser
<1>. QED
  BY <1>1, <1>2, <1>3, <1>4, <1>5, <1>6, <1>7 DEF DeveloperNext, DeveloperUsers

(* The authorisation service and the web server know the same password of  *)
(* a user who was given one that the shell leaves as it is, in whatever    *)
(* way it was given.                                                       *)
THEOREM PasswordsAgree == DeveloperSpec => []SamePassword
<1>1. DeveloperInit => DeveloperInv
  BY DEF DeveloperInit, DeveloperInv, SecureIsGiven, ServiceFollows, AnswerFits
<1>2. DeveloperInv => SamePassword
  BY OnePassword
  DEF DeveloperInv, SamePassword, ServiceFollows, AnswerFits, SimpleAuthEnabled
<1>. QED  BY <1>1, <1>2, DeveloperStep, PTL DEF DeveloperSpec

----------------------------------------------------------------------------
(* The certificate monitor: the metrics server keeps a certificate that    *)
(* goes with its key, for any number of generations of the files.          *)

(* A pair that tls.X509KeyPair has accepted.                               *)
Good == cert.key # NoFile /\ cert.crt = cert.key

(* The directory is watched, and the monitor handed out, only after a      *)
(* first pair was loaded.                                                  *)
LoadedBeforeWatch == updater = "watch" \/ ~starting => Good

IInv == TypeOK /\ LoadedBeforeWatch

(* Every step keeps every variable in its type.                            *)
LEMMA TypeStep ==
    TypeOK /\ [Next]_vars => TypeOK'
<1>. SUFFICES ASSUME TypeOK, [Next]_vars
              PROVE  TypeOK'
  OBVIOUS
<1>. USE GenerationAssumption DEF TypeOK, Files, Generation, NoFile, NoCert,
         diskVars
<1>1. CASE BeginRotation
  BY <1>1 DEF BeginRotation, Installed
<1>2. ASSUME NEW f \in Files, Install({f}) PROVE TypeOK'
  BY <1>2 DEF Install
<1>3. ASSUME NEW f \in Files, RemoveFile(f) PROVE TypeOK'
  BY <1>3 DEF RemoveFile
<1>4. CASE Install(Files)
  BY <1>4 DEF Install
<1>5. CASE WatchBreaks
  <2>1. watching' \in BOOLEAN /\ pending' \in BOOLEAN
    BY <1>5, Zenon DEF WatchBreaks
  <2>. QED  BY <1>5, <2>1 DEF WatchBreaks
<1>6. CASE ReadCrt
  BY <1>6 DEF ReadCrt, ReadFile
<1>7. CASE ReadCA
  BY <1>7 DEF ReadCA, ReadFile
<1>8. CASE ReadKey
  BY <1>8 DEF ReadKey, ReadFile
<1>9. CASE SetCert
  BY <1>9 DEF SetCert, Return
<1>10. CASE LoadFails
  <2>1. cancelled' \in BOOLEAN
    BY <1>10, Zenon DEF LoadFails
  <2>. QED  BY <1>10, <2>1 DEF LoadFails, Return
<1>11. CASE Watch
  <2>1. watching' \in BOOLEAN /\ starting' \in BOOLEAN
    BY <1>11, Zenon DEF Watch
  <2>. QED  BY <1>11, <2>1 DEF Watch
<1>12. CASE WatchFails
  <2>1. cancelled' \in BOOLEAN
    BY <1>12, Zenon DEF WatchFails
  <2>. QED  BY <1>12, <2>1 DEF WatchFails
<1>13. CASE FileSystemEvent
  <2>1. pending' \in BOOLEAN
    BY <1>13, Zenon DEF FileSystemEvent
  <2>. QED  BY <1>13, <2>1 DEF FileSystemEvent, TriggerUpdate
<1>14. CASE Poll
  BY <1>14 DEF Poll, TriggerUpdate
<1>15. CASE WatcherEnds
  <2>1. watching' \in BOOLEAN
    BY <1>15, Zenon DEF WatcherEnds
  <2>. QED  BY <1>15, <2>1 DEF WatcherEnds
<1>16. CASE Debounced
  BY <1>16 DEF Debounced
<1>17. CASE UpdaterEnds
  BY <1>17 DEF UpdaterEnds
<1>18. CASE Stop
  <2>1. cancelled' \in BOOLEAN
    BY <1>18, Zenon DEF Stop
  <2>. QED  BY <1>18, <2>1 DEF Stop
<1>19. CASE UNCHANGED vars
  BY <1>19 DEF vars
<1>. QED
  BY <1>1, <1>2, <1>3, <1>4, <1>5, <1>6, <1>7, <1>8, <1>9, <1>10, <1>11,
     <1>12, <1>13, <1>14, <1>15, <1>16, <1>17, <1>18, <1>19
  DEF Next, Installer, Updater

(* Only a pair that loads replaces the one before.                         *)
LEMMA LoadedStep ==
    IInv /\ [Next]_vars => LoadedBeforeWatch'
<1>. SUFFICES ASSUME IInv, [Next]_vars
              PROVE  LoadedBeforeWatch'
  OBVIOUS
<1>. USE DEF IInv, LoadedBeforeWatch, Good, TypeOK, Files, Generation,
         NoFile, NoCert, diskVars
<1>1. CASE BeginRotation
  BY <1>1 DEF BeginRotation, Installed
<1>2. ASSUME NEW f \in Files, Install({f}) PROVE LoadedBeforeWatch'
  BY <1>2 DEF Install
<1>3. ASSUME NEW f \in Files, RemoveFile(f) PROVE LoadedBeforeWatch'
  BY <1>3 DEF RemoveFile
<1>4. CASE Install(Files)
  BY <1>4 DEF Install
<1>5. CASE WatchBreaks
  BY <1>5 DEF WatchBreaks
<1>6. CASE ReadCrt
  BY <1>6 DEF ReadCrt, ReadFile
<1>7. CASE ReadCA
  BY <1>7 DEF ReadCA, ReadFile
<1>8. CASE ReadKey
  BY <1>8 DEF ReadKey, ReadFile
<1>9. CASE SetCert
  <2>1. cert' = read /\ read.key # NoFile /\ read.crt = read.key
    BY <1>9 DEF SetCert, KeyPairLoads
  <2>. QED  BY <2>1
<1>10. CASE LoadFails
  BY <1>10 DEF LoadFails, Return
<1>11. CASE Watch
  BY <1>11 DEF Watch
<1>12. CASE WatchFails
  BY <1>12 DEF WatchFails
<1>13. CASE FileSystemEvent
  BY <1>13 DEF FileSystemEvent, TriggerUpdate
<1>14. CASE Poll
  BY <1>14 DEF Poll, TriggerUpdate
<1>15. CASE WatcherEnds
  BY <1>15 DEF WatcherEnds
<1>16. CASE Debounced
  BY <1>16 DEF Debounced
<1>17. CASE UpdaterEnds
  BY <1>17 DEF UpdaterEnds
<1>18. CASE Stop
  BY <1>18 DEF Stop
<1>19. CASE UNCHANGED vars
  BY <1>19 DEF vars
<1>. QED
  BY <1>1, <1>2, <1>3, <1>4, <1>5, <1>6, <1>7, <1>8, <1>9, <1>10, <1>11,
     <1>12, <1>13, <1>14, <1>15, <1>16, <1>17, <1>18, <1>19
  DEF Next, Installer, Updater

(* The metrics server always has a certificate that goes with its key,     *)
(* whatever files are missing or of different generations when updateCert  *)
(* reads them.                                                             *)
THEOREM LastGoodIsKept == Spec => []KeepsLastGood
<1>1. Init => IInv
  <2>. SUFFICES ASSUME Init PROVE IInv
    OBVIOUS
  <2>1. /\ newline \in BOOLEAN /\ pending \in BOOLEAN /\ watching \in BOOLEAN
        /\ starting \in BOOLEAN /\ cancelled \in BOOLEAN
    BY Zenon DEF Init
  <2>2. TypeOK
    BY <2>1, GenerationAssumption DEF Init, TypeOK, Files, Generation, NoFile, NoCert
  <2>3. LoadedBeforeWatch
    BY DEF Init, LoadedBeforeWatch
  <2>. QED  BY <2>2, <2>3 DEF IInv
<1>2. IInv /\ [Next]_vars => IInv'
  BY TypeStep, LoadedStep DEF IInv
<1>3. IInv => KeepsLastGood
  BY DEF IInv, LoadedBeforeWatch, Good, KeepsLastGood
<1>. QED  BY <1>1, <1>2, <1>3, PTL DEF Spec
============================================================================
