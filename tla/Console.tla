------------------------------ MODULE Console ------------------------------
(***************************************************************************)
(* cmd/runmqserver/logging.go: what becomes of a mirrored line on the      *)
(* container's standard output, and which logs are mirrored at all.        *)
(*                                                                         *)
(* The mirror function keeps no state and reads the environment for every  *)
(* line, so that the console is a function of LogMirror's output, of what  *)
(* the messages say and of the settings.  Of a message it is told only     *)
(* what the code can tell: whether it is JSON, which half holds the ID     *)
(* that the settings list, and the host that wrote it.                     *)
(***************************************************************************)
EXTENDS LogMirror

Sources == {"qmgr", "web", "mqsc"}

(* A log that is mirrored: the source that selects it, and the isQMLog     *)
(* that its mirror function passes to mirrorLog.                           *)
Logs == {[source |-> "qmgr", isQMLog |-> FALSE],   \* mirrorSystemErrorLogs
         [source |-> "qmgr", isQMLog |-> TRUE],    \* mirrorQueueManagerErrorLogs
         [source |-> "any",  isQMLog |-> TRUE],    \* mirrorMQSimpleAuthLogs
         [source |-> "web",  isQMLog |-> TRUE],    \* mirrorWebServerLogs
         [source |-> "mqsc", isQMLog |-> FALSE]}   \* mirrorMQSCLogs

(* The messages: JSON objects with a host, or lines of autocfgmqsc.LOG,    *)
(* some of which are comments.                                             *)
Messages ==
    [form : {"json"}, id : {"none", "head", "tail"}, host : {"this", "other"}]
    \union [form : {"text", "comment"}, id : {"none", "head", "tail"},
            host : {"none"}]

(* The settings: the variables MQ_LOGGING_CONSOLE_SOURCE,                  *)
(* MQ_LOGGING_CONSOLE_EXCLUDE_ID and MQ_MULTI_INSTANCE.  An entry of the   *)
(* list of IDs is "listed", the ID some of the messages hold, or "blank".  *)
Settings ==
    [sources : SUBSET Sources, exclude : SUBSET {"listed", "blank"},
     multiInstance : BOOLEAN]

----------------------------------------------------------------------------
(* Of the text after the split, only an entry that is empty is skipped:    *)
(* one made of blanks is trimmed afterwards, and every line contains the   *)
(* empty string.                                                           *)
IsExcludedMsgIdPresent(env, msg, part) ==
    \/ "blank" \in env.exclude
    \/ /\ "listed" \in env.exclude
       /\ msg.id # "none"
       /\ part \in {"whole", msg.id}

(* Lines of a log on shared storage that another instance wrote.           *)
FilterQMLogMessage(env, msg) == env.multiInstance /\ msg.host = "other"

(* Nothing listed: the queue manager's logs and the web server's.          *)
CheckLogSourceForMirroring(env, source) ==
    source \in (IF env.sources = {} THEN {"qmgr", "web"} ELSE env.sources)

(* doMain mirrors the log of the authorization service whatever the        *)
(* sources are.                                                            *)
Selected(env, log) ==
    log.source = "any" \/ CheckLogSourceForMirroring(env, log.source)

CanMQSCLogBeMirroredToConsole(msg, part) == msg.form # "comment" \/ part = "tail"

(* The first character tells JSON: the rest of a torn line does not begin  *)
(* with a brace, and its beginning is not an object.                       *)
LooksLikeJSON(msg, part) == msg.form = "json" /\ part # "tail"
Unmarshals(part) == part = "whole"

Bug_BadJSONIgnored(env, log, msg, part) ==
    IF IsExcludedMsgIdPresent(env, msg, part) THEN "nothing"
    ELSE IF /\ LooksLikeJSON(msg, part)
            /\ ~Unmarshals(part) \/ (log.isQMLog /\ FilterQMLogMessage(env, msg))
    THEN "nothing"
    ELSE IF \/ LooksLikeJSON(msg, part)
            \/ /\ CheckLogSourceForMirroring(env, "mqsc")
               /\ CanMQSCLogBeMirroredToConsole(msg, part)
    THEN "message" ELSE "nothing"

(* The mirror function that configureLogger returns, the same for both     *)
(* formats but for the wording: it prints the message, or the error        *)
(* "Failed to unmarshall JSON", or nothing.                                *)
MirrorFunction(env, log, msg, part) ==
    IF IsExcludedMsgIdPresent(env, msg, part) THEN "nothing"
    ELSE IF LooksLikeJSON(msg, part)
    THEN IF ~Unmarshals(part) THEN "error"
         ELSE IF log.isQMLog /\ FilterQMLogMessage(env, msg)
         THEN "nothing" ELSE "message"
    ELSE IF /\ CheckLogSourceForMirroring(env, "mqsc")
            /\ CanMQSCLogBeMirroredToConsole(msg, part)
    THEN "message" ELSE "nothing"

(* What the console shows of a message that was mirrored in these parts.   *)
Shown(env, log, msg, parts) ==
    {MirrorFunction(env, log, msg, p) : p \in parts} \ {"nothing"}

----------------------------------------------------------------------------
(* Properties.                                                             *)

(* What the settings ask not to see: a listed ID, and in a log shared with *)
(* other instances what one of those has written; comments of MQSC.  A     *)
(* blank entry in the list of IDs excludes everything.                     *)
Unwanted(env, log, msg) ==
    \/ "blank" \in env.exclude
    \/ "listed" \in env.exclude /\ msg.id # "none"
    \/ log.isQMLog /\ env.multiInstance /\ msg.host = "other"
    \/ msg.form = "comment"

(* The cases there are: a selected log, and a message of its kind.         *)
Cases ==
    {c \in [env : Settings, log : Logs, msg : Messages] :
       /\ Selected(c.env, c.log)
       /\ (c.msg.form = "json") = (c.log.source # "mqsc")}

(* For each way in which a message may be mirrored: whether that shows all *)
(* that is wanted, and whether it shows nothing that is not.               *)
Verdicts ==
    {[parts |-> parts,
      telling |-> \A c \in Cases : Unwanted(c.env, c.log, c.msg)
                                     \/ Shown(c.env, c.log, c.msg, parts) # {},
      discreet |-> \A c \in Cases : Unwanted(c.env, c.log, c.msg)
                                      => Shown(c.env, c.log, c.msg, parts) = {}] :
     parts \in SUBSET {"whole", "head", "tail"}}

Telling == {v.parts : v \in {w \in Verdicts : w.telling}}
Discreet == {v.parts : v \in {w \in Verdicts : w.discreet}}

Parts(m) == {output[i].part : i \in {k \in DOMAIN output : output[k].msg = m}}

(* The message that was half written when mirrorLog looked where to begin. *)
TornAtStart(m) ==
    ~fromStart /\ offset > 0 /\ content[1][offset] = [msg |-> m, part |-> "head"]

(* Nothing that a selected log says is lost in silence.  When the mirror   *)
(* has ended, every message written to the log since it began, and that    *)
(* the settings do not exclude, has been shown: whole, or, where a poll    *)
(* tore it, at least as the error that its JSON was unreadable.  Whatever  *)
(* they exclude never shows, unless it was torn: then neither its ID nor   *)
(* its host need be in the half that is printed.                           *)
ConsoleComplete ==
    /\ mirror = "ended" /\ ~overtaken =>
         \A m \in notDue + 1 .. atCancel : TornAtStart(m) \/ Parts(m) \in Telling
    /\ \A m \in 1 .. MaxLines :
         Parts(m) \subseteq {"whole"} => Parts(m) \in Discreet
============================================================================
