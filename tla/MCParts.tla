------------------------------ MODULE MCParts ------------------------------
(* Parts of the container that do not share state, checked side by side: a *)
(* behaviour exercises one of them and leaves the others where they are.   *)
EXTENDS MCKeystores, ReadyProbe, Redaction, Developer, RotatingLog

VARIABLE part   \* the part that is exercised

(* One start of each part, for the behaviours that are not about it.       *)
NoInput == [env |-> PlainEnv, keyDirs |-> <<<<>>>>, trust |-> {}, truststore |-> TRUE]
NotProvided == [env |-> NoPassword, file |-> NoPassword]
NoEnv == [useHTP |-> "unset", MQ_DEV |-> FALSE,
          password |-> [u \in DeveloperUsers |-> NotProvided]]

(* The two users of the developer image are given their passwords in the   *)
(* same way, or one of them is given none.                                 *)
OneWayOfProviding ==
    Cardinality({devEnv.password[u] : u \in DeveloperUsers} \ {NotProvided}) <= 1

(* The lines of the audit log: two of the first two kinds fill a file, one *)
(* of the third is longer than the limit.                                  *)
MCTexts == {"short", "long", "longer"}
MCLength == [t \in MCTexts |-> CASE t = "short" -> 1 [] t = "long" -> 2 [] OTHER -> 4]

PartsInit ==
    /\ part \in {"key databases", "readiness", "redaction", "developer", "audit log"}
    /\ part # "key databases" => input = NoInput
    /\ Init
    /\ ReadyInit
    /\ RedactionInit
    /\ part # "developer" => devEnv = NoEnv /\ service = FALSE
    /\ DeveloperInit
    /\ OneWayOfProviding
    /\ LogInit

PartsNext ==
    /\ \/ part = "key databases" /\ Next
            /\ UNCHANGED <<readyVars, redactionVars, developerVars, logVars>>
       \/ part = "readiness" /\ ReadyNext
            /\ UNCHANGED <<vars, redactionVars, developerVars, logVars>>
       \/ part = "redaction" /\ RedactionNext
            /\ UNCHANGED <<vars, readyVars, developerVars, logVars>>
       \/ part = "developer" /\ DeveloperNext
            /\ UNCHANGED <<vars, readyVars, redactionVars, logVars>>
       \/ part = "audit log" /\ LogNext
            /\ UNCHANGED <<vars, readyVars, redactionVars, developerVars>>
    /\ UNCHANGED part

PartsSpec ==
    PartsInit /\ [][PartsNext]_<<part, vars, readyVars, redactionVars, developerVars, logVars>>
============================================================================
