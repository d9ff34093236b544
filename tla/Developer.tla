----------------------------- MODULE Developer -----------------------------
(***************************************************************************)
(* The developer image: cmd/runmqdevserver prepares the files and the      *)
(* environment of runmqserver and becomes it; internal/simpleauth gives    *)
(* the web server its passwords; authservice/mqsimpleauth, loaded by the   *)
(* queue manager, looks up the same passwords for every connection, in its *)
(* own way.                                                                *)
(*                                                                         *)
(* A user's password may be in an environment variable, in a secret file,  *)
(* in both or in neither.                                                  *)
(***************************************************************************)
EXTENDS Sequences

DeveloperUsers == {"admin", "app"}
OtherUsers == {"mqm", "someone"}

(* Passwords, as far as the code tells them apart: the shell takes a plain *)
(* one for one word and leaves it as it is; in a special one it finds      *)
(* blanks, quotes, dollar signs, semicolons and the like, and may alter    *)
(* it.  Trailing line ends of a secret are dropped by both of its readers. *)
Plain == {"fromEnv", "fromFile"}
Special == {"specialEnv", "specialFile"}
Passwords == Plain \union Special \union {"altered", "", " "}
NoPassword == "none"

(* The variable, which may be blank; the file, which may be empty, blank,  *)
(* have nothing but a line end, or have more than 256 characters.          *)
Provided == [env : {NoPassword, " ", "fromEnv", "specialEnv"},
             file : {NoPassword, "", " ", "line end", "tooLong", "fromFile",
                     "specialFile"}]

(* MQ_CONNAUTH_USE_HTP and MQ_DEV.                                         *)
DeveloperEnv == [useHTP : {"unset", "true", "false"}, MQ_DEV : BOOLEAN,
                 password : [DeveloperUsers -> Provided]]

NoAnswer == [user |-> "", password |-> NoPassword, code |-> "", then |-> ""]

VARIABLES
    devEnv,    \* the environment and the secret files
    devAt,     \* the step of runmqdevserver that comes next
    service,   \* /run/qm-service-component.ini names the service
    chckclnt,  \* what 10-dev.mqsc asks of clients; "" when it is empty
    secure,    \* MQ_ADMIN_PASSWORD_SECURE and MQ_APP_PASSWORD_SECURE
    answer     \* the last answer of the authorisation service, and to what

devFiles == <<service, chckclnt, secure>>
developerVars == <<devEnv, devAt, devFiles, answer>>

DeveloperInit ==
    /\ devEnv \in DeveloperEnv
    /\ devAt = "files"
    /\ service \in BOOLEAN      \* what an earlier start has left
    /\ chckclnt = ""
    /\ secure = [u \in DeveloperUsers |-> NoPassword]
    /\ answer = NoAnswer

----------------------------------------------------------------------------
(* runmqdevserver.                                                         *)

(* 10-dev.mqsc, 20-dev-tls.mqsc and qm-service-component.ini are emptied.  *)
InitialiseFiles ==
    /\ devAt = "files"
    /\ devAt' = "service"
    /\ service' = FALSE
    /\ chckclnt' = ""
    /\ UNCHANGED <<devEnv, secure, answer>>

UseHTP == devEnv.useHTP = "true"

EnableService ==
    /\ devAt = "service"
    /\ devAt' = IF UseHTP THEN "admin" ELSE "mqsc"
    /\ service' = UseHTP
    /\ UNCHANGED <<devEnv, chckclnt, secure, answer>>

(* Where CheckForPasswords looks: the variable, unless it is blank, or the *)
(* file.                                                                   *)
FromEnvironment(u) == devEnv.password[u].env \notin {NoPassword, " "}
Given(u) ==
    IF FromEnvironment(u) THEN devEnv.password[u].env ELSE devEnv.password[u].file

(* EncodeSecrets: the password is put into a line for the shell as it is,  *)
(* without quotes, so that another one may be encoded, or none; and of     *)
(* what securityUtility prints only a line with an encoded password is     *)
(* used.                                                                   *)
EncodeSecrets(password) ==
    {NoPassword} \union
    CASE password \in Plain -> {password}
      [] password \in Special -> {password, "altered"}
      [] OTHER -> {}

(* CheckForPasswords for one user.                                         *)
CheckForPassword(u, next) ==
    /\ devAt = u
    /\ Given(u) # "tooLong"
    /\ devAt' = next
    /\ \E encoded \in EncodeSecrets(Given(u)) :
         secure' = [secure EXCEPT ![u] = encoded]
    /\ UNCHANGED <<devEnv, service, chckclnt, answer>>

(* updateMQSC, which is told whether MQ_CONNAUTH_USE_HTP is set.           *)
UpdateMQSC ==
    /\ devAt = "mqsc"
    /\ devAt' = "running"
    /\ chckclnt' = IF ~devEnv.MQ_DEV THEN chckclnt
                   ELSE IF devEnv.useHTP = "unset" THEN "ASQMGR" ELSE "REQUIRED"
    /\ UNCHANGED <<devEnv, service, secure, answer>>

(* A file cannot be written or read, or a password cannot be encoded: the  *)
(* container ends.                                                         *)
DevServerFails ==
    /\ devAt \notin {"running", "failed"}
    /\ devAt' = "failed"
    /\ UNCHANGED <<devEnv, devFiles, answer>>

(* IsEnabled: whether runmqserver mirrors the service's log, and makes     *)
(* room for the service in qm.ini.                                         *)
SimpleAuthEnabled ==
    UseHTP /\ \E u \in DeveloperUsers : FromEnvironment(u) \/ secure[u] # NoPassword

----------------------------------------------------------------------------
(* The authorisation service of the queue manager.                         *)

(* read_secret: the first line of the file, and nothing if there is none.  *)
ReadSecret(file) ==
    CASE file = "" -> NoPassword
      [] file = "line end" -> ""
      [] OTHER -> file

Bug_EmptyFileWins(u) ==
    LET given == devEnv.password[u] IN
      IF given.file # NoPassword THEN given.file ELSE given.env

(* get_secret_for_user: the file, or the variable.                         *)
GetSecretForUser(u) ==
    LET given == devEnv.password[u] IN
      IF ReadSecret(given.file) # NoPassword THEN ReadSecret(given.file) ELSE given.env

Answer(user, password, code, then) ==
    answer' = [user |-> user, password |-> password, code |-> code, then |-> then]

(* A connection with a user and a password.  A user without any password   *)
(* makes strdup read a null pointer, and has no answer.                    *)
AuthenticateUserCSP(user, password) ==
    \/ /\ user \notin DeveloperUsers
       /\ Answer(user, password, "warning", "continue")
    \/ /\ user \in DeveloperUsers
       /\ GetSecretForUser(user) # NoPassword
       /\ IF GetSecretForUser(user) = password
          THEN Answer(user, password, "ok", "stop")
          ELSE Answer(user, password, "not authorized", "stop")

(* One with a user only, already identified.                               *)
AuthenticateUserID(user) ==
    IF user \in DeveloperUsers THEN Answer(user, NoPassword, "ok", "stop")
    ELSE Answer(user, NoPassword, "warning", "continue")

AuthenticateUser(user) ==
    /\ devAt = "running"
    /\ service
    /\ \/ \E password \in Passwords : AuthenticateUserCSP(user, password)
       \/ AuthenticateUserID(user)
    /\ UNCHANGED <<devEnv, devAt, devFiles>>

----------------------------------------------------------------------------
DeveloperNext ==
    \/ InitialiseFiles
    \/ EnableService
    \/ CheckForPassword("admin", "app")
    \/ CheckForPassword("app", "mqsc")
    \/ UpdateMQSC
    \/ DevServerFails
    \/ \E user \in DeveloperUsers \union OtherUsers : AuthenticateUser(user)

DeveloperSpec == DeveloperInit /\ [][DeveloperNext]_developerVars

----------------------------------------------------------------------------
(* Properties.                                                             *)

(* The sources that give a user a password: a variable that is not blank, *)
(* a file with at least one character, if only a blank or a line end.      *)
SourcesOf(u) ==
    ({devEnv.password[u].env} \ {NoPassword, " "}) \union
    ({devEnv.password[u].file} \ {NoPassword, ""})

(* The service and the web server, which look for a user's password in     *)
(* opposite orders, know the same one if there is only one and the shell   *)
(* leaves it as it is: a user with the web server's password is accepted,  *)
(* one with another is refused, and users that are not the image's own are *)
(* left to the next service.  (A password that means something to the      *)
(* shell reaches the web server altered, securityutility.go:41-50, and the *)
(* service as it is: nothing is said of it.)  No answer is given unless    *)
(* MQ_CONNAUTH_USE_HTP asks for the service, and runmqserver makes room    *)
(* for it in qm.ini only if it is there to be used.                        *)
SamePassword ==
    /\ devAt = "running" /\ SimpleAuthEnabled => service
    /\ answer # NoAnswer =>
         /\ UseHTP
         /\ answer.user \notin DeveloperUsers => answer.then = "continue"
         /\ (/\ answer.user \in DeveloperUsers
             /\ answer.password # NoPassword
             /\ \E p \in Plain : SourcesOf(answer.user) = {p}
             /\ secure[answer.user] # NoPassword)
            => (answer.code = "ok" <=> answer.password = secure[answer.user])
============================================================================
