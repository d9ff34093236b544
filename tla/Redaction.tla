----------------------------- MODULE Redaction -----------------------------
(***************************************************************************)
(* internal/mqscredact: Redact copies MQSC and replaces the values of      *)
(* sensitive parameters.  It is a scanner that reads one character at a    *)
(* time, so it is modelled as an automaton over classes of characters,     *)
(* and fed by a second automaton that produces MQSC and knows, by the      *)
(* rules of the language, which characters belong to which value.  Text of *)
(* any length is covered.                                                  *)
(*                                                                         *)
(* "PASS" and "WORD" are the two halves of any of the sensitive names,     *)
(* which a line continuation may separate.                                 *)
(***************************************************************************)
EXTENDS Naturals

VARIABLES
    text,  \* the MQSC so far: where it is, the parameter it is about, and
           \* whether a comment between brackets had a delimiter (a history)
    scan,  \* the local variables of Redact, getParameterString and
           \* findEndOfParamterString
    last   \* the last character: part of a sensitive value, and copied;
           \* and text.misled before it

redactionVars == <<text, scan, last>>

Blank == {"blank", "newline"}
Quotes == {"'", "double quote"}
Letters == {"PASS", "WORD", "letter"}
Characters == Blank \union Quotes \union Letters \union {"digit", "+", "(", ")", "*"}

(* currentVerb, as far as isSensitiveCommand looks at it: whether it       *)
(* contains a sensitive name, or ends in the first half of one.            *)
AppendVerb(verb, char) ==
    IF verb = "sensitive" \/ (verb = "PASS" /\ char = "WORD") THEN "sensitive"
    ELSE IF char = "PASS" THEN "PASS" ELSE "other"

----------------------------------------------------------------------------
(* The scanner.                                                            *)

(* resetAllParameters.                                                     *)
Reset(s) ==
    [s EXCEPT !.verb = "other", !.lineContinuation = FALSE, !.foundGap = FALSE,
              !.redacting = FALSE, !.checkComment = TRUE]

(* The regular expression that tells where the data of a line begin, after *)
(* the line number that runmqsc puts before it.                            *)
StartOutput(char) == char \notin Blank \union {"digit"}

(* The main loop of Redact, from its switch on.                            *)
MainLoop(s, char) ==
    CASE char = "+" -> [s EXCEPT !.lineContinuation = TRUE, !.foundGap = FALSE]
      [] char \in Blank ->
           [s EXCEPT !.foundGap = @ \/ ~s.lineContinuation,
                     !.checkComment = @ \/ char = "newline",
                     !.newline = (char = "newline")]
      [] char = "*" /\ s.checkComment -> [s EXCEPT !.mode = "comment"]
      [] OTHER ->
           LET complete == s.foundGap \/ char = "("
           IN  [s EXCEPT !.checkComment = FALSE,
                         !.lineContinuation = FALSE,
                         !.redacting = @ \/ (complete /\ s.verb = "sensitive"),
                         !.verb = AppendVerb(IF complete THEN "other" ELSE @, char),
                         !.foundGap = FALSE,
                         !.mode = IF char = "(" THEN "parameter" ELSE "main"]

(* getParameterString: it knows no comment lines outside strings.          *)
Parameter(s, char) ==
    CASE char = ")" -> [Reset(s) EXCEPT !.mode = "main"]
      [] char \in Quotes -> [s EXCEPT !.mode = "string", !.denoter = char]
      [] OTHER -> s

Bug_NoCommentInString(s, char) ==
    [s EXCEPT !.mode = IF char = s.denoter THEN "parameter" ELSE "string"]

(* findEndOfParamterString: its outer loop, and NewLineLoop, which looks   *)
(* for a comment line inside the string.                                   *)
String(s, char) ==
    [s EXCEPT !.mode =
        CASE char = s.denoter -> "parameter"
          [] char = "newline" -> "string line"
          [] s.mode = "string line" /\ ~StartOutput(char) -> "string line"
          [] s.mode = "string line" /\ char = "*" -> "string comment"
          [] OTHER -> "string"]

(* One character.                                                          *)
Redact(s, char) ==
    CASE s.mode = "main" /\ s.newline /\ ~StartOutput(char) -> s
      [] s.mode = "main" /\ (~s.newline \/ StartOutput(char)) ->
           MainLoop([s EXCEPT !.newline = FALSE], char)
      [] s.mode = "comment" ->
           IF char = "newline"
           THEN [s EXCEPT !.mode = "main", !.checkComment = TRUE, !.newline = TRUE]
           ELSE s
      [] s.mode = "parameter" -> Parameter(s, char)
      [] s.mode \in {"string", "string line"} -> String(s, char)
      [] s.mode = "string comment" ->
           IF char = "newline" THEN [s EXCEPT !.mode = "string line"] ELSE s

(* The character comes out as it is.                                       *)
Copied(s) == s.mode \in {"main", "comment"} \/ ~s.redacting

----------------------------------------------------------------------------
(* MQSC.  A line may be continued, a comment line begins with an asterisk  *)
(* and may stand anywhere a line may, between brackets and inside a string *)
(* too; names are followed by values in brackets.                          *)

Legal(t) ==
    CASE t.at = "line start" ->
           Blank \union Letters \union {"digit", "+", "*"} \union
               (IF t.named THEN {"("} ELSE {})
      [] t.at = "line" ->
           Blank \union Letters \union {"digit", "+"} \union
               (IF t.named THEN {"("} ELSE {})
      [] t.at = "continued" -> Blank
      [] t.at \in {"value", "value start"} -> Characters \ {"("}
      [] OTHER -> Characters

(* A name goes on over continuations; a gap that is not continued ends it  *)
(* when the next one begins.                                               *)
Named(t, char) ==
    LET name == AppendVerb(IF t.gap THEN "other" ELSE t.name, char)
    IN  [t EXCEPT !.at = "line", !.name = name, !.named = TRUE, !.gap = FALSE,
                  !.sinceValue = @ \/ name = "sensitive"]

Text(t, char) ==
    CASE t.at \in {"line", "line start"} ->
           (CASE char = "(" -> [t EXCEPT !.at = "value", !.secret = (t.name = "sensitive")]
              [] char = "+" -> [t EXCEPT !.at = "continued", !.gap = FALSE]
              [] char = "*" -> [t EXCEPT !.at = "comment"]
              [] char = "newline" ->
                   [t EXCEPT !.at = "line start", !.gap = @ \/ t.at = "line"]
              [] char = "blank" -> [t EXCEPT !.gap = @ \/ t.at = "line"]
              [] char = "digit" /\ t.at = "line start" -> t
              [] OTHER -> Named(t, char))
      [] t.at \in {"continued", "comment"} ->
           IF char = "newline" THEN [t EXCEPT !.at = "line start"] ELSE t
      [] t.at \in {"value", "value start"} ->
           (CASE char = ")" ->
                   [t EXCEPT !.at = "line", !.name = "other", !.named = FALSE,
                             !.gap = FALSE, !.secret = FALSE, !.sinceValue = FALSE]
              [] char \in Quotes -> [t EXCEPT !.at = "string", !.quote = char]
              [] char = "newline" \/ (t.at = "value start" /\ ~StartOutput(char)) ->
                   [t EXCEPT !.at = "value start"]
              [] char = "*" /\ t.at = "value start" -> [t EXCEPT !.at = "value comment"]
              [] OTHER -> [t EXCEPT !.at = "value"])
      [] t.at = "value comment" ->
           [t EXCEPT !.at = IF char = "newline" THEN "value start" ELSE "value comment",
                     !.misled = @ \/ char \in Quotes \union {")"}]
      [] t.at \in {"string", "string start"} ->
           (CASE char = t.quote -> [t EXCEPT !.at = "value"]
              [] char = "newline" \/ (t.at = "string start" /\ ~StartOutput(char)) ->
                   [t EXCEPT !.at = "string start"]
              [] char = "*" /\ t.at = "string start" -> [t EXCEPT !.at = "string comment"]
              [] OTHER -> [t EXCEPT !.at = "string"])
      [] t.at = "string comment" ->
           IF char = "newline" THEN [t EXCEPT !.at = "string start"] ELSE t

----------------------------------------------------------------------------
RedactionInit ==
    /\ text = [at |-> "line start", quote |-> "'", name |-> "other", named |-> FALSE,
               gap |-> FALSE, secret |-> FALSE, sinceValue |-> FALSE,
               misled |-> FALSE]
    /\ scan = [mode |-> "main", verb |-> "other", lineContinuation |-> FALSE,
               foundGap |-> FALSE, redacting |-> FALSE, checkComment |-> TRUE,
               newline |-> TRUE, denoter |-> "'"]
    /\ last = [secret |-> FALSE, sinceValue |-> FALSE, misled |-> FALSE, copied |-> TRUE]

ReadRune(char) ==
    /\ char \in Legal(text)
    /\ text' = Text(text, char)
    /\ scan' = Redact(scan, char)
    /\ last' = [secret |-> text.secret, sinceValue |-> text.sinceValue,
                misled |-> text.misled, copied |-> Copied(scan)]

RedactionNext == \E char \in Characters : ReadRune(char)

RedactionSpec == RedactionInit /\ [][RedactionNext]_redactionVars

----------------------------------------------------------------------------
(* Properties.                                                             *)

(* No character of a sensitive parameter's value is copied, wherever lines *)
(* are continued, strings are quoted and comments stand, in names, between *)
(* commands, in strings and between brackets; and a value is replaced only *)
(* if a sensitive name came before it since the last value, so that the    *)
(* rest of the output stays readable.  This is so up to the first comment  *)
(* line between brackets and outside a string that has a closing bracket   *)
(* or a quote in it: getParameterString (mqscredact.go:98-104) takes it    *)
(* for the end of the value or the beginning of a string, and from there   *)
(* the scanner and the text may disagree.                                  *)
RedactsSensitive ==
    ~last.misled =>
        /\ last.secret => ~last.copied
        /\ ~last.copied => last.sinceValue
============================================================================
