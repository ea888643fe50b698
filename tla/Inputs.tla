-------------------------------- MODULE Inputs --------------------------------
(***************************************************************************)
(* How what comes from outside is read: uploads (multipart.ts), settings   *)
(* (config.ts), mail to send (mailer.ts) and log records (logger.ts).      *)
(***************************************************************************)
EXTENDS Values, Integers, Sequences, SequencesExt, FiniteSets

CONSTANT Numerals  \* the words of a key that begin with a digit

-----------------------------------------------------------------------------
(* multipart.ts: parts in the order of the form; the first limit that is   *)
(* exceeded decides.  A type is <<family, subtype>>, "*" any subtype.  The *)
(* files of one name are those of `files` that have it; they are grouped   *)
(* in a plain object, so push() fails for a name every object has.         *)

TypeAllowed(type, allowed) ==
  \E i \in DOMAIN allowed : allowed[i] = type \/ allowed[i] = <<type[1], "*">>

ParseStart == [count |-> 0, total |-> 0, files |-> <<>>, status |-> 200]

(* Mutant of TooLarge: the total is compared before the file is added. *)
TooLargeBefore(s, part, options) ==
  \/ Defined(options.maxFileSize) /\ part.size > options.maxFileSize
  \/ Defined(options.maxTotalSize) /\ s.total > options.maxTotalSize
TooLarge(s, part, options) ==
  \/ Defined(options.maxFileSize) /\ part.size > options.maxFileSize
  \/ Defined(options.maxTotalSize) /\ s.total + part.size > options.maxTotalSize

ParsePart(s, part, options) ==
  LET counted == [s EXCEPT !.count = @ + 1] IN
  IF s.status # 200 \/ part.kind = "field" THEN s
  ELSE IF Defined(options.maxFiles) /\ counted.count > options.maxFiles
  THEN [counted EXCEPT !.status = 400]
  ELSE IF TooLarge(s, part, options) THEN [counted EXCEPT !.status = 413]
  ELSE IF Defined(options.allowedTypes) /\ ~ TypeAllowed(part.type, options.allowedTypes)
  THEN [counted EXCEPT !.status = 415]
  ELSE IF part.name \in ObjectNames THEN [counted EXCEPT !.status = 500]
  ELSE [counted EXCEPT !.total = @ + part.size, !.files = Append(@, part)]

-----------------------------------------------------------------------------
(* config.ts.  A source maps keys to raw strings; NumberOf is Number().    *)

NumberOf(raw) ==
  CASE raw = "" -> 0 [] raw = "8080" -> 8080 [] raw = "1" -> 1 [] OTHER -> None

ConfigGet(source, key, fallback, type) ==
  IF key \notin DOMAIN source THEN fallback
  ELSE CASE type = "number" -> IF ~ Defined(NumberOf(source[key])) THEN fallback
                               ELSE NumberOf(source[key])
         [] type = "boolean" -> source[key] \in {"true", "1"}
         [] OTHER -> source[key]

ConfigRequire(source, key) ==
  IF key \in DOMAIN source THEN source[key] ELSE "throws"

(* A key is its words and how many "_" stand before each: none before the  *)
(* first, or where a digit begins the word.  A word behind a "_" becomes   *)
(* capital, unless it begins with a digit: A_1 and A1 are the same.        *)
CamelCase(key) ==
  [words |-> key.words,
   capital |-> {i \in DOMAIN key.words : key.underscores[i] > 0 /\ key.words[i] \notin Numerals}]

(* collectConfig, one entry: a key that begins with `prefix` and "_" is     *)
(* collected without it; a later key of the same name overwrites.           *)
Under(key, prefix) ==
  /\ Len(key.words) > 1 /\ key.words[1] = prefix
  /\ key.underscores[1] = 0 /\ key.underscores[2] > 0
Stripped(key, prefix) ==
  IF prefix = "" THEN key
  ELSE [words |-> Tail(key.words), underscores |-> [Tail(key.underscores) EXCEPT ![1] = @ - 1]]
Collect(out, e, prefix) ==
  LET k == CamelCase(Stripped(e.key, prefix)) IN
  IF prefix # "" /\ ~ Under(e.key, prefix) THEN out
  ELSE [x \in DOMAIN out \cup {k} |-> IF x = k THEN e.value ELSE out[x]]

(* configProperties: constructing the class validates, or throws. *)
BindProperties(collected, required, async) ==
  IF async \/ ~ (required \subseteq DOMAIN collected) THEN [throws |-> TRUE]
  ELSE [throws |-> FALSE, bound |-> collected]

-----------------------------------------------------------------------------
(* mailer.ts: what send() refuses, before the transport is asked. *)
Recipients(v) == IF v = None THEN <<>> ELSE v
MailFrom(mail, default) == IF Defined(mail.from) THEN mail.from ELSE default
SendMail(sent, mail, default) ==
  IF \/ Recipients(mail.to) = <<>> \/ MailFrom(mail, default) \in {None, ""}
     \/ mail.subject = "" \/ ~ (mail.text \/ mail.html)
  THEN [throws |-> TRUE, sent |-> sent]
  ELSE [throws |-> FALSE,
        sent |-> Append(sent, [to |-> Recipients(mail.to), from |-> MailFrom(mail, default),
                               bcc |-> Recipients(mail.bcc)])]

-----------------------------------------------------------------------------
(* logger.ts *)
Levels == [debug |-> 10, info |-> 20, warn |-> 30, error |-> 40]
(* toLowerCase() of the spellings that are asked about. *)
LowerCase(raw) ==
  CASE raw = "WARN" -> "warn" [] raw = "Error" -> "error" [] raw = "toString" -> "tostring"
    [] OTHER -> raw
(* `in` finds what LEVELS inherits, too. *)
EnvLevel(raw) ==
  IF LowerCase(raw) \in DOMAIN Levels \cup ObjectNames THEN LowerCase(raw) ELSE "info"
(* Nothing is less than what is inherited, which is no number. *)
Quieter(level, min) == min \in DOMAIN Levels /\ Levels[level] < Levels[min]
WriteLog(records, level, min, requestId) ==
  IF Quieter(level, min) THEN records
  ELSE Append(records, [level |-> level, requestId |-> requestId])
LogStream(level) == IF level \in {"warn", "error"} THEN "stderr" ELSE "stdout"
=============================================================================
