------------------------------ MODULE CommandLine ------------------------------
(***************************************************************************)
(* What a launch is asked to do: the command line                          *)
(* (src/src/config/CliArgs.cpp), the JSON file it may name, and the         *)
(* configuration made of both (src/src/config/Config.cpp).                  *)
(*                                                                         *)
(* A token of the command line is a string; what the conversions make of a *)
(* string is given by functions, whose domains are the strings they accept *)
(* or change.  A value that may be missing is missing from a domain.       *)
(***************************************************************************)
EXTENDS Integers, SequencesExt

CONSTANTS
    NumberOf,  \* parseInt()
    ListOf,    \* splitCsv()
    UpperOf,   \* toUpper()
    Files      \* the configuration files: values, exclude, infer, json, typed

\* splitCsv() returns strings, and so does the JSON reader for patterns.
ASSUME PatternsAssumption ==
    /\ \A text \in DOMAIN ListOf : ListOf[text] \in Seq(STRING)
    /\ \A name \in DOMAIN Files : Files[name].exclude \in Seq(STRING)

Or(f, text, otherwise) == IF text \in DOMAIN f THEN f[text] ELSE otherwise

\* What f says, and where it says nothing, what g says.
Over(f, g) ==
    [x \in DOMAIN f \cup DOMAIN g |-> IF x \in DOMAIN f THEN f[x] ELSE g[x]]

Switches ==
    [word \in {"--help", "-h", "--version", "--resume", "--no-infer"} |->
        CASE word \in {"--help", "-h"} -> "showHelp"
          [] word = "--version" -> "showVersion"
          [] word = "--resume" -> "resume"
          [] word = "--no-infer" -> "noInfer"]

Options ==
    [word \in {"--connect", "-c", "--user", "-u", "--schema", "--config", "--output", "-o",
               "--threads", "-j", "--log-level", "--sample-size", "--exclude"} |->
        CASE word \in {"--connect", "-c"} -> "connectString"
          [] word \in {"--user", "-u"} -> "username"
          [] word = "--schema" -> "schemaOwner"
          [] word = "--config" -> "configPath"
          [] word \in {"--output", "-o"} -> "outputDir"
          [] word \in {"--threads", "-j"} -> "threads"
          [] word = "--log-level" -> "logLevel"
          [] word = "--sample-size" -> "sampleSize"
          [] word = "--exclude" -> "exclude"]

Accepts(key, text) == key \in {"threads", "sampleSize"} => text \in DOMAIN NumberOf

Meaning(key, text) ==
    IF key \in {"threads", "sampleSize"} THEN NumberOf[text] ELSE text

\* An option with its value; a pattern is added to the others, any other value
\* replaces an earlier one.
WithOption(args, key, text) ==
    IF key = "exclude"
    THEN [args EXCEPT !.exclude = @ \o Or(ListOf, text, <<text>>)]
    ELSE [args EXCEPT !.values = Over([k \in {key} |-> Meaning(key, text)], @)]

Wrong(p) == [p EXCEPT !.next = "error"]

\* A mistake the runs must notice: a flag ends the option before it.
TakeTokenAsFlag(p, token) ==
    CASE p.next = "error" -> p
      [] p.next # "error" /\ token \in DOMAIN Switches ->
            [p EXCEPT !.args.switches = @ \cup {Switches[token]}, !.next = "flag"]
      [] p.next # "error" /\ token \in DOMAIN Options -> [p EXCEPT !.next = Options[token]]
      [] OTHER ->
            IF p.next # "flag" /\ Accepts(p.next, token)
            THEN [args |-> WithOption(p.args, p.next, token), next |-> "flag"]
            ELSE Wrong(p)

\* The loop over argv, which looks for a flag or for the value of an option:
\* the token after an option is its value, whatever it looks like.
TakeToken(p, token) ==
    CASE p.next = "error" -> p
      [] p.next = "flag" ->
            CASE token \in DOMAIN Switches ->
                    [p EXCEPT !.args.switches = @ \cup {Switches[token]}]
              [] token \in DOMAIN Options -> [p EXCEPT !.next = Options[token]]
              [] OTHER -> Wrong(p)
      [] OTHER ->
            IF Accepts(p.next, token)
            THEN [args |-> WithOption(p.args, p.next, token), next |-> "flag"]
            ELSE Wrong(p)

NoArgs == [values |-> <<>>, switches |-> {}, exclude |-> <<>>]

\* What the loop has after each number of tokens.
TokensTaken(argv) ==
    LET after[n \in 0..Len(argv)] ==
            IF n = 0 THEN [args |-> NoArgs, next |-> "flag"]
            ELSE TakeToken(after[n - 1], argv[n])
    IN  after

\* parseCliArgs(): the arguments, unless it throws.
ParseCliArgs(argv) ==
    LET end == TokensTaken(argv)[Len(argv)]
    IN  IF end.next = "flag" THEN {end.args} ELSE {}

------------------------------------------------------------------------------
(* The configuration *)

Defaults ==
    [connectString |-> "", username |-> "", schemaOwner |-> "",
     outputDir |-> "dbscanner-out", threads |-> 4, logLevel |-> "info",
     sampleSize |-> 20]

NoFile == [values |-> <<>>, exclude |-> <<>>, infer |-> TRUE,
           json |-> TRUE, typed |-> TRUE]

\* loadJsonFile(): one that cannot be opened is as good as one without JSON.
FileOf(args) ==
    IF "configPath" \in DOMAIN args.values
    THEN Or(Files, args.values.configPath, [NoFile EXCEPT !.json = FALSE])
    ELSE NoFile

\* A ConfigError.
FileRefused(args) == ~FileOf(args).json

\* A value of another type than the member it is read into: an exception that
\* is no ConfigError.
FileMistyped(args) == ~FileOf(args).typed

\* Config's defaults, then the file, then the command line.
Merged(args) == Over(args.values, Over(FileOf(args).values, Defaults))

\* A mistake the runs must notice: only the command line's numbers are looked
\* at.
ConfigRefusedInPart(args) ==
    LET v == Over(args.values, Defaults)
        m == Merged(args)
    IN  m.connectString = "" \/ m.username = "" \/ v.threads < 1 \/ v.sampleSize < 0

\* A ConfigError, too.
ConfigRefused(args) ==
    LET v == Merged(args)
    IN  v.connectString = "" \/ v.username = "" \/ v.threads < 1 \/ v.sampleSize < 0

\* The configuration that fromCliArgs() returns.
ConfigOf(args) ==
    LET v == Merged(args)
        owner == IF v.schemaOwner = "" THEN v.username ELSE v.schemaOwner
    IN  [connectString |-> v.connectString, username |-> v.username,
         schemaOwner |-> Or(UpperOf, owner, owner), outputDir |-> v.outputDir,
         threads |-> v.threads, logLevel |-> v.logLevel, sampleSize |-> v.sampleSize,
         exclude |-> FileOf(args).exclude \o args.exclude,
         infer |-> FileOf(args).infer /\ "noInfer" \notin args.switches,
         resume |-> "resume" \in args.switches]

==============================================================================
