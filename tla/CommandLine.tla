---------------------------- MODULE CommandLine -----------------------------
(***************************************************************************)
(* The command line (CommandLine.cpp).  An argument is a word, an option   *)
(* with or without a value of its own, a short option or "--".  A text is  *)
(* the sequence of its non-empty pieces between commas: <<>> is "" or ",". *)
(***************************************************************************)
EXTENDS Selection, Settings, Functions

Word(text) == [kind |-> "word", name |-> "", text |-> text, inline |-> FALSE]
Long(name) == [kind |-> "long", name |-> name, text |-> <<>>, inline |-> FALSE]
LongWith(name, text) == [kind |-> "long", name |-> name, text |-> text, inline |-> TRUE]
Short(name) == [kind |-> "short", name |-> name, text |-> <<name>>, inline |-> FALSE]
DashDash == [kind |-> "dashdash", name |-> "", text |-> <<>>, inline |-> FALSE]

GlobalOptions == {"config", "log-level", "log-file", "log-json", "no-color", "color",
                  "db", "no-db", "help", "version", "quiet", "verbose"}

SelectionOptions == {"suite", "test", "tag", "exclude-tag", "exclude-suite", "shard",
                     "shards", "shuffle", "seed", "include-disabled"}

\* Options that take no value.
FlagOptions == {"help", "version", "no-color", "color", "log-json", "quiet", "verbose",
                "shuffle", "fail-fast", "no-db", "include-disabled", "json", "no-report",
                "mock", "register", "watch", "open", "dry-run", "no-persist", "gpu", "full",
                "prune", "all", "execute", "flaky"}

CommandOptions ==
  [list |-> SelectionOptions \cup {"json", "format"},
   run |-> SelectionOptions \cup {"workers", "timeout", "fail-fast", "retry-failed", "label",
                                  "report-dir", "no-report", "json", "no-persist", "dry-run"},
   report |-> {"run", "format", "output", "open"},
   diagnose |-> {"json", "gpu", "full"},
   history |-> {"limit", "test", "json", "prune", "days"},
   stats |-> {"runs", "json", "flaky", "limit"},
   serve |-> {"host", "port", "workers", "static", "open"},
   ai |-> {"requirement", "file", "suite", "max-tests", "register", "run", "test", "json",
           "mock", "limit"},
   spec |-> {"file", "register", "execute", "json", "workers"},
   db |-> {"json", "prune", "days", "all"},
   version |-> {"json"},
   help |-> {}]

Commands == DOMAIN CommandOptions

KnownOptions(command) == IF command \in Commands THEN CommandOptions[command] ELSE {}

-----------------------------------------------------------------------------
(* Parsing                                                                 *)

NoCommand == [command |-> "", subcommand |-> <<>>, help |-> FALSE, version |-> FALSE,
              error |-> "none", options |-> <<>>, positionals |-> <<>>]

IsDashed(argument) == argument.kind # "word"

\* The options given, each with the values it got so far; a flag has none.
Given(parsed, name, values) ==
  [parsed EXCEPT !.options =
     [n \in DOMAIN @ \cup {name} |-> (IF n \in DOMAIN @ THEN @[n] ELSE <<>>)
                                      \o (IF n = name THEN values ELSE <<>>)]]

\* Mutant: whatever follows an option is its value.
BugTakesValue(arguments, i) == i < Len(arguments)

\* The argument after an option is its value unless it starts with two dashes: in
\* --tag -h the value is -h.
TakesValue(arguments, i) ==
  i < Len(arguments) /\ arguments[i + 1].kind \notin {"long", "dashdash"}

\* One turn of the loop over the arguments: at.i is the next one, and 0 once the
\* loop was left.
ParseNext(arguments, at) ==
  LET i == at.i
      parsed == at.parsed
      argument == arguments[i]
      known == KnownOptions(parsed.command) \cup GlobalOptions
      after(n, result) == [i |-> n, parsed |-> result]
      leave(result) == [i |-> 0, parsed |-> result]
  IN IF i \notin DOMAIN arguments THEN leave(parsed)
     ELSE IF argument.kind = "dashdash"
       THEN leave([parsed EXCEPT !.positionals =
                     @ \o [n \in 1..(Len(arguments) - i) |-> arguments[i + n].text]])
     ELSE IF argument.kind = "word"
       THEN after(i + 1, [parsed EXCEPT !.positionals = Append(@, argument.text)])
     ELSE IF argument.name \in {"-h", "help"} THEN after(i + 1, [parsed EXCEPT !.help = TRUE])
     ELSE IF argument.name \in {"-V", "version"} THEN after(i + 1, [parsed EXCEPT !.version = TRUE])
     ELSE IF argument.kind = "short" THEN leave([parsed EXCEPT !.error = "short option"])
     ELSE IF argument.name \notin known THEN leave([parsed EXCEPT !.error = "unknown option"])
     ELSE IF argument.inline THEN after(i + 1, Given(parsed, argument.name, <<argument.text>>))
     ELSE IF argument.name \in FlagOptions THEN after(i + 1, Given(parsed, argument.name, <<>>))
     ELSE IF ~TakesValue(arguments, i) THEN leave([parsed EXCEPT !.error = "value missing"])
     ELSE after(i + 2, Given(parsed, argument.name, <<arguments[i + 1].text>>))

\* The loop: every turn takes at least one argument.
ParseFrom(arguments, i, parsed) ==
  LET turn[n \in 0..(Len(arguments) + 1)] ==
        IF n = 0 THEN [i |-> i, parsed |-> parsed] ELSE ParseNext(arguments, turn[n - 1])
  IN turn[Len(arguments) + 1].parsed

\* The command word, after any number of requests for help or the version.
Parse(arguments) ==
  LET leading == {"-h", "-V", "help", "version"}
      IsLeading(i) == arguments[i].name \in leading /\ ~arguments[i].inline
      first == CHOOSE n \in 1..(Len(arguments) + 1) :
                 /\ \A i \in 1..(n - 1) : IsLeading(i)
                 /\ n \in DOMAIN arguments => ~IsLeading(n)
      asked == {arguments[i].name : i \in 1..(first - 1)}
      Bare(n) == n \in DOMAIN arguments /\ ~IsDashed(arguments[n])
      command == IF Bare(first) /\ arguments[first].text # <<>> THEN Head(arguments[first].text) ELSE ""
      second == IF Bare(first) THEN first + 1 ELSE first
      hasSub == command \in {"ai", "db"} /\ Bare(second)
      parsed == ParseFrom(arguments, IF hasSub THEN second + 1 ELSE second,
                  [NoCommand EXCEPT !.command = command,
                     !.subcommand = IF hasSub THEN arguments[second].text ELSE <<>>,
                     !.help = asked \cap {"-h", "help"} # {},
                     !.version = asked \cap {"-V", "version"} # {}])
  IN IF parsed.error # "none" THEN parsed
     ELSE IF parsed.help \/ parsed.version THEN parsed
     ELSE IF parsed.command = "" THEN [parsed EXCEPT !.help = TRUE]
     ELSE IF parsed.command \notin Commands THEN [parsed EXCEPT !.error = "unknown command"]
     ELSE parsed

-----------------------------------------------------------------------------
(* What a command asks of its options                                      *)

\* values(): the pieces of every occurrence.
ValuesOf(parsed, name) ==
  IF name \in DOMAIN parsed.options
  THEN UNION {Range(text) : text \in Range(parsed.options[name])} ELSE {}

\* flag(): anything but a text for "no" is a yes.
FlagOf(parsed, name) ==
  /\ name \in DOMAIN parsed.options
  /\ parsed.options[name] # <<>> => Last(parsed.options[name]) # <<"false">>

Numerals == {"0", "1", "2", "4294967297"}

\* The last one is 2^32 + 1.
NumberOf(text) ==
  CASE text = <<"1">> -> 1 [] text = <<"2">> -> 2 [] text = <<"4294967297">> -> 2 * IntHalf + 1 [] OTHER -> 0

\* intValue(): the last occurrence counts, what is no number counts as not given,
\* and of a number that no int holds the lower half is left.
IntOf(parsed, name, fallback) ==
  IF name \in DOMAIN parsed.options /\ parsed.options[name] # <<>>
     /\ Last(parsed.options[name]) \in {<<numeral>> : numeral \in Numerals}
  THEN Narrow(NumberOf(Last(parsed.options[name]))) ELSE fallback

Named(pieces) == {<<"*", piece>> : piece \in pieces}

\* A bare word is the name of a test, commas included.
PatternOf(text) == IF Len(text) = 1 THEN text[1] ELSE "no test has this name"

FilterFrom(parsed) ==
  [suites |-> ValuesOf(parsed, "suite"),
   names |-> Named(ValuesOf(parsed, "test") \cup {PatternOf(text) : text \in Range(parsed.positionals)}),
   tags |-> ValuesOf(parsed, "tag"), excludeTags |-> ValuesOf(parsed, "exclude-tag"),
   excludeSuites |-> ValuesOf(parsed, "exclude-suite"),
   includeDisabled |-> FlagOf(parsed, "include-disabled")]

AtLeast(low, n) == IF n < low THEN low ELSE n

ShardsFrom(parsed) == [count |-> AtLeast(1, IntOf(parsed, "shards", 1)),
                       index |-> AtLeast(0, IntOf(parsed, "shard", 0))]

\* main(): what the process does with the line.
MainDoes(parsed) ==
  IF parsed.error # "none" THEN "usageError"
  ELSE IF parsed.version /\ parsed.command = "" THEN "version"
  ELSE IF parsed.help \/ parsed.command = "help" THEN "help"
  ELSE IF parsed.command \in Commands THEN parsed.command ELSE "usageError"

\* The tests that `testforge run` executes.
RunSelects(parsed, tests, excludedByDefault, hash) ==
  LET shards == ShardsFrom(parsed)
  IN SelectFrom(tests, RunFilter(FilterFrom(parsed), excludedByDefault), hash, shards.count, shards.index)
=============================================================================
