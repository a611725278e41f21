----------------------------- MODULE CommandLine -----------------------------
(***************************************************************************)
(* The flags of a benchmark program: their values from the environment     *)
(* (commandlineflags.h, commandlineflags.cc), and Initialize, Shutdown and *)
(* ReportUnrecognizedArguments (benchmark.cc), which change argv and the   *)
(* global context.                                                         *)
(*                                                                         *)
(* A text is a sequence of pieces: "=" and "," are pieces of their own,    *)
(* and where a flag's name begins with another's, it is two pieces. What   *)
(* strtol and strtod make of a text is given for those they consume whole. *)
(***************************************************************************)
EXTENDS Integers, Selections

CONSTANTS
    Arguments,     \* texts of the arguments
    MaxArguments,
    Environments,  \* functions from some of the flags to texts
    strtol,        \* a function from texts to integers
    strtod,        \* a function from texts to numbers
    kint32max,
    CODSPEED_WALLTIME  \* whether the build defines it

ASSUME CommandLineAssumption ==
    /\ Arguments \subseteq Seq(STRING) /\ CODSPEED_WALLTIME \in BOOLEAN
    /\ MaxArguments \in Nat /\ kint32max \in Nat
    /\ \A text \in DOMAIN strtol : strtol[text] \in Int

VARIABLES
    env,              \* the environment variables of the flags
    given,            \* argv as the program was started: it never changes
    argv, argc,       \* what Initialize has made of it
    i,                \* the argument that Initialize is at
    FLAGS,            \* the value of each flag
    global_context,   \* {} before the first entry; else {a map}
    default_time_unit,
    at,               \* where the program is
    exit_code         \* -1 while it runs

commandVars == <<env, given, argv, argc, i, FLAGS, global_context, default_time_unit, at, exit_code>>

-----------------------------------------------------------------------------
Bools == {"benchmark_list_tests", "benchmark_dry_run", "benchmark_enable_random_interleaving",
          "benchmark_report_aggregates_only", "benchmark_display_aggregates_only",
          "benchmark_counters_tabular"}
Strings == {"benchmark_filter", "benchmark_min_time", "benchmark_format", "benchmark_out",
            "benchmark_out_format", "benchmark_color", "benchmark_perf_counters",
            "benchmark_time_unit"}
Int32s == {"benchmark_repetitions", "v"}
Doubles == {"benchmark_min_warmup_time"}
KeyValues == {"benchmark_context"}
Names == Bools \cup Strings \cup Int32s \cup Doubles \cup KeyValues

Text(flag) ==
    IF flag = "benchmark_out_format" THEN <<"--", "benchmark_out", "_format">> ELSE <<"--", flag>>

\* The definitions of the flags: their values if the environment has none.
Default(flag) ==
    CASE flag \in Bools -> FALSE
      [] flag \in Doubles -> 0
      [] flag \in KeyValues -> [k \in {} |-> <<>>]
      [] flag = "benchmark_repetitions" -> IF CODSPEED_WALLTIME THEN 5 ELSE 1
      [] flag = "v" -> 0
      [] flag = "benchmark_format" -> <<"console">>
      [] flag = "benchmark_out_format" -> <<"json">>
      [] flag = "benchmark_color" -> <<"auto">>
      [] flag = "benchmark_min_time" -> <<"0.5", "s">>
      [] OTHER -> <<>>

\* string_util.cc: the pieces between the delimiters; none of an empty text.
StrSplit(text, delim) ==
    LET cuts == {k \in DOMAIN text : text[k] = delim}
        cut(k) == CHOOSE c \in cuts \cup {0, Len(text) + 1} :
                      Cardinality({b \in cuts \cup {0} : b < c}) = k
    IN  IF text = <<>> THEN <<>>
        ELSE [k \in 1 .. Cardinality(cuts) + 1 |-> SubSeq(text, cut(k - 1) + 1, cut(k) - 1)]

\* A single character is true unless it is one of these, or not alphanumeric;
\* so is any other text but these, in any case.
IsTruthyFlagValue(text) ==
    text \notin {<<"0">>, <<"f">>, <<"F">>, <<"n">>, <<"N">>, <<"=">>, <<",">>,
                 <<"false">>, <<"False">>, <<"no">>, <<"off">>}

ParseInt32(text) ==
    IF text \in DOMAIN strtol /\ strtol[text] \in -kint32max - 1 .. kint32max
    THEN {strtol[text]} ELSE {}
ParseDouble(text) == IF text \in DOMAIN strtod THEN {strtod[text]} ELSE {}

Pairs(text) == LET pairs == StrSplit(text, ",")
               IN  [k \in DOMAIN pairs |-> StrSplit(pairs[k], "=")]
Put(map, key, value) ==
    IF key \in DOMAIN map THEN map
    ELSE [k \in DOMAIN map \cup {key} |-> IF k = key THEN value ELSE map[k]]
PutAll(map, pairs) == FoldLeft(LAMBDA m, kv : Put(m, kv[1], kv[2]), map, pairs)

\* The environment's pairs: all of them, with different keys, or none.
ParseKvPairs(text) ==
    LET pairs == Pairs(text)
        keys == {pairs[k][1] : k \in DOMAIN pairs}
    IN  IF (\A k \in DOMAIN pairs : Len(pairs[k]) = 2) /\ Cardinality(keys) = Len(pairs)
        THEN {PutAll([k \in {} |-> <<>>], pairs)} ELSE {}

\* BoolFromEnv and its kind: a text that does not parse leaves the default.
FromEnv(flag, e) ==
    LET parsed == IF flag \notin DOMAIN e THEN {}
                  ELSE CASE flag \in Bools -> {IsTruthyFlagValue(e[flag])}
                         [] flag \in Strings -> {e[flag]}
                         [] flag \in Int32s -> ParseInt32(e[flag])
                         [] flag \in Doubles -> ParseDouble(e[flag])
                         [] flag \in KeyValues -> ParseKvPairs(e[flag])
    IN  IF parsed = {} THEN Default(flag) ELSE CHOOSE value \in parsed : TRUE

-----------------------------------------------------------------------------
\* Mutant of ParseFlagValue: what follows the name need not begin with "=".
ParseFlagValue_Prefix(str, flag, def_optional) ==
    LET n == Len(Text(flag))
    IN  IF ~IsPrefix(Text(flag), str) THEN {}
        ELSE {SubSeq(str, IF Len(str) > n /\ str[n + 1] = "=" THEN n + 2 ELSE n + 1, Len(str))}

\* The value of a flag in an argument, if it has one.
ParseFlagValue(str, flag, def_optional) ==
    LET n == Len(Text(flag))
    IN  IF ~IsPrefix(Text(flag), str) THEN {}
        ELSE IF def_optional /\ Len(str) = n THEN {<<>>}
        ELSE IF Len(str) > n /\ str[n + 1] = "=" THEN {SubSeq(str, n + 2, Len(str))}
        ELSE {}

\* ParseBoolFlag and its kind: whether the argument is consumed, and the flag's
\* value. Pairs go into the map up to the first that is not a pair, which leaves
\* the argument unconsumed; the map keeps the first value of a key.
ParseFlag(str, flag, old) ==
    LET texts == ParseFlagValue(str, flag, flag \in Bools)
        text == CHOOSE t \in texts : TRUE
        parsed == CASE flag \in Bools -> {IsTruthyFlagValue(text)}
                    [] flag \in Strings -> {text}
                    [] flag \in Int32s -> ParseInt32(text)
                    [] flag \in Doubles -> ParseDouble(text)
        pairs == Pairs(text)
        good == SelectInSeq(pairs, LAMBDA kv : Len(kv) # 2)
    IN  IF texts = {} THEN [consumed |-> FALSE, value |-> old]
        ELSE IF flag \in KeyValues
        THEN [consumed |-> good = 0,
              value |-> PutAll(old, IF good = 0 THEN pairs ELSE SubSeq(pairs, 1, good - 1))]
        ELSE IF parsed = {} THEN [consumed |-> FALSE, value |-> old]
        ELSE [consumed |-> TRUE, value |-> CHOOSE v \in parsed : TRUE]

\* A number of iterations or of seconds; {} for a text that fails the check.
\* The iterations end at the first "x" and the text may go on to another.
ParseBenchMinTime(value) ==
    LET before(suffix) == {SubSeq(value, 1, k - 1) : k \in {j \in DOMAIN value : value[j] = suffix}}
    IN  IF value = <<>> THEN {[tag |-> "TIME", time |-> 0]}
        ELSE IF Last(value) = "x"
        THEN {[tag |-> "ITERS", iters |-> strtol[n]] : n \in before("x") \cap DOMAIN strtol}
        ELSE {[tag |-> "TIME", time |-> strtod[t]] :
                 t \in (IF Last(value) = "s" THEN before("s") ELSE {value}) \cap DOMAIN strtod}

IsFlag(str, flag) == ParseFlagValue(str, flag, TRUE) # {}

\* Mutant of Compacted: an argument is moved over the one that was consumed,
\* those behind it are not.
Compacted_Swap == [argv EXCEPT ![i] = argv[argc]]

\* The arguments behind the consumed one move up; the last one stays there too.
Compacted == [j \in DOMAIN argv |-> IF j \in i .. argc - 1 THEN argv[j + 1] ELSE argv[j]]

\* One pass of ParseCommandLineFlags' loop: argv[1] is the program itself. The
\* order in which the flags are tried does not matter: an argument is one's.
ParseArgument ==
    LET outcome == [f \in Names |-> ParseFlag(argv[i], f, FLAGS[f])]
    IN  /\ at = "parsing" /\ i <= argc
        /\ FLAGS' = [f \in Names |-> outcome[f].value]
        /\ IF \E f \in Names : outcome[f].consumed
           THEN /\ argv' = Compacted /\ argc' = argc - 1
                /\ UNCHANGED <<i, at, exit_code>>
           ELSE /\ i' = i + 1
                /\ exit_code' = IF IsFlag(argv[i], "help") THEN 0 ELSE exit_code
                /\ at' = IF IsFlag(argv[i], "help") THEN "exit" ELSE at
                /\ UNCHANGED <<argv, argc>>
        /\ UNCHANGED <<env, given, global_context, default_time_unit>>

\* AddCustomContext: makes the map if there is none; keeps the first value.
AddCustomContext(context, key, value) ==
    {Put(map, key, value) : map \in IF context = {} THEN {[k \in {} |-> <<>>]} ELSE context}

\* The rest of ParseCommandLineFlags. PrintUsageAndExit exits with code 0.
CheckFlags ==
    LET formats == {<<"console">>, <<"json">>, <<"csv">>}
        units == {<<"s">>, <<"ms">>, <<"us">>, <<"ns">>, <<>>}
        usage == \/ FLAGS["benchmark_format"] \notin formats
                 \/ FLAGS["benchmark_out_format"] \notin formats
                 \/ FLAGS["benchmark_time_unit"] \notin units
                 \/ FLAGS["benchmark_color"] = <<>>
        dry == IF FLAGS["benchmark_dry_run"]
               THEN AddCustomContext(global_context, <<"dry_run">>, <<"true">>)
               ELSE global_context
        pairs == FLAGS["benchmark_context"]
    IN  /\ at = "parsing" /\ i > argc
        /\ at' = IF usage THEN "exit" ELSE "parsed"
        /\ exit_code' = IF usage THEN 0 ELSE exit_code
        /\ default_time_unit' = IF usage \/ FLAGS["benchmark_time_unit"] = <<>>
                                THEN default_time_unit ELSE FLAGS["benchmark_time_unit"]
        /\ global_context' = IF usage THEN global_context
                             ELSE FoldSet(LAMBDA k, c : AddCustomContext(c, k, pairs[k]), dry, DOMAIN pairs)
        /\ UNCHANGED <<env, given, argv, argc, i, FLAGS>>

\* ReportUnrecognizedArguments, and what BENCHMARK_MAIN does with its answer.
ReportUnrecognizedArguments ==
    /\ at = "parsed"
    /\ at' = IF argc > 1 THEN "exit" ELSE "initialized"
    /\ exit_code' = IF argc > 1 THEN 1 ELSE exit_code
    /\ UNCHANGED <<env, given, argv, argc, i, FLAGS, global_context, default_time_unit>>

CommandLineInit ==
    /\ env \in Environments
    /\ given \in {<<<<"program">>>> \o s : s \in BoundedSeq(Arguments, MaxArguments)}
    /\ argv = given /\ argc = Len(given) /\ i = 2
    /\ FLAGS = [f \in Names |-> FromEnv(f, env)]
    /\ global_context = {} /\ default_time_unit = <<"ns">>
    /\ at = "parsing" /\ exit_code = -1

CommandLineNext == ParseArgument \/ CheckFlags \/ ReportUnrecognizedArguments
-----------------------------------------------------------------------------
(* What the flags should be, without the order of parsing. *)

\* What the argument sets the flag to, if it does.
SetTo(str, flag) ==
    LET n == Len(Text(flag))
        text == SubSeq(str, n + 2, Len(str))
        named == IsPrefix(Append(Text(flag), "="), str)
    IN  IF flag \in Bools /\ str = Text(flag) THEN {TRUE}
        ELSE IF ~named THEN {}
        ELSE CASE flag \in Bools -> {IsTruthyFlagValue(text)}
               [] flag \in Strings -> {text}
               [] flag \in Int32s -> ParseInt32(text)
               [] flag \in Doubles -> ParseDouble(text)
               [] flag \in KeyValues ->
                     LET pairs == Pairs(text)
                     IN  IF \A k \in DOMAIN pairs : Len(pairs[k]) = 2
                         THEN {PutAll([k \in {} |-> <<>>], pairs)} ELSE {}

Parsed == at \notin {"parsing", "exit"}

Others == {str \in ToSet(given) : \A f \in Names : SetTo(str, f) = {}}

\* An argument that sets a flag is consumed and no other is: what is left are
\* the others, each once and in their order, and behind them nothing that was
\* not an argument.
ArgumentsLeft ==
    Parsed =>
        /\ SubSeq(argv, 1, argc) = <<given[1]>> \o Among(Tail(given), Others)
        /\ ToSet(argv) \subseteq ToSet(given)

\* user_guide.md: of the settings of a flag the last one on the command line
\* prevails, over earlier ones and over the environment. Of benchmark_context,
\* a map, each key keeps the first.
LastSwitchPrevails ==
    Parsed =>
        \A f \in Names \ KeyValues :
            LET setting == {k \in DOMAIN given : SetTo(given[k], f) # {}}
            IN  IF setting = {} THEN FLAGS[f] = FromEnv(f, env)
                ELSE {FLAGS[f]} = SetTo(given[Max(setting)], f)

=============================================================================
