---------------------------- MODULE BenchmarkMain ----------------------------
(***************************************************************************)
(* A benchmark program from its command line to its outputs: BENCHMARK_MAIN*)
(* (benchmark.h), or a main that calls Initialize, RunSpecifiedBenchmarks  *)
(* with reporters of its own, once or again, and Shutdown (benchmark.cc).  *)
(* What RunBenchmarks measures in between are the results of each          *)
(* benchmark, in batches.                                                  *)
(***************************************************************************)
EXTENDS CommandLine, Reporters

CONSTANTS
    Programs,     \* the reporters given to RunSpecifiedBenchmarks and how often, and
                  \* whether the library was built with NDEBUG
    Instances,    \* a function from filters to the instances they match; -1 for
                  \* a filter that is not a regular expression
    Unwritable,   \* texts that no file can be opened by
    Batches,      \* results of a benchmark
    MaxBatches,   \* bound on them in a suite
    MaxTogether   \* bound on them and the arguments together

\* A benchmark is reported when its repetitions, one at least, have been run.
ASSUME MainAssumption ==
    /\ Programs \subseteq [display : {"default"} \cup Kinds, file : {"default"} \cup Kinds,
                           accepts : BOOLEAN, suites : Nat \ {0}, ndebug : BOOLEAN]
    /\ Batches \subseteq [non_aggregates : Seq(Run) \ {<<>>}, aggregates_only : Seq(Run),
                          mode : {{"unspecified"}} \cup SUBSET {"display", "file"}]
    /\ MaxBatches \in Nat /\ MaxTogether \in Nat

VARIABLES
    program,   \* which of Programs this is
    suite,     \* how often RunSpecifiedBenchmarks was called
    display,   \* the display reporter, {} before there is one; of what it has
               \* written, that of this suite
    file,      \* the file reporter, {} if there is none
    reported,  \* the batches of this suite
    returned   \* what RunSpecifiedBenchmarks has returned

mainVars == <<program, suite, display, file, reported, returned>>
vars == <<commandVars, mainVars>>

Init ==
    /\ CommandLineInit
    /\ program \in Programs
    /\ suite = 0 /\ display = {} /\ file = {} /\ reported = <<>> /\ returned = <<>>

-----------------------------------------------------------------------------
GoTo(place) == at' = place /\ UNCHANGED <<env, given, argv, argc, i, FLAGS, global_context,
                                          default_time_unit, exit_code>>
Exit(code) == at' = "exit" /\ exit_code' = code
              /\ UNCHANGED <<env, given, argv, argc, i, FLAGS, global_context, default_time_unit>>

\* Ends that are not an exit: a failing check, and a use of deleted memory.
Aborted == -2
UseAfterDelete == -3

spec == IF FLAGS["benchmark_filter"] \in {<<>>, <<"all">>} THEN <<".">> ELSE FLAGS["benchmark_filter"]
fname == FLAGS["benchmark_out"]
tabular == FLAGS["benchmark_counters_tabular"]

\* The default display reporter is made once; the first suite deletes it.
DisplayReporter ==
    LET made(kind, columns) == Reporter(kind, columns, "apart", program.ndebug)
    IN  IF program.display = "default" THEN {made(FLAGS["benchmark_format"][1], tabular)}
        ELSE IF display = {} THEN {made(program.display, TRUE)} ELSE display

\* Both streams of the file reporter are the file.
FileReporter ==
    LET made(kind, columns) == Reporter(kind, columns, "output", program.ndebug)
    IN  IF program.file # "default" THEN IF file = {} THEN {made(program.file, TRUE)} ELSE file
        ELSE IF fname = <<>> THEN {} ELSE {made(FLAGS["benchmark_out_format"][1], tabular)}

NeedsFile == program.file # "default" /\ fname = <<>>

\* RunSpecifiedBenchmarks up to its call of FindBenchmarksInternal.
SetUpReporters ==
    /\ at = "initialized"
    /\ suite' = suite + 1
    /\ IF suite > 0 /\ program.display = "default"
       THEN Exit(UseAfterDelete) /\ UNCHANGED <<display, file>>
       ELSE /\ display' = {[r EXCEPT !.out = <<>>] : r \in DisplayReporter}
            /\ file' = {[r EXCEPT !.out = <<>>] : r \in FileReporter}
            /\ IF NeedsFile \/ fname \in Unwritable THEN Exit(1) ELSE GoTo("find")
    /\ UNCHANGED <<program, reported, returned>>

\* An invalid filter, or one that matches nothing, returns 0.
FindBenchmarks ==
    LET n == Instances[spec]
    IN  /\ at = "find"
        /\ IF n <= 0 THEN GoTo("returned") /\ returned' = Append(returned, 0)
           ELSE /\ GoTo(IF FLAGS["benchmark_list_tests"] THEN "listed" ELSE "context")
                /\ returned' = Append(returned, n)
        /\ UNCHANGED <<program, suite, display, file, reported>>

\* --benchmark_list_tests writes the names and nothing else.
ListTests == at = "listed" /\ GoTo("returned") /\ UNCHANGED mainVars

parsed_benchtime_flag == ParseBenchMinTime(FLAGS["benchmark_min_time"])

\* A display reporter of the program's own may refuse the context: then it has
\* written nothing, the file reporter is not asked, nothing is run, and both are
\* finalized. After it the runners are made, which read --benchmark_min_time and
\* check what they read.
Context ==
    LET accepted == program.accepts \/ program.display = "default"
    IN  /\ at = "context"
        /\ display' = IF accepted THEN {ReportContext(r) : r \in display} ELSE display
        /\ file' = IF accepted THEN {ReportContext(r) : r \in file} ELSE file
        /\ IF accepted /\ parsed_benchtime_flag = {} /\ ~program.ndebug THEN Exit(Aborted)
           ELSE GoTo(IF accepted THEN "report" ELSE "finalize")
        /\ reported' = <<>>
        /\ UNCHANGED <<program, suite, returned>>

\* BenchmarkRunner's report modes.
DisplayOnly(batch) ==
    IF batch.mode # {"unspecified"} THEN "display" \in batch.mode
    ELSE FLAGS["benchmark_report_aggregates_only"] \/ FLAGS["benchmark_display_aggregates_only"]
FileOnly(batch) ==
    IF batch.mode # {"unspecified"} THEN "file" \in batch.mode
    ELSE FLAGS["benchmark_report_aggregates_only"]

\* `0x` and `x` give a benchmark without a count of its own no iterations, which
\* the check in State's constructor refuses.
NoIterations ==
    /\ at = "report" /\ ~FLAGS["benchmark_dry_run"] /\ ~program.ndebug
    /\ \E t \in parsed_benchtime_flag : t.tag = "ITERS" /\ t.iters = 0
    /\ Exit(Aborted) /\ UNCHANGED mainVars

\* Report, to both reporters. A CSV reporter's failing check ends the program.
Report(batch) ==
    LET shown == {ReportOne(r, DisplayOnly(batch), batch) : r \in display}
        filed == {ReportOne(r, FileOnly(batch), batch) : r \in file}
    IN  /\ at = "report" /\ Len(reported) < MaxBatches
        /\ Len(reported) + Len(given) <= MaxTogether
        /\ display' = shown /\ file' = filed
        /\ reported' = Append(reported, batch)
        /\ IF \E r \in shown \cup filed : r.check_failed THEN Exit(Aborted) ELSE UNCHANGED commandVars
        /\ UNCHANGED <<program, suite, returned>>

LastReported == at = "report" /\ reported # <<>> /\ GoTo("finalize") /\ UNCHANGED mainVars

FinalizeReporters ==
    /\ at = "finalize"
    /\ display' = {Finalize(r) : r \in display}
    /\ file' = {Finalize(r) : r \in file}
    /\ GoTo("returned")
    /\ UNCHANGED <<program, suite, reported, returned>>

\* Another suite; or Shutdown, which deletes the context, and the end.
Returned ==
    /\ at = "returned"
    /\ IF suite < program.suites THEN GoTo("initialized") ELSE Exit(0)
    /\ UNCHANGED mainVars

Next ==
    \/ CommandLineNext /\ UNCHANGED mainVars
    \/ SetUpReporters \/ FindBenchmarks \/ ListTests \/ Context
    \/ \E batch \in Batches : Report(batch)
    \/ NoIterations \/ LastReported \/ FinalizeReporters \/ Returned

Spec == Init /\ [][Next]_vars

-----------------------------------------------------------------------------
\* The outputs of a suite that has been run to its end.
Outputs ==
    IF at = "returned" /\ reported # <<>> /\ FLAGS["benchmark_list_tests"] = FALSE
    THEN display \cup file ELSE {}

IsRun(item) == "run" \in DOMAIN item
RunsOf(out) ==
    LET items == Among(out, {item \in ToSet(out) : IsRun(item)})
    IN  [k \in DOMAIN items |-> items[k].run]

\* What is to be in an output of a batch.
Due(batch, only) ==
    IF only /\ batch.aggregates_only # <<>> THEN batch.aggregates_only
    ELSE batch.non_aggregates \o batch.aggregates_only

\* Every output has each run that was reported once, in order; those of the
\* repetitions are left out only where the flags or the benchmark say so for
\* this output, and never if there is no aggregate in their place.
NothingLeftOut ==
    at = "finalize" =>
        /\ \A r \in display :
              RunsOf(r.out) = FlattenSeq([k \in DOMAIN reported |-> Due(reported[k], DisplayOnly(reported[k]))])
        /\ \A r \in file :
              RunsOf(r.out) = FlattenSeq([k \in DOMAIN reported |-> Due(reported[k], FileOnly(reported[k]))])

\* The output of a JSON reporter is a document: an array of objects with one
\* comma between two of them, however they came in calls, and no key twice in
\* an object. A reporter that is used for a second suite begins with a comma,
\* and one of a suite that was refused has no beginning.
JsonDocument ==
    \A r \in Outputs : r.kind = "json" /\ suite = 1 =>
        LET n == Len(r.out)
        IN  /\ r.out[1] = Open /\ r.out[n] = Close /\ n % 2 = 1
            /\ \A k \in 2 .. n - 1 :
                  IF k % 2 = 0 THEN IsRun(r.out[k]) /\ IsInjective(r.out[k].keys)
                  ELSE r.out[k] = Comma

\* Where the header of a CSV output stands: in a file the context is before it.
HeaderAt(r) == IF r.error_stream_ = "output" THEN 2 ELSE 1

\* In a line of a CSV output what is written stands in the column of its name: all
\* counters of the run, or with NDEBUG those that have a column.
StandsIn(columns, line) ==
    LET forCounters == Rates \cup {columns[k] : k \in Len(elements) + 1 .. Len(columns)}
    IN  /\ IsRun(line) /\ Len(line.fields) <= Len(columns)
        /\ \A f \in DOMAIN line.fields : line.fields[f] \in {"", columns[f]}
        /\ ~program.ndebug => line.run.counters \subseteq forCounters
        /\ IF line.run.skipped # "no" THEN "error_message" \in ToSet(line.fields)
           ELSE line.run.counters \cap forCounters \subseteq ToSet(line.fields)

\* A CSV output has one header, the first line on the display and the one behind the
\* context in a file, and each line below it stands in its columns.
CsvLines ==
    \A r \in Outputs : r.kind = "csv" /\ suite = 1 =>
        /\ HeaderAt(r) = 2 => r.out[1] = Basic
        /\ \A k \in HeaderAt(r) + 1 .. Len(r.out) : StandsIn(r.out[HeaderAt(r)].header, r.out[k])

\* On a tabular console each line stands under a header with its counters.
ConsoleColumns ==
    \A r \in Outputs : r.kind = "console" /\ r.tabular =>
        \A k \in DOMAIN r.out : IsRun(r.out[k]) =>
            LET headers == {h \in 1 .. k : "header" \in DOMAIN r.out[h]}
            IN  /\ headers # {}
                /\ r.out[Max(headers)].header = r.out[k].columns

\* complexity.cc:224: times are reported after being multiplied by the multiplier
\* of the time unit, and divided by the iterations; percentages as they are. The
\* error of a complexity, which was divided by the multiplier, is a time here.
AsReported(run) == IF run.type = "percentage" THEN "accumulated" ELSE "adjusted"

\* The reporters agree on what they show of a run's times, in any format; but
\* for the error of a complexity in a CSV file.
TimesAgree ==
    \A r \in Outputs : \A k \in DOMAIN r.out :
        IsRun(r.out[k]) /\ ~(r.kind = "csv" /\ r.out[k].run.type = "rms") =>
            r.out[k].times = AsReported(r.out[k].run)

\* All three: in a file or on a console each value stands in the column of its
\* name, in the unit that the other formats give it.
ColumnsHoldTheirValues == CsvLines /\ ConsoleColumns /\ TimesAgree
=============================================================================
