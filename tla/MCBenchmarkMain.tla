--------------------------- MODULE MCBenchmarkMain ---------------------------
(* Command lines, environments and results for checking BenchmarkMain.       *)
EXTENDS BenchmarkMain

Set(flag, text) == Text(flag) \o <<"=">> \o text
TestArguments ==
    {Set("benchmark_format", <<"json">>), Set("benchmark_format", <<"csv">>),
     Set("benchmark_out", <<"f">>), Set("benchmark_out", <<"/">>),
     Set("benchmark_out_format", <<"csv">>), Set("benchmark_out_format", <<"xml">>),
     Text("benchmark_report_aggregates_only"), Set("benchmark_display_aggregates_only", <<"1">>),
     Set("benchmark_display_aggregates_only", <<"off">>), Set("benchmark_counters_tabular", <<"y">>),
     Set("benchmark_repetitions", <<"5">>), Set("benchmark_repetitions", <<"many">>),
     Set("benchmark_filter", <<"all">>), Set("benchmark_filter", <<"none">>),
     Set("benchmark_filter", <<"(">>), Set("benchmark_context", <<"k", "=", "a">>),
     Set("benchmark_context", <<"k", "=", "b", ",", "c">>), Text("benchmark_list_tests"),
     Text("benchmark_dry_run"), <<"--", "v", "erbose">>, <<"--", "help">>, <<"file">>,
     Set("benchmark_min_time", <<"x">>), Set("benchmark_min_time", <<"many">>),
     Set("benchmark_time_unit", <<"ms">>), Set("benchmark_min_warmup_time", <<"0.5">>)}

TestCounters == <<"a", "b", "bytes_per_second", "items_per_second">>
TestUnwritable == {<<"/">>}

TestEnvironments ==
    {[f \in {} |-> <<>>],
     [f \in {"benchmark_format", "benchmark_out"} |->
         IF f = "benchmark_format" THEN <<"csv">> ELSE <<"g">>],
     [f \in {"benchmark_context", "benchmark_repetitions"} |->
         IF f = "benchmark_context" THEN <<"k", "=", "e">> ELSE <<"2147483648">>]}
Teststrtol ==
    [text \in {<<>>, <<"5">>, <<"2147483648">>} |->
        CASE text = <<>> -> 0 [] text = <<"5">> -> 5 [] OTHER -> 8]
Teststrtod == [text \in {<<>>, <<"0.5">>} |-> IF text = <<>> THEN 0 ELSE 1]

TestInstances ==
    [text \in {<<".">>, <<"none">>, <<"(">>} |->
        CASE text = <<".">> -> 2 [] text = <<"none">> -> 0 [] OTHER -> -1]

Plain == [display |-> "default", file |-> "default", accepts |-> TRUE, suites |-> 1,
          ndebug |-> FALSE]
TestPrograms ==
    {Plain, [Plain EXCEPT !.display = "json", !.file = "csv"],
     [Plain EXCEPT !.display = "json", !.file = "csv", !.ndebug = TRUE],
     [Plain EXCEPT !.display = "console", !.suites = 2], [Plain EXCEPT !.suites = 2],
     [Plain EXCEPT !.display = "json", !.accepts = FALSE]}

R(type, counters) == [type |-> type, counters |-> counters, skipped |-> "no"]
Skipped(how) == [type |-> "iteration", counters |-> {}, skipped |-> how]
Batch(runs, aggregates) ==
    [non_aggregates |-> runs, aggregates_only |-> aggregates, mode |-> {"unspecified"}]
TestBatches ==
    {Batch(<<R("iteration", {})>>, <<>>),
     Batch(<<R("iteration", {"a", "items_per_second"}), R("iteration", {"a", "items_per_second"})>>,
           <<R("time", {"a"}), R("percentage", {"a"})>>),
     Batch(<<Skipped("error")>>, <<R("big_o", {}), R("rms", {})>>),
     [Batch(<<Skipped("message"), R("iteration", {"b"})>>, <<>>) EXCEPT !.mode = {"file"}]}

\* The longest command lines are those of a plain program in no environment.
MCInit ==
    /\ Init
    /\ Len(given) > MaxArguments => program = Plain /\ env = [f \in {} |-> <<>>]
MCSpec == MCInit /\ [][Next]_vars
=============================================================================
