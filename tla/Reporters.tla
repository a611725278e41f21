------------------------------ MODULE Reporters ------------------------------
(***************************************************************************)
(* The reporters: what ReportContext, ReportRuns and Finalize of           *)
(* JSONReporter, CSVReporter and ConsoleReporter write to their output     *)
(* stream, and what they remember from one call to the next.               *)
(*                                                                         *)
(* An output is a sequence of items: the brackets, commas and objects of a *)
(* JSON document, the lines of a CSV file as the sequences of their        *)
(* fields, the headers and lines of the console.                           *)
(***************************************************************************)
EXTENDS Integers, Selections

CONSTANT Counters   \* names of user counters, in alphabetical order

\* UserCounters is a std::map, which has no name twice.
ASSUME CountersAssumption == Counters \in Seq(STRING) /\ IsInjective(Counters)

Kinds == {"console", "json", "csv"}

\* A run as reporters see it: one repetition, an aggregate of times or of
\* percentages, or the complexity of a family and its error. CreateRunReport gives
\* a skipped one no counters.
Run == {run \in [type : {"iteration", "time", "percentage", "big_o", "rms"},
                 skipped : {"no", "error", "message"}, counters : SUBSET ToSet(Counters)] :
            run.skipped # "no" => run.counters = {}}

\* The three classes' members, next to what they have written. error_stream_ is the
\* output itself or apart from it; ndebug tells that the BM_CHECKs are compiled out.
Reporter(kind, tabular, error_stream, ndebug) ==
    [kind |-> kind, tabular |-> tabular, error_stream_ |-> error_stream, ndebug |-> ndebug,
     out |-> <<>>, check_failed |-> FALSE, first_report_ |-> TRUE,
     printed_header_ |-> FALSE, user_counter_names_ |-> {}, prev_counters_ |-> {}]

Open == [text |-> "{context, benchmarks: ["]
Comma == [text |-> ","]
Close == [text |-> "]}"]
Basic == [text |-> "the lines of PrintBasicContext"]

Write(r, items) == [r EXCEPT !.out = @ \o items]
Ordered(names) == Among(Counters, names)

-----------------------------------------------------------------------------
(* ReportContext: JSON's is part of the document; the others write to the  *)
(* error stream. first_report_ and the CSV's header are not reset.         *)
PrintBasicContext(r) == IF r.error_stream_ = "output" THEN Write(r, <<Basic>>) ELSE r
ReportContext(r) ==
    CASE r.kind = "json" -> Write(r, <<Open>>)
      [] r.kind = "csv" -> PrintBasicContext(r)
      [] r.kind = "console" ->
            PrintBasicContext([r EXCEPT !.printed_header_ = FALSE, !.prev_counters_ = {}])

Finalize(r) == IF r.kind = "json" THEN Write(r, <<Close>>) ELSE r

-----------------------------------------------------------------------------
When(c, s) == IF c THEN s ELSE <<>>

\* JSONReporter::PrintRunData: the keys of a run's object, and its times. Each run
\* has a label here; no memory was measured.
JsonKeys(run) ==
    LET aggregate == run.type # "iteration"
    IN  <<"name", "family_index", "per_family_instance_index", "run_name", "run_type", "repetitions">>
        \o When(~aggregate, <<"repetition_index">>) \o <<"threads">>
        \o When(aggregate, <<"aggregate_name", "aggregate_unit">>)
        \o When(run.skipped = "error", <<"error_occurred", "error_message">>)
        \o When(run.skipped = "message", <<"skipped", "skip_message">>)
        \o (CASE run.type = "big_o" -> <<"cpu_coefficient", "real_coefficient", "big_o", "time_unit">>
              [] run.type = "rms" -> <<"rms">>
              [] OTHER -> <<"iterations", "real_time", "cpu_time", "time_unit">>)
        \o Ordered(run.counters) \o <<"label">>

JsonTimes(run) == IF run.type = "percentage" THEN "accumulated" ELSE "adjusted"
JsonObject(run) == [run |-> run, keys |-> JsonKeys(run), times |-> JsonTimes(run)]

\* Mutant of Separated: a comma behind each run.
Separated_Trailing(objects) == FlattenSeq([k \in DOMAIN objects |-> <<objects[k], Comma>>])

\* The commas between the runs of one call.
Separated(objects) ==
    FlattenSeq([k \in DOMAIN objects |-> <<objects[k]>> \o When(k # Len(objects), <<Comma>>)])

JsonRuns(r, runs) ==
    LET objects == [k \in DOMAIN runs |-> JsonObject(runs[k])]
    IN  IF runs = <<>> THEN r
        ELSE [Write(r, When(~r.first_report_, <<Comma>>) \o Separated(objects))
                 EXCEPT !.first_report_ = FALSE]

\* Rates that have columns of their own.
Rates == {"bytes_per_second", "items_per_second"}
elements == <<"name", "iterations", "real_time", "cpu_time", "time_unit", "bytes_per_second",
              "items_per_second", "label", "error_occurred", "error_message">>

\* Mutant of SkippedFields: one comma too few.
SkippedFields_Short ==
    <<"name">> \o [k \in 1 .. Len(elements) - 4 |-> ""] \o <<"error_occurred", "error_message">>

\* The line of a skipped run ends before the user counters.
SkippedFields ==
    <<"name">> \o [k \in 1 .. Len(elements) - 3 |-> ""] \o <<"error_occurred", "error_message">>

\* CSVReporter::PrintRunData: each field is named for what is written into it.
CsvFields(names, run) ==
    LET field(c, f) == <<IF c THEN f ELSE "">>
        counter(c) == IF c \in run.counters THEN c ELSE ""
        user == Ordered(names)
    IN  IF run.skipped # "no" THEN SkippedFields
        ELSE <<"name">> \o field(run.type \notin {"big_o", "rms"}, "iterations")
             \o <<"real_time", "cpu_time">>
             \o field(run.type \notin {"rms", "percentage"}, "time_unit")
             \o <<counter("bytes_per_second"), counter("items_per_second"), "label", "", "">>
             \o [k \in DOMAIN user |-> counter(user[k])]

\* The error of a complexity has percentages for its unit, as has an aggregate.
CsvTimes(run) == IF run.type \in {"percentage", "rms"} THEN "accumulated" ELSE "adjusted"

\* The first call fixes the columns. A later counter without one fails a check, or
\* is left out where the check is compiled out.
CsvRuns(r, runs) ==
    LET used == (UNION {runs[k].counters : k \in DOMAIN runs}) \ Rates
        names == IF r.printed_header_ THEN r.user_counter_names_ ELSE used
        header == IF r.printed_header_ THEN <<>> ELSE <<[header |-> elements \o Ordered(names)]>>
        rows == [k \in DOMAIN runs |-> [run |-> runs[k], fields |-> CsvFields(names, runs[k]),
                                   times |-> CsvTimes(runs[k])]]
    IN  IF used \subseteq names \/ r.ndebug
        THEN [Write(r, header \o rows) EXCEPT !.printed_header_ = TRUE, !.user_counter_names_ = names]
        ELSE [r EXCEPT !.check_failed = TRUE]

PrintsHeader(r, run) ==
    \/ ~r.printed_header_
    \/ r.tabular /\ run.counters # r.prev_counters_

\* ConsoleReporter::PrintRunData: a skipped run shows its message only.
ConsoleTimes(run) == IF run.type = "percentage" THEN "accumulated" ELSE "adjusted"
ConsoleLine(run) ==
    [run |-> run, times |-> ConsoleTimes(run),
     columns |-> IF run.skipped = "no" THEN Ordered(run.counters) ELSE <<>>]

ConsoleRun(r, run) ==
    IF PrintsHeader(r, run)
    THEN [Write(r, <<[header |-> Ordered(run.counters)], ConsoleLine(run)>>)
             EXCEPT !.printed_header_ = TRUE, !.prev_counters_ = run.counters]
    ELSE Write(r, <<ConsoleLine(run)>>)

ReportRuns(r, runs) ==
    CASE r.kind = "json" -> JsonRuns(r, runs)
      [] r.kind = "csv" -> CsvRuns(r, runs)
      [] r.kind = "console" -> FoldLeft(ConsoleRun, r, runs)

-----------------------------------------------------------------------------
\* Mutant of ReportOne: aggregates only, even if there are none.
ReportOne_Only(r, aggregates_only, results) ==
    LET first == IF aggregates_only THEN r ELSE ReportRuns(r, results.non_aggregates)
    IN  IF results.aggregates_only = <<>> THEN first ELSE ReportRuns(first, results.aggregates_only)

\* Report's report_one: without aggregates the runs themselves are reported.
ReportOne(r, aggregates_only, results) ==
    LET first == IF aggregates_only /\ results.aggregates_only # <<>> THEN r
                 ELSE ReportRuns(r, results.non_aggregates)
    IN  IF results.aggregates_only = <<>> THEN first ELSE ReportRuns(first, results.aggregates_only)
=============================================================================
