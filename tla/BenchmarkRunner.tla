--------------------------- MODULE BenchmarkRunner ---------------------------
(***************************************************************************)
(* class BenchmarkRunner of google_benchmark/src/benchmark_runner.cc: the  *)
(* warm-up phase, the search for an iteration count that runs long enough, *)
(* the repetitions with that count, the extra runs for a memory and a      *)
(* profiler manager, and the reports.                                      *)
(*                                                                         *)
(* One run of the benchmark (Setup, DoNIterations, Teardown) is one step   *)
(* whose outcome is any the clock and the user's function can produce.     *)
(* Time is in ticks; the factors 0.1, 1.4 and 5 are kept exactly.          *)
(***************************************************************************)
EXTENDS Integers, Sequences, FiniteSets

CONSTANTS
    Benchmarks,       \* what the benchmark registered, see BenchmarkSettings
    Flags,            \* what the command line set, see FlagSettings
    Costs,            \* ticks one iteration can take
    Skips,            \* whether a run can skip: "no", "before", "loop"
    Batch,            \* n of KeepRunningBatch(n); 1 for the other loops
    kMaxIterations,
    kDefaultMinTime

BenchmarkSettings ==
    [threads : Nat \ {0}, iterations : Nat, min_time : Nat, min_warmup_time : Nat,
     repetitions : Nat, clock : {"cpu", "real", "manual"}]
FlagSettings ==
    [tag : {"TIME", "ITERS"}, min_time : Nat, min_warmup_time : Nat,
     repetitions : Nat \ {0}, dry_run : BOOLEAN, memory_manager : BOOLEAN,
     profiler_manager : BOOLEAN]

\* benchmark.h: Iterations and MinTime exclude each other; `0x` is not legal.
ASSUME SettingsAssumption ==
    /\ Benchmarks \subseteq {b \in BenchmarkSettings : b.iterations = 0 \/ b.min_time = 0}
    /\ Flags \subseteq {f \in FlagSettings : f.tag = "ITERS" => f.min_time > 0}
ASSUME RunAssumption ==
    /\ Costs \subseteq Nat /\ Skips \subseteq {"no", "before", "loop"}
    /\ Batch \in Nat \ {0} /\ kMaxIterations \in Nat \ {0}
    /\ kDefaultMinTime \in Nat \ {0}

VARIABLES
    b, flags,              \* the benchmark and the flags: inputs, never change
    at,                    \* where DoOneRepetition is, see Places
    warmup_done, iters, num_repetitions_done,
    i_backup,              \* RunWarmUp's copy of iters
    last,                  \* the IterationResults of the latest run
    reports                \* run_results.non_aggregates

runnerVars == <<b, flags, at, warmup_done, iters, num_repetitions_done, i_backup, last, reports>>

Places == {"ready", "warmup", "measure", "memory", "profile", "report", "done"}

\* The constructor's derived members.
min_time ==
    IF flags.dry_run THEN 0
    ELSE IF b.min_time # 0 THEN b.min_time
    ELSE IF flags.tag = "ITERS" THEN kDefaultMinTime ELSE flags.min_time
min_warmup_time ==
    IF flags.dry_run THEN 0
    ELSE IF b.min_time # 0 /\ b.min_warmup_time > 0 THEN b.min_warmup_time
    ELSE flags.min_warmup_time
repeats ==
    IF flags.dry_run THEN 1
    ELSE IF b.repetitions # 0 THEN b.repetitions ELSE flags.repetitions
has_explicit_iteration_count == b.iterations # 0 \/ flags.tag = "ITERS"
initial_iters ==
    IF flags.dry_run \/ ~has_explicit_iteration_count THEN 1
    ELSE IF b.iterations # 0 THEN b.iterations ELSE flags.min_time

Results == [skipped : Skips, iterations : Nat, iters : Nat, seconds : Nat, real : Nat]
NoResults == [skipped |-> "no", iterations |-> 0, iters |-> 0, seconds |-> 0, real |-> 0]

RunnerTypeOK ==
    /\ b \in Benchmarks /\ flags \in Flags
    /\ at \in Places
    /\ warmup_done \in BOOLEAN
    /\ iters \in Nat \ {0} /\ i_backup \in Nat
    /\ num_repetitions_done \in 0 .. repeats
    /\ last \in Results \cup {NoResults}
    /\ reports \in Seq([skipped : Skips, iterations : Nat, run : Results])

Init ==
    /\ b \in Benchmarks /\ flags \in Flags
    /\ at = "ready"
    /\ warmup_done = (flags.dry_run \/ ~(min_warmup_time > 0))
    /\ iters = initial_iters
    /\ num_repetitions_done = 0
    /\ i_backup = 0
    /\ last = NoResults
    /\ reports = <<>>

-----------------------------------------------------------------------------
\* A loop of batches runs whole batches.
Ran(n) == ((n + Batch - 1) \div Batch) * Batch

\* The iterations a thread is credited with: none when it skipped before its
\* loop, all that it was asked for when it skipped in the loop.
Credited(n, skip) == IF skip = "no" THEN Ran(n) ELSE IF skip = "loop" THEN n ELSE 0

\* What DoNIterations can return for n iterations at these costs on the wall
\* clock and on the clock that decides: the threads' shares are added up.
Outcome(n, skip, wall, measured) ==
    LET total == b.threads * Credited(n, skip)
    IN  [skipped |-> skip,
         iterations |-> total,
         iters |-> total \div b.threads,
         seconds |-> total * (IF b.clock = "real" THEN wall ELSE measured),
         real |-> total * wall]

Outcomes(n) == {Outcome(n, skip, wall, measured) : skip \in Skips, wall \in Costs, measured \in Costs}

\* Mutant of GetMinTimeToApply: the two times are swapped.
GetMinTimeToApply_Swapped == IF warmup_done THEN min_warmup_time ELSE min_time

GetMinTimeToApply == IF warmup_done THEN min_time ELSE min_warmup_time

\* Mutant of ShouldReportIterationResults: no cap on the iterations.
ShouldReportIterationResults_NoCap(i) ==
    \/ i.skipped # "no" \/ flags.dry_run
    \/ i.seconds >= GetMinTimeToApply
    \/ i.real >= 5 * GetMinTimeToApply /\ b.clock # "manual"

ShouldReportIterationResults(i) ==
    \/ i.skipped # "no" \/ flags.dry_run
    \/ i.iters >= kMaxIterations
    \/ i.seconds >= GetMinTimeToApply
    \/ i.real >= 5 * GetMinTimeToApply /\ b.clock # "manual"

Larger(x, y) == IF x >= y THEN x ELSE y
Smaller(x, y) == IF x <= y THEN x ELSE y

\* num/den rounded to the nearest integer, halves away from zero.
Rounded(num, den) == (2 * num + den) \div (2 * den)

\* Mutant of PredictNumItersNeeded: predicts for the iterations asked for, not
\* for those that ran.
PredictNumItersNeeded_FromAsked(i) ==
    LET significant == 10 * i.seconds > GetMinTimeToApply
        scaled == IF significant
                  THEN Rounded(14 * GetMinTimeToApply * iters, 10 * i.seconds)
                  ELSE 10 * iters
    IN  Smaller(Larger(scaled, iters + 1), kMaxIterations)

\* 1.4 times the minimum time if the run lasted a tenth of it, else ten times
\* the iterations; at least one more, at most kMaxIterations.
PredictNumItersNeeded(i) ==
    LET significant == 10 * i.seconds > GetMinTimeToApply
        scaled == IF significant
                  THEN Rounded(14 * GetMinTimeToApply * i.iters, 10 * i.seconds)
                  ELSE 10 * i.iters
    IN  Smaller(Larger(scaled, i.iters + 1), kMaxIterations)

-----------------------------------------------------------------------------
HasRepeatsRemaining == repeats # num_repetitions_done

\* DoOneRepetition is called while repetitions remain.
BeginRepetition ==
    /\ at = "ready" /\ HasRepeatsRemaining
    /\ at' = IF warmup_done THEN "measure" ELSE "warmup"
    /\ i_backup' = IF warmup_done THEN i_backup ELSE iters
    /\ UNCHANGED <<b, flags, warmup_done, iters, num_repetitions_done, last, reports>>

FinishWarmUp == warmup_done' = TRUE /\ iters' = i_backup

\* One run of RunWarmUp's loop.
WarmUpRun(i) ==
    /\ at = "warmup"
    /\ i \in Outcomes(iters)
    /\ IF ShouldReportIterationResults(i)
       THEN at' = "measure" /\ FinishWarmUp
       ELSE iters' = PredictNumItersNeeded(i) /\ UNCHANGED <<at, warmup_done>>
    /\ last' = i
    /\ UNCHANGED <<b, flags, num_repetitions_done, i_backup, reports>>

\* Mutant of ResultsAreSignificant: each repetition searches again.
ResultsAreSignificant_EachAnew(i) ==
    has_explicit_iteration_count \/ ShouldReportIterationResults(i)

ResultsAreSignificant(i) ==
    \/ num_repetitions_done # 0
    \/ has_explicit_iteration_count
    \/ ShouldReportIterationResults(i)

AfterMeasure == IF flags.memory_manager THEN "memory"
                ELSE IF flags.profiler_manager THEN "profile" ELSE "report"

\* One run of DoOneRepetition's loop.
MeasuredRun(i) ==
    /\ at = "measure"
    /\ i \in Outcomes(iters)
    /\ IF ResultsAreSignificant(i)
       THEN at' = AfterMeasure /\ UNCHANGED iters
       ELSE iters' = PredictNumItersNeeded(i) /\ UNCHANGED at
    /\ last' = i
    /\ UNCHANGED <<b, flags, warmup_done, num_repetitions_done, i_backup, reports>>

\* RunMemoryManager: one thread, few iterations, its times are dropped.
MemoryRun ==
    /\ at = "memory"
    /\ at' = IF flags.profiler_manager THEN "profile" ELSE "report"
    /\ UNCHANGED <<b, flags, warmup_done, iters, num_repetitions_done, i_backup, last, reports>>

\* RunProfilerManager: one thread, iters iterations, its times are dropped.
ProfilerRun ==
    /\ at = "profile"
    /\ at' = "report"
    /\ UNCHANGED <<b, flags, warmup_done, iters, num_repetitions_done, i_backup, last, reports>>

\* CreateRunReport for the latest measured run, and the end of the repetition.
Report ==
    /\ at = "report"
    /\ reports' = Append(reports, [skipped |-> last.skipped, iterations |-> last.iterations,
                                   run |-> last])
    /\ num_repetitions_done' = num_repetitions_done + 1
    /\ at' = IF num_repetitions_done' = repeats THEN "done" ELSE "ready"
    /\ last' = NoResults
    /\ UNCHANGED <<b, flags, warmup_done, iters, i_backup>>

RunnerFinished == at = "done" /\ UNCHANGED runnerVars

Next ==
    \/ BeginRepetition
    \/ \E i \in Outcomes(iters) : WarmUpRun(i) \/ MeasuredRun(i)
    \/ MemoryRun \/ ProfilerRun \/ Report
    \/ RunnerFinished

Spec == Init /\ [][Next]_runnerVars

\* The runner is one sequential program and each of its runs ends.
FairSpec == Spec /\ WF_runnerVars(Next)

-----------------------------------------------------------------------------
\* Assert of both loops: after a run that is not accepted the next one has more
\* iterations, whatever the clock measured, and never more than the cap.
SearchGrows ==
    [][at' = at /\ at \in {"warmup", "measure"} =>
          iters' > last'.iters /\ iters' <= kMaxIterations]_runnerVars

Unskipped(r) == r.skipped = "no"

\* The first repetition of a benchmark that finds its own count ran for the
\* minimum time, or five times that on the wall clock, or up to the cap: the
\* warm-up time is never the one that decides.
FirstReportSignificant ==
    reports # <<>> /\ Unskipped(reports[1]) /\ ~has_explicit_iteration_count /\ ~flags.dry_run =>
        \/ reports[1].run.seconds >= min_time
        \/ reports[1].run.iters >= kMaxIterations
        \/ reports[1].run.real >= 5 * min_time /\ b.clock # "manual"

\* All repetitions that were not skipped ran the same number of iterations, as
\* the statistics over them assume.
RepetitionsAgree ==
    \A i, j \in DOMAIN reports :
        Unskipped(reports[i]) /\ Unskipped(reports[j]) =>
            reports[i].iterations = reports[j].iterations

\* The search ends even when the clock never advances.
RunnerTerminates == <>(at = "done")
=============================================================================
