# Formal models of codspeed-cpp

codspeed-cpp runs C++ benchmarks under CodSpeed. It has two parts:

* `core/`: the class `CodSpeed` (which benchmark is current, what was
  executed), the measurement hooks, and the walltime results;
* `google_benchmark/`: a fork of Google Benchmark whose `State`, runner and
  main loop call `core` in three kinds of build: *off* (plain Google
  Benchmark), *walltime* (real timings, with markers and a JSON of results)
  and *analysis* (`CODSPEED_ANALYSIS`: each benchmark function runs once to
  warm up and once, for one iteration, under instrumentation).

The models are about the control of the library: who waits for whom, what is
timed and counted, which repetition is reported as what. Paths below are
relative to `src/`; `benchmark.h` is `google_benchmark/include/benchmark/benchmark.h`
and the other `.cc` and `.h` files without a path are in `google_benchmark/src/`.

## 1. Inventory

| Component | State | Operations | What is hard |
|---|---|---|---|
| Barrier (`mutex.h`) | `running_threads_`, `phase_number_`, `entered_`, a condition variable | `wait`, `removeThread` | reused for two gates by threads that may leave for good; notifies outside the lock |
| Threads of one run (`thread_manager.h`, `RunInThread` and `DoNIterations` in `benchmark_runner.cc`) | per thread: a `State`; shared: the barrier, `alive_threads_`, `results` | start, gate, loop, gate, merge, leave, notify; wait for all, join, collect | skips and early returns against the gates; an atomic counter next to a mutex and a condition |
| State and ThreadTimer (`benchmark.cc`, `benchmark.h`, `thread_timer.h`) | `started_`, `finished_`, `skipped_`, the iteration counters, the timer, `resume_timestamp_` | three kinds of loop, `PauseTiming`, `ResumeTiming`, `SkipWithError` | legal sequences of calls; what a skip leaves running |
| Measurement hooks (`core/include/measurement.hpp`) | `measurement_collecting`, `g_hooks` | pause, resume, start, stop, markers | a toggle mirrored by a flag that outlives the State |
| BenchmarkRunner (`benchmark_runner.cc`) | `warmup_done`, `iters`, `num_repetitions_done`, the reports | `DoOneRepetition`: warm-up, search, memory and profiler runs, report | a search against any clock; one repetition's result used by the others |
| RunBenchmarks (`benchmark.cc`) | the runners, the order of the repetitions, `per_family_reports`, the walltime data | the loop over all repetitions | shuffled repetitions of several runners sharing one `CodSpeed` and one family entry |
| CodSpeed (`core/src/codspeed.cpp`) | `current_benchmark`, `benchmarked`, `group_stack` | `start_benchmark`, `end_benchmark`, groups | one current benchmark, several open runners |
| Analysis builds (`benchmark_api_internal.cc`) | the above | `RunAnalysis` | the one-threaded shortcut around the runner |
| Names and URIs (`benchmark.h`, `benchmark_name.cc`, `codspeed.cpp`, `benchmark.cc`) | none | building, escaping, renaming and splitting names | the same URI made in two places, from names with `::` in types |
| Registration (`benchmark_register.*`) | the families: arguments, threads, times, repetitions | the chained methods of `Benchmark`, `AddRange`, `FindBenchmarks` | methods that refuse each other in any order; ranges up to the limits of the integers; indices under filters |
| User counters, statistics and complexity (`counter.cc`, `statistics.cc`, `complexity.cc`) | the reports of a benchmark, and of a family | `Increment`, `Finish`, `ComputeStats`, `ComputeBigO` | skipped runs among others; threads merging in any order; two times fitted one after the other |
| Walltime statistics (`core/src/walltime.cpp`) | none | `compute_quantile`, `compute_benchmark_stats` | small numbers of rounds, integer division |
| Performance counters (`perf_counters.*`) | open descriptors, group leaders, values read | create, enable, move, close, read; start and stop of a measurement | groups that are full, calls that are interrupted or refused, objects that are moved |
| Reporters (`json_reporter.cc`, `csv_reporter.cc`, `console_reporter.cc`) | `first_report_`, `printed_header_`, the columns | `ReportContext`, `ReportRuns`, `Finalize` | a document written over many calls; columns fixed by the first |
| Command line (`commandlineflags.*`, `Initialize` in `benchmark.cc`) | the flags, argv, `global_context` | flags from the environment and from argv, exits | argv rewritten while it is read; names that begin with other names |
| The program (`BENCHMARK_MAIN`, `RunSpecifiedBenchmarks`) | the reporters, the output file | list, run, report, finalize; once or again | two outputs with modes of their own |
| Namespace and workspace paths, system information, clocks, bindings, examples | none of their own, or I/O | | not modelled, section 8 |

How they interact. `RunBenchmarks` calls `DoOneRepetition` of a runner;
the runner calls `DoNIterations`, which starts threads and runs the benchmark
function in each with a `State` of its own; the States of one run share a
`ThreadManager` and its barrier. The State calls the measurement hooks;
in a walltime build `RunBenchmarks` itself tells `CodSpeed` which benchmark is
current, in an analysis build the iterator of the range-for loop does. There
are no locks but the barrier's, `benchmark_mutex_` and `end_cond_mutex_`, and
nothing is persisted, so there is no recovery to model.

Before and around this loop, `Initialize` sets the flags from argv,
`FindBenchmarks` makes the instances that the filter lets through, in index
order; after each benchmark its reports, with their counters finished and their
aggregates computed, go to a display and a file reporter; and a benchmark's
performance counters belong to one `PerfCountersMeasurement`, which the State
starts and stops together with its timer.

What makes each component correct:

* Barrier: nobody passes before all that remain have come, everybody that came
  passes, a thread that leaves holds nobody back.
* Threads: all start together and stop together; the run ends; what is
  collected is complete.
* State: timer, iteration count, markers and instrumentation describe the same
  region; no internal check fails in a legal use.
* Runner: the search ends, grows, and accepts a run that is long enough; every
  repetition of a benchmark has the same iteration count.
* RunBenchmarks: every instance is reported once, with all its repetitions,
  under its own name; a complexity is computed once over the whole family.
* Names: different names have different URIs, which both channels agree on.
* Registration: whatever order the methods come in, the settings fit each
  other; a range has the arguments it should and no others; each instance is
  found once, with dense indices, and found again by the next call; the name of an
  instance tells it from the others of its family.
* Counters and statistics: they describe exactly the runs that were not skipped.
* Performance counters: each descriptor has one owner and is closed once; an
  interval that is reported was read whole.
* Reporters: a JSON document is well formed, a CSV line fits its header, and
  the three give each value in the unit of its heading.
* Command line: what remains in argv is what the library does not know, in
  order, and the last of several settings prevails.

## 2. Modules

| Module | Models | Composition |
|---|---|---|
| `PhaseBarrier` | what a barrier promises to a shrinking group of threads (abstract) | |
| `Barrier` | `class Barrier` | implements `PhaseBarrier` (`Promise`) |
| `BenchmarkThreads` | one multi-threaded run | extends `Barrier`, and is shown to use it only as `BarrierSpec` allows |
| `RunProofs` | theorems about `Barrier`, `BenchmarkThreads` and `BenchmarkRunner` | extends the last two |
| `AnalysisRun` | `RunAnalysis` against the barrier | extends `Barrier` |
| `StateTiming` | State, timer and hooks of one thread, over several States | |
| `BenchmarkRunner` | one runner | |
| `RunBenchmarks` | the loop over all repetitions | |
| `Registration` | the families and the instances found | |
| `BenchmarkUri` | names and URIs | |
| `WalltimeStats` | walltime rounds and their statistics | extends `BenchmarkUri`: the results of one benchmark |
| `Statistics` | counters, aggregates and complexity | extends `WalltimeStats`, with whose exact arithmetic it is checked in `MCResults` |
| `PerfCounters` | descriptors and measurements against a kernel | |
| `CommandLine` | flags, environment, argv | |
| `Reporters` | the three reporters | |
| `BenchmarkMain` | a program from argv to its outputs | extends `CommandLine` and `Reporters` |
| `Selections` | selecting from a sequence by a set, for the modules that are proved about | |
| `RunBenchmarksProofs`, `StateTimingProofs`, `PerfCountersProofs`, `BenchmarkMainProofs`, `RegistrationProofs` | theorems | each extends the module it is about |
| `ResultsProofs` | theorems about `BenchmarkUri`, `WalltimeStats` and `Statistics` | extends `Statistics` |
| `FoldLemmas` | lemmas about sums, folds, selections and concatenations, by induction | extends `Selections`; the other proofs extend it |
| `MC...` | values for TLC | extend the module they are named after; `MCResults` extends `Statistics` |

Operators keep the names of the functions and the variables those of the
members they stand for. `X_Something` next to `X` is `X` with a plausible
mistake in it; no specification uses it, it is there to try the properties on.

### Barrier

Everything the code does while it holds `lock_` is one step. What it does
without is a step of its own: the `notify_all` at the end of `wait` (`NotifyAll`)
and each re-evaluation of the predicate by a woken thread (`Released`,
`BecomesLast`, `BlocksAgain`). A thread is `asleep` on the condition variable,
`awake` and on its way to `lock_`, or about to `notify`; `SpuriousWake` is what
the standard allows a condition variable. `EntryCheck` is the `BM_CHECK_LT` of
`createBarrier`: `Wait` has it as a guard, and `EntryCheckHolds`, a theorem, says
that it is never what holds a thread back.

### BenchmarkThreads

`step[t]` is the place of thread `t` in `RunInThread`: `setup` (before the
loop), `startGate` (in `StartKeepRunning`), `loop`, `noLoop` (the loop of a
thread that skipped before it), `endGate` (in `FinishKeepRunning`), `finish`
(after the loop), `returned`, `merged`, `left`, `lastOut`, `done`. The body of
the loop is one place, in which a thread may skip. `main` is the place of
`DoNIterations` after its own `RunInThread`; the test of `WaitForAllThreads`'
predicate (`check`, `blocking`) and the decrement of `alive_threads_` are
separate steps, since the decrement is not made under `end_cond_mutex_`.

### StateTiming

A `Schedule` of States runs one after the other, in any build mode and with any
of the loops `for (auto _ : state)`, `KeepRunning()` and `KeepRunningBatch(n)`.
`st` is the State with its timer, `hooks` is what outlives it: the flag
`measurement_collecting`, the callgrind switch that it mirrors, the
instrumentation window, the markers sent, and CodSpeed's current and executed
benchmarks. The calls are functions of `st` and `hooks`, the actions are the
places where user code makes them: user code may skip before, in or after the
loop, must leave once it has skipped or let the loop end, and may pause and
resume within a body. A `BM_CHECK` that fails is recorded in `st.failed` and
ends the behaviour.

### BenchmarkRunner

`at` is the place in `DoOneRepetition`. A run (`Setup`, `DoNIterations`,
`Teardown`) is one step, whose result is any that the clocks and the user's
function can produce: `Costs` are the ticks of an iteration, on the wall clock
and on the one that decides. The factors 0.1, 1.4 and 5 of the code are kept
exactly, and rounding is to nearest as `std::llround`.

### RunBenchmarks

One iteration of the loop over `repetition_indices` is one step.
`NextIndices` is the head of that vector: the least runner that is left in
order, any that is left when shuffled. `InnerRepetition`, `LastRepetition` and
`Dies` are the three ways the iteration can go on after `DoOneRepetition`;
`AnalysisRepetition` is an iteration in an analysis build, where
`DoOneRepetition` counts nothing.

### Registration

`families_` is `BenchmarkFamilies::families_`; each method of `Benchmark` is an
action on one of them, at any time and in any order, through `Method`: its
checks, and what it makes of the family. A check that fails, or an integer that
overflows, is kept in `ended` and ends the program. `AddRange` and its powers
are the loops of `benchmark_register.h` on integers from `-kmax - 1` to `kmax`.
`FindBenchmarks` leaves its instances in `found`, with their indices, and adds
an empty tuple of arguments to a family without any, as the code does.
`ClearBenchmarks` is `ClearRegisteredBenchmarks`.

The name of an instance is joined text. A text is a sequence of pieces: words that the
program or the library writes as a whole, the delimiters, and the digits of a number one
by one (`Digits`, `Decimal`; `Seconds` is `%0.3f` of a time, which is given in
milliseconds). `ArgsText` is what the constructor of `BenchmarkInstance` makes of the
arguments, `name` its eight parts, and `str` is `BenchmarkName::str`, which joins
them in a plain build and puts the arguments in brackets in a CodSpeed build. Nothing in
a text tells which part a piece comes from. A filter is the set of texts that match its
expression, of which one has to be in the name.

### BenchmarkUri

A text is a sequence in which the characters that the code looks at (`:`, `[`,
`]`, backslash) are elements of their own. `function_name` is what the macros
build or what `SetName` makes of it, `str` what `BenchmarkName::str` adds,
`HooksUri` what `start_benchmark` makes of it, `WalltimeUri` and `WalltimeName`
what `generate_raw_walltime_data` does. One instance runs at a time; `done` keeps
their names and URIs.

### WalltimeStats

`PushRound` is one pass of the loop in `generate_raw_walltime_data`,
`ComputeStats` the call of `compute_benchmark_stats`. Arithmetic is exact:
times per iteration are multiples of `1/Scale`, quantiles of `1/(4*Scale)`,
means are kept multiplied by the number of rounds, and the standard deviation
is compared through its square.

### Statistics

`MergeThread` is the part of `RunInThread` that merges a thread's counters, in any
order of the threads; `Report` is `CreateRunReport`, with `Finish`;
`ComputeAggregates` and `ComputeBigO` are the two functions over the reports.
Numbers are fractions. The fit picks the curve of least squares, its normalized
error compared without the root; where two are equal in exact arithmetic and
rounding could favour either, the model leaves both. `Less` compares two fractions
without a product, as TLC's integers have 32 bits; that it is the order of the
fractions is a lemma (`LessIs`).

### PerfCounters

`pc` and `create` are the place in `PerfCounters::Create` and its local variables,
one system call at a time; `opened` is the kernel's table. Each
`perf_event_open` may succeed, fail or be interrupted, each `ioctl` may fail.
`Assign` is the move of what Create returned to its owner, with the destructor
of what the owner had; `Close` records in `misused` a descriptor that is closed
twice or not open. `Start` and `Stop` read all groups one after the other into one
buffer, moving the values over the padding word of each, and any of the reads
may fail.

### CommandLine, Reporters, BenchmarkMain

`CommandLine` has the flags from the environment, then one action for an argument
of `ParseCommandLineFlags`, which moves up the others in `argv`; then what
`Initialize` does with the result and the ways it exits. `Reporters` are
functions on a reporter's state: `out` is what it has written to its output, as a sequence
of items, next to the flags it remembers. The CSV and the console reporter write their
context to the error stream. For a display reporter that is a stream of its own; for a file
reporter `RunSpecifiedBenchmarks` makes it the file (`benchmark.cc:755`), so that the
context (`Basic`) is in `out`, in front of what follows (`error_stream_`).
`BenchmarkMain` has the steps of `RunSpecifiedBenchmarks`: make the reporters, find,
list or run, report each batch to both, finalize, and begin again if the program calls it
twice. What a benchmark gives is a batch of runs and aggregates with a report mode. A
program is built with its `BM_CHECK`s or, with `NDEBUG`, without (`program.ndebug`),
where the CSV reporter leaves out a counter that has no column. `CODSPEED_WALLTIME`
decides the default of `--benchmark_repetitions`, 5 or 1.

## 3. Runs

`tlc -config <cfg>.cfg <module>` in this directory.

| Run | Module, config | Properties | Shows |
|---|---|---|---|
| `barrier` | `Barrier`, `MCBarrier` | `BarrierInv`, `EveryoneReleased`, `RefinesPhaseBarrier` | the barrier's counters and wakeups are right, everybody is let out, `Barrier` implements `PhaseBarrier` with its fairness |
| `threads` | `BenchmarkThreads`, `MCBenchmarkThreads` | `Together`, `ThreadsInv`, `CollectedIsComplete`, `UsesBarrier`, `RunTerminates` | start and stop together, complete results, the run ends, the barrier's rules are kept |
| `state_timing` | `MCStateTiming`, `MCStateTiming` | `NoCheckFails`, `CollectsWhatIsTimed`, `MarkersTileTheTimer`, `IterationsCountBodies`, `ExecutedUnderItsName` | timer, markers, instrumentation and iteration count agree in every build and loop |
| `runner` | `MCBenchmarkRunner`, `MCBenchmarkRunner` | `FirstReportSignificant`, `RepetitionsAgree`, `SearchGrows`, `RunnerTerminates` | the first report is significant, the search grows and ends, repetitions agree |
| `run_benchmarks` | `MCRunBenchmarks`, `MCRunBenchmarks` | `EachReportedOnce`, `ComplexityOnce`, `ErasedEntriesUnused`, `ExecutedInOrder` | reports, also of skipped runs, complexity, walltime rounds, and, in order, what is reported as executed |
| `registration` | `MCRegistration`, `MCRegistration` | `FamiliesWellFormed`, `NamesTellApart`, `ArgumentsExact`, `FoundOnce`, `FindAgain` | any order of methods leaves families that can run, ranges are exact up to the limits of the integers, the joined name of an instance tells it apart in its family, instances and indices are right, also when found again |
| `results` | `MCResults`, `MCResults` | `UrisDistinct`, `UrisAgree`, `RoundStatistics`, `AggregatesOfTheShown`, `ComplexityRecognised`, `CountersFinished` | URIs of both channels; quartiles, outliers and totals of rounds; counters, aggregates and complexity of repetitions, some of them skipped |
| `perf_counters` | `MCPerfCounters`, `MCPerfCounters` | `DescriptorsOwned`, `StopMeasuresInterval`, `CreateReturns` | no descriptor is lost or closed twice, an interval that is reported was measured, creating ends |
| `main` | `MCBenchmarkMain`, `MCBenchmarkMain` | `ArgumentsLeft`, `LastSwitchPrevails`, `NothingLeftOut`, `JsonDocument`, `ColumnsHoldTheirValues` | a program from its command line to its outputs, with its checks and with `NDEBUG` |
| `warmup_pause` | `MCStateTiming`, `MCWarmupPause` | `NoCheckFails` | violated, section 6 |
| `analysis_threads` | `AnalysisRun`, `MCAnalysisRun` | `AnalysisTerminates` | violated, section 6 |
| `skipped_first` | `MCResults`, `MCSkippedFirst` | `AggregatesWithoutTheFirst` | violated, section 6 |

### Bounds, and why they are enough

* `barrier`: four threads, `MaxPhase = 3`. Three threads already let one be
  late, one leave and one be the last; the fourth separates "the others" from
  "one other". A waiter is at most one phase behind (`NobodyLapped`), so three
  phases show every relation of two of them. The theorems of section 5 do not
  depend on either number. Deadlock is not an error here: all threads may have
  left, or reached the bound.
* `threads`: three threads, one of them the main one, one duration. A run uses
  at most two phases, so `MaxPhase = 3` never binds. `MaxIters` is only a
  summand.
* `state_timing`: a warm-up State followed by a measured one, in every pair of
  loop styles; `MaxIters = 3` with batches up to 2 makes the last batch
  overshoot; two pauses make three sections; the clock has four ticks, so that
  sections can be empty or not. Only the measured State pauses in this run: in
  a warm-up it fails a check, which is run `warmup_pause`. The user's function
  may end for good at any point, hence no deadlock check.
* `runner`: five benchmarks (CPU clock, manual clock, two threads on real
  time with two repetitions, explicit iterations, own minimum and warm-up
  times) times four command lines (repetitions; warm-up with memory and
  profiler manager; dry run; `--benchmark_min_time=3x`), `kMaxIterations = 40`
  so that the search reaches its cap, and a clock that may not advance at all.
* `run_benchmarks`: two instances of a family with a complexity, of two and of
  three repetitions, and one of another family, of two: every shuffle of seven
  repetitions, with every outcome of each, in each build mode.
* `registration`: every sequence of four calls on up to two families: a
  registration, two methods that may refuse each other in either order, and a
  search. Integers have five bits (`kmax = 15`), so that the powers of 2 and of 8,
  and the negations down to -16, meet both limits of the type; the bounds given
  to `Range` are at them and around zero. At least one input of each kind is one
  that a check refuses. Numbers of one and two digits and of both signs, arguments with a
  name, without one and with an empty one, and settings that put up to three parts
  behind them are what the joined texts have to be read through. A behaviour ends after
  `MaxCalls` calls or with the program, hence no deadlock check.
* `results`: three explorations which share no state, each while the others rest
  (`MCResults`).
  Names: pairs of instances; paths with and without a namespace, types with no,
  one and two `::`, arguments with and without names, custom names, renaming.
  Rounds: all sequences of up to five over two iteration counts and three times
  (five is the default of a walltime build), and longer ones up to twelve whose
  further rounds are like the first: the smallest sequence in which a round can
  lie three standard deviations off has eleven.
  Runs: two threads and up to three repetitions, the fewest with a median and
  with one skipped beside two that ran; sizes are powers of two, where the
  logarithm is exact, and the times include multiples of several curves.
  Each ends with its results, hence no deadlock check.
* `perf_counters`: three counters at most, two known names, requests with a
  repeated, an empty and an unknown name and with one too many; two calls of
  Create, so that an owner is assigned over; two attempts at an interrupted call,
  where the code makes more (`kNrOfSyscallRetries`). Ticks pass only in the
  timed region. It may end with everything closed, hence no deadlock check.
* `main`: 26 arguments, up to three at once in any order, for the switches of
  every kind, values that do not parse, prefixes of flags and an unknown one; three
  environments; programs with the default reporters and with their own, for one
  suite and two, one of them built with `NDEBUG`; up to two batches, the second of which
  may have a counter that the first has not. `MaxTogether` limits the arguments and the
  batches of a behaviour together, so that the pairs meet both. The longest
  command lines are those of a plain program in an empty environment (`MCInit`).
  A program that has ended does nothing, hence no deadlock check.

## 4. Fairness

* `BarrierFairness`: a woken thread gets `lock_` and re-evaluates its predicate,
  and the last thread, no longer holding anything, notifies: the operating
  system schedules them. Nothing obliges a thread outside of the barrier to
  come again or to leave, which is why `EveryoneReleased` speaks only of
  threads whose phase is over.
* `ThreadsFairness`: each thread goes on and the benchmark function returns
  (its loop is finite). No fairness is given to a skip or a spurious wakeup.
* `FairSpec` of `BenchmarkRunner`: a sequential program whose runs end.
* `FairSpec` of `PerfCounters`: weak fairness of `CreateStep` as a whole, for
  Create is sequential and every system call returns. Which way it returns is
  open at every call: `CreateReturns` holds though the kernel may refuse or
  interrupt them all, since the retries are counted.
* `AnalysisRun`: the single caller goes on whenever it can.
* The other specifications are checked for safety only.

## 5. What is proved

Each theorem is for every value of the constants that the named assumptions of
its module allow. Each component has an inductive invariant, one lemma per action
that the step keeps it, and then the properties from it; TLC has found each of
the invariants to hold on an instance before.

### Barrier and its abstraction (`RunProofs`)

From `ThreadsAssumption` (finitely many threads) and `MaxPhaseAssumption`:

| Theorem | Says |
|---|---|
| `BarrierInvariance` | `BarrierSpec => []BarrierInv` |
| `BarrierTypeCorrect`, `BarrierCountersAgree`, `BarrierNobodyLapped` | the conjuncts of `BarrierInv` that are properties in their own right |
| `BarrierNoLostWakeup` | a blocked thread that could proceed has a notifier, for any number of threads |
| `BarrierCheckNeverFires` | the code's `BM_CHECK_LT(entered_, running_threads_)` holds whenever a thread comes to wait |
| `BarrierRefinement` | `BarrierSpec => Promise!Safe`: every step is one of `PhaseBarrier`'s or a stutter |

The argument. `NoLostWakeup` (a blocked thread that could proceed has somebody
about to notify it) is not inductive: it says nothing about a phase in which
all that remain have entered, where the thread that has to act is asleep
itself. `BarrierInv` replaces it by two facts: a sleeper of the open phase
cannot proceed at all, since whoever leaves and so makes the counters equal
wakes all sleepers under `lock_`; and a sleeper of an old phase has a notifier.
For these the counters must mean something (`CountersAgree`), for which no
waiter may be more than one phase behind (`NobodyLapped`). The lemmas
`LastCompletesThePhase`, `FullPhase` and `OutsiderLeavesRoom` turn the
comparisons of counters that the code makes into facts about sets of threads;
then there is one lemma per action. Refinement maps `wait()` to `Arrive` or
`ArriveLast`, `BecomesLast` to `Trip`, the two returns from `wait()` to `Return`,
`removeThread()` to `Depart`, and the other steps to stuttering.

### Threads of a run (`RunProofs`)

Also from `MainAssumption` (the main thread is one of them) and `ItersAssumption`
(at least one iteration; durations are natural numbers):

| Theorem | Says |
|---|---|
| `ThreadsUseBarrier` | `ThreadsSpec => UsesBarrier`, which is `BarrierSpec`: all of the above holds in a run of a benchmark |
| `ThreadsNoLostWakeup`, `ThreadsCheckNeverFires` | two instances of that |
| `ThreadsInvariance` | `ThreadsSpec => []ThreadsInv` |
| `ThreadsStartTogether`, `ThreadsStopTogether`, `ThreadsTogether`, `ThreadsGatesAlign` | what the two gates are for |
| `ThreadsCollectedIsComplete` | what `DoNIterations` returns is the sum over all threads, whatever the order they merge in |

The argument. That nobody is before the loop while somebody is in it cannot be
shown from the places of the threads alone, for a skip takes a thread past a gate
early and a return past both. `GatesFollowPhases` ties each place to the phase of
the barrier: before the start gate phase 0 is open, in the loop phase 1, after
the end gate phase 2, and a waiter of phase 0 or 1 waits at the start or the end
gate. A phase is opened only when everybody that is not gone waits in it
(`BarrierInv`, through `LastCompletesThePhase` and `FullPhase`), so nobody is left
at an earlier place; this is `OpeningKeepsPlaces`. The other parts of
`ThreadsInv` are about the end of a run: `AliveAgrees` (what `alive_threads_`
counts), `EndNotified` (whoever makes it zero has still to notify, so the main
thread cannot go to sleep for ever between the two) and `MainInOrder` (the main
thread joins when nobody is alive, and is gone when all threads are done).

### The search of a runner (`RunProofs`)

From `SettingsAssumption` and `RunAssumption`: any settings and flags that
`Registration` and `CommandLine` can hand over (iterations or a minimum time, not
both; a positive number after `--benchmark_min_time=`), any clock, any batch size,
any cap.

| Theorem | Says |
|---|---|
| `RunnerInvariance`, `RunnerTypeCorrect` | `Spec => []RunnerInv`, `[]RunnerTypeOK`: every count that is tried is positive |
| `RunnerSearchGrows` | the asserts of both loops: a run that is not accepted is followed by a larger one, and none is larger than `kMaxIterations` |
| `RunnerFirstReport` | the first repetition met the minimum time, not the warm-up time, or reached the cap |
| `RunnerRepetitionsAgree` | repetitions that were not skipped ran equally often |

The argument. `iters` is shared by the warm-up and the measurement, and the time
that decides depends on `warmup_done`. `WarmUpFirst` orders them; `LastAccepted`
keeps for an accepted run that it came from `iters` iterations and, in the first
repetition, that it was long enough, while memory and profiler runs come in
between; `ReportsOfIters` says that every report that was not skipped is one of
`iters` iterations per thread, which is why `iters` must not change after the first.
`SearchGrows` is the lemma `PredictionGrows` about rounding and the clamp: a
prediction is at least one more than the run, unless that was at the cap, and
there `ShouldReportIterationResults` has ended the search.

### The loop over the repetitions (`RunBenchmarksProofs`)

From `ShapeAssumption` and `ChoicesAssumption`: any number of instances, of
families and of repetitions of each, in order or shuffled.

| Theorem | Says |
|---|---|
| `LoopInvariance` | `Spec => []LoopInv` |
| `LoopReportsOnce` | `EachReportedOnce`, also of runs that were skipped |
| `LoopExecutesInOrder` | `ExecutedInOrder` |
| `LoopCountsFamilies` | `num_runs_done` and `num_runs_total` are sums over the family |
| `LoopErasedEntriesUnused`, `LoopComplexityOnce` | an entry of `per_family_reports` is erased when its last repetition is done, and its complexity is computed then, once and of all runs |

The argument. `RepetitionsCounted`: each entry that has left `repetition_indices` is
a repetition that the runner counts and a round it keeps. From it follows
`ReportedAreDone`, that a runner is reported by the step that makes its count
complete, and by no other: so once, however the indices were shuffled. The exception is
the runner at which the program dies. `DeathBySkips` says that its family is done and was
skipped altogether (`FrontOfSkipped`, from the counters of the family below), and that
whoever else was done has been reported.
`OneInProgress` is what order adds: a runner that has begun and not ended is
CodSpeed's current benchmark, and no other begins before it has ended.

`FamiliesInv` is about the families. `num_runs_total` grows with the runners that are
made and `num_runs_done` with the repetitions, in whatever order; that the two meet
only when nothing of the family is left is a comparison of two sums over its
instances, each term of the one at most that of the other (`SumCompare` in
`FoldLemmas`). So an entry is erased by the last repetition of its family, when
`Runs` is the sum of all that was not skipped.

### State, timer and hooks (`StateTimingProofs`)

From `ModesAssumption` and `BoundsAssumption`: any schedule of States, of any
length, any batch sizes, iterations and pauses.

| Theorem | Says |
|---|---|
| `TimingInvariance` | `Spec => []TimingInv` |
| `TimingChecksHold` | `NoCheckFails`, if no warm-up State pauses: the counterexample of `warmup_pause` is the only one there is |
| `TimingCollectsWhatIsTimed` | the callgrind toggle follows the timer |
| `TimingCountsBodies` | `iterations()` is the number of bodies that ran, by all loops |
| `TimingExecutedUnderItsName` | who is reported as executed |
| `TimingMarkersTileTheTimer` | the sections sent to CodSpeed add up to the time of their State |

The argument. The flags of a State say where its function is (`FlagsFollow`); a
section has a timestamp exactly while the timer runs (`SectionOpen`), which only
`PauseSafe` makes true; with these every check holds when its call is made.
`CountFollows` relates the iterations that were taken off the count to the bodies
that ran and the overshoot of a batch, separately for the iterator, which counts in
the loop, and for `KeepRunning`, which counts in the State. `SwitchFollows` keeps the
flag and the toggle in step across States, with a case for a State that was
left in a skip. The lemmas named `...Fields` say once what each call of State does to
each field. `MarkersInv` keeps the sum over the sections of the State that is
running equal to what its timer has accumulated, of which the section that is open
is no part yet, and all sections in order behind each other.

### Performance counters (`PerfCountersProofs`)

From `CountersAssumption`: any names, any group size, any number of retries.

| Theorem | Says |
|---|---|
| `CountersDescriptorsOwned` | every open descriptor has one owner, in the order of its names, and none is closed twice |
| `CountersStopMeasuresInterval` | a `Stop` that succeeds has each counter's values at the Start before it and now |

The argument. `DescriptorsInv` ties what the kernel holds to three objects: the one
that `Create` is making, and the two that may own counters. `Owned` says that the
descriptors in the kernel's table are those of the objects and nobody else's, and
that each leader's group, read from the table, is the stretch of the object's names
that the leader stands for. `Making` says how far `Create` has come at each of its
system calls, so that what it closes when one is refused is what it has opened. A
move leaves the old owner empty. For a measurement, `Read` puts the groups one
behind the other; by the order of `Owned` their concatenation has the value of the
n-th name at place n (`SnapshotIs`), and `MeasurementInv` keeps that of `Start`
until `Stop`.

### Registration (`RegistrationProofs`)

From `RegistrationAssumption`: any width of the integers, any arguments, ranges,
products, names and filters, any number of families and calls.

| Theorem | Says |
|---|---|
| `RegistrationInvariance` | `Spec => []RegistryInv`: no argument leaves its type, every count of threads is positive |
| `RegistrationFamiliesWellFormed` | `FamiliesWellFormed` |
| `RegistrationNamesTellApart` | `NamesTellApart`: the joined text of a name tells the instances of a family apart |
| `RegistrationFindAgain` | `FindAgain`: finding again finds the same, and a filter and its negation share out what is enabled |

The argument. A method keeps a family as it should be because its checks compare
with `ArgsCnt`, which speaks of the first tuple only: `Sized` says that all
tuples are of its size. What is added must be of one size too, and within the
integers. For `AddRange` that is about the recursive function in `AddPowers`: it
exists, since its value at an index depends on larger ones only (`PowersExist`, from
the largest index downwards), and its values lie between the bounds because a
product is made only where it does not leave the type (`NextPower`). For a product,
the strides are the partial products of the lengths (`StridesExist`), and the digits of
an index lie within the lists. `FoundInv` says that what was found are instances
of well-formed families, through the fold in `Instances`. For `FindAgain` the finds by a filter and by its negation are compared family by family:
what matches the one or the other shares out what is enabled (`FamilyShared`), and both
lists grow by as much together (`AllShared`).

`NamesTellApart` is about reading a text back, which no tag helps with: a text is a
sequence of strings, the function and the arguments may be named by any of them, by one with
a `/` or with digits as well. What helps is that both instances are of one family. Its tuples
are of one length (`Sized`), so both texts have as many arguments, with the same
names in front of them; what stands behind the arguments, up to the threads, is the
same for both. Digits are written one by one, so a number is determined by its digits
(`DigitsInjective`, `DecimalInjective`, over the recursive function `Digits`), and no
delimiter is a digit, so it also ends where its digits end (`DecimalEnds`). Hence, by
induction on the number of arguments, two texts that go on with a delimiter or not at all
are equal only if the tuples are (`ArgsTell`), and the threads, which come last, can
be read from what is left (`NamesSame`). `StrOfParts` takes the joins apart, each of
which has a delimiter only between two parts that are not empty. Two families may
share a name, and a CodSpeed build does not name the threads (section 6): neither is
claimed.

### The program (`BenchmarkMainProofs`)

From `CommandLineAssumption`, `MainAssumption` and `CountersAssumption` (the user
counters are a `std::map`, so no name is there twice; a benchmark is reported when it
has run at least once): command lines of any length, any batches, any number of
them and of suites.

| Theorem | Says |
|---|---|
| `MainArgumentsLeft` | what `Initialize` leaves in argv is what sets no flag, in order |
| `MainLastSwitchPrevails` | a flag has its last setting |
| `MainNothingLeftOut` | each output has every run it should, once and in order |
| `MainColumnsHoldTheirValues` | `ColumnsHoldTheirValues`: values stand under their names in a CSV output, on the display and behind the context in a file, and on a tabular console, in builds with checks and without; the formats agree on the times |
| `MainJsonDocument` | `JsonDocument`: brackets, commas and objects as they should be, no key twice; assumes that no user counter has the name of a key |

The argument. `ParseCommandLineFlags` moves the arguments behind one that it takes up
by one place and looks at the same place again. `ArgumentsInv` says where everything is in
between: in front of `i` what sets no flag of all that was read, from `i` on what was
not read, as it was given. `SettingsInv` is the meaning of the flags after the same
arguments. `OutputsInv` is about the reporters: what was written, as far as it is a run,
is what was due of the batches reported so far. The lemmas about the JSON, CSV and
console reporters say what one call of `ReportRuns` adds to that (`RunsOf` of a
concatenation is the concatenation), and that only a first call can fail a check.

The last two theorems are about the end of a suite, and `LayoutInv` says how outputs
get there. In any suite the times fit and each console line stands under its header
(`Laid`), which needs that the counters a console remembers are those of its last
header (`Under`). In the first suite a reporter is as it was made until there is
something to report (`Started`); from then on a JSON output that has an object is
open, pairs of an object and a comma, an object (`Document`), and one that has none
is only open (`Began`); a CSV output has, behind the context if it is a file's
(`Lead`), its header and rows that fit it (`CsvShape`). A row has all counters of its
run if the check is there; without it those that have a column (`LineFits`).
A report needs more than that to have come to something: each batch has a run, so that
after one neither is still blank (`Shown`), and this is why an end without a report is
not part of the properties. `CsvLays`, `JsonLays` and `ConsoleLays` carry this through
one call of `ReportRuns`, however many runs it has; `RowFits` compares the fields of
`PrintRunData` with the header, column by column. The names in the hypothesis of
`MainJsonDocument` (`JsonNames`) are the literals of `PrintRunData`. The code does
not keep a user from them (section 6), which is why they are in the theorem and not
in an assumption of the model.

### Results (`ResultsProofs`)

From `RoundsAssumption`, `StatisticsAssumption` and, for the logarithm only,
`SizesAssumption` (sizes are powers of two): any number of rounds, threads, runs and
repetitions, any times that are natural numbers, any values and flags of counters.

| Theorem | Says |
|---|---|
| `StatisticsOfTheRounds` | `RoundsSpec => []RoundStatistics`: each quartile has no more than its share of the rounds on either side and they are in order, fewer than eleven rounds have no outlier, and the total time agrees with the mean |
| `CountersAreFinished` | `RunsSpec => CountersFinished`: a reported counter is made of what all threads gave it, in whatever order they merged |
| `AggregatesShown` | `RunsSpec => []AggregatesOfTheShown`: mean, median and deviation are of what is shown of the repetitions that ran |
| `ComplexityIsRecognised` | `RunsSpec => []ComplexityRecognised`: times that follow a curve are given back by the curve that is found, and both times have one |
| `UrisAgreeForMacros` | `UriSpec => []UrisAgree`: both channels have one URI for an instance, and the walltime results call it by its name; assumes `MacroTexts` |
| `UrisDistinctForNames` | `UriSpec => []UrisDistinct`: names that differ have URIs that differ; assumes `NamesApart` |

The argument. The state is simple here and the arithmetic is not. `RoundsInv`,
`CountersInv` and `ResultsInv` say what the steps leave: the statistics are those of
the rounds, a merged counter is the sum over the threads that have merged
(`MergePreservesCounters` adds one term), and results were computed from reports
that are as `CreateRunReport` makes them. All else is about the operators.

* Order (`InOrderIs`): the k-th of the sorted times is a time, with fewer than k
  below it and at least k up to it. A quantile lies between two neighbours
  (`QuantileBetween`), hence the shares (`QuantileSplits`) and the median
  (`MedianIs`).
* Sums: `SumLinear` and `CauchySchwarz` of `FoldLemmas` are about any finite
  sets. A deviation is a sum of squares, so a sample has none exactly if it is of
  one value (`NoDeviation`), and so that fewer than a ninth of the rounds can be three
  deviations off (`FewOutliers`).
* Fits: with the times f and a curve g, what a fit leaves is least where
  (sum of fg)^2 / (sum of g^2) is largest, and that is at most the sum of f^2, with
  equality only for times proportional to the curve (`CauchySchwarz`). A curve that
  the times follow reaches the bound (`ExactFit`); so whichever curve is found
  reaches it too, by `LessIs`, and is proportional to the times (`FoundFits`).

The last two are about texts, with `InstancesAssumption` (a text is a sequence of
strings) and with any number of instances. The state is again simple: `UriInv` says that
each result is that of an instance (`ResultOf`) and that the running one still has
the URI it began with. The names need a hypothesis each, since nothing in the code
keeps a user from names for which the properties fail (section 6); both hold for the
names of the run.

* `MacroTexts`: a path ends with `::`; a function, and a name given later, has no
  colon and no bracket; between brackets none is opened and no three colons follow each
  other. A function written with its namespace would be cut behind that, and of
  three colons the last is left behind the two that are replaced, as a `::`.
* `NamesApart`: no name is what escaping makes of another one, the last brackets of
  none mix what was escaped with what was not, and none begins with
  `unknown_file::`. `Benchmark::Name` escapes the name it reads, so that with
  `BENCHMARK_TEMPLATE(f, std::string)->Name("f")` beside the original it does not hold.

`Escaped` is a recursive function: `EscapedIs` says that it exists and what a step of it is,
and `Downwards` is induction from the end of a text to its beginning. By it,
nothing is replaced where there is no `::` (`EscapedSame`), no bracket comes from a text
without one (`EscapedHolds`), no `::` is left (`EscapedHasNone`), and two texts
without a backslash are not escaped to the same (`EscapedApart`). A name is a path
and something behind it that is `Settled`: escaping changes nothing in it and there is no
`::` to be found. A macro's function is (`WordSettled`), it is with escaped brackets behind
it (`BlockSettled`), and what `SetName` finds behind the last `::` and from the first
bracket on is what was put there (`NewName`). That the two channels have one URI holds
without a hypothesis for each text that has a `::` in front of its brackets or none
at all (`SameQuestion`).

### Induction over data (`FoldLemmas`)

The induction theorems of the standard library cannot be instantiated, since they take an
operator as a parameter. `NatInductionSet`, `SubsetInduction` and
`SequenceInduction` say the same of a set that contains zero and each successor, the empty
set and each set with one more element, the empty sequence and each that is longer by
one; they follow from the well-foundedness of `<`. With them come the existence of
the recursive functions in `SumFunctionOnSet`, `FoldLeft` and `FlattenSeq`
(`FoldExists`), for a function that is defined by CHOOSE is known only
when there is one, and the laws of sums, selections (`Among`) and images
(`Each`). `Selections` has `Among` instead of `SelectSeq`, whose test is an
operator too.

## 6. Where the code and its documents disagree

Each with a run that shows it:

* `analysis_threads`: in an analysis build `DoOneRepetition` makes a
  `ThreadManager` for `threads()` threads and calls the function in one, which
  waits for the others at its first gate for ever (`benchmark_runner.cc:466`).
* `warmup_pause`: in a walltime build a pause in a warm-up run leaves
  `resume_timestamp_` set, and the next `ResumeTiming` fails its check
  (`benchmark.cc:280`). As all checks it exists only without `NDEBUG`.
* `skipped_first`: only a report that was not skipped gets its pointer to the
  statistics (`benchmark_runner.cc:114`), nothing initializes it, and
  `ComputeStats` follows that of the first report (`statistics.cc:181`).

Met while modelling, without a run of their own. Names in parentheses are where the
models show it.

*Threads and times*

* `benchmark.h:763` says that the largest of the threads' real times is
  reported; `RunInThread` adds them up (`benchmark_runner.cc:154`), and what is
  reported is their average. For the same reason the minimum time bounds the
  sum of the threads' real times, not the elapsed time that `benchmark.cc:82`
  speaks of (`Outcome` in `BenchmarkRunner`).
* All threads of a run start and stop the one `PerfCountersMeasurement` of the
  runner (`benchmark.cc:508`, `:535`). `PerfCounters` has one thread start and stop it.
* A skip stops the timer and not the performance counters (`benchmark.cc:325`).
* In an analysis build a `KeepRunning()` loop neither starts a benchmark nor
  reports one (`benchmark.h:1014`; `StateTiming`); after a skip that leaves a
  range-for loop by `break`, `measurement_stop` is not called, and the next State
  starts the instrumentation once more (`benchmark.h:1078`).

*Runs and their results*

* `MinWarmUpTime` counts only for a benchmark with a `MinTime`
  (`benchmark_runner.cc:252`); `benchmark.h:1225` has it override the flag. The
  check at `benchmark_runner.cc:282` has its condition inverted.
* `--benchmark_min_time=0x`, or `x`, gives zero iterations
  (`benchmark_runner.cc:205`), which State refuses (`benchmark.cc:216`). The
  assumption of `BenchmarkRunner` leaves it out.
* A first repetition that is skipped ends the search, and later repetitions run
  with a count that no run has confirmed (`benchmark_runner.cc:505`).
* A repetition that is skipped before its loop has 0 iterations. It fails the
  check of `ComputeStats` beside two repetitions that ran (`statistics.cc:155`)
  and becomes a walltime round whose iterations are asserted not to be 0
  (`core/src/walltime.cpp:167`).
* When each run of a family with a complexity is skipped, `Runs.front()` of an empty
  vector is read (`benchmark.cc:599`; `Dies` in `RunBenchmarks`), before the skips are
  reported, which `user_guide.md:1202` promises. `EachReportedOnce` says that an
  instance that is done is left out only there.
* With `--benchmark_enable_random_interleaving` a walltime build reports the
  benchmark that started last as executed (`benchmark.cc:606`): `ExecutedInOrder`
  is about runs in order.
* `memory_results` may reallocate while earlier reports point into it
  (`benchmark_runner.cc:435`).
* If one counter has different flags in different threads, those of the first to
  merge decide (`counter.cc:54`).

*Names*

* `sanitize_bench_args` escapes the last pair of brackets only, so
  `BENCHMARK_TEMPLATE(BM, std::string)->Arg(8)` is called `string][8]` in the
  walltime results (`core/src/codspeed.cpp:22`, against the comment at `:14`).
* A custom name such as `BM[std::string]` has a `::` for `start_benchmark`,
  which looks before the escaping, and none for `generate_raw_walltime_data`,
  which looks after it. `UrisAgree` states when the two agree.
* Of three colons between brackets the first two are replaced, and the last makes a
  `::` with the end of what they are replaced by (`core/src/codspeed.cpp:30`).
* Escaping is not injective: a benchmark that is renamed to the name it has gets
  another name, with the same URI. `SetName` reads the last character of an
  empty name (`codspeed.cpp:21`).
* A CodSpeed build does not name the threads (`benchmark_name.cc:25`): the instances of a
  `ThreadRange` have one name and one URI, where `user_guide.md:769` lists
  `BM_UserCounter/threads:8`, `/threads:1` and so on, and `benchmark_name_gtest.cc:72`
  expects the threads in the name. `NamesTellApart` claims them of a plain build only.
* Two families may share a name, since parts are joined by a delimiter that a name may
  contain (`benchmark_name.cc:54`): a function `BM/8` without arguments and `BM` of 8
  are both `BM/8`. `NamesTellApart` is about the instances of one family.
* The walltime JSON escapes backslashes only (`walltime.cpp:50`, `:92`), and
  its file is named by the process, so that a second suite overwrites it (`:143`).

*Registration*

* `ArgsProduct` of no list at all reads and writes outside of an empty vector
  (`benchmark_register.cc:301`); a `DenseRange` whose step is not positive, or whose
  last step leaves the type, does not end (`:323`).
* A benchmark is taken as disabled if its name in a CodSpeed build begins with
  `DISABLED_`, which it cannot when a path is in front of it
  (`user_guide.md:200`; `IsDisabled`).

*Performance counters*

* A counter that is opened again as the leader of a new group is not pinned, the
  first leader is (`perf_counters.cc:150`).

*Command line and output*

* `user_guide.md:164` lets a flag override its environment variable; a
  key of `benchmark_context` keeps the environment's value (`ParseFlag`). A pair that
  does not parse leaves the earlier ones of its argument (`commandlineflags.cc:291`).
* `user_guide.md:137` has the context of the CSV format on stderr. With
  `--benchmark_out` it is in the file, in front of the header (`benchmark.cc:755`,
  `csv_reporter.cc:57`), which is one reason why, as `:153` says, the file is not
  parsable: its first line is not the header. `HeaderAt` says where the header is.
* A counter that the first report of a CSV output did not have fails a check
  (`csv_reporter.cc:99`); with `NDEBUG` it is left out without a word
  (`check.h:84`). `ColumnsHoldTheirValues` covers both builds.
* The CSV reporter prints the error of a complexity without the multiplier that
  the others undo (`complexity.cc:224`, `csv_reporter.cc:131`): `TimesAgree` excepts it.
* A user counter with the name of a key gives a JSON object with two of it
  (`json_reporter.cc:305`).
* A second suite with the default display reporter uses it after it was deleted
  (`benchmark.cc:681`, `:725`); one with a JSON or CSV reporter of the program
  begins its output with a comma, or without a header (`json_reporter.cc:114`).
  `JsonDocument` and `CsvLines` are about the first suite.
* A display reporter that refuses the context leaves a JSON file that has only
  closing brackets (`benchmark.cc:496`); a custom file reporter keeps a pointer to
  the stream of a call that has returned (`benchmark.cc:754`); `Shutdown` leaves
  `global_context` pointing to what it deletes (`benchmark.cc:962`).

## 7. What is only model-checked

* All liveness (`EveryoneReleased`, `RunTerminates`, `RunnerTerminates`,
  `CreateReturns`) and the fairness part of the refinement, which the prover
  does not do.
* The values of ranges and products (`ArgumentsExact`) and the indices of what is
  found (`FoundOnce`): that they are within their types is proved, which
  values they are is not.

## 8. Not modelled

* `extract_lambda_namespace` and `get_path_relative_to_workspace`
  (`core/src/uri.cpp`, `workspace.cpp`): text that depends on the compiler and on the
  file system; `Paths` stands for their results;
* system information, clocks and CPU timers (`sysinfo.cc`, `timers.cc`,
  `cycleclock.h`): system calls whose results are printed or are the ticks here;
* the results of floating point arithmetic: fractions are exact, and where rounding
  could decide between equal values the choice is open;
* statistics and curves given by the user, the aggregates of user counters, the
  error of a fit: functions of the user's, or the same computation again;
* `SetLabel`, `SetIterationTime`, `SetComplexityN`, units, `Setup`, `Teardown`,
  report modes at registration: they store a value that a later model takes as input;
* the lines of the context, of which only the place is modelled, what the reporters print
  of memory, number formats, widths and colours; the help text;
* the groups of `CodSpeed`, which only change a log line;
* the hooks behind `g_hooks`, which are another project: `measurement_start`,
  `measurement_stop` and the toggle are modelled by what their callers rely on;
* memory lifetimes other than of the reporters;
* the registry's `mutex_`: a program registers before it runs, in one thread;
* the Python bindings, tools and examples.

## 9. What could follow

1. An abstract runner that `BenchmarkRunner` implements and `RunBenchmarks`
   composes, in place of the outcome `RunBenchmarks` has now; and the instances of
   `Registration` as the `Family` and `Repeats` of `RunBenchmarks`.
2. The measurement of performance counters shared by the threads of a run.
