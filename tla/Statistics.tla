------------------------------ MODULE Statistics ------------------------------
(***************************************************************************)
(* What is computed from the runs of a benchmark: the user counters of its *)
(* threads merged and finished (counter.cc, RunInThread and                *)
(* CreateRunReport of benchmark_runner.cc), the aggregates of its          *)
(* repetitions (statistics.cc) and the complexity of its family            *)
(* (complexity.cc).                                                        *)
(*                                                                         *)
(* Arithmetic is exact where the code uses doubles: a number is a fraction *)
(* <<numerator, denominator>>, NaN where the code divides zero by zero,    *)
(* and a standard deviation is kept as its square. Where doubles may round *)
(* a tie to either side, the choice is open.                               *)
(***************************************************************************)
EXTENDS WalltimeStats, Selections

CONSTANTS
    NumThreads,
    Flags,         \* sets of flags a counter can have
    Values,        \* values a thread sets a counter to
    Iterations,    \* the iterations of a repetition
    Timings,       \* accumulated times of a repetition: <<real or manual, cpu>>
    Sizes,         \* complexity_n: powers of two, so that log2 is exact
    BigOs,         \* the complexity asked for
    MaxRuns        \* bound on the reports

ASSUME StatisticsAssumption ==
    /\ NumThreads \in Nat \ {0} /\ Iterations \in Nat \ {0}
    /\ Values \subseteq Nat \ {0} /\ Sizes \subseteq Nat \ {0} /\ MaxRuns \in Nat
    /\ Timings \subseteq Nat \X (Nat \ {0})
    /\ \A f \in Flags : f \subseteq {"kIsRate", "kAvgThreads", "kIsIterationInvariant",
                                     "kAvgIterations", "kInvert"}
ASSUME SizesAssumption == \A n \in Sizes : \E k \in 0 .. n : 2^k = n

VARIABLES
    asked,      \* the benchmark's settings: complexity, and use_manual_time
    given,      \* per thread that has merged: the counters it had
    counters,   \* results.counters of the ThreadManager: name -> value and flags
    finished,   \* the counters of the last report
    reports,    \* the reports of the runs
    results     \* what ComputeStats and ComputeBigO have made of them

runVars == <<asked, given, counters, finished, reports, results>>

Names == {"c", "d"}
NaN == <<0, 0>>
NoCounters == [c \in {} |-> 0]
NoResults == [by |-> "nobody"]

RunsInit ==
    /\ asked \in [complexity : BigOs, use_manual_time : BOOLEAN, flags : Flags]
    /\ given = [t \in {} |-> NoCounters]
    /\ counters = NoCounters /\ finished = NoCounters
    /\ reports = <<>> /\ results = NoResults

Product(p, q) == <<p[1] * q[1], p[2] * q[2]>>
Equal(p, q) == p[1] * q[2] = q[1] * p[2]
Squares(s) == Total([i \in DOMAIN s |-> s[i] * s[i]])

-----------------------------------------------------------------------------
(* User counters. *)

\* A counter of both is added and keeps the flags of l.
Increment(l, r) ==
    [n \in DOMAIN l \cup DOMAIN r |->
        IF n \notin DOMAIN l THEN r[n]
        ELSE IF n \in DOMAIN r THEN [l[n] EXCEPT !.value = @ + r[n].value] ELSE l[n]]

\* Mutant of Finish: inverted before the other flags.
Finish_InvertFirst(c, iterations, cpu_time, threads) ==
    LET on(flag, p) == IF flag \in c.flags THEN p ELSE <<1, 1>>
        start == IF "kInvert" \in c.flags THEN <<1, c.value>> ELSE <<c.value, 1>>
    IN  Product(Product(start, on("kIsRate", <<1, cpu_time>>)),
              Product(on("kAvgThreads", <<1, threads>>),
                    Product(on("kIsIterationInvariant", <<iterations, 1>>),
                          on("kAvgIterations", <<1, iterations>>))))

\* The flags in turn; the inversion is always last.
Finish(c, iterations, cpu_time, threads) ==
    LET on(flag, p) == IF flag \in c.flags THEN p ELSE <<1, 1>>
        v == Product(Product(<<c.value, 1>>, on("kIsRate", <<1, cpu_time>>)),
                   Product(on("kAvgThreads", <<1, threads>>),
                         Product(on("kIsIterationInvariant", <<iterations, 1>>),
                               on("kAvgIterations", <<1, iterations>>))))
    IN  IF "kInvert" \in c.flags THEN <<v[2], v[1]>> ELSE v

\* The time that rates are over: IterationResults::seconds.
Seconds(timing) == IF asked.use_manual_time THEN timing[1] ELSE timing[2]

\* RunInThread's last lines, in any order of the threads.
MergeThread(t, cs) ==
    /\ results = NoResults /\ Len(reports) < MaxRuns /\ t \notin DOMAIN given
    /\ given' = [u \in DOMAIN given \cup {t} |-> IF u = t THEN cs ELSE given[u]]
    /\ counters' = Increment(counters, cs)
    /\ UNCHANGED <<asked, finished, reports, results>>

\* CreateRunReport. A skipped run has the iterations it got to, and neither
\* times nor counters nor a pointer to the statistics.
Report(iterations, timing, n, skipped) ==
    /\ results = NoResults /\ Len(reports) < MaxRuns
    /\ DOMAIN given = 1 .. NumThreads
    /\ IF skipped THEN iterations \in {0, Iterations} ELSE iterations = Iterations
    /\ reports' = Append(reports,
           [skipped |-> skipped, iterations |-> iterations,
            real_accumulated_time |-> IF skipped THEN 0 ELSE timing[1],
            cpu_accumulated_time |-> IF skipped THEN 0 ELSE timing[2],
            complexity_n |-> IF skipped THEN 0 ELSE n,
            statistics |-> IF skipped THEN "uninitialized" ELSE "set"])
    /\ finished' = IF skipped THEN NoCounters
                   ELSE [c \in DOMAIN counters |->
                            Finish(counters[c], iterations, Seconds(timing), NumThreads)]
    /\ given' = [t \in {} |-> NoCounters] /\ counters' = NoCounters
    /\ UNCHANGED <<asked, results>>

-----------------------------------------------------------------------------
(* The aggregates of the repetitions. *)

StatisticsMean(v) == IF v = <<>> THEN <<0, 1>> ELSE <<Total(v), Len(v)>>

\* The center is the element with half of the others before it.
StatisticsMedian(v) ==
    LET s == InOrder(v)
        center == Len(v) \div 2 + 1
    IN  IF Len(v) < 3 THEN StatisticsMean(v)
        ELSE IF Len(v) % 2 = 1 THEN <<s[center], 1>> ELSE <<s[center] + s[center - 1], 2>>

\* Squared: n / (n - 1) * (the mean of the squares - the square of the mean).
StatisticsStdDev(v) ==
    LET n == Len(v)
    IN  IF n < 2 THEN <<0, 1>> ELSE <<n * Squares(v) - Total(v) * Total(v), n * (n - 1)>>

\* Squared, and zero if the mean is.
StatisticsCV(v) ==
    LET mean == StatisticsMean(v)
        stddev == StatisticsStdDev(v)
    IN  IF Len(v) < 2 \/ mean[1] = 0 THEN <<0, 1>>
        ELSE <<stddev[1] * mean[2] * mean[2], stddev[2] * mean[1] * mean[1]>>

Unskipped(rs) == Among(rs, {r \in ToSet(rs) : ~r.skipped})
Reals(rs) == [i \in DOMAIN rs |-> rs[i].real_accumulated_time]

\* Mutant of RescaleFactor: over the repetitions that were not skipped.
RescaleFactor_Unskipped(rs) == <<Len(Unskipped(rs)), rs[1].iterations>>

\* The reporters divide by the aggregate's iterations, the number of reports.
RescaleFactor(rs) == <<Len(rs), rs[1].iterations>>

ComputeStats(rs) ==
    LET factor == RescaleFactor(rs)
        v == Reals(Unskipped(rs))
    IN  [by |-> "ComputeStats", iterations |-> Len(rs),
         mean |-> Product(StatisticsMean(v), factor), median |-> Product(StatisticsMedian(v), factor),
         stddev |-> Product(StatisticsStdDev(v), Product(factor, factor)), cv |-> StatisticsCV(v)]

\* GetResults: nothing is computed of fewer than two. A build with checks stops
\* at different iterations; any build dies where it reads the statistics of a
\* first report that was skipped.
ComputeAggregates ==
    LET r1 == reports[1]
        outcome ==
            IF Len(Unskipped(reports)) < 2 THEN [by |-> "too few"]
            ELSE IF \E i \in DOMAIN reports : reports[i].iterations # r1.iterations
            THEN [by |-> "check"]
            ELSE IF r1.statistics = "uninitialized" THEN [by |-> "crash"] ELSE ComputeStats(reports)
    IN  /\ results = NoResults /\ reports # <<>> /\ DOMAIN given = {}
        /\ results' = outcome
        /\ UNCHANGED <<asked, given, counters, finished, reports>>

-----------------------------------------------------------------------------
(* The complexity of a family. *)

log2(n) == CHOOSE k \in 0 .. n : 2^k = n

FittingCurve(complexity, n) ==
    CASE complexity = "oN" -> n
      [] complexity = "oNSquared" -> n * n
      [] complexity = "oNCubed" -> n * n * n
      [] complexity = "oLogN" -> log2(n)
      [] complexity = "oNLogN" -> n * log2(n)
      [] OTHER -> 1

Fractions == Nat \X (Nat \ {0})

\* The order of fractions, with no product that could overflow: by their whole
\* parts, then by what is left of them upside down.
Less(p, q) ==
    LET left(f) == <<f[2], f[1] % f[2]>>
        less[pair \in Fractions \X Fractions] ==
            LET f == pair[1]
                g == pair[2]
            IN  IF f[1] \div f[2] # g[1] \div g[2] THEN f[1] \div f[2] < g[1] \div g[2]
                ELSE g[1] % g[2] # 0 /\ (f[1] % f[2] = 0 \/ less[<<left(g), left(f)>>])
    IN  less[<<p, q>>]

\* coef minimizes the sum of the squares of time - coef * curve. What that
\* leaves is less where fit, the square of the sum of time * curve over the sum
\* of curve * curve, is more; NaN if the curve is zero everywhere.
FitOf(n, time, complexity) ==
    LET gn == [i \in DOMAIN n |-> FittingCurve(complexity, n[i])]
        time_gn == Total([i \in DOMAIN n |-> time[i] * gn[i]])
    IN  [complexity |-> complexity, coef |-> <<time_gn, Squares(gn)>>,
         fit |-> <<time_gn * time_gn, Squares(gn)>>]

\* oAuto takes a curve that none is better than, and o1 if there are no times;
\* the rounding of doubles decides between curves that are as good.
MinimalLeastSq(n, time, complexity) ==
    LET fits == {FitOf(n, time, c) : c \in {"o1", "oLogN", "oN", "oNLogN", "oNSquared", "oNCubed"}}
        defined == {f \in fits : f.fit # NaN}
    IN  IF complexity # "oAuto" THEN {FitOf(n, time, complexity)}
        ELSE IF Total(time) = 0 THEN {FitOf(n, time, "o1")}
        ELSE {f \in defined : \A g \in defined : ~Less(f.fit, g.fit)}

\* Mutant of SecondComplexity: each of the times finds its own curve.
SecondComplexity_Own(first) == asked.complexity

\* The times fitted first settle the curve of both.
SecondComplexity(first) == first.complexity

\* When the family has done all of its runs; what was skipped is not in them,
\* and each of the others has as many iterations.
ComputeBigO ==
    LET runs == Unskipped(reports)
        n == [i \in DOMAIN runs |-> runs[i].complexity_n]
        cpu_time == [i \in DOMAIN runs |-> runs[i].cpu_accumulated_time]
        first == IF asked.use_manual_time THEN Reals(runs) ELSE cpu_time
        second == IF asked.use_manual_time THEN cpu_time ELSE Reals(runs)
    IN  /\ results = NoResults /\ Len(runs) >= 2 /\ DOMAIN given = {}
        /\ \E f \in MinimalLeastSq(n, first, asked.complexity) :
           \E s \in MinimalLeastSq(n, second, SecondComplexity(f)) :
               results' = [by |-> "ComputeBigO", n |-> n,
                           result_real |-> IF asked.use_manual_time THEN f ELSE s,
                           result_cpu |-> IF asked.use_manual_time THEN s ELSE f]
        /\ UNCHANGED <<asked, given, counters, finished, reports>>

-----------------------------------------------------------------------------
\* A thread's counters, with the same flags in all threads; only those of the
\* first run are explored.
Given ==
    IF reports # <<>> THEN {NoCounters}
    ELSE UNION {[S -> [value : Values, flags : {asked.flags}]] : S \in SUBSET Names}

RunsNext ==
    \/ \E t \in 1 .. NumThreads, cs \in Given : MergeThread(t, cs)
    \/ \E i \in {0, Iterations}, timing \in Timings, n \in Sizes, skipped \in BOOLEAN :
          Report(i, timing, n, skipped)
    \/ ComputeAggregates
    \/ ComputeBigO

RunsSpec == RunsInit /\ [][RunsNext]_runVars

-----------------------------------------------------------------------------
\* A counter does not depend on the order its threads merge in, and each flag
\* means what benchmark.h says of it, alone and with the others: the value is
\* that of all threads, their average, per second, per or times the
\* iterations; inverted, one of it takes the inverse.
CountersFinished ==
    [][\A timing \in Timings, n \in Sizes : Report(Iterations, timing, n, FALSE) =>
          \A c \in Names :
            LET had == {t \in DOMAIN given : c \in DOMAIN given[t]}
                sum == SumFunction([t \in had |-> given[t][c].value])
                has(flag, k) == IF flag \in asked.flags THEN k ELSE 1
                num == sum * has("kIsIterationInvariant", Iterations)
                den == has("kIsRate", Seconds(timing)) * has("kAvgThreads", NumThreads)
                       * has("kAvgIterations", Iterations)
            IN  /\ (c \in DOMAIN finished') <=> (had # {})
                /\ had # {} => LET v == finished'[c]
                               IN  Equal(v, IF "kInvert" \in asked.flags THEN <<den, num>>
                                            ELSE <<num, den>>)]_runVars

\* What the reporters show of an aggregate, its time divided by its iterations,
\* is the mean and the median of what they show of the repetitions that were
\* not skipped, however many were; the standard deviation is that of a sample,
\* and zero only if all repetitions took the same time.
AggregatesOfTheShown ==
    results.by = "ComputeStats" =>
        LET v == Reals(Unskipped(reports))
            n == Len(v)
            shown(p) == <<p[1], p[2] * results.iterations>>
            median == shown(results.median)
            time(i) == <<v[i], Iterations>>
            below == {i \in DOMAIN v : Less(time(i), median)}
            above == {i \in DOMAIN v : Less(median, time(i))}
            square == [i \in DOMAIN v |-> (n * v[i] - Total(v)) * (n * v[i] - Total(v))]
        IN  /\ Equal(shown(results.mean), <<Total(v), n * Iterations>>)
            /\ 2 * Cardinality(below) <= n /\ 2 * Cardinality(above) <= n
            /\ Equal(shown(shown(results.stddev)),
                     <<Total(square), n * n * (n - 1) * Iterations * Iterations>>)
            /\ results.stddev[1] = 0 <=> Cardinality(ToSet(v)) = 1

\* The two times have one curve.
OneCurve ==
    results.by = "ComputeBigO" => results.result_cpu.complexity = results.result_real.complexity

\* Times that follow a curve exactly are recognised: the curve that is reported,
\* multiplied by its coefficient, gives each of them back; and both times were
\* fitted with it, for it is reported once (complexity.cc:193).
ComplexityRecognised ==
    /\ OneCurve
    /\ results.by = "ComputeBigO" /\ asked.complexity = "oAuto" =>
        LET runs == Unskipped(reports)
            found == IF asked.use_manual_time THEN results.result_real ELSE results.result_cpu
            time(i) == IF asked.use_manual_time THEN runs[i].real_accumulated_time
                       ELSE runs[i].cpu_accumulated_time
            size(i) == runs[i].complexity_n
            curve(c, n) == CASE c = "oLogN" -> log2(n) [] c = "oNLogN" -> n * log2(n)
                             [] c = "o1" -> 1 [] c = "oN" -> n
                             [] c = "oNSquared" -> n * n [] c = "oNCubed" -> n * n * n
        IN  (\E c \in {"o1", "oLogN", "oN", "oNLogN", "oNSquared", "oNCubed"} :
                 \A i, j \in DOMAIN runs :
                     /\ curve(c, size(i)) # 0
                     /\ time(i) * curve(c, size(j)) = time(j) * curve(c, size(i)))
            => \A i \in DOMAIN runs :
                   found.coef[1] * curve(found.complexity, size(i)) = time(i) * found.coef[2]

\* user_guide.md: a run that is skipped is reported, and so are the others. The
\* aggregates of repetitions of which the first is skipped are not.
AggregatesWithoutTheFirst == results.by # "crash"
=============================================================================
