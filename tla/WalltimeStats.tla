---------------------------- MODULE WalltimeStats ----------------------------
(***************************************************************************)
(* The walltime results of one benchmark, next to its URI: the rounds that *)
(* generate_raw_walltime_data (google_benchmark/src/benchmark.cc) collects *)
(* from its repetitions, and compute_benchmark_stats (core/src/            *)
(* walltime.cpp) over them.                                                *)
(*                                                                         *)
(* Arithmetic is exact where the code uses doubles: times per iteration    *)
(* are in 1/Scale ns, quantiles in 1/(4 * Scale) ns, and what the code     *)
(* divides by the number of rounds is kept multiplied by it.               *)
(***************************************************************************)
EXTENDS BenchmarkUri

CONSTANTS
    Iters,       \* iterations a round can have
    RoundTimes,  \* total times of a round, in ns; 0 for one that was skipped
    Scale,       \* a common multiple of Iters
    MaxVaried,   \* bound on the rounds that may differ
    MaxRounds    \* bound on the rounds: further ones are like the first

ASSUME RoundsAssumption ==
    /\ Iters \subseteq Nat \ {0} /\ RoundTimes \subseteq Nat
    /\ Scale \in Nat \ {0} /\ \A n \in Iters : Scale % n = 0
    /\ MaxVaried \in Nat \ {0} /\ MaxRounds \in Nat

VARIABLES
    iters_per_round,
    times_per_round_ns,
    stats                \* what compute_benchmark_stats has returned

roundVars == <<iters_per_round, times_per_round_ns, stats>>

NoStats == [rounds |-> 0]

RoundsInit == iters_per_round = <<>> /\ times_per_round_ns = <<>> /\ stats = NoStats

\* One pass of generate_raw_walltime_data's loop over non_aggregates.
PushRound(n, t) ==
    /\ stats = NoStats
    /\ Len(iters_per_round) < MaxRounds
    /\ Len(iters_per_round) >= MaxVaried =>
           n = iters_per_round[1] /\ t = times_per_round_ns[1]
    /\ iters_per_round' = Append(iters_per_round, n)
    /\ times_per_round_ns' = Append(times_per_round_ns, t)
    /\ UNCHANGED stats

-----------------------------------------------------------------------------
Total(s) == SumFunction(s)

\* What std::sort gives: the k-th is the least that k elements do not exceed.
InOrder(s) ==
    LET rank == [x \in ToSet(s) |-> Cardinality({i \in DOMAIN s : s[i] <= x})]
    IN  [k \in DOMAIN s |-> Min({x \in ToSet(s) : rank[x] >= k})]

\* Mutant of compute_quantile: n instead of n - 1.
compute_quantile_PastTheEnd(sorted, quarters) ==
    LET n == Len(sorted)
        k == (quarters * n) \div 4
        d == (quarters * n) % 4
    IN  IF k + 1 < n
        THEN 4 * sorted[k + 1] + d * (sorted[k + 2] - sorted[k + 1])
        ELSE 4 * sorted[n]

\* The quantile of quarters/4, interpolated between two neighbours.
compute_quantile(sorted, quarters) ==
    LET n == Len(sorted)
        k == (quarters * (n - 1)) \div 4
        d == (quarters * (n - 1)) % 4
    IN  IF k + 1 < n
        THEN 4 * sorted[k + 1] + d * (sorted[k + 2] - sorted[k + 1])
        ELSE 4 * sorted[k + 1]

\* The rounds more than three standard deviations off the mean: with
\* differences from the mean multiplied by n, and both sides squared.
StdevOutliers(s) ==
    LET n == Len(s)
        total == Total(s)
        square == [i \in DOMAIN s |-> (n * s[i] - total) * (n * s[i] - total)]
        squares == Total(square)
    IN  Cardinality({i \in DOMAIN s : n * square[i] > 9 * squares})

\* The rounds more than 1.5 interquartile ranges outside of the quartiles.
IqrOutliers(s, q1, q3) ==
    Cardinality({i \in DOMAIN s : \/ 8 * s[i] < 2 * q1 - 3 * (q3 - q1)
                                  \/ 8 * s[i] > 2 * q3 + 3 * (q3 - q1)})

\* An integer division.
AvgItersPerRound(iters) == Total(iters) \div Len(iters)

compute_benchmark_stats(iters, times) ==
    LET per_iteration == [i \in DOMAIN times |-> (times[i] * Scale) \div iters[i]]
        sorted == InOrder(per_iteration)
        q1 == compute_quantile(sorted, 1)
        q3 == compute_quantile(sorted, 3)
    IN  [min |-> 4 * sorted[1], max |-> 4 * sorted[Len(sorted)],
         rounds_times_mean |-> Total(per_iteration),
         q1 |-> q1, median |-> compute_quantile(sorted, 2), q3 |-> q3,
         rounds |-> Len(times), total_time |-> Total(times),
         iqr_outlier_rounds |-> IqrOutliers(sorted, q1, q3),
         stdev_outlier_rounds |-> StdevOutliers(sorted),
         iter_per_round |-> AvgItersPerRound(iters)]

\* generate_codspeed_walltime_report, which asserts that there are rounds.
ComputeWalltimeStats ==
    /\ stats = NoStats /\ iters_per_round # <<>>
    /\ stats' = compute_benchmark_stats(iters_per_round, times_per_round_ns)
    /\ UNCHANGED <<iters_per_round, times_per_round_ns>>

RoundsNext == ComputeWalltimeStats \/ \E n \in Iters, t \in RoundTimes : PushRound(n, t)

RoundsSpec == RoundsInit /\ [][RoundsNext]_roundVars

-----------------------------------------------------------------------------
HasRounds == stats # NoStats

\* Every quantile splits the rounds where its name says, up to the rounds it
\* is interpolated between, and the quartiles are in order.
QuartilesSplitTheRounds ==
    HasRounds =>
        LET per_iteration(i) == 4 * ((times_per_round_ns[i] * Scale) \div iters_per_round[i])
            below(q) == Cardinality({i \in DOMAIN iters_per_round : per_iteration(i) < q})
            above(q) == Cardinality({i \in DOMAIN iters_per_round : per_iteration(i) > q})
            splits(q, quarters) ==
                /\ 4 * below(q) < quarters * (stats.rounds - 1) + 4
                /\ 4 * above(q) < (4 - quarters) * (stats.rounds - 1) + 4
        IN  /\ splits(stats.q1, 1) /\ splits(stats.median, 2) /\ splits(stats.q3, 3)
            /\ stats.min <= stats.q1 /\ stats.q1 <= stats.median
            /\ stats.median <= stats.q3 /\ stats.q3 <= stats.max

\* One round in eleven is the first that can lie three standard deviations off:
\* with the five rounds of a walltime build by default there is never one.
StdevOutliersNeedElevenRounds ==
    HasRounds /\ stats.stdev_outlier_rounds > 0 =>
        stats.rounds >= 11 /\ 9 * stats.stdev_outlier_rounds < stats.rounds

\* With equal rounds, as the repetitions of a runner have them, the reported
\* mean, rounds and iterations per round give the reported total time.
TotalAgrees ==
    HasRounds /\ (\A i \in DOMAIN iters_per_round : iters_per_round[i] = iters_per_round[1]) =>
        stats.rounds_times_mean * stats.iter_per_round = stats.total_time * Scale

\* The three: the statistics of the rounds are what their names say.
RoundStatistics == QuartilesSplitTheRounds /\ StdevOutliersNeedElevenRounds /\ TotalAgrees
=============================================================================
