---------------------------- MODULE RunBenchmarks ----------------------------
(***************************************************************************)
(* RunBenchmarks of google_benchmark/src/benchmark.cc: the repetitions of  *)
(* all benchmark instances in one order, possibly shuffled; what is        *)
(* reported when an instance has done its last one; the families whose     *)
(* complexity is computed over all of their instances; and what each build *)
(* mode sends to CodSpeed: class CodSpeed (core/src/codspeed.cpp) and the  *)
(* rounds of the walltime results (core/src/walltime.cpp).                 *)
(*                                                                         *)
(* One iteration of the loop over repetition_indices is one step;          *)
(* DoOneRepetition is its outcome, as BenchmarkRunner has it.              *)
(***************************************************************************)
EXTENDS Integers, Sequences, FiniteSets, Functions

CONSTANTS
    Modes,        \* build modes to explore: "off", "walltime", "analysis"
    Interleaving, \* values of --benchmark_enable_random_interleaving to explore
    Skips,        \* outcomes of a repetition: "no", "before", "loop"
    Instances,    \* the number of benchmark instances, in their order
    Repeats,      \* sequence: repetitions of each instance
    Family,       \* sequence: family_index of each instance
    Complex       \* the family_index values with a complexity

ASSUME ShapeAssumption ==
    /\ Instances \in Nat
    /\ Repeats \in [1 .. Instances -> Nat \ {0}]
    /\ Family \in [1 .. Instances -> Nat]
    /\ Complex \subseteq {Family[i] : i \in 1 .. Instances}
ASSUME ChoicesAssumption ==
    /\ Modes \subseteq {"off", "walltime", "analysis"}
    /\ Interleaving \subseteq BOOLEAN
    /\ Skips \subseteq {"no", "before", "loop"}

Runners == 1 .. Instances

VARIABLES
    mode, shuffled,       \* inputs, never change
    todo,                 \* entries of repetition_indices left, per runner
    num_repetitions_done, \* per runner
    rounds,               \* run_results.non_aggregates, per runner
    families,             \* per_family_reports; "present" is FALSE once erased
    bigO,                 \* ComputeBigO's results: <<family, number of runs>>
    reported,             \* runners handed to the reporters, in order
    walltime_data,        \* codspeed_walltime_data: the rounds of each runner
    current_benchmark,    \* CodSpeed::current_benchmark, a runner; 0 at first
    window,               \* whether measurement_start is in force
    executed,             \* end_benchmark's: <<current_benchmark, the runner>>
    crashed               \* the program has died reading an empty vector

vars == <<mode, shuffled, todo, num_repetitions_done, rounds, families, bigO, reported,
          walltime_data, current_benchmark, window, executed, crashed>>

Members(f) == {i \in Runners : Family[i] = f}

Init ==
    /\ mode \in Modes /\ shuffled \in Interleaving
    /\ todo = Repeats
    /\ num_repetitions_done = [i \in Runners |-> 0]
    /\ rounds = [i \in Runners |-> <<>>]
    /\ families = [f \in Complex |-> [present |-> TRUE, num_runs_done |-> 0,
                                      num_runs_total |-> SumFunctionOnSet(Repeats, Members(f)),
                                      Runs |-> 0]]
    /\ bigO = <<>> /\ reported = <<>> /\ walltime_data = <<>>
    /\ current_benchmark = 0 /\ window = FALSE /\ executed = <<>>
    /\ crashed = FALSE

-----------------------------------------------------------------------------
\* repetition_indices holds the runners' indices in order, or shuffled.
NextIndices ==
    LET left == {i \in Runners : todo[i] > 0}
    IN  IF shuffled THEN left ELSE {i \in left : \A j \in left : i <= j}

\* Mutant of CountRun: the family does not count a skipped run.
CountRun_OnlyUnskipped(i, skip) ==
    IF Family[i] \notin Complex \/ skip # "no" THEN families
    ELSE [families EXCEPT ![Family[i]].num_runs_done = @ + 1,
                          ![Family[i]].Runs = @ + 1]

\* DoOneRepetition's last lines: the family counts the run, and keeps its
\* report unless it was skipped.
CountRun(i, skip) ==
    IF Family[i] \notin Complex THEN families
    ELSE [families EXCEPT ![Family[i]].num_runs_done = @ + 1,
                          ![Family[i]].Runs = IF skip = "no" THEN @ + 1 ELSE @]

\* Mutant of FamilyComplete: each instance completes its family.
FamilyComplete_PerInstance(i, fams) == Family[i] \in Complex

\* All runs of the family are done: ComputeBigO, and its entry is erased.
FamilyComplete(i, fams) ==
    Family[i] \in Complex /\ fams[Family[i]].num_runs_done = fams[Family[i]].num_runs_total

\* per_family_reports.erase(Runs.front().family_index): when every run of the
\* family was skipped, Runs was never given an element and front() reads
\* through its null data pointer.
FrontOfNothing(i, fams) == FamilyComplete(i, fams) /\ fams[Family[i]].Runs = 0

\* Mutant of IsLast: every repetition counts as the last one.
IsLast_Always(i) == TRUE

\* !runner->HasRepeatsRemaining() after the repetition.
IsLast(i) == num_repetitions_done[i] + 1 = Repeats[i]

\* Mutant of Start: CodSpeed is not told.
Start_Silent(i) == UNCHANGED <<current_benchmark, window>>

\* start_benchmark and measurement_start, on the first repetition.
Start(i) ==
    IF mode = "walltime" /\ num_repetitions_done[i] = 0
    THEN current_benchmark' = i /\ window' = TRUE
    ELSE UNCHANGED <<current_benchmark, window>>

Dies(i, skip) ==
    /\ IsLast(i)
    /\ FrontOfNothing(i, CountRun(i, skip))
    /\ crashed' = TRUE
    /\ UNCHANGED <<families, bigO, reported, walltime_data, current_benchmark, window, executed>>

\* A repetition that is not the last of its runner.
InnerRepetition(i, skip) ==
    /\ ~IsLast(i)
    /\ families' = CountRun(i, skip)
    /\ Start(i)
    /\ UNCHANGED <<bigO, reported, walltime_data, executed, crashed>>

\* The last repetition of its runner, and everything reported then.
LastRepetition(i, skip) ==
    /\ IsLast(i)
    /\ ~FrontOfNothing(i, CountRun(i, skip))
    /\ LET fams == CountRun(i, skip)
           started == IF mode = "walltime" /\ num_repetitions_done[i] = 0
                      THEN i ELSE current_benchmark
       IN  /\ IF FamilyComplete(i, fams)
              THEN /\ bigO' = Append(bigO, <<Family[i], fams[Family[i]].Runs>>)
                   /\ families' = [fams EXCEPT ![Family[i]].present = FALSE]
              ELSE families' = fams /\ UNCHANGED bigO
           /\ current_benchmark' = started
           /\ IF mode = "walltime"
              THEN /\ window' = FALSE
                   /\ executed' = Append(executed, <<started, i>>)
                   /\ walltime_data' = Append(walltime_data, rounds'[i])
              ELSE UNCHANGED <<window, executed, walltime_data>>
    /\ reported' = Append(reported, i)
    /\ UNCHANGED crashed

\* Every repetition leaves a report in its runner's non_aggregates.
RoundsWith(i, skip) == [rounds EXCEPT ![i] = Append(@, skip)]

\* One iteration of the loop in a build without analysis.
Repetition(i, skip) ==
    /\ ~crashed /\ mode # "analysis" /\ i \in NextIndices
    /\ todo' = [todo EXCEPT ![i] = @ - 1]
    /\ rounds' = RoundsWith(i, skip)
    /\ num_repetitions_done' = [num_repetitions_done EXCEPT ![i] = @ + 1]
    /\ InnerRepetition(i, skip) \/ LastRepetition(i, skip) \/ Dies(i, skip)
    /\ UNCHANGED <<mode, shuffled>>

\* DoOneRepetition of an analysis build returns after RunAnalysis: it counts no
\* repetition, so the loop never gets to report.  A range-for loop names its
\* benchmark when it begins and reports it when it ends by itself, which it
\* also does at once after a skip; another loop, or none, does neither.
AnalysisRepetition(i) ==
    /\ mode = "analysis" /\ i \in NextIndices
    /\ todo' = [todo EXCEPT ![i] = @ - 1]
    /\ \/ UNCHANGED <<current_benchmark, executed>>
       \/ current_benchmark' = i /\ UNCHANGED executed
       \/ current_benchmark' = i /\ executed' = Append(executed, <<i, i>>)
    /\ UNCHANGED <<mode, shuffled, num_repetitions_done, rounds, families, bigO, reported,
                   walltime_data, window, crashed>>

AllDone == ~crashed /\ \A i \in Runners : todo[i] = 0
Finished == (AllDone \/ crashed) /\ UNCHANGED vars

Next ==
    \/ \E i \in Runners, skip \in Skips : Repetition(i, skip)
    \/ \E i \in Runners : AnalysisRepetition(i)
    \/ Finished

Spec == Init /\ [][Next]_vars

-----------------------------------------------------------------------------
\* The repetitions of runner i so far that were not skipped.
Unskipped(i) == Cardinality({r \in DOMAIN rounds[i] : rounds[i][r] = "no"})

\* A family with a complexity that has none to compute.
AllSkipped(f) == f \in Complex /\ \A i \in Members(f) : todo[i] = 0 /\ Unskipped(i) = 0

\* However the repetitions are interleaved, each instance is reported once, and
\* only after all of its own repetitions, which the walltime results hold. Skips
\* are reported too: an instance that is done is left out, and the program dies,
\* only where every run of a family with a complexity was skipped.
EachReportedOnce ==
    /\ \A k, l \in DOMAIN reported : k # l => reported[k] # reported[l]
    /\ \A k \in DOMAIN reported : Len(rounds[reported[k]]) = Repeats[reported[k]]
    /\ mode = "walltime" => walltime_data = [k \in DOMAIN reported |-> rounds[reported[k]]]
    /\ mode # "analysis" =>
          \A i \in Runners : todo[i] = 0 =>
              (\E k \in DOMAIN reported : reported[k] = i) \/ AllSkipped(Family[i])
    /\ crashed => \E f \in Complex : AllSkipped(f)

\* The complexity of a family is computed once, by its last instance, over
\* every run of the family that was not skipped.
ComplexityOnce ==
    /\ \A k, l \in DOMAIN bigO : k # l => bigO[k][1] # bigO[l][1]
    /\ \A k \in DOMAIN bigO :
          bigO[k][2] = SumFunctionOnSet([i \in Runners |-> Unskipped(i)], Members(bigO[k][1]))
    /\ AllDone /\ mode # "analysis" => {bigO[k][1] : k \in DOMAIN bigO} = Complex

\* No runner reaches for its family's entry after it was erased.
ErasedEntriesUnused ==
    \A i \in Runners :
        Family[i] \in Complex /\ ~families[Family[i]].present =>
            todo[i] = 0 \/ mode = "analysis"

\* A walltime build with the repetitions in order reports each benchmark as
\* executed under its own name. With random interleaving it reports the one
\* that was started last.
ExecutedInOrder ==
    ~shuffled => \A k \in DOMAIN executed : executed[k][1] = executed[k][2]
=============================================================================
