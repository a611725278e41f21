-------------------------- MODULE RunBenchmarksProofs --------------------------
(***************************************************************************)
(* RunBenchmarks for any number of benchmark instances, repetitions and    *)
(* families, in order or shuffled: what is reported, and under which name. *)
(***************************************************************************)
EXTENDS RunBenchmarks, FoldLemmas, FiniteSetTheorems, SequenceTheorems, TLAPS

LoopTypes ==
    /\ mode \in {"off", "walltime", "analysis"} /\ shuffled \in BOOLEAN /\ crashed \in BOOLEAN
    /\ todo \in [Runners -> Nat] /\ num_repetitions_done \in [Runners -> Nat]
    /\ rounds \in [Runners -> Seq(Skips)]
    /\ reported \in Seq(Runners)
    /\ executed \in Seq((0 .. Instances) \X Runners)

\* Each entry of repetition_indices that is gone is a repetition with a report.
RepetitionsCounted ==
    mode # "analysis" =>
        \A i \in Runners : /\ todo[i] + num_repetitions_done[i] = Repeats[i]
                           /\ Len(rounds[i]) = num_repetitions_done[i]

\* Exactly the runners that have done all their repetitions are reported, each
\* at one place; the one at which the program dies is not.
ReportedAreDone ==
    /\ \A k \in DOMAIN reported : num_repetitions_done[reported[k]] = Repeats[reported[k]]
    /\ \A k, l \in DOMAIN reported : k # l => reported[k] # reported[l]
    /\ ~crashed => \A i \in Runners : num_repetitions_done[i] = Repeats[i] =>
                                          \E k \in DOMAIN reported : reported[k] = i

NothingReported == mode = "analysis" => reported = <<>>

WalltimeFollows ==
    mode = "walltime" => walltime_data = [k \in DOMAIN reported |-> rounds[reported[k]]]

\* In order, a runner that has begun and not ended is the one CodSpeed has been
\* told of, and none begins before those in front of it have ended.
OneInProgress ==
    mode = "walltime" /\ ~shuffled =>
        /\ \A i \in Runners : num_repetitions_done[i] > 0 /\ todo[i] > 0 => current_benchmark = i
        /\ \A i, j \in Runners : i < j /\ todo[i] > 0 => num_repetitions_done[j] = 0

LoopInv ==
    /\ LoopTypes /\ RepetitionsCounted /\ ReportedAreDone /\ WalltimeFollows
    /\ NothingReported /\ OneInProgress /\ current_benchmark \in 0 .. Instances
    /\ ExecutedInOrder

-----------------------------------------------------------------------------
(* The families with a complexity. *)

UnskippedRuns == [i \in Runners |-> Unskipped(i)]

FamilyTypes ==
    /\ families \in [Complex -> [present : BOOLEAN, num_runs_done : Nat,
                                 num_runs_total : Nat, Runs : Nat]]
    /\ bigO \in Seq(Complex \X Nat)

\* num_runs_total was summed up at the start; until the program dies the other
\* two counters sum up what the runners of the family have done.
FamiliesCount ==
    /\ \A f \in Complex : families[f].num_runs_total = SumFunctionOnSet(Repeats, Members(f))
    /\ mode # "analysis" /\ ~crashed =>
          \A f \in Complex :
              /\ families[f].num_runs_done = SumFunctionOnSet(num_repetitions_done, Members(f))
              /\ families[f].Runs = SumFunctionOnSet(UnskippedRuns, Members(f))

MembersDone(f) == \A i \in Members(f) : num_repetitions_done[i] = Repeats[i]

\* An entry is erased when its last runner has done its last repetition, and
\* not before.
ErasedWhenDone ==
    /\ mode = "analysis" => \A f \in Complex : families[f].present
    /\ \A f \in Complex : ~families[f].present => MembersDone(f)
    /\ mode # "analysis" /\ ~crashed =>
          \A f \in Complex : MembersDone(f) => ~families[f].present

\* The complexities computed are those of the erased entries, one of each.
ComputedWhenErased ==
    /\ \A k \in DOMAIN bigO :
          /\ ~families[bigO[k][1]].present
          /\ bigO[k][2] = SumFunctionOnSet(UnskippedRuns, Members(bigO[k][1]))
    /\ \A k, l \in DOMAIN bigO : k # l => bigO[k][1] # bigO[l][1]
    /\ \A f \in Complex : ~families[f].present => \E k \in DOMAIN bigO : bigO[k][1] = f

FamiliesInv == FamilyTypes /\ FamiliesCount /\ ErasedWhenDone /\ ComputedWhenErased

-----------------------------------------------------------------------------
LEMMA InitLoopInv == Init => LoopInv
<1> SUFFICES ASSUME Init PROVE LoopInv
  OBVIOUS
<1>1. Repeats \in [Runners -> Nat \ {0}] /\ Instances \in Nat
  BY ShapeAssumption DEF Runners
<1>2. LoopTypes
  <2>1. mode \in {"off", "walltime", "analysis"} /\ shuffled \in BOOLEAN /\ crashed \in BOOLEAN
    BY ChoicesAssumption, Zenon DEF Init
  <2>2. todo \in [Runners -> Nat] /\ num_repetitions_done \in [Runners -> Nat]
    BY <1>1 DEF Init
  <2>3. rounds \in [Runners -> Seq(Skips)] /\ reported \in Seq(Runners)
        /\ executed \in Seq((0 .. Instances) \X Runners)
    BY DEF Init
  <2>4. QED
    BY <2>1, <2>2, <2>3 DEF LoopTypes
<1>3. RepetitionsCounted /\ ReportedAreDone
  BY <1>1 DEF Init, RepetitionsCounted, ReportedAreDone
<1>4. NothingReported /\ WalltimeFollows /\ OneInProgress /\ ExecutedInOrder
  BY DEF Init, NothingReported, WalltimeFollows, OneInProgress, ExecutedInOrder
<1>5. QED
  BY <1>1, <1>2, <1>3, <1>4 DEF Init, LoopInv

\* What every repetition does, the last one, an inner one or the fatal one.
LEMMA RepetitionCounts ==
    ASSUME LoopInv, NEW i \in Runners, NEW skip \in Skips, Repetition(i, skip)
    PROVE  /\ UNCHANGED <<mode, shuffled>> /\ mode \in {"off", "walltime"} /\ ~crashed
           /\ todo[i] > 0 /\ num_repetitions_done[i] < Repeats[i]
           /\ todo' = [todo EXCEPT ![i] = @ - 1] /\ todo' \in [Runners -> Nat]
           /\ num_repetitions_done' = [num_repetitions_done EXCEPT ![i] = @ + 1]
           /\ num_repetitions_done' \in [Runners -> Nat]
           /\ rounds' = [rounds EXCEPT ![i] = Append(@, skip)] /\ rounds' \in [Runners -> Seq(Skips)]
           /\ RepetitionsCounted'
           /\ IsLast(i) <=> num_repetitions_done'[i] = Repeats[i]
           /\ ~shuffled => \A j \in Runners : todo[j] > 0 => i <= j
           /\ \A k \in DOMAIN reported : reported[k] \in Runners \ {i}
<1>1. /\ UNCHANGED <<mode, shuffled>> /\ mode # "analysis" /\ ~crashed /\ i \in NextIndices
      /\ todo' = [todo EXCEPT ![i] = @ - 1]
      /\ num_repetitions_done' = [num_repetitions_done EXCEPT ![i] = @ + 1]
      /\ rounds' = [rounds EXCEPT ![i] = Append(@, skip)]
  BY DEF Repetition, RoundsWith
<1>2. LoopTypes /\ RepetitionsCounted /\ Repeats \in [Runners -> Nat \ {0}]
  BY ShapeAssumption DEF LoopInv, Runners
<1>3. todo[i] > 0 /\ (~shuffled => \A j \in Runners : todo[j] > 0 => i <= j)
  BY <1>1 DEF NextIndices
<1>4. todo[i] \in Nat /\ num_repetitions_done[i] \in Nat /\ rounds[i] \in Seq(Skips)
  BY <1>2 DEF LoopTypes
<1>5. todo' \in [Runners -> Nat]
  BY <1>1, <1>2, <1>3, <1>4 DEF LoopTypes
<1>6. num_repetitions_done' \in [Runners -> Nat] /\ rounds' \in [Runners -> Seq(Skips)]
  BY <1>1, <1>2, <1>4 DEF LoopTypes
<1>7. RepetitionsCounted'
  <2> SUFFICES ASSUME NEW j \in Runners
               PROVE  /\ todo'[j] + num_repetitions_done'[j] = Repeats[j]
                      /\ Len(rounds'[j]) = num_repetitions_done'[j]
    BY DEF RepetitionsCounted
  <2>1. /\ todo[j] + num_repetitions_done[j] = Repeats[j]
        /\ Len(rounds[j]) = num_repetitions_done[j]
    BY <1>1, <1>2 DEF RepetitionsCounted
  <2>2. CASE j = i
    <3>1. todo'[j] = todo[i] - 1 /\ num_repetitions_done'[j] = num_repetitions_done[i] + 1
          /\ rounds'[j] = Append(rounds[i], skip)
      BY <1>1, <1>2, <2>2 DEF LoopTypes
    <3>2. Len(Append(rounds[i], skip)) = Len(rounds[i]) + 1
      BY <1>4
    <3>3. Len(rounds'[j]) = num_repetitions_done'[j]
      BY <2>1, <2>2, <3>1, <3>2
    <3>4. todo[i] \in Nat /\ num_repetitions_done[i] \in Nat
      BY <1>4
    <3>5. todo'[j] + num_repetitions_done'[j] = Repeats[j]
      BY <2>1, <2>2, <3>1, <3>4
    <3>6. QED
      BY <3>3, <3>5
  <2>3. CASE j # i
    BY <1>1, <1>2, <2>1, <2>3 DEF LoopTypes
  <2>4. QED
    BY <2>2, <2>3
<1>8. num_repetitions_done[i] < Repeats[i]
  BY <1>1, <1>2, <1>3, <1>4 DEF RepetitionsCounted
<1>9. IsLast(i) <=> num_repetitions_done'[i] = Repeats[i]
  BY <1>1, <1>2 DEF IsLast, LoopTypes
<1>10. \A k \in DOMAIN reported : reported[k] \in Runners \ {i}
  <2> SUFFICES ASSUME NEW k \in DOMAIN reported PROVE reported[k] \in Runners \ {i}
    OBVIOUS
  <2>1. reported[k] \in Runners
    BY <1>2 DEF LoopTypes
  <2>2. num_repetitions_done[reported[k]] = Repeats[reported[k]]
    BY DEF LoopInv, ReportedAreDone
  <2>3. QED
    BY <1>2, <1>4, <1>8, <2>1, <2>2
<1>11. QED
  BY <1>1, <1>2, <1>3, <1>5, <1>6, <1>7, <1>8, <1>9, <1>10 DEF LoopTypes

\* A repetition that reports nothing.
LEMMA UnreportedKeeps ==
    ASSUME LoopInv, NEW i \in Runners, NEW skip \in Skips, Repetition(i, skip),
           UNCHANGED <<reported, executed, walltime_data>>,
           crashed' \/ (crashed' = crashed /\ ~IsLast(i)), crashed' \in BOOLEAN
    PROVE  LoopTypes' /\ RepetitionsCounted' /\ ReportedAreDone' /\ WalltimeFollows'
           /\ ExecutedInOrder'
<1>1. LoopTypes'
  BY RepetitionCounts DEF LoopInv, LoopTypes
<1>2. \A k \in DOMAIN reported :
         /\ num_repetitions_done'[reported[k]] = num_repetitions_done[reported[k]]
         /\ rounds'[reported[k]] = rounds[reported[k]]
  BY RepetitionCounts DEF LoopInv, LoopTypes
<1>3. ReportedAreDone'
  <2>1. ASSUME ~crashed', NEW j \in Runners, num_repetitions_done'[j] = Repeats[j]
        PROVE  \E k \in DOMAIN reported : reported[k] = j
    <3>1. ~crashed /\ ~IsLast(i)
      BY <2>1
    <3>2. j # i
      BY <2>1, <3>1, RepetitionCounts
    <3>3. num_repetitions_done[j] = Repeats[j]
      BY <2>1, <3>2, RepetitionCounts DEF LoopInv, LoopTypes
    <3>4. QED
      BY <3>1, <3>3 DEF LoopInv, ReportedAreDone
  <2>2. QED
    BY <1>2, <2>1 DEF LoopInv, ReportedAreDone
<1>4. WalltimeFollows'
  BY <1>2, RepetitionCounts DEF LoopInv, WalltimeFollows
<1>5. ExecutedInOrder'
  BY RepetitionCounts DEF LoopInv, ExecutedInOrder
<1>6. QED
  BY <1>1, <1>3, <1>4, <1>5, RepetitionCounts

\* In order, the runner that has begun is the one CodSpeed has been told of,
\* when its first repetition tells it.
LEMMA InProgressKept ==
    ASSUME LoopInv, NEW i \in Runners, NEW skip \in Skips, Repetition(i, skip),
           mode = "walltime" /\ num_repetitions_done[i] = 0 => current_benchmark' = i,
           ~(mode = "walltime" /\ num_repetitions_done[i] = 0) => current_benchmark' = current_benchmark
    PROVE  OneInProgress' /\ current_benchmark' \in 0 .. Instances
           /\ (mode = "walltime" /\ ~shuffled => current_benchmark' = i)
<1>1. current_benchmark' \in 0 .. Instances
  BY ShapeAssumption DEF LoopInv, Runners
<1>2. ASSUME mode = "walltime", ~shuffled PROVE current_benchmark' = i
  <2>1. CASE num_repetitions_done[i] = 0
    BY <1>2, <2>1
  <2>2. CASE num_repetitions_done[i] # 0
    BY <1>2, <2>2, RepetitionCounts DEF LoopInv, OneInProgress, LoopTypes
  <2>3. QED
    BY <2>1, <2>2
<1>3. ASSUME mode = "walltime", ~shuffled, NEW j \in Runners,
             num_repetitions_done'[j] > 0, todo'[j] > 0
      PROVE  j = i
  <2> SUFFICES ASSUME j # i PROVE FALSE
    OBVIOUS
  <2>1. num_repetitions_done[j] > 0 /\ todo[j] > 0 /\ todo[i] > 0 /\ i <= j
    BY <1>3, RepetitionCounts DEF LoopInv, LoopTypes
  <2>2. i < j
    BY <2>1, ShapeAssumption DEF Runners
  <2>3. QED
    BY <1>3, <2>1, <2>2 DEF LoopInv, OneInProgress
<1>4. ASSUME mode = "walltime", ~shuffled, NEW j \in Runners, NEW l \in Runners, j < l, todo'[j] > 0
      PROVE  num_repetitions_done'[l] = 0
  <2>1. todo[j] > 0
    <3>1. todo' = [todo EXCEPT ![i] = @ - 1] /\ todo \in [Runners -> Nat] /\ todo[i] > 0
      BY RepetitionCounts DEF LoopInv, LoopTypes
    <3>2. QED
      BY <1>4, <3>1
  <2>2. i <= j
    BY <1>4, <2>1, RepetitionCounts
  <2>3. l # i
    BY <1>4, <2>2, ShapeAssumption DEF Runners
  <2>4. num_repetitions_done[l] = 0
    BY <1>4, <2>1 DEF LoopInv, OneInProgress
  <2>5. QED
    BY <2>3, <2>4, RepetitionCounts DEF LoopInv, LoopTypes
<1>5. OneInProgress'
  BY <1>2, <1>3, <1>4, RepetitionCounts DEF OneInProgress
<1>6. QED
  BY <1>1, <1>2, <1>5

\* An inner repetition, or one at which the program dies.
LEMMA InnerKeeps ==
    ASSUME LoopInv, NEW i \in Runners, NEW skip \in Skips, Repetition(i, skip),
           InnerRepetition(i, skip)
    PROVE  LoopInv'
<1>1. UNCHANGED <<reported, executed, walltime_data, crashed>> /\ ~IsLast(i)
  BY DEF InnerRepetition
<1>2. crashed' \in BOOLEAN
  BY <1>1 DEF LoopInv, LoopTypes
<1>3. /\ mode = "walltime" /\ num_repetitions_done[i] = 0 => current_benchmark' = i
      /\ ~(mode = "walltime" /\ num_repetitions_done[i] = 0) => current_benchmark' = current_benchmark
  BY DEF InnerRepetition, Start
<1>4. QED
  BY <1>1, <1>2, <1>3, RepetitionCounts, UnreportedKeeps, InProgressKept DEF LoopInv, NothingReported

LEMMA DyingKeeps ==
    ASSUME LoopInv, NEW i \in Runners, NEW skip \in Skips, Repetition(i, skip), Dies(i, skip)
    PROVE  LoopInv'
<1>1. UNCHANGED <<reported, executed, walltime_data, current_benchmark>> /\ crashed' /\ crashed' \in BOOLEAN
      /\ IsLast(i)
  BY DEF Dies
<1>2. LoopTypes' /\ RepetitionsCounted' /\ ReportedAreDone' /\ WalltimeFollows' /\ ExecutedInOrder'
  BY <1>1, UnreportedKeeps
<1>3. todo'[i] = 0
  <2>1. mode' # "analysis" /\ num_repetitions_done'[i] = Repeats[i]
    BY <1>1, RepetitionCounts
  <2>2. todo'[i] + num_repetitions_done'[i] = Repeats[i]
    BY <1>2, <2>1 DEF RepetitionsCounted
  <2>3. todo'[i] \in Nat /\ num_repetitions_done'[i] \in Nat
    BY RepetitionCounts
  <2>4. QED
    BY <2>1, <2>2, <2>3
<1>4. ASSUME mode = "walltime", ~shuffled, NEW j \in Runners, todo'[j] > 0
      PROVE  /\ j # i /\ todo[j] > 0 /\ i < j
             /\ num_repetitions_done'[j] = num_repetitions_done[j]
  <2>1. j # i /\ todo[j] > 0 /\ num_repetitions_done'[j] = num_repetitions_done[j]
    <3>1. /\ todo' = [todo EXCEPT ![i] = @ - 1]
          /\ num_repetitions_done' = [num_repetitions_done EXCEPT ![i] = @ + 1]
      BY RepetitionCounts
    <3>2. todo \in [Runners -> Nat] /\ num_repetitions_done \in [Runners -> Nat]
      BY DEF LoopInv, LoopTypes
    <3>3. QED
      BY <1>3, <1>4, <3>1, <3>2
  <2>2. i <= j
    BY <1>4, <2>1, RepetitionCounts
  <2>3. QED
    BY <2>1, <2>2, ShapeAssumption DEF Runners
<1>5. OneInProgress'
  <2>1. ASSUME mode = "walltime", ~shuffled, NEW j \in Runners, num_repetitions_done'[j] > 0, todo'[j] > 0
        PROVE  current_benchmark' = j
    BY <1>1, <1>4, <2>1 DEF LoopInv, OneInProgress
  <2>2. ASSUME mode = "walltime", ~shuffled, NEW j \in Runners, NEW l \in Runners, j < l, todo'[j] > 0
        PROVE  num_repetitions_done'[l] = 0
    <3>1. i < j /\ todo[j] > 0
      BY <1>4, <2>2
    <3>2. l # i
      BY <2>2, <3>1, ShapeAssumption DEF Runners
    <3>3. num_repetitions_done[l] = 0
      BY <2>2, <3>1 DEF LoopInv, OneInProgress
    <3>4. QED
      BY <3>2, <3>3, RepetitionCounts DEF LoopInv, LoopTypes
  <2>3. QED
    BY <2>1, <2>2, RepetitionCounts DEF OneInProgress
<1>6. QED
  BY <1>1, <1>2, <1>5, RepetitionCounts DEF LoopInv, NothingReported

\* The last repetition of a runner: it is reported, and as executed in the name
\* of the runner that was started last.
LEMMA LastKeeps ==
    ASSUME LoopInv, NEW i \in Runners, NEW skip \in Skips, Repetition(i, skip),
           LastRepetition(i, skip)
    PROVE  LoopInv'
<1>1. IsLast(i) /\ reported' = Append(reported, i) /\ UNCHANGED crashed
      /\ (mode = "walltime" =>
             /\ executed' = Append(executed, <<current_benchmark', i>>)
             /\ walltime_data' = Append(walltime_data, rounds'[i]))
      /\ (mode # "walltime" => UNCHANGED <<executed, walltime_data>>)
  BY DEF LastRepetition
<1>2. /\ mode = "walltime" /\ num_repetitions_done[i] = 0 => current_benchmark' = i
      /\ ~(mode = "walltime" /\ num_repetitions_done[i] = 0) => current_benchmark' = current_benchmark
  BY DEF LastRepetition
<1>3. /\ OneInProgress' /\ current_benchmark' \in 0 .. Instances
      /\ mode = "walltime" /\ ~shuffled => current_benchmark' = i
  BY <1>2, InProgressKept
<1>4. /\ reported \in Seq(Runners) /\ executed \in Seq((0 .. Instances) \X Runners)
      /\ num_repetitions_done'[i] = Repeats[i] /\ num_repetitions_done \in [Runners -> Nat]
      /\ rounds \in [Runners -> Seq(Skips)]
  BY <1>1, RepetitionCounts DEF LoopInv, LoopTypes
<1>5. /\ reported' \in Seq(Runners) /\ Len(reported') = Len(reported) + 1
      /\ DOMAIN reported' = 1 .. Len(reported) + 1 /\ DOMAIN reported = 1 .. Len(reported)
      /\ \A k \in 1 .. Len(reported) : reported'[k] = reported[k]
      /\ reported'[Len(reported) + 1] = i /\ Len(reported) \in Nat
  BY <1>1, <1>4
<1>6. \A k \in 1 .. Len(reported) :
         /\ reported[k] \in Runners \ {i}
         /\ num_repetitions_done'[reported[k]] = num_repetitions_done[reported[k]]
         /\ rounds'[reported[k]] = rounds[reported[k]]
  <2>1. \A k \in 1 .. Len(reported) : reported[k] \in Runners \ {i}
    BY <1>5, RepetitionCounts
  <2>2. \A j \in Runners \ {i} : /\ num_repetitions_done'[j] = num_repetitions_done[j]
                                /\ rounds'[j] = rounds[j]
    BY <1>4, RepetitionCounts
  <2>3. QED
    BY <2>1, <2>2
<1>7. LoopTypes'
  <2>1. executed' \in Seq((0 .. Instances) \X Runners)
    <3> DEFINE P == (0 .. Instances) \X Runners
               x == <<current_benchmark', i>>
    <3>1. x \in P /\ executed \in Seq(P)
      BY <1>3, <1>4
    <3>2. executed' \in {executed, Append(executed, x)}
      BY <1>1
    <3> HIDE DEF P, x
    <3>3. executed' \in Seq(P)
      BY <3>1, <3>2, AppendProperties
    <3>4. QED
      BY <3>3 DEF P
  <2>2. QED
    BY <1>1, <1>5, <2>1, RepetitionCounts DEF LoopInv, LoopTypes
<1>8. ReportedAreDone'
  <2>1. ASSUME NEW k \in DOMAIN reported'
        PROVE  num_repetitions_done'[reported'[k]] = Repeats[reported'[k]]
    <3>1. CASE k \in 1 .. Len(reported)
      BY <1>5, <1>6, <3>1 DEF LoopInv, ReportedAreDone
    <3>2. CASE k = Len(reported) + 1
      BY <1>4, <1>5, <3>2
    <3>3. QED
      BY <1>5, <3>1, <3>2
  <2>2. ASSUME NEW k \in DOMAIN reported', NEW l \in DOMAIN reported', k # l
        PROVE  reported'[k] # reported'[l]
    <3>1. CASE k \in 1 .. Len(reported) /\ l \in 1 .. Len(reported)
      BY <1>5, <2>2, <3>1 DEF LoopInv, ReportedAreDone
    <3>2. CASE k = Len(reported) + 1 \/ l = Len(reported) + 1
      BY <1>5, <1>6, <2>2, <3>2
    <3>3. QED
      BY <1>5, <3>1, <3>2
  <2>3. ASSUME ~crashed', NEW j \in Runners, num_repetitions_done'[j] = Repeats[j]
        PROVE  \E k \in DOMAIN reported' : reported'[k] = j
    <3>1. CASE j = i
      BY <1>5, <3>1
    <3>2. CASE j # i
      <4>1. num_repetitions_done[j] = Repeats[j] /\ ~crashed
        BY <1>1, <1>4, <2>3, <3>2, RepetitionCounts
      <4>2. PICK k \in DOMAIN reported : reported[k] = j
        BY <4>1 DEF LoopInv, ReportedAreDone
      <4>3. QED
        BY <1>5, <4>2
    <3>3. QED
      BY <3>1, <3>2
  <2>4. QED
    BY <2>1, <2>2, <2>3 DEF ReportedAreDone
<1>9. WalltimeFollows'
  <2> SUFFICES ASSUME mode = "walltime"
               PROVE  walltime_data' = [k \in DOMAIN reported' |-> rounds'[reported'[k]]]
    BY RepetitionCounts DEF WalltimeFollows
  <2>1. walltime_data = [k \in 1 .. Len(reported) |-> rounds[reported[k]]]
    BY <1>5 DEF LoopInv, WalltimeFollows
  <2>2. Len(walltime_data) = Len(reported) /\ walltime_data \in Seq(Seq(Skips))
    BY <1>4, <1>5, <1>6, <2>1
  <2>3. walltime_data' = Append(walltime_data, rounds'[i]) /\ rounds'[i] \in Seq(Skips)
    BY <1>1, RepetitionCounts
  <2>4. /\ walltime_data' = [k \in 1 .. Len(reported) + 1 |->
                                IF k = Len(reported) + 1 THEN rounds'[i] ELSE walltime_data[k]]
    BY <1>5, <2>2, <2>3
  <2>5. \A k \in 1 .. Len(reported) + 1 : walltime_data'[k] = rounds'[reported'[k]]
    BY <1>5, <1>6, <2>1, <2>4
  <2>6. QED
    BY <1>5, <2>4, <2>5
<1>10. ExecutedInOrder'
  <2> SUFFICES ASSUME ~shuffled, NEW k \in DOMAIN executed' PROVE executed'[k][1] = executed'[k][2]
    BY RepetitionCounts DEF ExecutedInOrder
  <2>1. CASE mode = "walltime"
    <3>1. executed' = Append(executed, <<i, i>>)
      BY <1>1, <1>3, <2>1
    <3>2. CASE k \in DOMAIN executed
      BY <1>4, <3>1, <3>2 DEF LoopInv, ExecutedInOrder
    <3>3. CASE k = Len(executed) + 1
      BY <1>4, <3>1, <3>3
    <3>4. DOMAIN executed = 1 .. Len(executed) /\ Len(executed) \in Nat
      BY <1>4
    <3>5. DOMAIN Append(executed, <<i, i>>) = 1 .. Len(executed) + 1
      BY <1>4
    <3>6. QED
      BY <3>1, <3>2, <3>3, <3>4, <3>5
  <2>2. CASE mode # "walltime"
    BY <1>1, <2>2 DEF LoopInv, ExecutedInOrder
  <2>3. QED
    BY <2>1, <2>2
<1>11. QED
  BY <1>3, <1>7, <1>8, <1>9, <1>10, RepetitionCounts DEF LoopInv, NothingReported

\* In an analysis build nothing is counted and nothing reported; what is reported
\* as executed is the benchmark just named.
LEMMA AnalysisKeeps ==
    ASSUME LoopInv, NEW i \in Runners, AnalysisRepetition(i) PROVE LoopInv'
<1>1. /\ mode = "analysis" /\ todo[i] > 0
      /\ UNCHANGED <<mode, shuffled, num_repetitions_done, rounds, reported, walltime_data, crashed>>
      /\ todo' = [todo EXCEPT ![i] = @ - 1]
      /\ current_benchmark' \in {current_benchmark, i}
      /\ executed' \in {executed, Append(executed, <<i, i>>)}
  BY DEF AnalysisRepetition, NextIndices
<1>2. executed \in Seq((0 .. Instances) \X Runners) /\ i \in 0 .. Instances
  BY ShapeAssumption DEF LoopInv, LoopTypes, Runners
<1>3. LoopTypes'
  <2>1. executed' \in Seq((0 .. Instances) \X Runners)
    <3> DEFINE P == (0 .. Instances) \X Runners
               x == <<i, i>>
    <3>1. x \in P /\ executed \in Seq(P)
      BY <1>2
    <3>2. executed' \in {executed, Append(executed, x)}
      BY <1>1
    <3> HIDE DEF P, x
    <3>3. executed' \in Seq(P)
      BY <3>1, <3>2, AppendProperties
    <3>4. QED
      BY <3>3 DEF P
  <2>2. todo' \in [Runners -> Nat]
    BY <1>1 DEF LoopInv, LoopTypes
  <2>3. QED
    BY <1>1, <2>1, <2>2 DEF LoopInv, LoopTypes
<1>4. RepetitionsCounted' /\ ReportedAreDone' /\ WalltimeFollows' /\ OneInProgress'
  BY <1>1 DEF LoopInv, RepetitionsCounted, ReportedAreDone, WalltimeFollows, OneInProgress
<1>5. ExecutedInOrder'
  <2>1. CASE executed' = executed
    BY <1>1, <2>1 DEF LoopInv, ExecutedInOrder
  <2>2. CASE executed' = Append(executed, <<i, i>>)
    BY <1>1, <1>2, <2>2 DEF LoopInv, ExecutedInOrder
  <2>3. QED
    BY <1>1, <2>1, <2>2
<1>6. QED
  BY <1>1, <1>2, <1>3, <1>4, <1>5 DEF LoopInv, NothingReported

LEMMA LoopStep == LoopInv /\ [Next]_vars => LoopInv'
<1> SUFFICES ASSUME LoopInv, [Next]_vars PROVE LoopInv'
  OBVIOUS
<1>1. ASSUME NEW i \in Runners, NEW skip \in Skips, Repetition(i, skip) PROVE LoopInv'
  <2>1. InnerRepetition(i, skip) \/ LastRepetition(i, skip) \/ Dies(i, skip)
    BY <1>1 DEF Repetition
  <2>2. QED
    BY <1>1, <2>1, InnerKeeps, LastKeeps, DyingKeeps
<1>2. ASSUME NEW i \in Runners, AnalysisRepetition(i) PROVE LoopInv'
  BY <1>2, AnalysisKeeps
<1>3. CASE UNCHANGED vars
  BY <1>3 DEF vars, LoopInv, LoopTypes, RepetitionsCounted, ReportedAreDone, WalltimeFollows,
              NothingReported, OneInProgress, ExecutedInOrder
<1>4. QED
  BY <1>1, <1>2, <1>3 DEF Next, Finished

-----------------------------------------------------------------------------
(* FamiliesInv is inductive, given LoopInv. *)

LEMMA MembersFinite ==
    ASSUME NEW f PROVE IsFiniteSet(Members(f)) /\ Members(f) \in SUBSET Runners
<1>1. IsFiniteSet(Runners)
  BY FS_Interval, ShapeAssumption DEF Runners
<1>2. QED
  BY <1>1, FS_Subset DEF Members

LEMMA InitFamiliesInv == Init => FamiliesInv
<1> SUFFICES ASSUME Init PROVE FamiliesInv
  OBVIOUS
<1>1. Repeats \in [Runners -> Nat \ {0}]
  BY ShapeAssumption DEF Runners
<1>2. ASSUME NEW f \in Complex
      PROVE  /\ SumFunctionOnSet(Repeats, Members(f)) \in Nat
             /\ SumFunctionOnSet(num_repetitions_done, Members(f)) = 0
             /\ SumFunctionOnSet(UnskippedRuns, Members(f)) = 0
             /\ ~MembersDone(f)
  <2>1. SumFunctionOnSet(Repeats, Members(f)) \in Nat
    BY <1>1, MembersFinite, SumNat
  <2>2. \A i \in Members(f) : num_repetitions_done[i] = 0
    BY MembersFinite DEF Init
  <2>3. \A i \in Members(f) : UnskippedRuns[i] = 0
    <3> SUFFICES ASSUME NEW i \in Members(f) PROVE UnskippedRuns[i] = 0
      OBVIOUS
    <3>1. i \in Runners /\ rounds[i] = <<>>
      BY MembersFinite DEF Init
    <3>2. {r \in DOMAIN rounds[i] : rounds[i][r] = "no"} = {}
      BY <3>1
    <3>3. QED
      BY <3>1, <3>2, FS_EmptySet DEF UnskippedRuns, Unskipped
  <2>4. PICK i \in Runners : Family[i] = f
    BY ShapeAssumption DEF Runners
  <2>5. i \in Members(f) /\ num_repetitions_done[i] # Repeats[i]
    BY <1>1, <2>2, <2>4 DEF Members
  <2>6. QED
    BY <2>1, <2>2, <2>3, <2>5, MembersFinite, SumZero DEF MembersDone
<1>3. families = [f \in Complex |-> [present |-> TRUE, num_runs_done |-> 0,
                                     num_runs_total |-> SumFunctionOnSet(Repeats, Members(f)),
                                     Runs |-> 0]]
      /\ bigO = <<>>
  BY DEF Init
<1>4. FamilyTypes
  BY <1>2, <1>3 DEF FamilyTypes
<1>5. FamiliesCount /\ ErasedWhenDone /\ ComputedWhenErased
  BY <1>2, <1>3 DEF FamiliesCount, ErasedWhenDone, ComputedWhenErased
<1>6. QED
  BY <1>4, <1>5 DEF FamiliesInv

\* How often v occurs in a sequence, and in one with one more element.
Occurrences(s, v) == Cardinality({r \in DOMAIN s : s[r] = v})

LEMMA OccurrencesAppend ==
    ASSUME NEW T, NEW s \in Seq(T), NEW x \in T, NEW v
    PROVE  /\ Occurrences(s, v) \in Nat
           /\ Occurrences(Append(s, x), v) = Occurrences(s, v) + (IF x = v THEN 1 ELSE 0)
<1> DEFINE Where(q) == {r \in DOMAIN q : q[r] = v}
           n == Len(s) + 1
           q == Append(s, x)
<1>1. /\ Len(s) \in Nat /\ DOMAIN s = 1 .. Len(s) /\ DOMAIN q = 1 .. n /\ q[n] = x
      /\ \A r \in 1 .. Len(s) : q[r] = s[r]
  OBVIOUS
<1>2. IsFiniteSet(Where(s)) /\ Cardinality(Where(s)) \in Nat
  <2>1. IsFiniteSet(1 .. Len(s)) /\ Where(s) \in SUBSET (1 .. Len(s))
    BY <1>1, FS_Interval
  <2>2. QED
    BY <2>1, FS_Subset, FS_CardinalityType
<1> HIDE DEF q
<1>3. n \notin Where(s)
  BY <1>1
<1>4. Where(q) = IF x = v THEN Where(s) \cup {n} ELSE Where(s)
  <2>1. ASSUME NEW r PROVE r \in DOMAIN q <=> r \in DOMAIN s \/ r = n
    BY <1>1
  <2> HIDE DEF n
  <2>2. \A r \in DOMAIN s : q[r] = s[r]
    BY <1>1
  <2>3. CASE x = v
    BY <1>1, <2>1, <2>2, <2>3
  <2>4. CASE x # v
    BY <1>1, <2>1, <2>2, <2>4
  <2>5. QED
    BY <2>3, <2>4
<1>5. Cardinality(Where(q)) = Cardinality(Where(s)) + (IF x = v THEN 1 ELSE 0)
  <2> HIDE DEF Where, n
  <2>1. CASE x = v
    BY <1>2, <1>3, <1>4, <2>1, FS_AddElement
  <2>2. CASE x # v
    BY <1>2, <1>4, <2>2
  <2>3. QED
    BY <2>1, <2>2
<1>6. QED
  BY <1>2, <1>5 DEF q, Occurrences

\* The runs of a family that were not skipped, after a repetition.
LEMMA UnskippedStep ==
    ASSUME LoopInv, NEW i \in Runners, NEW skip \in Skips, Repetition(i, skip)
    PROVE  /\ UnskippedRuns \in [Runners -> Nat]
           /\ UnskippedRuns'[i] = UnskippedRuns[i] + (IF skip = "no" THEN 1 ELSE 0)
           /\ \A j \in Runners \ {i} : UnskippedRuns'[j] = UnskippedRuns[j]
<1>1. rounds \in [Runners -> Seq(Skips)] /\ rounds' = [rounds EXCEPT ![i] = Append(@, skip)]
  BY RepetitionCounts DEF LoopInv, LoopTypes
<1>2. \A j \in Runners : UnskippedRuns[j] = Occurrences(rounds[j], "no")
                        /\ UnskippedRuns'[j] = Occurrences(rounds'[j], "no")
  BY DEF UnskippedRuns, Unskipped, Occurrences
<1>3. \A j \in Runners \ {i} : UnskippedRuns'[j] = UnskippedRuns[j]
  BY <1>1 DEF UnskippedRuns, Unskipped
<1>4. UnskippedRuns'[i] = UnskippedRuns[i] + (IF skip = "no" THEN 1 ELSE 0)
  BY <1>1, <1>2, OccurrencesAppend
<1>5. \A j \in Runners : UnskippedRuns[j] \in Nat
  BY <1>1, <1>2, OccurrencesAppend
<1>6. QED
  BY <1>3, <1>4, <1>5 DEF UnskippedRuns

\* The sums over a family, after a repetition: only those of the runner's own
\* family grow.
LEMMA FamilySums ==
    ASSUME LoopInv, NEW i \in Runners, NEW skip \in Skips, Repetition(i, skip), NEW f
    PROVE  LET d == IF i \in Members(f) THEN 1 ELSE 0
               u == IF i \in Members(f) /\ skip = "no" THEN 1 ELSE 0
           IN  /\ SumFunctionOnSet(num_repetitions_done', Members(f))
                      = SumFunctionOnSet(num_repetitions_done, Members(f)) + d
               /\ SumFunctionOnSet(UnskippedRuns', Members(f))
                      = SumFunctionOnSet(UnskippedRuns, Members(f)) + u
<1>1. num_repetitions_done \in [Runners -> Nat]
      /\ num_repetitions_done' = [num_repetitions_done EXCEPT ![i] = @ + 1]
  BY RepetitionCounts DEF LoopInv, LoopTypes
<1>2. IsFiniteSet(Members(f)) /\ Members(f) \in SUBSET Runners
  BY MembersFinite
<1>3. \A j \in Members(f) : num_repetitions_done[j] \in Int /\ UnskippedRuns[j] \in Int
  BY <1>1, <1>2, UnskippedStep
<1>4. SumFunctionOnSet(num_repetitions_done, Members(f)) \in Int
      /\ SumFunctionOnSet(UnskippedRuns, Members(f)) \in Int
  BY <1>2, <1>3, SumType
<1>5. CASE i \in Members(f)
  <2>1. num_repetitions_done'[i] = num_repetitions_done[i] + 1
        /\ \A j \in Members(f) \ {i} : num_repetitions_done'[j] = num_repetitions_done[j]
    BY <1>1, <1>2
  <2>2. UnskippedRuns'[i] = UnskippedRuns[i] + (IF skip = "no" THEN 1 ELSE 0)
        /\ \A j \in Members(f) \ {i} : UnskippedRuns'[j] = UnskippedRuns[j]
    BY <1>2, UnskippedStep
  <2>3. SumFunctionOnSet(num_repetitions_done', Members(f))
            = SumFunctionOnSet(num_repetitions_done, Members(f)) + 1
    BY <1>2, <1>3, <1>5, <2>1, SumChange
  <2>4. (IF skip = "no" THEN 1 ELSE 0) \in Int
    OBVIOUS
  <2>5. SumFunctionOnSet(UnskippedRuns', Members(f))
            = SumFunctionOnSet(UnskippedRuns, Members(f)) + (IF skip = "no" THEN 1 ELSE 0)
    BY <1>2, <1>3, <1>5, <2>2, <2>4, SumChange
  <2>6. QED
    BY <1>5, <2>3, <2>5
<1>6. CASE i \notin Members(f)
  <2>1. \A j \in Members(f) : num_repetitions_done'[j] = num_repetitions_done[j]
                              /\ UnskippedRuns'[j] = UnskippedRuns[j]
    BY <1>1, <1>2, <1>6, UnskippedStep
  <2>2. SumFunctionOnSet(num_repetitions_done', Members(f))
            = SumFunctionOnSet(num_repetitions_done, Members(f))
    BY <1>2, <1>3, <2>1, SumEqual
  <2>3. SumFunctionOnSet(UnskippedRuns', Members(f)) = SumFunctionOnSet(UnskippedRuns, Members(f))
    BY <1>2, <1>3, <2>1, SumEqual
  <2>4. QED
    BY <1>4, <1>6, <2>2, <2>3
<1>7. QED
  BY <1>5, <1>6

\* A runner with a repetition to do keeps its family's entry in place.
LEMMA PresentWhileRunning ==
    ASSUME LoopInv, FamiliesInv, NEW i \in Runners, NEW skip \in Skips, Repetition(i, skip),
           Family[i] \in Complex
    PROVE  families[Family[i]].present
<1>1. i \in Members(Family[i]) /\ num_repetitions_done[i] < Repeats[i]
  BY RepetitionCounts DEF Members
<1>2. num_repetitions_done[i] # Repeats[i]
  BY <1>1, ShapeAssumption DEF LoopInv, LoopTypes, Runners
<1>3. QED
  BY <1>1, <1>2 DEF FamiliesInv, ErasedWhenDone, MembersDone

\* The counters of a family agree with its runners exactly when all are done.
LEMMA CompleteWhenDone ==
    ASSUME LoopInv, NEW i \in Runners, NEW skip \in Skips, Repetition(i, skip), NEW f
    PROVE  SumFunctionOnSet(num_repetitions_done', Members(f)) = SumFunctionOnSet(Repeats, Members(f))
               <=> MembersDone(f)'
<1>1. IsFiniteSet(Members(f)) /\ Members(f) \in SUBSET Runners /\ Repeats \in [Runners -> Nat]
  BY MembersFinite, ShapeAssumption DEF Runners
<1>2. num_repetitions_done' \in [Runners -> Nat] /\ todo' \in [Runners -> Nat]
      /\ \A j \in Runners : todo'[j] + num_repetitions_done'[j] = Repeats[j]
  BY RepetitionCounts DEF RepetitionsCounted
<1>3. \A j \in Members(f) : /\ num_repetitions_done'[j] \in Int /\ Repeats[j] \in Int
                            /\ num_repetitions_done'[j] <= Repeats[j]
  BY <1>1, <1>2
<1>4. ASSUME MembersDone(f)'
      PROVE  SumFunctionOnSet(num_repetitions_done', Members(f)) = SumFunctionOnSet(Repeats, Members(f))
  BY <1>1, <1>3, <1>4, SumEqual DEF MembersDone, Members
<1>5. ASSUME SumFunctionOnSet(num_repetitions_done', Members(f)) = SumFunctionOnSet(Repeats, Members(f))
      PROVE  MembersDone(f)'
  BY <1>1, <1>3, <1>5, SumCompare DEF MembersDone, Members
<1>6. QED
  BY <1>4, <1>5

\* A repetition changes nothing of another family.
LEMMA OtherFamilies ==
    ASSUME LoopInv, NEW i \in Runners, NEW skip \in Skips, Repetition(i, skip),
           NEW f, f # Family[i]
    PROVE  /\ SumFunctionOnSet(num_repetitions_done', Members(f))
                  = SumFunctionOnSet(num_repetitions_done, Members(f))
           /\ SumFunctionOnSet(UnskippedRuns', Members(f)) = SumFunctionOnSet(UnskippedRuns, Members(f))
           /\ MembersDone(f)' <=> MembersDone(f)
<1>1. i \notin Members(f) /\ IsFiniteSet(Members(f)) /\ Members(f) \in SUBSET Runners
  BY MembersFinite DEF Members
<1>2. num_repetitions_done \in [Runners -> Nat] /\ UnskippedRuns \in [Runners -> Nat]
      /\ num_repetitions_done' = [num_repetitions_done EXCEPT ![i] = @ + 1]
  BY RepetitionCounts, UnskippedStep DEF LoopInv, LoopTypes
<1>3. \A j \in Members(f) : num_repetitions_done[j] \in Int /\ UnskippedRuns[j] \in Int
                            /\ num_repetitions_done'[j] = num_repetitions_done[j]
                            /\ UnskippedRuns'[j] = UnskippedRuns[j]
  BY <1>1, <1>2, UnskippedStep
<1>4. SumFunctionOnSet(num_repetitions_done', Members(f))
          = SumFunctionOnSet(num_repetitions_done, Members(f))
  BY <1>1, <1>3, SumEqual
<1>5. SumFunctionOnSet(UnskippedRuns', Members(f)) = SumFunctionOnSet(UnskippedRuns, Members(f))
  BY <1>1, <1>3, SumEqual
<1>6. MembersDone(f)' <=> MembersDone(f)
  BY <1>3 DEF MembersDone, Members
<1>7. QED
  BY <1>4, <1>5, <1>6

\* CountRun keeps the counters of every family in step with its runners.
LEMMA CountRunCounts ==
    ASSUME LoopInv, FamiliesInv, NEW i \in Runners, NEW skip \in Skips, Repetition(i, skip)
    PROVE  LET fams == CountRun(i, skip)
           IN  /\ fams \in [Complex -> [present : BOOLEAN, num_runs_done : Nat,
                                        num_runs_total : Nat, Runs : Nat]]
               /\ \A f \in Complex :
                    /\ fams[f].present = families[f].present
                    /\ fams[f].num_runs_total = SumFunctionOnSet(Repeats, Members(f))
                    /\ fams[f].num_runs_done = SumFunctionOnSet(num_repetitions_done', Members(f))
                    /\ fams[f].Runs = SumFunctionOnSet(UnskippedRuns', Members(f))
<1> DEFINE fams == CountRun(i, skip)
           F == Family[i]
           Entry == [present : BOOLEAN, num_runs_done : Nat, num_runs_total : Nat, Runs : Nat]
           e == [present |-> families[F].present, num_runs_done |-> families[F].num_runs_done + 1,
                 num_runs_total |-> families[F].num_runs_total,
                 Runs |-> IF skip = "no" THEN families[F].Runs + 1 ELSE families[F].Runs]
<1>1. families \in [Complex -> Entry]
  BY DEF FamiliesInv, FamilyTypes
<1>2. F \notin Complex => fams = families
  BY DEF CountRun
<1>3. ASSUME F \in Complex PROVE e \in Entry /\ fams = [families EXCEPT ![F] = e]
  <2>1. families[F] \in Entry
    BY <1>1, <1>3
  <2>2. e \in Entry
    BY <2>1
  <2>3. fams = [families EXCEPT ![F].num_runs_done = @ + 1,
                                ![F].Runs = IF skip = "no" THEN @ + 1 ELSE @]
    BY <1>3 DEF CountRun
  <2>4. fams = [families EXCEPT ![F] = e]
    BY <1>1, <1>3, <2>1, <2>3
  <2>5. QED
    BY <2>2, <2>4
<1> HIDE DEF fams
<1>4. fams \in [Complex -> Entry]
  <2> HIDE DEF Entry, e
  <2>1. QED
    BY <1>1, <1>2, <1>3
<1>5. ASSUME NEW f \in Complex
      PROVE  /\ fams[f].present = families[f].present
             /\ fams[f].num_runs_total = families[f].num_runs_total
             /\ fams[f].num_runs_done = families[f].num_runs_done + (IF f = F THEN 1 ELSE 0)
             /\ fams[f].Runs = families[f].Runs + (IF f = F /\ skip = "no" THEN 1 ELSE 0)
  <2>1. families[f].num_runs_done \in Nat /\ families[f].Runs \in Nat
    BY <1>1, <1>5
  <2>2. CASE f = F
    <3>1. fams[f] = e
      BY <1>1, <1>3, <1>5, <2>2
    <3>2. QED
      BY <2>1, <2>2, <3>1
  <2>3. CASE f # F
    <3>1. fams[f] = families[f]
      BY <1>1, <1>2, <1>3, <1>5, <2>3
    <3>2. QED
      BY <2>1, <2>3, <3>1
  <2>4. QED
    BY <2>2, <2>3
<1>6. mode # "analysis" /\ ~crashed
  BY RepetitionCounts
<1>7. ASSUME NEW f \in Complex
      PROVE  /\ fams[f].num_runs_total = SumFunctionOnSet(Repeats, Members(f))
             /\ fams[f].num_runs_done = SumFunctionOnSet(num_repetitions_done', Members(f))
             /\ fams[f].Runs = SumFunctionOnSet(UnskippedRuns', Members(f))
  <2>1. /\ families[f].num_runs_total = SumFunctionOnSet(Repeats, Members(f))
        /\ families[f].num_runs_done = SumFunctionOnSet(num_repetitions_done, Members(f))
        /\ families[f].Runs = SumFunctionOnSet(UnskippedRuns, Members(f))
    BY <1>6, <1>7 DEF FamiliesInv, FamiliesCount
  <2>2. i \in Members(f) <=> f = F
    BY DEF Members
  <2>3. /\ SumFunctionOnSet(num_repetitions_done', Members(f))
               = SumFunctionOnSet(num_repetitions_done, Members(f)) + (IF f = F THEN 1 ELSE 0)
        /\ SumFunctionOnSet(UnskippedRuns', Members(f))
               = SumFunctionOnSet(UnskippedRuns, Members(f)) + (IF f = F /\ skip = "no" THEN 1 ELSE 0)
    BY <2>2, FamilySums
  <2>4. QED
    BY <1>5, <1>7, <2>1, <2>3
<1>8. QED
  BY <1>4, <1>5, <1>7 DEF fams

\* The complexities computed before stay what they were.
LEMMA ComputedStays ==
    ASSUME LoopInv, FamiliesInv, NEW i \in Runners, NEW skip \in Skips, Repetition(i, skip)
    PROVE  \A k \in DOMAIN bigO :
              /\ bigO[k][1] \in Complex \ {Family[i]}
              /\ bigO[k][2] = SumFunctionOnSet(UnskippedRuns', Members(bigO[k][1]))
<1> SUFFICES ASSUME NEW k \in DOMAIN bigO
             PROVE  /\ bigO[k][1] \in Complex \ {Family[i]}
                    /\ bigO[k][2] = SumFunctionOnSet(UnskippedRuns', Members(bigO[k][1]))
  OBVIOUS
<1> DEFINE f == bigO[k][1]
<1>1. f \in Complex
  BY DEF FamiliesInv, FamilyTypes
<1>2. ~families[f].present /\ bigO[k][2] = SumFunctionOnSet(UnskippedRuns, Members(f))
  BY DEF FamiliesInv, ComputedWhenErased
<1> HIDE DEF f
<1>3. f # Family[i]
  BY <1>1, <1>2, PresentWhileRunning
<1>4. QED
  BY <1>1, <1>2, <1>3, OtherFamilies DEF f

LEMMA InnerKeepsFamilies ==
    ASSUME LoopInv, FamiliesInv, NEW i \in Runners, NEW skip \in Skips, Repetition(i, skip),
           \/ InnerRepetition(i, skip)
           \/ LastRepetition(i, skip) /\ ~FamilyComplete(i, CountRun(i, skip))
    PROVE  FamiliesInv'
<1> DEFINE fams == CountRun(i, skip)
<1>1. families' = fams /\ UNCHANGED <<bigO, crashed, mode>> /\ mode # "analysis"
  BY DEF InnerRepetition, LastRepetition, Repetition
<1>2. FamilyTypes' /\ FamiliesCount'
  BY <1>1, CountRunCounts DEF FamiliesInv, FamilyTypes, FamiliesCount
<1>3. Family[i] \in Complex => families[Family[i]].present
  BY PresentWhileRunning
<1>4. ASSUME Family[i] \in Complex PROVE ~MembersDone(Family[i])'
  <2>1. CASE InnerRepetition(i, skip)
    <3>1. i \in Members(Family[i]) /\ num_repetitions_done'[i] # Repeats[i]
      BY <2>1, RepetitionCounts DEF InnerRepetition, Members
    <3>2. QED
      BY <3>1 DEF MembersDone, Members
  <2>2. CASE ~FamilyComplete(i, fams)
    <3>1. fams[Family[i]].num_runs_done # fams[Family[i]].num_runs_total
      BY <1>4, <2>2 DEF FamilyComplete
    <3>2. QED
      BY <1>4, <3>1, CountRunCounts, CompleteWhenDone
  <2>3. QED
    BY <2>1, <2>2
<1>5. \A f \in Complex : families'[f].present = families[f].present
  BY <1>1, CountRunCounts
<1> HIDE DEF fams
<1>6. ErasedWhenDone'
  <2>1. ASSUME NEW f \in Complex
        PROVE  /\ ~families'[f].present => MembersDone(f)'
               /\ MembersDone(f)' /\ ~crashed' => ~families'[f].present
    <3>1. CASE f = Family[i]
      BY <1>3, <1>4, <1>5, <3>1
    <3>2. CASE f # Family[i]
      BY <1>1, <1>5, <3>2, OtherFamilies DEF FamiliesInv, ErasedWhenDone
    <3>3. QED
      BY <3>1, <3>2
  <2>2. QED
    BY <1>1, <2>1 DEF ErasedWhenDone
<1>7. ComputedWhenErased'
  BY <1>1, <1>5, ComputedStays DEF FamiliesInv, ComputedWhenErased
<1>8. QED
  BY <1>2, <1>6, <1>7 DEF FamiliesInv

\* The last repetition of a family: its complexity is computed over the runs of
\* all of its runners, and its entry erased.
LEMMA CompletingKeepsFamilies ==
    ASSUME LoopInv, FamiliesInv, NEW i \in Runners, NEW skip \in Skips, Repetition(i, skip),
           LastRepetition(i, skip), FamilyComplete(i, CountRun(i, skip))
    PROVE  FamiliesInv'
<1> DEFINE fams == CountRun(i, skip)
           F == Family[i]
           Entry == [present : BOOLEAN, num_runs_done : Nat, num_runs_total : Nat, Runs : Nat]
<1>1. /\ F \in Complex /\ fams[F].num_runs_done = fams[F].num_runs_total
      /\ bigO' = Append(bigO, <<F, fams[F].Runs>>)
      /\ families' = [fams EXCEPT ![F].present = FALSE]
      /\ UNCHANGED <<crashed, mode>> /\ mode # "analysis"
  BY DEF LastRepetition, FamilyComplete, Repetition
<1>2. /\ fams \in [Complex -> Entry]
      /\ \A f \in Complex :
            /\ fams[f].present = families[f].present
            /\ fams[f].num_runs_total = SumFunctionOnSet(Repeats, Members(f))
            /\ fams[f].num_runs_done = SumFunctionOnSet(num_repetitions_done', Members(f))
            /\ fams[f].Runs = SumFunctionOnSet(UnskippedRuns', Members(f))
  BY CountRunCounts
<1> HIDE DEF fams
<1>3. /\ families' \in [Complex -> Entry]
      /\ \A f \in Complex :
            /\ families'[f].present = IF f = F THEN FALSE ELSE families[f].present
            /\ families'[f].num_runs_total = fams[f].num_runs_total
            /\ families'[f].num_runs_done = fams[f].num_runs_done
            /\ families'[f].Runs = fams[f].Runs
  BY <1>1, <1>2
<1> HIDE DEF Entry
<1>4. MembersDone(F)'
  BY <1>1, <1>2, CompleteWhenDone
<1>5. families[F].present
  BY <1>1, PresentWhileRunning
<1>6. /\ bigO \in Seq(Complex \X Nat) /\ bigO' \in Seq(Complex \X Nat)
      /\ DOMAIN bigO' = DOMAIN bigO \cup {Len(bigO) + 1} /\ Len(bigO) + 1 \notin DOMAIN bigO
      /\ \A k \in DOMAIN bigO : bigO'[k] = bigO[k]
      /\ bigO'[Len(bigO) + 1] = <<F, fams[F].Runs>>
  <2> DEFINE P == Complex \X Nat
             x == <<F, fams[F].Runs>>
  <2>1. x \in P /\ bigO \in Seq(P) /\ bigO' = Append(bigO, x)
    BY <1>1, <1>2 DEF Entry, FamiliesInv, FamilyTypes
  <2> HIDE DEF P, x
  <2>2. /\ bigO' \in Seq(P) /\ Len(bigO) \in Nat /\ DOMAIN bigO = 1 .. Len(bigO)
        /\ DOMAIN bigO' = 1 .. Len(bigO) + 1
        /\ \A k \in 1 .. Len(bigO) : bigO'[k] = bigO[k]
        /\ bigO'[Len(bigO) + 1] = x
    BY <2>1
  <2>3. QED
    BY <2>1, <2>2 DEF P, x
<1>7. FamilyTypes'
  BY <1>3, <1>6 DEF FamilyTypes, Entry
<1>8. FamiliesCount'
  BY <1>2, <1>3 DEF FamiliesCount
<1>9. ErasedWhenDone'
  <2>1. ASSUME NEW f \in Complex
        PROVE  /\ ~families'[f].present => MembersDone(f)'
               /\ MembersDone(f)' /\ ~crashed' => ~families'[f].present
    <3>1. CASE f = F
      BY <1>3, <1>4, <3>1
    <3>2. CASE f # F
      BY <1>1, <1>3, <3>2, OtherFamilies DEF FamiliesInv, ErasedWhenDone
    <3>3. QED
      BY <3>1, <3>2
  <2>2. QED
    BY <1>1, <2>1 DEF ErasedWhenDone
<1>10. ComputedWhenErased'
  <2>1. ASSUME NEW k \in DOMAIN bigO'
        PROVE  /\ ~families'[bigO'[k][1]].present
               /\ bigO'[k][2] = SumFunctionOnSet(UnskippedRuns', Members(bigO'[k][1]))
    <3>1. CASE k \in DOMAIN bigO
      <4>1. bigO'[k] = bigO[k] /\ ~families[bigO[k][1]].present
        BY <1>6, <3>1 DEF FamiliesInv, ComputedWhenErased
      <4>2. bigO[k][1] \in Complex \ {F}
            /\ bigO[k][2] = SumFunctionOnSet(UnskippedRuns', Members(bigO[k][1]))
        BY <3>1, ComputedStays
      <4>3. QED
        BY <1>3, <4>1, <4>2
    <3>2. CASE k = Len(bigO) + 1
      BY <1>1, <1>2, <1>3, <1>6, <3>2
    <3>3. QED
      BY <1>6, <2>1, <3>1, <3>2
  <2>2. ASSUME NEW k \in DOMAIN bigO', NEW l \in DOMAIN bigO', k # l
        PROVE  bigO'[k][1] # bigO'[l][1]
    <3>1. CASE k \in DOMAIN bigO /\ l \in DOMAIN bigO
      BY <1>6, <2>2, <3>1 DEF FamiliesInv, ComputedWhenErased
    <3>2. CASE k = Len(bigO) + 1 \/ l = Len(bigO) + 1
      BY <1>6, <2>2, <3>2, ComputedStays
    <3>3. QED
      BY <1>6, <2>2, <3>1, <3>2
  <2>3. ASSUME NEW f \in Complex, ~families'[f].present
        PROVE  \E k \in DOMAIN bigO' : bigO'[k][1] = f
    <3>1. CASE f = F
      BY <1>6, <3>1
    <3>2. CASE f # F
      <4>1. ~families[f].present
        BY <1>3, <2>3, <3>2
      <4>2. PICK k \in DOMAIN bigO : bigO[k][1] = f
        BY <4>1 DEF FamiliesInv, ComputedWhenErased
      <4>3. QED
        BY <1>6, <4>2
    <3>3. QED
      BY <3>1, <3>2
  <2>4. QED
    BY <2>1, <2>2, <2>3 DEF ComputedWhenErased, Members
<1>11. QED
  BY <1>7, <1>8, <1>9, <1>10 DEF FamiliesInv

\* Neither a repetition at which the program dies nor one of an analysis build
\* touches the families.
LEMMA DyingKeepsFamilies ==
    ASSUME LoopInv, FamiliesInv, NEW i \in Runners, NEW skip \in Skips, Repetition(i, skip),
           Dies(i, skip)
    PROVE  FamiliesInv'
<1>1. UNCHANGED <<families, bigO, mode>> /\ crashed' /\ mode # "analysis"
  BY DEF Dies, Repetition
<1>2. FamilyTypes' /\ FamiliesCount'
  BY <1>1 DEF FamiliesInv, FamilyTypes, FamiliesCount
<1>3. ASSUME NEW f \in Complex, ~families[f].present PROVE MembersDone(f)'
  <2>1. f # Family[i]
    BY <1>3, PresentWhileRunning
  <2>2. QED
    BY <1>3, <2>1, OtherFamilies DEF FamiliesInv, ErasedWhenDone
<1>4. ErasedWhenDone'
  BY <1>1, <1>3 DEF ErasedWhenDone
<1>5. ComputedWhenErased'
  BY <1>1, ComputedStays DEF FamiliesInv, ComputedWhenErased
<1>6. QED
  BY <1>2, <1>4, <1>5 DEF FamiliesInv

LEMMA UntouchedFamilies ==
    ASSUME FamiliesInv, UNCHANGED <<families, bigO, mode, num_repetitions_done, rounds, crashed>>
    PROVE  FamiliesInv'
<1>1. UnskippedRuns' = UnskippedRuns
  BY DEF UnskippedRuns, Unskipped
<1>2. FamilyTypes' /\ FamiliesCount'
  BY <1>1 DEF FamiliesInv, FamilyTypes, FamiliesCount, Members
<1>3. ErasedWhenDone'
  BY DEF FamiliesInv, ErasedWhenDone, MembersDone, Members
<1>4. ComputedWhenErased'
  BY <1>1 DEF FamiliesInv, ComputedWhenErased, Members
<1>5. QED
  BY <1>2, <1>3, <1>4 DEF FamiliesInv

LEMMA FamiliesStep == LoopInv /\ FamiliesInv /\ [Next]_vars => FamiliesInv'
<1> SUFFICES ASSUME LoopInv, FamiliesInv, [Next]_vars PROVE FamiliesInv'
  OBVIOUS
<1>1. ASSUME NEW i \in Runners, NEW skip \in Skips, Repetition(i, skip) PROVE FamiliesInv'
  <2>1. InnerRepetition(i, skip) \/ LastRepetition(i, skip) \/ Dies(i, skip)
    BY <1>1 DEF Repetition
  <2>2. QED
    BY <1>1, <2>1, InnerKeepsFamilies, CompletingKeepsFamilies, DyingKeepsFamilies
<1>2. ASSUME NEW i \in Runners, AnalysisRepetition(i) PROVE FamiliesInv'
  BY <1>2, UntouchedFamilies DEF AnalysisRepetition
<1>3. CASE UNCHANGED vars
  BY <1>3, UntouchedFamilies DEF vars
<1>4. QED
  BY <1>1, <1>2, <1>3 DEF Next, Finished

-----------------------------------------------------------------------------
\* The program dies at a runner that is not reported, as it completes a family
\* of which every run was skipped; whoever else was done by then is reported.
DeathBySkips ==
    crashed => /\ mode # "analysis"
               /\ \E i \in Runners :
                     /\ AllSkipped(Family[i])
                     /\ \A j \in Runners \ {i} :
                           todo[j] = 0 => \E k \in DOMAIN reported : reported[k] = j

\* A sum of natural numbers that is 0 is one of zeros.
LEMMA ZeroSum ==
    ASSUME NEW S, IsFiniteSet(S), NEW f, \A x \in S : f[x] \in Nat, SumFunctionOnSet(f, S) = 0
    PROVE  \A x \in S : f[x] = 0
<1> DEFINE zero == [x \in S |-> 0]
<1>1. \A x \in S : zero[x] = 0
  OBVIOUS
<1> HIDE DEF zero
<1>2. SumFunctionOnSet(zero, S) = 0
  BY <1>1, SumZero
<1>3. \A x \in S : zero[x] \in Int /\ f[x] \in Int /\ zero[x] <= f[x]
  BY <1>1
<1>4. QED
  BY <1>1, <1>2, <1>3, SumCompare

\* front() of an empty vector: all of the family is done, and none of it ran.
LEMMA FrontOfSkipped ==
    ASSUME LoopInv, FamiliesInv, NEW i \in Runners, NEW skip \in Skips, Repetition(i, skip),
           FrontOfNothing(i, CountRun(i, skip))
    PROVE  AllSkipped(Family[i])'
<1> DEFINE fams == CountRun(i, skip)
           f == Family[i]
<1>1. f \in Complex /\ fams[f].num_runs_done = fams[f].num_runs_total /\ fams[f].Runs = 0
  BY DEF FrontOfNothing, FamilyComplete
<1>2. /\ fams[f].num_runs_total = SumFunctionOnSet(Repeats, Members(f))
      /\ fams[f].num_runs_done = SumFunctionOnSet(num_repetitions_done', Members(f))
      /\ fams[f].Runs = SumFunctionOnSet(UnskippedRuns', Members(f))
  BY <1>1, CountRunCounts
<1> HIDE DEF fams, f
<1>3. MembersDone(f)'
  BY <1>1, <1>2, CompleteWhenDone
<1>4. IsFiniteSet(Members(f)) /\ Members(f) \in SUBSET Runners
  BY MembersFinite
<1>5. \A j \in Members(f) : todo'[j] = 0
  <2> SUFFICES ASSUME NEW j \in Members(f) PROVE todo'[j] = 0
    OBVIOUS
  <2>1. j \in Runners /\ num_repetitions_done'[j] = Repeats[j]
    BY <1>3, <1>4 DEF MembersDone, Members
  <2>2. todo'[j] + num_repetitions_done'[j] = Repeats[j] /\ todo'[j] \in Nat
        /\ num_repetitions_done'[j] \in Nat
    BY <2>1, RepetitionCounts DEF RepetitionsCounted
  <2>3. QED
    BY <2>1, <2>2
<1>6. \A j \in Members(f) : UnskippedRuns'[j] = 0
  <2>1. \A j \in Members(f) : UnskippedRuns'[j] \in Nat
    <3> SUFFICES ASSUME NEW j \in Runners PROVE UnskippedRuns'[j] \in Nat
      BY <1>4
    <3>1. UnskippedRuns[j] \in Nat /\ UnskippedRuns[i] \in Nat
      BY UnskippedStep
    <3>2. QED
      BY <3>1, UnskippedStep
  <2>2. SumFunctionOnSet(UnskippedRuns', Members(f)) = 0
    BY <1>1, <1>2
  <2>3. QED
    BY <1>4, <2>1, <2>2, ZeroSum
<1>7. \A j \in Members(f) : Unskipped(j)' = 0
  BY <1>4, <1>6 DEF UnskippedRuns
<1>8. QED
  BY <1>1, <1>5, <1>7 DEF AllSkipped, Members, f

LEMMA DeathStep == LoopInv /\ FamiliesInv /\ DeathBySkips /\ [Next]_vars => DeathBySkips'
<1> SUFFICES ASSUME LoopInv, FamiliesInv, DeathBySkips, [Next]_vars, crashed' PROVE DeathBySkips'
  BY DEF DeathBySkips
<1>1. ASSUME NEW i \in Runners, NEW skip \in Skips, Repetition(i, skip) PROVE DeathBySkips'
  <2>1. Dies(i, skip)
    BY <1>1, RepetitionCounts DEF Repetition, InnerRepetition, LastRepetition
  <2>2. AllSkipped(Family[i])'
    BY <1>1, <2>1, FrontOfSkipped DEF Dies
  <2>3. UNCHANGED reported /\ ~crashed /\ mode' # "analysis"
    BY <1>1, <2>1, RepetitionCounts DEF Dies
  <2>4. ASSUME NEW j \in Runners \ {i}, todo'[j] = 0
        PROVE  \E k \in DOMAIN reported : reported[k] = j
    <3>1. todo'[j] = todo[j] /\ mode # "analysis"
      BY <1>1, <2>3, RepetitionCounts DEF LoopInv, LoopTypes
    <3>2. num_repetitions_done[j] = Repeats[j]
      BY <2>4, <3>1 DEF LoopInv, LoopTypes, RepetitionsCounted
    <3>3. QED
      BY <2>3, <3>2 DEF LoopInv, ReportedAreDone
  <2>5. QED
    BY <2>2, <2>3, <2>4 DEF DeathBySkips
<1>2. ASSUME NEW i \in Runners, AnalysisRepetition(i) PROVE DeathBySkips'
  BY <1>2 DEF AnalysisRepetition, DeathBySkips
<1>3. CASE UNCHANGED vars
  <2>1. UNCHANGED <<crashed, mode, todo, rounds, reported>>
    BY <1>3 DEF vars
  <2>2. QED
    BY <2>1 DEF DeathBySkips, AllSkipped, Unskipped, Members
<1>4. QED
  BY <1>1, <1>2, <1>3 DEF Next, Finished

-----------------------------------------------------------------------------
\* LoopInv is an invariant of RunBenchmarks for every list of instances, every
\* number of repetitions, in order or shuffled.
THEOREM LoopInvariance == Spec => []LoopInv
BY InitLoopInv, LoopStep, PTL DEF Spec

\* With the repetitions in order, what a walltime build reports as executed is
\* the benchmark that has run, under its own name.
THEOREM LoopExecutesInOrder == Spec => []ExecutedInOrder
<1>1. LoopInv => ExecutedInOrder
  BY DEF LoopInv
<1>2. QED
  BY <1>1, LoopInvariance, PTL

\* FamiliesInv is an invariant too: until the program dies, the counters of each
\* family sum up what its runners have done.
THEOREM LoopCountsFamilies == Spec => []FamiliesInv
BY InitFamiliesInv, FamiliesStep, LoopInvariance, PTL DEF Spec

\* However the repetitions are shuffled, each instance is reported once, after all of
\* its own and with them in the walltime results; one that is done is left out, and
\* the program dies, only where every run of a family with a complexity was skipped.
THEOREM LoopReportsOnce == Spec => []EachReportedOnce
<1>1. Init => DeathBySkips
  BY DEF Init, DeathBySkips
<1>2. LoopInv /\ DeathBySkips => EachReportedOnce
  <2> SUFFICES ASSUME LoopInv, DeathBySkips PROVE EachReportedOnce
    OBVIOUS
  <2>1. \A k \in DOMAIN reported : Len(rounds[reported[k]]) = Repeats[reported[k]]
    <3> SUFFICES ASSUME NEW k \in DOMAIN reported
                 PROVE  Len(rounds[reported[k]]) = Repeats[reported[k]]
      OBVIOUS
    <3>1. reported[k] \in Runners /\ num_repetitions_done[reported[k]] = Repeats[reported[k]]
      BY DEF LoopInv, LoopTypes, ReportedAreDone
    <3>2. mode # "analysis"
      BY DEF LoopInv, NothingReported
    <3>3. QED
      BY <3>1, <3>2 DEF LoopInv, RepetitionsCounted
  <2>2. ASSUME mode # "analysis", NEW i \in Runners, todo[i] = 0
        PROVE  (\E k \in DOMAIN reported : reported[k] = i) \/ AllSkipped(Family[i])
    <3>1. num_repetitions_done[i] = Repeats[i]
      BY <2>2 DEF LoopInv, LoopTypes, RepetitionsCounted
    <3>2. CASE ~crashed
      BY <3>1, <3>2 DEF LoopInv, ReportedAreDone
    <3>3. CASE crashed
      BY <2>2, <3>3 DEF DeathBySkips
    <3>4. QED
      BY <3>2, <3>3
  <2>3. crashed => \E f \in Complex : AllSkipped(f)
    BY DEF DeathBySkips, AllSkipped
  <2>4. QED
    BY <2>1, <2>2, <2>3 DEF LoopInv, ReportedAreDone, WalltimeFollows, EachReportedOnce
<1>3. QED
  BY <1>1, <1>2, DeathStep, LoopInvariance, LoopCountsFamilies, PTL DEF Spec

\* For every list of instances, in every order of their repetitions: no runner
\* reaches for the entry of its family after RunBenchmarks has erased it.
THEOREM LoopErasedEntriesUnused == Spec => []ErasedEntriesUnused
<1>1. LoopInv /\ FamiliesInv => ErasedEntriesUnused
  <2> SUFFICES ASSUME LoopInv, FamiliesInv, mode # "analysis", NEW i \in Runners,
                      Family[i] \in Complex, ~families[Family[i]].present
               PROVE  todo[i] = 0
    BY DEF ErasedEntriesUnused
  <2>1. num_repetitions_done[i] = Repeats[i]
    BY DEF FamiliesInv, ErasedWhenDone, MembersDone, Members
  <2>2. QED
    BY <2>1 DEF LoopInv, LoopTypes, RepetitionsCounted
<1>2. QED
  BY <1>1, LoopInvariance, LoopCountsFamilies, PTL

\* The complexity of each family is computed exactly once, over every run of its
\* instances that was not skipped, however the repetitions are shuffled.
THEOREM LoopComplexityOnce == Spec => []ComplexityOnce
<1>1. LoopInv /\ FamiliesInv => ComplexityOnce
  <2> SUFFICES ASSUME LoopInv, FamiliesInv PROVE ComplexityOnce
    OBVIOUS
  <2>1. ASSUME AllDone, mode # "analysis" PROVE {bigO[k][1] : k \in DOMAIN bigO} = Complex
    <3>1. \A i \in Runners : num_repetitions_done[i] = Repeats[i]
      BY <2>1 DEF AllDone, LoopInv, LoopTypes, RepetitionsCounted
    <3>2. \A f \in Complex : \E k \in DOMAIN bigO : bigO[k][1] = f
      BY <2>1, <3>1 DEF AllDone, FamiliesInv, ErasedWhenDone, MembersDone, Members,
                        ComputedWhenErased
    <3>3. \A k \in DOMAIN bigO : bigO[k][1] \in Complex
      BY DEF FamiliesInv, FamilyTypes
    <3>4. QED
      BY <3>2, <3>3
  <2>2. QED
    BY <2>1 DEF FamiliesInv, ComputedWhenErased, UnskippedRuns, ComplexityOnce
<1>2. QED
  BY <1>1, LoopInvariance, LoopCountsFamilies, PTL
=============================================================================
