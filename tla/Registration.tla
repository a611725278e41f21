----------------------------- MODULE Registration -----------------------------
(***************************************************************************)
(* The registered benchmark families (benchmark_register.cc): the methods  *)
(* of Benchmark that a program chains onto a registration, AddRange and    *)
(* its powers (benchmark_register.h), and FindBenchmarks, which makes the  *)
(* instances that a run executes (benchmark_api_internal.cc) and their     *)
(* names (benchmark_name.cc).                                              *)
(*                                                                         *)
(* The BM_CHECKs are those of a debug build: one that fails ends the       *)
(* program. A text is the sequence of its pieces: words that the program   *)
(* or the library writes as a whole, delimiters, and the digits of a       *)
(* number one by one. Times are in milliseconds.                           *)
(***************************************************************************)
EXTENDS Integers, Selections

CONSTANTS
    Paths,        \* texts that the macros of a CodSpeed build put in front of a name
    Functions,    \* texts given as names to a macro or to RegisterBenchmark
    kmax,         \* the largest value of the integers; the smallest is -kmax - 1
    kRangeMultiplier, Multipliers,
    RangeBounds,  \* pairs given to Range
    DenseRanges,  \* triples given to DenseRange
    ArgLists,     \* given to Args
    ArgProducts,  \* given to ArgsProduct
    RangeLists,   \* given to Ranges
    NameLists,    \* given to ArgName and ArgNames
    ThreadRanges, \* triples given to ThreadRange and DenseThreadRange
    num_cpus,
    Times,        \* given to MinTime and MinWarmUpTime
    Filters,
    MaxFamilies, MaxCalls

Integer == -kmax - 1 .. kmax

ASSUME RegistrationAssumption ==
    /\ Paths \subseteq Seq(STRING) /\ Functions \subseteq Seq(STRING)
    /\ kmax \in Nat \ {0} /\ kRangeMultiplier \in 2 .. kmax /\ Multipliers \subseteq Integer
    /\ RangeBounds \subseteq Integer \X Integer
    /\ DenseRanges \subseteq Integer \X Integer \X Integer
    /\ ArgLists \subseteq Seq(Integer) /\ ArgProducts \subseteq Seq(Seq(Integer))
    /\ RangeLists \subseteq Seq(Integer \X Integer) /\ NameLists \subseteq Seq(Seq(STRING))
    /\ ThreadRanges \subseteq Integer \X Integer \X Integer
    /\ num_cpus \in 1 .. kmax /\ Times \subseteq Integer
    /\ Filters \subseteq [re : SUBSET Seq(STRING), negative : BOOLEAN]
    /\ MaxFamilies \in Nat /\ MaxCalls \in Nat

VARIABLES
    codspeed,   \* whether CODSPEED_ENABLED is defined
    families_,  \* BenchmarkFamilies::families_
    found,      \* the instances of the last FindBenchmarks
    ended,      \* why the program has ended, or "no"
    calls       \* calls so far, bounded by MaxCalls

vars == <<codspeed, families_, found, ended, calls>>

When(c, s) == IF c THEN s ELSE <<>>
Least(a, b) == IF a < b THEN a ELSE b
Most(a, b) == IF a < b THEN b ELSE a

Init ==
    /\ codspeed \in BOOLEAN
    /\ families_ = <<>> /\ found = <<>> /\ ended = "no" /\ calls = 0

-----------------------------------------------------------------------------
(* The values that AddRange adds. *)

\* Mutant of AddPowers: the bound lo is left out.
AddPowers_Exclusive(lo, hi, mult) ==
    LET from[i \in 1 .. kmax] ==
            IF i > hi THEN <<>>
            ELSE When(i > lo, <<i>>) \o When(i <= kmax \div mult, from[i * mult])
    IN  from[1]

\* The loop ends before i * mult would leave the type.
AddPowers(lo, hi, mult) ==
    LET from[i \in 1 .. kmax] ==
            IF i > hi THEN <<>>
            ELSE When(i >= lo, <<i>>) \o When(i <= kmax \div mult, from[i * mult])
    IN  from[1]

AddNegatedPowers(lo, hi, mult) ==
    LET powers == AddPowers(-hi, -lo, mult)
    IN  Reverse([i \in DOMAIN powers |-> -powers[i]])

AddRange(lo, hi, mult) ==
    LET below == <<lo>>
                 \o When(lo + 1 < 0, AddNegatedPowers(lo + 1, Least(hi - 1, -1), mult))
                 \o When(lo < 0 /\ hi >= 0, <<0>>)
                 \o When(hi - 1 > 0, AddPowers(Most(lo + 1, 1), hi - 1, mult))
    IN  CASE lo = hi -> <<lo>>
          [] lo + 1 = hi -> <<lo, hi>>
          [] OTHER -> below \o When(Last(below) # hi, <<hi>>)

\* The counter of ArgsProduct's indices: the first index is the fastest.
Stride(lists, a) == FoldLeft(LAMBDA n, list : n * Len(list), 1, SubSeq(lists, 1, a - 1))
Product(lists) ==
    [i \in 1 .. Stride(lists, Len(lists) + 1) |->
        [a \in DOMAIN lists |-> lists[a][(((i - 1) \div Stride(lists, a)) % Len(lists[a])) + 1]]]

Dense(start, limit, step) ==
    [i \in 1 .. ((limit - start) \div step) + 1 |-> start + (i - 1) * step]
Singles(s) == [i \in DOMAIN s |-> <<s[i]>>]

-----------------------------------------------------------------------------
(* Registration and the methods of Benchmark. *)

NewBenchmark(path, function) ==
    [name_ |-> path \o function, args_ |-> <<>>, arg_names_ |-> <<>>,
     thread_counts_ |-> <<>>, range_multiplier_ |-> kRangeMultiplier,
     min_time_ |-> 0, min_warmup_time_ |-> 0, iterations_ |-> 0, repetitions_ |-> 0,
     measure_process_cpu_time_ |-> FALSE, use_real_time_ |-> FALSE, use_manual_time_ |-> FALSE]

Counted ==
    /\ calls < MaxCalls /\ ended = "no"
    /\ calls' = calls + 1 /\ UNCHANGED codspeed

\* RegisterBenchmarkInternal, of a macro or of RegisterBenchmark.
Register(path, function) ==
    /\ Counted /\ Len(families_) < MaxFamilies
    /\ path # <<>> => codspeed
    /\ families_' = Append(families_, NewBenchmark(path, function))
    /\ UNCHANGED <<found, ended>>

ClearBenchmarks ==
    /\ Counted /\ families_' = <<>> /\ UNCHANGED <<found, ended>>

\* A method: its checks, and what it makes of the benchmark.
Method(f, checks, b) ==
    /\ Counted
    /\ families_' = IF checks THEN [families_ EXCEPT ![f] = b] ELSE families_
    /\ ended' = IF checks THEN "no" ELSE "check"
    /\ UNCHANGED found

\* Mutant of ArgsCnt: an empty tuple of arguments counts as none.
ArgsCnt_Empty(b) ==
    IF b.args_ # <<>> /\ b.args_[1] # <<>> THEN Len(b.args_[1])
    ELSE IF b.arg_names_ # <<>> THEN Len(b.arg_names_) ELSE -1

ArgsCnt(b) ==
    IF b.args_ # <<>> THEN Len(b.args_[1])
    ELSE IF b.arg_names_ # <<>> THEN Len(b.arg_names_) ELSE -1

Fits(b, n) == ArgsCnt(b) \in {-1, n}
WithArgs(b, tuples) == [b EXCEPT !.args_ = @ \o tuples]

Args(f, args) == Method(f, Fits(families_[f], Len(args)), WithArgs(families_[f], <<args>>))

ArgRange(f, lo, hi) ==
    LET b == families_[f]
    IN  Method(f, Fits(b, 1) /\ lo <= hi, WithArgs(b, Singles(AddRange(lo, hi, b.range_multiplier_))))

\* With no list at all the first index is read and written outside of an empty
\* vector, which has no storage.
ArgsProduct(f, lists) ==
    LET b == families_[f]
    IN  Method(f, Fits(b, Len(lists)) /\ lists # <<>>, WithArgs(b, Product(lists)))

Ranges(f, bounds) ==
    LET b == families_[f]
        lists == [a \in DOMAIN bounds |-> AddRange(bounds[a][1], bounds[a][2], b.range_multiplier_)]
        checks == /\ Fits(b, Len(bounds)) /\ bounds # <<>>
                  /\ \A a \in DOMAIN bounds : bounds[a][1] <= bounds[a][2]
    IN  Method(f, checks, WithArgs(b, Product(lists)))

\* A last step that would leave the type overflows, and so does the first of a
\* step that is not positive, which nothing checks: the loop goes on until there
\* is no memory left.
DenseRange(f, start, limit, step) ==
    LET b == families_[f]
        checks == Fits(b, 1) /\ start <= limit
        next == start + ((limit - start) \div step + 1) * step
    IN  IF checks /\ (step <= 0 \/ next > kmax)
        THEN Counted /\ ended' = "overflow" /\ UNCHANGED <<families_, found>>
        ELSE Method(f, checks, WithArgs(b, Singles(Dense(start, limit, step))))

ArgNames(f, names) ==
    Method(f, Fits(families_[f], Len(names)), [families_[f] EXCEPT !.arg_names_ = names])

RangeMultiplier(f, m) == Method(f, m > 1, [families_[f] EXCEPT !.range_multiplier_ = m])

\* Mutant of MinTime: may follow Iterations.
MinTime_Anytime(f, t) == Method(f, t > 0, [families_[f] EXCEPT !.min_time_ = t])

MinTime(f, t) ==
    Method(f, t > 0 /\ families_[f].iterations_ = 0, [families_[f] EXCEPT !.min_time_ = t])
MinWarmUpTime(f, t) ==
    Method(f, t >= 0 /\ families_[f].iterations_ = 0, [families_[f] EXCEPT !.min_warmup_time_ = t])
Iterations(f, n) ==
    Method(f, n > 0 /\ families_[f].min_time_ = 0 /\ families_[f].min_warmup_time_ = 0,
           [families_[f] EXCEPT !.iterations_ = n])
Repetitions(f, n) == Method(f, n > 0, [families_[f] EXCEPT !.repetitions_ = n])
MeasureProcessCPUTime(f) ==
    Method(f, TRUE, [families_[f] EXCEPT !.measure_process_cpu_time_ = TRUE])
UseRealTime(f) ==
    Method(f, ~families_[f].use_manual_time_, [families_[f] EXCEPT !.use_real_time_ = TRUE])
UseManualTime(f) ==
    Method(f, ~families_[f].use_real_time_, [families_[f] EXCEPT !.use_manual_time_ = TRUE])

WithThreads(b, counts) == [b EXCEPT !.thread_counts_ = @ \o counts]

Threads(f, t) == Method(f, t > 0, WithThreads(families_[f], <<t>>))
ThreadPerCpu(f) == Method(f, TRUE, WithThreads(families_[f], <<num_cpus>>))
ThreadRange(f, min, max) ==
    Method(f, min > 0 /\ max >= min, WithThreads(families_[f], AddRange(min, max, 2)))
DenseThreadRange(f, min, max, stride) ==
    Method(f, min > 0 /\ max >= min /\ stride >= 1,
           WithThreads(families_[f], When(min < max, Dense(min, max - 1, stride)) \o <<max>>))

-----------------------------------------------------------------------------
(* The instances and their names. *)

Digit == <<"0", "1", "2", "3", "4", "5", "6", "7", "8", "9">>
Digits[n \in 0 .. kmax + 1] ==
    IF n < 10 THEN <<Digit[n + 1]>> ELSE Append(Digits[n \div 10], Digit[(n % 10) + 1])

\* The formats %d, %lu and PRId64, and %0.3f of a time in seconds.
Decimal(n) == IF n < 0 THEN <<"-">> \o Digits[-n] ELSE Digits[n]
Seconds(t) ==
    LET digit(n) == Digit[(n % 10) + 1]
    IN  Decimal(t \div 1000) \o <<".", digit(t \div 100), digit(t \div 10), digit(t)>>

\* One more part of a text whose parts '/' delimits.
Join(s, head) == s \o When(s # <<>> /\ head # <<>>, <<"/">>) \o head

ArgName(b, i) ==
    IF i <= Len(b.arg_names_) /\ b.arg_names_[i] # <<>> THEN b.arg_names_[i] \o <<":">> ELSE <<>>

\* Mutant of ArgPrefix: arguments that nothing delimits.
ArgPrefix_NoDelimiter(b, i) == ArgName(b, i)

ArgPrefix(b, i) == When(i > 1, <<"/">>) \o ArgName(b, i)

ArgsText(b, args) == FlattenSeq([i \in DOMAIN args |-> ArgPrefix(b, i) \o Decimal(args[i])])

\* BenchmarkInstance's BenchmarkName.
name(b, args, threads) ==
    [function_name |-> b.name_,
     args |-> ArgsText(b, args),
     min_time |-> When(b.min_time_ # 0, <<"min_time:">> \o Seconds(b.min_time_)),
     min_warmup_time |-> When(b.min_warmup_time_ # 0, <<"min_warmup_time:">> \o Seconds(b.min_warmup_time_)),
     iterations |-> When(b.iterations_ # 0, <<"iterations:">> \o Decimal(b.iterations_)),
     repetitions |-> When(b.repetitions_ # 0, <<"repeats:">> \o Decimal(b.repetitions_)),
     time_type |-> Join(When(b.measure_process_cpu_time_, <<"process_time">>),
                        IF b.use_manual_time_ THEN <<"manual_time">>
                        ELSE When(b.use_real_time_, <<"real_time">>)),
     threads |-> When(b.thread_counts_ # <<>>, <<"threads:">> \o Decimal(threads))]

\* BenchmarkName::str, of a CodSpeed build and of a plain one.
str(n) ==
    IF codspeed THEN n.function_name \o When(n.args # <<>>, <<"[">> \o n.args \o <<"]">>)
    ELSE LET args == Join(n.function_name, n.args)
             times == Join(Join(args, n.min_time), n.min_warmup_time)
             counts == Join(Join(times, n.iterations), n.repetitions)
         IN  Join(Join(counts, n.time_type), n.threads)

\* The name begins with DISABLED_.
IsDisabled(n) == IsPrefix(<<"DISABLED_">>, str(n))

\* RE2::PartialMatch: the filter's expression is found in the name. It is the set
\* of the texts that match it; the empty text is found in every name.
Match(filter, n) ==
    LET s == str(n)
    IN  \E text \in filter.re, i \in 1 .. Len(s) + 1 : IsPrefix(text, SubSeq(s, i, Len(s)))

Runs(filter, n) == ~IsDisabled(n) /\ (Match(filter, n) # filter.negative)

thread_counts(b) == IF b.thread_counts_ = <<>> THEN <<1>> ELSE b.thread_counts_
Combinations(b) ==
    FlattenSeq([i \in DOMAIN b.args_ |->
        [j \in DOMAIN thread_counts(b) |-> [args |-> b.args_[i], threads |-> thread_counts(b)[j]]]])

Instance(f, b, x) ==
    [benchmark |-> f, args |-> x.args, threads |-> x.threads, name |-> name(b, x.args, x.threads)]

\* FindBenchmarks' effect on a family: no arguments become one empty tuple.
Found(b) == IF ArgsCnt(b) = -1 THEN WithArgs(b, <<(<<>>)>>) ELSE b

\* Mutant of NextFamilyIndex: every family has an index.
NextFamilyIndex_Always(index, matching) == index + 1

\* Only a family of which something runs has an index.
NextFamilyIndex(index, matching) == IF matching = <<>> THEN index ELSE index + 1

\* The instances that match, in the order of registration, with their indices.
Instances(benchmarks, filter) ==
    FoldLeft(LAMBDA acc, f :
        LET b == benchmarks[f]
            all == Combinations(b)
            made == [k \in DOMAIN all |-> Instance(f, b, all[k])]
            matching == Among(made, {x \in ToSet(made) : Runs(filter, x.name)})
        IN  [index |-> NextFamilyIndex(acc.index, matching),
             list |-> acc.list \o [k \in DOMAIN matching |->
                 [instance |-> matching[k], family_index |-> acc.index,
                  per_family_instance_index |-> k - 1]]],
        [index |-> 0, list |-> <<>>],
        [f \in DOMAIN benchmarks |-> f]).list

FindBenchmarks(filter) ==
    /\ Counted
    /\ families_' = [f \in DOMAIN families_ |-> Found(families_[f])]
    /\ found' = Instances(families_', filter)
    /\ UNCHANGED ended

-----------------------------------------------------------------------------
AddArguments(f) ==
    \/ \E args \in ArgLists : Args(f, args)
    \/ \E r \in RangeBounds : ArgRange(f, r[1], r[2])
    \/ \E lists \in ArgProducts : ArgsProduct(f, lists)
    \/ \E bounds \in RangeLists : Ranges(f, bounds)
    \/ \E d \in DenseRanges : DenseRange(f, d[1], d[2], d[3])
    \/ \E names \in NameLists : ArgNames(f, names)
    \/ \E m \in Multipliers : RangeMultiplier(f, m)

AddSettings(f) ==
    \/ \E t \in Times : MinTime(f, t) \/ MinWarmUpTime(f, t)
    \/ \E n \in 0 .. 1 : Iterations(f, n) \/ Repetitions(f, n)
    \/ MeasureProcessCPUTime(f) \/ UseRealTime(f) \/ UseManualTime(f)

AddThreads(f) ==
    \/ \E t \in 0 .. 1 : Threads(f, t)
    \/ ThreadPerCpu(f)
    \/ \E r \in ThreadRanges : ThreadRange(f, r[1], r[2]) \/ DenseThreadRange(f, r[1], r[2], r[3])

Next ==
    \/ \E path \in Paths \cup {<<>>}, function \in Functions : Register(path, function)
    \/ \E f \in DOMAIN families_ : AddArguments(f) \/ AddSettings(f) \/ AddThreads(f)
    \/ \E filter \in Filters : FindBenchmarks(filter)
    \/ ClearBenchmarks

Spec == Init /\ [][Next]_vars
-----------------------------------------------------------------------------
\* Whatever methods are chained, in whatever order, and whatever was found in
\* between: the instances of a family have the same number of arguments, and a
\* name for each if there are names.
ArgsOfOneSize ==
    \A f \in DOMAIN families_ :
        LET b == families_[f]
        IN  \A i \in DOMAIN b.args_ :
                /\ Len(b.args_[i]) = Len(b.args_[1])
                /\ b.arg_names_ # <<>> => Len(b.args_[i]) = Len(b.arg_names_)

\* The settings that BenchmarkRunner and ThreadTimer choose between are never
\* both there, in whatever order they are asked for.
ExclusiveSettings ==
    \A f \in DOMAIN families_ :
        LET b == families_[f]
        IN  /\ b.iterations_ # 0 => b.min_time_ = 0 /\ b.min_warmup_time_ = 0
            /\ ~(b.use_real_time_ /\ b.use_manual_time_)

\* Both: the families are as the code that runs them takes them to be.
FamiliesWellFormed == ArgsOfOneSize /\ ExclusiveSettings

Powers(m) ==
    LET is[x \in 1 .. kmax] == x = 1 \/ (x % m = 0 /\ is[x \div m])
    IN  {x \in 1 .. kmax : is[x]}

Count(s, x) == Cardinality({i \in DOMAIN s : s[i] = x})

\* The arguments that a call adds are those the documentation says: for a range
\* its bounds, and zero and the powers of the multiplier and their negations
\* between them, in order and each once, with no overflow at the ends of the
\* type; for a product each combination of its lists.
ArgumentsExact ==
    [][\A f \in DOMAIN families_ :
          LET added == SubSeq(families_'[f].args_, Len(families_[f].args_) + 1, Len(families_'[f].args_))
              powers == Powers(families_[f].range_multiplier_)
          IN  ended' = "no" =>
                /\ \A r \in RangeBounds : ArgRange(f, r[1], r[2]) =>
                      /\ \A i \in 2 .. Len(added) : added[i - 1][1] < added[i][1]
                      /\ {added[i][1] : i \in DOMAIN added} =
                             {x \in r[1] .. r[2] : x \in {0, r[1], r[2]} \/ {x, -x} \cap powers # {}}
                /\ \A lists \in ArgProducts : ArgsProduct(f, lists) =>
                      \A c \in BoundedSeq(UNION {ToSet(lists[a]) : a \in DOMAIN lists}, Len(lists)) :
                          Len(c) = Len(lists) =>
                              Count(added, c) = FoldLeft(LAMBDA n, m : n * m, 1, [a \in DOMAIN lists |-> Count(lists[a], c[a])])]_vars

\* Each combination of the arguments and the threads of a family is found as
\* often as it was asked for if its name is to run, and never otherwise; the
\* indices of the families and of the instances in them have no gaps.
FoundOnce ==
    [][\A filter \in Filters : FindBenchmarks(filter) =>
          /\ \A f \in DOMAIN families_' :
                LET b == families_'[f]
                IN  \A i \in DOMAIN b.args_, t \in ToSet(thread_counts(b)) :
                        LET y == Instance(f, b, [args |-> b.args_[i], threads |-> t])
                            listed == {k \in DOMAIN found' : found'[k].instance = y}
                        IN  Cardinality(listed) =
                                IF Runs(filter, y.name)
                                THEN Count(b.args_, y.args) * Count(thread_counts(b), t)
                                ELSE 0
          /\ \A k \in DOMAIN found' :
                LET before == {j \in 1 .. k - 1 : found'[j].family_index = found'[k].family_index}
                IN  /\ found'[k].per_family_instance_index = Cardinality(before)
                    /\ found'[k].family_index =
                          Cardinality({found'[j].instance.benchmark : j \in 1 .. k} \ {found'[k].instance.benchmark})
                    /\ \A j \in before : found'[j].instance.benchmark = found'[k].instance.benchmark]_vars

\* Finding leaves the registry so that finding again gives the same instances,
\* as for a second RunSpecifiedBenchmarks; and an enabled instance is found
\* either by a filter or by its negation.
FindAgain ==
    [][\A filter \in Filters : FindBenchmarks(filter) =>
          LET opposite == [filter EXCEPT !.negative = ~@]
              enabled(f) ==
                  LET all == Combinations(families_'[f])
                  IN  Among(all, {x \in ToSet(all) : ~IsDisabled(name(families_'[f], x.args, x.threads))})
              each == FlattenSeq([f \in DOMAIN families_' |-> enabled(f)])
          IN  /\ found' = Instances([f \in DOMAIN families_' |-> Found(families_'[f])], filter)
              /\ Len(found') + Len(Instances(families_', opposite)) = Len(each)]_vars

\* Instances of one family that share a name.
Namesakes(k, l) ==
    LET y == found[k].instance
        z == found[l].instance
    IN  y.benchmark = z.benchmark /\ str(y.name) = str(z.name)

\* The joined text of a name tells the instances of its family apart: whatever
\* the names of the function and of the arguments are made of, two with one name
\* take the same arguments and, in a plain build, run as many threads. (Two
\* families may share a name: 'BM/8' without arguments and 'BM' of 8.)
NamesTellApart ==
    \A k, l \in DOMAIN found :
        Namesakes(k, l) =>
            /\ found[k].instance.args = found[l].instance.args
            /\ ~codspeed => found[k].instance.threads = found[l].instance.threads
=============================================================================
