----------------------------- MODULE BenchmarkUri -----------------------------
(***************************************************************************)
(* The names of benchmarks in a CodSpeed build and the URIs made of them:  *)
(* the name a macro (benchmark.h) or RegisterBenchmark gives a benchmark,  *)
(* the name of an instance (benchmark_name.cc), the URI that               *)
(* start_benchmark sends to the hooks (core/src/codspeed.cpp), and the URI *)
(* and the name that generate_raw_walltime_data writes (benchmark.cc).     *)
(*                                                                         *)
(* A text is a sequence. The characters the code looks at, ":", "[", "]"   *)
(* and the backslash, are elements of their own; so is each piece of text  *)
(* between them.                                                           *)
(***************************************************************************)
EXTENDS Integers, SequencesExt

CONSTANTS
    Paths,        \* file and namespaces, as the macros write them, with "::"
    Functions,    \* the function given to a macro, or the Method of a fixture
    Bracketed,    \* what a macro puts between brackets; <<>> for none
    Customs,      \* names given to RegisterBenchmark
    Args,         \* BenchmarkName::args of the instances; <<>> for none
    Renames,      \* what is given to Benchmark::Name; <<>> if it is not called
    MaxInstances  \* bound on the instances that are run

ASSUME InstancesAssumption ==
    /\ Paths \cup Functions \cup Bracketed \cup Customs \cup Args \cup Renames \subseteq Seq(STRING)
    /\ MaxInstances \in Nat

VARIABLES
    running,           \* the parts of the running instance's name; {} for none
    current_benchmark, \* CodSpeed::current_benchmark
    done               \* per instance that has run: its name and its URIs

uriVars == <<running, current_benchmark, done>>

Macros == [path : Paths, function : Functions, brackets : Bracketed,
           renamed : Renames, args : Args]
Registered == [path : {<<>>}, function : Customs, brackets : {<<>>},
               renamed : Renames, args : Args]

Sep == <<":", ":">>
IsSep(s, i) == SubSeq(s, i, i + 1) = Sep
Seps(s) == {i \in 1 .. Len(s) - 1 : IsSep(s, i)}

UriInit == running = {} /\ current_benchmark = <<>> /\ done = <<>>

-----------------------------------------------------------------------------
Brackets(s) == IF s = <<>> THEN <<>> ELSE <<"[">> \o s \o <<"]">>

\* BENCHMARK, BENCHMARK_CAPTURE, BENCHMARK_TEMPLATE, BENCHMARK_F and their kind.
function_name(b) == b.path \o b.function \o Brackets(b.brackets)

\* Mutant of Replacement: one colon for two.
Replacement_OneColon == <<":">>

Replacement == <<"\\", ":", "\\", ":">>

\* The replacement of "::" from left to right; what is put in is not searched.
Escaped(s) ==
    LET from[i \in 1 .. Len(s) + 1] ==
            IF i > Len(s) THEN <<>>
            ELSE IF i \in Seps(s) THEN Replacement \o from[i + 2]
            ELSE <<s[i]>> \o from[i + 1]
    IN  from[1]

\* Escapes what is between the last "[" and a "]" at the very end.
sanitize_bench_args(text) ==
    LET open == SelectLastInSeq(text, LAMBDA c : c = "[")
    IN  IF open = 0 \/ Last(text) # "]" THEN text
        ELSE SubSeq(text, 1, open) \o Escaped(SubSeq(text, open + 1, Len(text) - 1)) \o <<"]">>

\* What follows the last "::", or all of it.
Behind(text) == SubSeq(text, Max(Seps(text) \cup {-1}) + 2, Len(text))

\* The name Benchmark::Name leaves: the path of the old one, if it has a path,
\* then the new one and the old one's brackets, which are escaped first.
SetName(old, name) ==
    LET text == sanitize_bench_args(old)
        open == SelectInSeq(Behind(text), LAMBDA c : c = "[")
    IN  IF Seps(text) = {} THEN name
        ELSE SubSeq(text, 1, Max(Seps(text)) + 1) \o name
             \o (IF open = 0 THEN <<>> ELSE SubSeq(Behind(text), open, Len(Behind(text))))

name_(b) == IF b.renamed = <<>> THEN function_name(b) ELSE SetName(function_name(b), b.renamed)

\* BenchmarkName::str of a CodSpeed build: the other parts of a name, such as
\* its threads and its minimum time, are not in it.
str(b) == name_(b) \o Brackets(b.args)

Placeholder(text) == <<"unknown_file">> \o Sep \o text

\* Mutant of HooksUri: without the escaping.
HooksUri_Raw(name) == IF Seps(name) = {} THEN Placeholder(name) ELSE name

\* start_benchmark's URI. Whether it needs the placeholder is asked of the name.
HooksUri(name) == IF Seps(name) = {} THEN Placeholder(name) ELSE sanitize_bench_args(name)

\* generate_raw_walltime_data's URI: the same question is asked of the URI.
WalltimeUri(name) ==
    LET uri == sanitize_bench_args(name) IN IF Seps(uri) = {} THEN Placeholder(uri) ELSE uri

\* ... and its name: all of the URI behind the last "::".
WalltimeName(name) == Behind(sanitize_bench_args(name))

-----------------------------------------------------------------------------
\* start_benchmark, for the first repetition of any instance.
StartBenchmark(b) ==
    /\ running = {} /\ Len(done) < MaxInstances
    /\ running' = {b}
    /\ current_benchmark' = HooksUri(str(b))
    /\ UNCHANGED done

\* end_benchmark and generate_raw_walltime_data, after its last repetition.
EndBenchmark(b) ==
    /\ running = {b}
    /\ done' = Append(done, [parts |-> b, name |-> str(b),
                             benchmarked |-> current_benchmark,
                             uri |-> WalltimeUri(str(b)),
                             walltime_name |-> WalltimeName(str(b))])
    /\ running' = {}
    /\ UNCHANGED current_benchmark

UriNext == \/ \E b \in Macros \cup Registered : StartBenchmark(b)
           \/ \E b \in running : EndBenchmark(b)

UriSpec == UriInit /\ [][UriNext]_uriVars

-----------------------------------------------------------------------------
\* Instances with different names have different URIs, in the hooks and in the
\* walltime results (codspeed.cpp:83, benchmark.cc:407). A new name that is a
\* function's own is not among Renames: it leaves a name that is already escaped.
UrisDistinct ==
    \A i, j \in DOMAIN done : done[i].name # done[j].name =>
        /\ done[i].benchmarked # done[j].benchmarked
        /\ done[i].uri # done[j].uri

\* The hooks and the walltime results give an instance the same URI, if it has
\* a "::" outside of its brackets, as the macros write it, or none at all.
SameUri ==
    \A i \in DOMAIN done :
        LET name == done[i].name
            open == SelectInSeq(name, LAMBDA c : c = "[")
            outside == IF open = 0 THEN name ELSE SubSeq(name, 1, open - 1)
        IN  Seps(name) = {} \/ Seps(outside) # {} => done[i].benchmarked = done[i].uri

\* Escaped or not, the brackets do not change what the walltime results call a
\* benchmark of a macro: its function, or the name given to it later, and its
\* brackets, without the path (benchmark.cc:407). An instance that was not
\* renamed has the macro's brackets or its arguments', but not both.
WalltimeNameWhole ==
    \A i \in DOMAIN done :
        LET p == done[i].parts
            called == IF p.renamed = <<>> THEN p.function ELSE p.renamed
        IN  p.path # <<>> /\ (p.renamed # <<>> \/ p.brackets = <<>> \/ p.args = <<>>) =>
                /\ done[i].uri = p.path \o done[i].walltime_name
                /\ IsPrefix(called, done[i].walltime_name)

\* Both: an instance has one URI, and its name can be taken from it.
UrisAgree == SameUri /\ WalltimeNameWhole
=============================================================================
