-------------------------- MODULE MCBenchmarkRunner --------------------------
(* Benchmarks and command lines for checking BenchmarkRunner. *)
EXTENDS BenchmarkRunner

Plain == [threads |-> 1, iterations |-> 0, min_time |-> 0, min_warmup_time |-> 0,
          repetitions |-> 0, clock |-> "cpu"]
NoFlags == [tag |-> "TIME", min_time |-> 4, min_warmup_time |-> 0, repetitions |-> 1,
            dry_run |-> FALSE, memory_manager |-> FALSE, profiler_manager |-> FALSE]

ManyBenchmarks ==
    {[Plain EXCEPT !.clock = c] : c \in {"cpu", "manual"}}
    \cup {[Plain EXCEPT !.threads = 2, !.clock = "real", !.repetitions = 2],
          [Plain EXCEPT !.iterations = 5],
          [Plain EXCEPT !.min_time = 7, !.min_warmup_time = 3]}
ManyFlags ==
    {[NoFlags EXCEPT !.repetitions = 2],
     [NoFlags EXCEPT !.min_warmup_time = 2, !.memory_manager = TRUE, !.profiler_manager = TRUE],
     [NoFlags EXCEPT !.dry_run = TRUE, !.min_warmup_time = 2, !.profiler_manager = TRUE],
     [NoFlags EXCEPT !.tag = "ITERS", !.min_time = 3, !.repetitions = 2,
                     !.min_warmup_time = 2, !.memory_manager = TRUE]}
=============================================================================
