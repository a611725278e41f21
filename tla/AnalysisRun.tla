----------------------------- MODULE AnalysisRun -----------------------------
(***************************************************************************)
(* BenchmarkInstance::RunAnalysis (benchmark_api_internal.cc) as           *)
(* DoOneRepetition calls it in an analysis build: the calling thread runs  *)
(* the benchmark function once for the warm-up and once to measure, each   *)
(* time with two passages through the barrier of a ThreadManager made for  *)
(* b.threads() threads.  No other thread is started, and nobody calls      *)
(* NotifyThreadComplete.                                                   *)
(***************************************************************************)
EXTENDS Barrier

CONSTANTS
    Caller,   \* the thread that runs the benchmark function
    States    \* how many times it does: 2, or 1 in memory mode

VARIABLES
    run,      \* States already run
    gate      \* passages made by the current one: 0, 1, or 2 when it is over

vars == <<barrierVars, run, gate>>

Init == BarrierInit /\ run = 0 /\ gate = 0

Running == run < States /\ gate < 2

\* StartKeepRunning or FinishKeepRunning comes to the barrier.
ComesToGate == Running /\ Wait(Caller) /\ UNCHANGED <<run, gate>>

\* wait() returns.
PassesGate ==
    /\ Released(Caller) \/ NotifyAll(Caller)
    /\ gate' = gate + 1
    /\ UNCHANGED run

InsideBarrier ==
    /\ BecomesLast(Caller) \/ BlocksAgain(Caller) \/ SpuriousWake(Caller)
    /\ UNCHANGED <<run, gate>>

\* The function returns, also early after a skip, and the next State is run.
Returns ==
    /\ run < States /\ pc[Caller] = "outside"
    /\ run' = run + 1
    /\ gate' = 0
    /\ UNCHANGED barrierVars

Finished == run = States /\ UNCHANGED vars

Next == ComesToGate \/ PassesGate \/ InsideBarrier \/ Returns \/ Finished

Spec ==
    /\ Init /\ [][Next]_vars
    /\ WF_vars(ComesToGate \/ PassesGate \/ Returns)
    /\ WF_vars(BecomesLast(Caller) /\ UNCHANGED <<run, gate>>)

\* user_guide.md has benchmarks with Threads(2) run on their threads: the run
\* of such a benchmark ends.
AnalysisTerminates == <>(run = States)
=============================================================================
