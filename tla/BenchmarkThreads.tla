-------------------------- MODULE BenchmarkThreads --------------------------
(***************************************************************************)
(* One run of one benchmark by several threads: BenchmarkRunner::          *)
(* DoNIterations and RunInThread (benchmark_runner.cc), ThreadManager      *)
(* (thread_manager.h), and the part of State (benchmark.cc) that a thread  *)
(* shares with the others: the two passages through the barrier, the skip  *)
(* record and the totals.  EXTENDS Barrier: every passage through the      *)
(* barrier is made of the steps of that module.                            *)
(***************************************************************************)
EXTENDS Barrier, FiniteSetsExt

CONSTANTS
    Main,        \* the thread that calls DoNIterations; it runs as thread 0
    MaxIters,    \* st.max_iterations of every thread
    Durations,   \* the elapsed times a thread's timer can measure
    Nobody       \* not a thread

ASSUME MainAssumption == Main \in Threads /\ Nobody \notin Threads
ASSUME ItersAssumption == MaxIters \in Nat \ {0} /\ Durations \subseteq Nat

VARIABLES
    step,            \* where RunInThread is, per thread
    started_,        \* State::started_, per thread
    skipped_,        \* State::skipped(), per thread
    running_,        \* ThreadTimer::running_, per thread
    real_time_used_, \* ThreadTimer::real_time_used_, per thread
    alive_threads_,  \* ThreadManager::alive_threads_
    results,         \* ThreadManager::results
    main,            \* where DoNIterations is
    collected        \* IterationResults handed to the caller

runVars == <<step, started_, skipped_, running_, real_time_used_, alive_threads_,
             results, main, collected>>
vars == <<barrierVars, runVars>>

\* "noLoop" is the loop of a thread that skipped before it: it has no iteration.
Steps == {"unborn", "setup", "startGate", "loop", "noLoop", "endGate", "finish",
          "returned", "merged", "left", "lastOut", "done"}

MainSteps == {"run", "check", "blocking", "asleep", "woken", "join", "gone"}

\* The fields of ThreadManager::Result that the threads accumulate, and the
\* thread whose message is kept.
Totals == [iterations : Nat, real_time_used : Nat, skipped_ : Threads \cup {Nobody}]
NoTotals == [iterations |-> 0, real_time_used |-> 0, skipped_ |-> Nobody]

ThreadsTypeOK ==
    /\ TypeOK
    /\ step \in [Threads -> Steps]
    /\ started_ \in [Threads -> BOOLEAN]
    /\ skipped_ \in [Threads -> BOOLEAN]
    /\ running_ \in [Threads -> BOOLEAN]
    /\ real_time_used_ \in [Threads -> Nat]
    /\ alive_threads_ \in 0 .. Cardinality(Threads)
    /\ results \in Totals
    /\ main \in MainSteps
    /\ collected \in Totals

ThreadsInit ==
    /\ BarrierInit
    /\ step = [t \in Threads |-> "unborn"]
    /\ started_ = [t \in Threads |-> FALSE]
    /\ skipped_ = [t \in Threads |-> FALSE]
    /\ running_ = [t \in Threads |-> FALSE]
    /\ real_time_used_ = [t \in Threads |-> 0]
    /\ alive_threads_ = Cardinality(Threads)
    /\ results = NoTotals
    /\ main = "run"
    /\ collected = NoTotals

GoTo(t, s) == step' = [step EXCEPT ![t] = s]

-----------------------------------------------------------------------------
(* The benchmark function in thread t. *)

\* DoNIterations starts the pool first and then calls RunInThread itself.
Spawn(t) ==
    /\ step[t] = "unborn"
    /\ t = Main => \A u \in Threads \ {Main} : step[u] # "unborn"
    /\ GoTo(t, "setup")
    /\ UNCHANGED <<barrierVars, started_, skipped_, running_, real_time_used_,
                   alive_threads_, results, main, collected>>

\* ThreadTimer::StopTimer after d ticks.
StopTimer(t, d) ==
    /\ running_' = [running_ EXCEPT ![t] = FALSE]
    /\ real_time_used_' = [real_time_used_ EXCEPT ![t] = @ + d]

\* Under benchmark_mutex_: only the first thread's message is recorded.
RecordSkip(t) == IF results.skipped_ = Nobody THEN [results EXCEPT !.skipped_ = t] ELSE results

\* if (timer_->running()) timer_->StopTimer();
TimerOnSkip(t) ==
    IF running_[t] THEN \E d \in Durations : StopTimer(t, d)
    ELSE UNCHANGED <<running_, real_time_used_>>

\* SkipWithError or SkipWithMessage, before, in or after the loop, once.
Skip(t) ==
    /\ step[t] \in {"setup", "loop", "finish"}
    /\ ~skipped_[t]
    /\ skipped_' = [skipped_ EXCEPT ![t] = TRUE]
    /\ results' = RecordSkip(t)
    /\ TimerOnSkip(t)
    /\ UNCHANGED <<barrierVars, step, started_, alive_threads_, main, collected>>

\* A function that has skipped may return without (or out of) its loop.
ReturnEarly(t) ==
    /\ step[t] \in {"setup", "loop"}
    /\ skipped_[t]
    /\ GoTo(t, "returned")
    /\ UNCHANGED <<barrierVars, started_, skipped_, running_, real_time_used_,
                   alive_threads_, results, main, collected>>

\* Mutant of StartKeepRunning: nobody waits.
StartKeepRunning_NoBarrier(t) ==
    /\ step[t] = "setup"
    /\ started_' = [started_ EXCEPT ![t] = TRUE]
    /\ GoTo(t, "loop")
    /\ UNCHANGED <<barrierVars, skipped_, running_, real_time_used_, alive_threads_,
                   results, main, collected>>

\* State::StartKeepRunning: the first passage through the barrier begins.
StartKeepRunning(t) ==
    /\ step[t] = "setup"
    /\ started_' = [started_ EXCEPT ![t] = TRUE]
    /\ Wait(t)
    /\ GoTo(t, "startGate")
    /\ UNCHANGED <<skipped_, running_, real_time_used_, alive_threads_, results,
                   main, collected>>

\* wait() returns in StartKeepRunning; ResumeTiming unless the thread skipped.
EnterLoop(t) ==
    /\ step[t] = "startGate"
    /\ Released(t) \/ NotifyAll(t)
    /\ running_' = [running_ EXCEPT ![t] = ~skipped_[t]]
    /\ GoTo(t, IF skipped_[t] THEN "noLoop" ELSE "loop")
    /\ UNCHANGED <<started_, skipped_, real_time_used_, alive_threads_, results,
                   main, collected>>

\* The loop ends: FinishKeepRunning pauses the timer unless the thread skipped,
\* and the second passage through the barrier begins.
FinishKeepRunning(t) ==
    /\ step[t] \in {"loop", "noLoop"}
    /\ IF skipped_[t] THEN UNCHANGED <<running_, real_time_used_>>
                      ELSE \E d \in Durations : StopTimer(t, d)
    /\ Wait(t)
    /\ GoTo(t, "endGate")
    /\ UNCHANGED <<started_, skipped_, alive_threads_, results, main, collected>>

\* wait() returns in FinishKeepRunning; the code after the loop runs.
LeaveLoop(t) ==
    /\ step[t] = "endGate"
    /\ Released(t) \/ NotifyAll(t)
    /\ GoTo(t, "finish")
    /\ UNCHANGED <<started_, skipped_, running_, real_time_used_, alive_threads_,
                   results, main, collected>>

\* The steps inside wait() that do not return from it.
InsideBarrier(t) ==
    /\ BecomesLast(t) \/ BlocksAgain(t) \/ SpuriousWake(t)
    /\ UNCHANGED runVars

Return(t) ==
    /\ step[t] = "finish"
    /\ GoTo(t, "returned")
    /\ UNCHANGED <<barrierVars, started_, skipped_, running_, real_time_used_,
                   alive_threads_, results, main, collected>>

-----------------------------------------------------------------------------
(* The end of RunInThread, and ThreadManager::NotifyThreadComplete. *)

\* State::iterations() when the function has returned: total_iterations_ is 0
\* after the last iteration and after a skip.
Iterations(t) == IF started_[t] THEN MaxIters ELSE 0

\* The thread's share is added to the results under benchmark_mutex_.
Merge(t) ==
    /\ step[t] = "returned"
    /\ results' = [results EXCEPT !.iterations = @ + Iterations(t),
                                  !.real_time_used = @ + real_time_used_[t]]
    /\ GoTo(t, "merged")
    /\ UNCHANGED <<barrierVars, started_, skipped_, running_, real_time_used_,
                   alive_threads_, main, collected>>

\* Mutant of LeaveBarrier: the others are not told.
LeaveBarrier_Silently(t) ==
    /\ step[t] = "merged"
    /\ running_threads_' = running_threads_ - 1
    /\ pc' = [pc EXCEPT ![t] = "removed"]
    /\ UNCHANGED <<phase_number_, entered_, phase_number_cp>>
    /\ GoTo(t, "left")
    /\ UNCHANGED <<started_, skipped_, running_, real_time_used_, alive_threads_,
                   results, main, collected>>

\* start_stop_barrier_.removeThread()
LeaveBarrier(t) ==
    /\ step[t] = "merged"
    /\ RemoveThread(t)
    /\ GoTo(t, "left")
    /\ UNCHANGED <<started_, skipped_, running_, real_time_used_, alive_threads_,
                   results, main, collected>>

\* Mutant of StillAlive: a thread is counted out twice.
StillAlive_Twice == alive_threads_ - 2

StillAlive == alive_threads_ - 1

\* if (--alive_threads_ == 0): atomic, and not under end_cond_mutex_.
DecrementAlive(t) ==
    /\ step[t] = "left"
    /\ alive_threads_' = StillAlive
    /\ GoTo(t, IF alive_threads_' = 0 THEN "lastOut" ELSE "done")
    /\ UNCHANGED <<barrierVars, started_, skipped_, running_, real_time_used_,
                   results, main, collected>>

\* Mutant of EndMutexFree: the notifier does not take the mutex.
EndMutexFree_Ignored == TRUE

\* end_cond_mutex_ is held while the main thread tests its predicate.
EndMutexFree == main \notin {"check", "blocking"}

\* end_condition_.notify_all() under end_cond_mutex_.
NotifyEnd(t) ==
    /\ step[t] = "lastOut"
    /\ EndMutexFree
    /\ main' = IF main = "asleep" THEN "woken" ELSE main
    /\ GoTo(t, "done")
    /\ UNCHANGED <<barrierVars, started_, skipped_, running_, real_time_used_,
                   alive_threads_, results, collected>>

-----------------------------------------------------------------------------
(* DoNIterations after its own RunInThread: ThreadManager::WaitForAllThreads, *)
(* the joins, and the copy of the results.                                   *)

MainGoes(from, to) ==
    /\ main = from
    /\ main' = to
    /\ UNCHANGED <<barrierVars, step, started_, skipped_, running_, real_time_used_,
                   alive_threads_, results, collected>>

MainLocks == step[Main] = "done" /\ (MainGoes("run", "check") \/ MainGoes("woken", "check"))
MainFindsAllDone == alive_threads_ = 0 /\ MainGoes("check", "join")
MainFindsSomeAlive == alive_threads_ # 0 /\ MainGoes("check", "blocking")
MainBlocks == MainGoes("blocking", "asleep")   \* releases end_cond_mutex_ and sleeps
MainSpuriousWake == MainGoes("asleep", "woken")

\* Mutant of Joined: the pool threads are not joined.
Joined_Detached == TRUE

\* thread.join() for each pool thread, results copied, manager destroyed.
Joined == \A t \in Threads \ {Main} : step[t] = "done"
MainCollects ==
    /\ main = "join"
    /\ Joined
    /\ collected' = results
    /\ main' = "gone"
    /\ UNCHANGED <<barrierVars, step, started_, skipped_, running_, real_time_used_,
                   alive_threads_, results>>

MainProgress == MainLocks \/ MainFindsAllDone \/ MainFindsSomeAlive \/ MainBlocks
                \/ MainCollects

\* What thread t does by itself.
ThreadProgress(t) ==
    \/ Spawn(t) \/ ReturnEarly(t) \/ StartKeepRunning(t) \/ EnterLoop(t)
    \/ FinishKeepRunning(t) \/ LeaveLoop(t) \/ Return(t) \/ Merge(t)
    \/ LeaveBarrier(t) \/ DecrementAlive(t) \/ NotifyEnd(t)
    \/ ((BecomesLast(t) \/ BlocksAgain(t)) /\ UNCHANGED runVars)

\* What thread t may do.
ThreadStep(t) ==
    \/ Spawn(t) \/ Skip(t) \/ ReturnEarly(t) \/ StartKeepRunning(t) \/ EnterLoop(t)
    \/ FinishKeepRunning(t) \/ LeaveLoop(t) \/ InsideBarrier(t) \/ Return(t)
    \/ Merge(t) \/ LeaveBarrier(t) \/ DecrementAlive(t) \/ NotifyEnd(t)

MainStep == MainProgress \/ MainSpuriousWake

Finished == main = "gone" /\ UNCHANGED vars

ThreadsNext == (\E t \in Threads : ThreadStep(t)) \/ MainStep \/ Finished

ThreadsSpec == ThreadsInit /\ [][ThreadsNext]_vars

\* Each thread is scheduled, and the benchmark function itself terminates.
ThreadsFairness ==
    WF_vars(MainProgress) /\ \A t \in Threads : WF_vars(ThreadProgress(t))

FairThreadsSpec == ThreadsSpec /\ ThreadsFairness

-----------------------------------------------------------------------------
\* While a thread runs timed iterations every other has reached the start of
\* its loop or has returned (user_guide.md: none starts before all are there).
StartTogether ==
    \A t, u \in Threads : step[t] = "loop" => step[u] \notin {"unborn", "setup"}

\* When a thread runs the code after its loop no other is still in its loop,
\* nor on the way into it.
StopTogether ==
    \A t, u \in Threads :
        step[t] = "finish" => step[u] \notin {"unborn", "setup", "startGate", "loop", "noLoop"}

\* Both gates do what the barrier is there for.
Together == StartTogether /\ StopTogether

\* The start gate and the end gate share one barrier and never mix: all that
\* wait for the open phase wait at the same gate.
GatesAlign ==
    \A t, u \in Arrived : step[t] = step[u]

\* The manager is destroyed only when no thread can touch it any more, and
\* what DoNIterations returns is then complete.
CollectedIsComplete ==
    main = "gone" =>
        /\ \A t \in Threads : step[t] = "done"
        /\ collected.iterations = SumFunction([t \in Threads |-> Iterations(t)])
        /\ collected.real_time_used = SumFunction(real_time_used_)
        /\ (collected.skipped_ = Nobody) = (\A t \in Threads : ~skipped_[t])

\* The inductive invariant, with which the properties above hold for any number
\* of threads.  A passage belongs to one phase: start gates to phase 0, end gates
\* to phase 1; so a thread's place in its function says which phase is open.
InGate(t) == pc[t] \in {"asleep", "awake", "notify"}

PlaceAgrees(t) ==
    /\ step[t] \in {"unborn", "setup"} => pc[t] = "outside" /\ phase_number_ = 0
    /\ step[t] = "startGate" =>
          /\ InGate(t)
          /\ phase_number_ \in {0, 1}
          /\ IF pc[t] = "notify" THEN phase_number_ = 1 ELSE phase_number_cp[t] = 0
    /\ step[t] \in {"loop", "noLoop"} => pc[t] = "outside" /\ phase_number_ = 1
    /\ step[t] = "endGate" =>
          /\ InGate(t)
          /\ phase_number_ \in {1, 2}
          /\ IF pc[t] = "notify" THEN phase_number_ = 2 ELSE phase_number_cp[t] = 1
    /\ step[t] = "finish" => pc[t] = "outside" /\ phase_number_ = 2
    /\ step[t] \in {"returned", "merged"} => pc[t] = "outside"
    /\ step[t] \in {"left", "lastOut", "done"} => pc[t] = "removed"

GatesFollowPhases == \A t \in Threads : PlaceAgrees(t)

\* alive_threads_ counts the threads that have not decremented it.
Alive == {t \in Threads : step[t] \notin {"lastOut", "done"}}
AliveAgrees == alive_threads_ = Cardinality(Alive)

\* No lost wakeup of end_condition_: when nobody is alive and the main thread
\* sleeps, or is about to, the last thread has still to notify.
EndNotified ==
    main \in {"blocking", "asleep"} /\ alive_threads_ = 0 =>
        \E t \in Threads : step[t] = "lastOut"

\* The main thread goes on only after its own share, and joins only when nobody
\* is alive; the manager is destroyed when every thread is done with it.
MainInOrder ==
    /\ main # "run" => step[Main] = "done"
    /\ main = "join" => alive_threads_ = 0
    /\ main = "gone" => \A t \in Threads : step[t] = "done"

\* The totals are those of the threads that have merged, whose own counts no
\* longer change, and what the caller gets is the final totals.
Merged == {t \in Threads : step[t] \in {"merged", "left", "lastOut", "done"}}
ResultsAddUp ==
    /\ results.iterations = SumFunctionOnSet([t \in Threads |-> Iterations(t)], Merged)
    /\ results.real_time_used = SumFunctionOnSet(real_time_used_, Merged)
    /\ (results.skipped_ = Nobody) = (\A t \in Threads : ~skipped_[t])
    /\ main = "gone" => collected = results

ThreadsInv ==
    /\ ThreadsTypeOK
    /\ GatesFollowPhases
    /\ AliveAgrees
    /\ EndNotified
    /\ MainInOrder
    /\ ResultsAddUp

\* The threads use the barrier only as Barrier allows; everything proved of
\* BarrierSpec holds here.
UsesBarrier == BarrierSpec

\* The run ends: no thread stays blocked in the barrier, and the main thread
\* is not left waiting for a notification that has already happened.
RunTerminates == <>(main = "gone")
=============================================================================
