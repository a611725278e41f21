------------------------------- MODULE Barrier -------------------------------
(***************************************************************************)
(* class Barrier of google_benchmark/src/mutex.h: the barrier that starts  *)
(* and stops the threads of one benchmark run together.                    *)
(*                                                                         *)
(* Everything the code does under lock_ is one step.  What it does outside *)
(* of lock_ is a step of its own: the notify_all of wait(), and the moment *)
(* a woken thread takes lock_ again to evaluate its predicate.             *)
(***************************************************************************)
EXTENDS Integers, FiniteSets

CONSTANTS
    Threads,   \* the threads the barrier is constructed for
    MaxPhase   \* bound on phase_number_: no thread waits in a later phase

ASSUME ThreadsAssumption == IsFiniteSet(Threads)
ASSUME MaxPhaseAssumption == MaxPhase \in Nat

VARIABLES
    running_threads_,
    phase_number_,
    entered_,
    pc,                \* where each thread is, see PCs
    phase_number_cp    \* createBarrier's local copy, per thread

barrierVars == <<running_threads_, phase_number_, entered_, pc, phase_number_cp>>

PCs == {"outside",   \* not inside the barrier
        "asleep",    \* blocked on phase_condition_
        "awake",     \* woken, about to take lock_ and test the predicate
        "notify",    \* the last thread: lock_ released, notify_all still to do
        "removed"}   \* has called removeThread()

TypeOK ==
    /\ running_threads_ \in 0 .. Cardinality(Threads)
    /\ entered_ \in 0 .. Cardinality(Threads)
    /\ phase_number_ \in Nat
    /\ pc \in [Threads -> PCs]
    /\ phase_number_cp \in [Threads -> Nat]

BarrierInit ==
    /\ running_threads_ = Cardinality(Threads)
    /\ phase_number_ = 0
    /\ entered_ = 0
    /\ pc = [t \in Threads |-> "outside"]
    /\ phase_number_cp = [t \in Threads |-> 0]

-----------------------------------------------------------------------------
\* phase_condition_.notify_all(): every blocked thread is woken.
Woken(f) == [t \in Threads |-> IF f[t] = "asleep" THEN "awake" ELSE f[t]]

\* Mutant of OpenNextPhase: entered_ keeps its value.
OpenNextPhase_NoReset(t) ==
    /\ phase_number_' = phase_number_ + 1
    /\ pc' = [pc EXCEPT ![t] = "notify"]
    /\ UNCHANGED <<running_threads_, entered_, phase_number_cp>>

\* The tail of createBarrier: the last thread opens the next phase.
OpenNextPhase(t) ==
    /\ phase_number_' = phase_number_ + 1
    /\ entered_' = 0
    /\ pc' = [pc EXCEPT ![t] = "notify"]
    /\ UNCHANGED <<running_threads_, phase_number_cp>>

\* BM_CHECK_LT(entered_, running_threads_); a failure aborts the process.
EntryCheck == entered_ < running_threads_

\* Mutant of LastToEnter: one thread too few is enough.
LastToEnter_OneEarly == ~(entered_ + 1 < running_threads_ - 1)

\* createBarrier tests ++entered_ < running_threads_.
LastToEnter == ~(entered_ + 1 < running_threads_)

\* wait(): the caller is not the last one and blocks.
WaitBlocks(t) ==
    /\ pc[t] = "outside"
    /\ phase_number_ < MaxPhase
    /\ EntryCheck
    /\ ~LastToEnter
    /\ entered_' = entered_ + 1
    /\ pc' = [pc EXCEPT ![t] = "asleep"]
    /\ phase_number_cp' = [phase_number_cp EXCEPT ![t] = phase_number_]
    /\ UNCHANGED <<running_threads_, phase_number_>>

\* wait(): the caller is the last one and opens the next phase.
WaitLast(t) ==
    /\ pc[t] = "outside"
    /\ phase_number_ < MaxPhase
    /\ EntryCheck
    /\ LastToEnter
    /\ OpenNextPhase(t)

Wait(t) == WaitBlocks(t) \/ WaitLast(t)

\* The predicate a waiter tests under lock_.
PhaseOver(t) == phase_number_ > phase_number_cp[t]
MayProceed(t) == PhaseOver(t) \/ entered_ = running_threads_

\* A woken waiter whose phase is over returns false from wait().
Released(t) ==
    /\ pc[t] = "awake"
    /\ PhaseOver(t)
    /\ pc' = [pc EXCEPT ![t] = "outside"]
    /\ UNCHANGED <<running_threads_, phase_number_, entered_, phase_number_cp>>

\* A woken waiter that finds everybody entered becomes the last thread.
BecomesLast(t) ==
    /\ pc[t] = "awake"
    /\ MayProceed(t)
    /\ ~PhaseOver(t)
    /\ OpenNextPhase(t)

\* A woken waiter whose predicate is false blocks again.
BlocksAgain(t) ==
    /\ pc[t] = "awake"
    /\ ~MayProceed(t)
    /\ pc' = [pc EXCEPT ![t] = "asleep"]
    /\ UNCHANGED <<running_threads_, phase_number_, entered_, phase_number_cp>>

Recheck(t) == Released(t) \/ BecomesLast(t) \/ BlocksAgain(t)

\* if (last_thread) phase_condition_.notify_all(); wait() returns true.
NotifyAll(t) ==
    /\ pc[t] = "notify"
    /\ pc' = [Woken(pc) EXCEPT ![t] = "outside"]
    /\ UNCHANGED <<running_threads_, phase_number_, entered_, phase_number_cp>>

\* A condition variable may wake a thread that nobody notified.
SpuriousWake(t) ==
    /\ pc[t] = "asleep"
    /\ pc' = [pc EXCEPT ![t] = "awake"]
    /\ UNCHANGED <<running_threads_, phase_number_, entered_, phase_number_cp>>

Remaining == running_threads_ - 1

\* Mutant of WokenByRemoval: the waiters are not told.
WokenByRemoval_Nobody == pc

\* The waiters are notified, under lock_, when there are any.
WokenByRemoval == IF entered_ # 0 THEN Woken(pc) ELSE pc

\* removeThread()
RemoveThread(t) ==
    /\ pc[t] = "outside"
    /\ running_threads_' = Remaining
    /\ pc' = [WokenByRemoval EXCEPT ![t] = "removed"]
    /\ UNCHANGED <<phase_number_, entered_, phase_number_cp>>

BarrierStep(t) ==
    Wait(t) \/ Recheck(t) \/ NotifyAll(t) \/ SpuriousWake(t) \/ RemoveThread(t)

BarrierNext == \E t \in Threads : BarrierStep(t)

BarrierSpec == BarrierInit /\ [][BarrierNext]_barrierVars

\* The operating system runs every thread that holds or can take lock_.
\* Nothing obliges a thread outside to wait again or to leave.
BarrierFairness ==
    \A t \in Threads : WF_barrierVars(Recheck(t)) /\ WF_barrierVars(NotifyAll(t))

FairBarrierSpec == BarrierSpec /\ BarrierFairness

-----------------------------------------------------------------------------
Waiting(t) == pc[t] \in {"asleep", "awake"}
Live == {t \in Threads : pc[t] # "removed"}
\* The waiters of the phase that is still open.
Arrived == {t \in Threads : Waiting(t) /\ phase_number_cp[t] = phase_number_}
\* The threads of the phase that ended, on their way out of wait().
Leaving == {t \in Threads : (Waiting(t) /\ phase_number_cp[t] < phase_number_)
                            \/ pc[t] = "notify"}

\* The two counters say what the threads are doing: running_threads_ counts
\* those that have not left, entered_ the waiters of the open phase.
CountersAgree ==
    /\ running_threads_ = Cardinality(Live)
    /\ entered_ = Cardinality(Arrived)

\* createBarrier's BM_CHECK_LT never aborts a thread that comes to wait.
EntryCheckHolds == \A t \in Threads : pc[t] = "outside" => EntryCheck

\* A waiter is at most one phase behind: no phase ends before every thread of
\* the phase before it has been through.
NobodyLapped ==
    \A t \in Threads : Waiting(t) => phase_number_cp[t] \in {phase_number_ - 1, phase_number_}

\* No lost wakeup: a blocked thread that could proceed has somebody about to
\* notify it, although wait() notifies only after it has released lock_.
NoLostWakeup ==
    \A t \in Threads :
        pc[t] = "asleep" /\ MayProceed(t) => \E u \in Threads : pc[u] = "notify"

\* The inductive invariant: NoLostWakeup says who must be about to notify, but
\* an aborted phase (entered_ = running_threads_) must have no sleeper at all.
OpenPhaseSleepersCannotProceed ==
    \A t \in Threads :
        pc[t] = "asleep" /\ phase_number_cp[t] = phase_number_ => entered_ < running_threads_

SleeperOfOldPhaseIsNotified ==
    \A t \in Threads :
        pc[t] = "asleep" /\ phase_number_cp[t] # phase_number_
            => \E u \in Threads : pc[u] = "notify"

BarrierInv ==
    /\ TypeOK
    /\ CountersAgree
    /\ NobodyLapped
    /\ OpenPhaseSleepersCannotProceed
    /\ SleeperOfOldPhaseIsNotified

\* Everybody is let out: once a phase has ended, or all that remain have
\* entered, each thread inside the barrier eventually returns from wait().
EveryoneReleased ==
    \A t \in Threads :
        pc[t] = "notify" \/ (Waiting(t) /\ MayProceed(t)) ~> pc[t] = "outside"

Promise == INSTANCE PhaseBarrier
    WITH live <- Live, arrived <- Arrived, leaving <- Leaving

\* The counters, the copy of the phase number and the condition variable
\* together implement the abstract barrier, with its fairness.
RefinesPhaseBarrier == Promise!Spec
=============================================================================
