-------------------------------- MODULE RunProofs --------------------------------
(***************************************************************************)
(* The runs of one benchmark. First the barrier alone: BarrierInv is       *)
(* inductive, for every finite set of threads, and the barrier's safety    *)
(* properties and its refinement of PhaseBarrier follow from it. Then the  *)
(* threads of a run, which use the barrier only as Barrier allows, so that *)
(* what holds of it holds in every run. Last the runner, which starts      *)
(* those runs: the growing search, and what holds of the reports of the    *)
(* repetitions.                                                            *)
(***************************************************************************)
EXTENDS BenchmarkThreads, BenchmarkRunner, FoldLemmas

\* The sets the counters count are finite.
LEMMA CountedSetsFinite ==
    /\ IsFiniteSet(Live) /\ Cardinality(Live) \in Nat
    /\ IsFiniteSet(Arrived) /\ Cardinality(Arrived) \in Nat
    /\ Cardinality(Live) <= Cardinality(Threads)
    /\ Cardinality(Threads) \in Nat
<1>1. Live \in SUBSET Threads /\ Arrived \in SUBSET Threads
  BY DEF Live, Arrived
<1>2. QED
  BY <1>1, ThreadsAssumption, FS_Subset, FS_CardinalityType

\* When one more waiter would make entered_ reach running_threads_, the rest
\* of the live threads are all waiters of the open phase.
LEMMA LastCompletesThePhase ==
    ASSUME BarrierInv, NEW t \in Threads, pc[t] = "outside",
           ~(entered_ + 1 < running_threads_)
    PROVE  Live = Arrived \cup {t}
<1>1. t \notin Arrived /\ Arrived \cup {t} \in SUBSET Live
  BY DEF Arrived, Live, Waiting
<1>2. Cardinality(Arrived \cup {t}) = entered_ + 1
  BY <1>1, CountedSetsFinite, FS_AddElement DEF BarrierInv, CountersAgree
<1>3. Cardinality(Arrived \cup {t}) <= Cardinality(Live)
  BY <1>1, CountedSetsFinite, FS_Subset
<1>4. Cardinality(Arrived \cup {t}) = Cardinality(Live)
  BY <1>2, <1>3, CountedSetsFinite DEF BarrierInv, CountersAgree
<1>5. QED
  BY <1>1, <1>4, CountedSetsFinite, FS_Subset

\* When entered_ = running_threads_ every live thread waits in the open phase.
LEMMA FullPhase ==
    ASSUME BarrierInv, entered_ = running_threads_
    PROVE  Live = Arrived
<1>1. Arrived \in SUBSET Live
  BY DEF Arrived, Live, Waiting
<1>2. QED
  BY <1>1, CountedSetsFinite, FS_Subset DEF BarrierInv, CountersAgree

\* A thread that is not a waiter of the open phase keeps entered_ below
\* running_threads_: the condition BM_CHECK_LT tests.
LEMMA OutsiderLeavesRoom ==
    ASSUME BarrierInv, NEW t \in Threads, pc[t] = "outside"
    PROVE  entered_ < running_threads_
<1>1. t \notin Arrived /\ Arrived \cup {t} \in SUBSET Live
  BY DEF Arrived, Live, Waiting
<1>2. Cardinality(Arrived \cup {t}) = entered_ + 1
  BY <1>1, CountedSetsFinite, FS_AddElement DEF BarrierInv, CountersAgree
<1>3. Cardinality(Arrived \cup {t}) <= Cardinality(Live)
  BY <1>1, CountedSetsFinite, FS_Subset
<1>4. QED
  BY <1>2, <1>3, CountedSetsFinite DEF BarrierInv, CountersAgree, TypeOK

-----------------------------------------------------------------------------
LEMMA InitEstablishesInv == BarrierInit => BarrierInv
<1> SUFFICES ASSUME BarrierInit PROVE BarrierInv
  OBVIOUS
<1>1. Live = Threads /\ Arrived = {}
  BY DEF BarrierInit, Live, Arrived, Waiting
<1>2. Cardinality(Threads) \in Nat
  BY CountedSetsFinite
<1>3. TypeOK
  BY <1>2 DEF BarrierInit, TypeOK, PCs
<1>4. CountersAgree
  BY <1>1, FS_EmptySet DEF BarrierInit, CountersAgree
<1>5. QED
  BY <1>3, <1>4 DEF BarrierInv, BarrierInit, NobodyLapped, Waiting,
     OpenPhaseSleepersCannotProceed, SleeperOfOldPhaseIsNotified

\* Opening the next phase preserves the invariant, whether the last thread is
\* the one that just came or a waiter that found all the others entered.
LEMMA OpenNextPhasePreserves ==
    ASSUME BarrierInv, NEW t \in Threads, OpenNextPhase(t),
           Live = Arrived \cup {t}
    PROVE  BarrierInv'
<1> USE DEF BarrierInv, OpenNextPhase
<1>1. phase_number_ \in Nat /\ phase_number_' = phase_number_ + 1
  BY DEF TypeOK
<1>2. \A u \in Threads : Waiting(u)' => /\ u # t
                                        /\ phase_number_cp'[u] = phase_number_
  BY DEF Waiting, TypeOK, Live, Arrived
<1>3. Live' = Live
  BY DEF Live, TypeOK, Arrived, Waiting
<1>4. Arrived' = {}
  BY <1>1, <1>2 DEF Arrived
<1>5. TypeOK'
  BY CountedSetsFinite DEF TypeOK, PCs
<1>6. CountersAgree'
  BY <1>3, <1>4, FS_EmptySet DEF CountersAgree
<1>7. NobodyLapped'
  BY <1>1, <1>2 DEF NobodyLapped
<1>8. OpenPhaseSleepersCannotProceed'
  BY <1>1, <1>2 DEF OpenPhaseSleepersCannotProceed, Waiting
<1>9. SleeperOfOldPhaseIsNotified'
  BY DEF SleeperOfOldPhaseIsNotified, TypeOK
<1>10. QED
  BY <1>5, <1>6, <1>7, <1>8, <1>9

LEMMA WaitBlocksPreserves ==
    ASSUME BarrierInv, NEW t \in Threads, WaitBlocks(t)
    PROVE  BarrierInv'
<1> USE DEF BarrierInv, WaitBlocks, LastToEnter
<1>1. Live' = Live
  BY DEF Live, TypeOK
<1>2. Arrived' = Arrived \cup {t} /\ t \notin Arrived
  BY DEF Arrived, Waiting, TypeOK
<1>3. TypeOK'
  BY CountedSetsFinite DEF TypeOK, PCs
<1>4. CountersAgree'
  BY <1>1, <1>2, CountedSetsFinite, FS_AddElement DEF CountersAgree
<1>5. NobodyLapped'
  BY DEF NobodyLapped, Waiting, TypeOK
<1>6. OpenPhaseSleepersCannotProceed'
  BY DEF OpenPhaseSleepersCannotProceed, TypeOK
<1>7. SleeperOfOldPhaseIsNotified'
  BY DEF SleeperOfOldPhaseIsNotified, TypeOK
<1>8. QED
  BY <1>3, <1>4, <1>5, <1>6, <1>7

\* The steps that only move a thread between sleep, waking and the outside
\* leave both counters and the phase as they are.
LEMMA ReleasedPreserves ==
    ASSUME BarrierInv, NEW t \in Threads, Released(t)
    PROVE  BarrierInv'
<1> USE DEF BarrierInv, Released
<1>1. Live' = Live /\ Arrived' = Arrived
  BY DEF Live, Arrived, Waiting, TypeOK, PhaseOver
<1>2. TypeOK'
  BY DEF TypeOK, PCs
<1>3. CountersAgree'
  BY <1>1 DEF CountersAgree
<1>4. QED
  BY <1>2, <1>3 DEF NobodyLapped, Waiting, TypeOK,
     OpenPhaseSleepersCannotProceed, SleeperOfOldPhaseIsNotified

LEMMA BlocksAgainPreserves ==
    ASSUME BarrierInv, NEW t \in Threads, BlocksAgain(t)
    PROVE  BarrierInv'
<1> USE DEF BarrierInv, BlocksAgain
<1>1. Live' = Live /\ Arrived' = Arrived
  BY DEF Live, Arrived, Waiting, TypeOK
<1>2. TypeOK'
  BY DEF TypeOK, PCs
<1>3. CountersAgree'
  BY <1>1 DEF CountersAgree
<1>4. NobodyLapped'
  BY DEF NobodyLapped, Waiting, TypeOK
<1>5. entered_ < running_threads_
  <2>1. entered_ # running_threads_
    BY DEF MayProceed
  <2>2. Cardinality(Arrived) <= Cardinality(Live)
    BY CountedSetsFinite, FS_Subset DEF Arrived, Live, Waiting
  <2>3. QED
    BY <2>1, <2>2, CountedSetsFinite DEF CountersAgree
<1>6. phase_number_cp[t] = phase_number_
  BY DEF MayProceed, PhaseOver, NobodyLapped, Waiting, TypeOK
<1>7. OpenPhaseSleepersCannotProceed' /\ SleeperOfOldPhaseIsNotified'
  BY <1>5, <1>6 DEF OpenPhaseSleepersCannotProceed, SleeperOfOldPhaseIsNotified, TypeOK
<1>8. QED
  BY <1>2, <1>3, <1>4, <1>7

LEMMA NotifyAllPreserves ==
    ASSUME BarrierInv, NEW t \in Threads, NotifyAll(t)
    PROVE  BarrierInv'
<1> USE DEF BarrierInv, NotifyAll, Woken
<1>1. Live' = Live /\ Arrived' = Arrived
  BY DEF Live, Arrived, Waiting, TypeOK
<1>2. TypeOK'
  BY DEF TypeOK, PCs
<1>3. CountersAgree'
  BY <1>1 DEF CountersAgree
<1>4. NobodyLapped'
  BY DEF NobodyLapped, Waiting, TypeOK
<1>5. \A u \in Threads : pc'[u] # "asleep"
  BY DEF TypeOK
<1>6. QED
  BY <1>2, <1>3, <1>4, <1>5 DEF OpenPhaseSleepersCannotProceed, SleeperOfOldPhaseIsNotified

LEMMA SpuriousWakePreserves ==
    ASSUME BarrierInv, NEW t \in Threads, SpuriousWake(t)
    PROVE  BarrierInv'
<1> USE DEF BarrierInv, SpuriousWake
<1>1. Live' = Live /\ Arrived' = Arrived
  BY DEF Live, Arrived, Waiting, TypeOK
<1>2. TypeOK'
  BY DEF TypeOK, PCs
<1>3. CountersAgree'
  BY <1>1 DEF CountersAgree
<1>4. QED
  BY <1>2, <1>3 DEF NobodyLapped, Waiting, TypeOK,
     OpenPhaseSleepersCannotProceed, SleeperOfOldPhaseIsNotified

\* The thread that leaves wakes every sleeper of the open phase; when nobody
\* has entered there is none to wake.
LEMMA RemoveThreadPreserves ==
    ASSUME BarrierInv, NEW t \in Threads, RemoveThread(t)
    PROVE  BarrierInv'
<1> USE DEF BarrierInv, RemoveThread, Remaining, WokenByRemoval
<1>1. Live' = Live \ {t} /\ t \in Live /\ Arrived' = Arrived
  BY DEF Live, Arrived, Waiting, TypeOK, Woken
<1>2. entered_ < running_threads_
  BY OutsiderLeavesRoom
<1>3. TypeOK'
  BY <1>2, CountedSetsFinite DEF TypeOK, PCs, Woken
<1>4. CountersAgree'
  BY <1>1, CountedSetsFinite, FS_RemoveElement DEF CountersAgree
<1>5. NobodyLapped'
  BY DEF NobodyLapped, Waiting, TypeOK, Woken
<1>6. OpenPhaseSleepersCannotProceed' /\ SleeperOfOldPhaseIsNotified'
  <2>1. CASE entered_ # 0
    <3>1. \A u \in Threads : pc'[u] # "asleep"
      BY <2>1 DEF TypeOK, Woken
    <3>2. QED
      BY <3>1 DEF OpenPhaseSleepersCannotProceed, SleeperOfOldPhaseIsNotified
  <2>2. CASE entered_ = 0
    <3>1. Arrived = {}
      BY <2>2, CountedSetsFinite, FS_EmptySet DEF CountersAgree
    <3>2. \A u \in Threads : pc[u] = "asleep" => phase_number_cp[u] # phase_number_
      BY <3>1 DEF Arrived, Waiting
    <3>3. QED
      BY <2>2, <3>2 DEF OpenPhaseSleepersCannotProceed, SleeperOfOldPhaseIsNotified, TypeOK
  <2>3. QED
    BY <2>1, <2>2
<1>7. QED
  BY <1>3, <1>4, <1>5, <1>6

-----------------------------------------------------------------------------
LEMMA StepPreservesInv ==
    ASSUME BarrierInv, [BarrierNext]_barrierVars
    PROVE  BarrierInv'
<1>1. CASE UNCHANGED barrierVars
  BY <1>1 DEF barrierVars, BarrierInv, TypeOK, CountersAgree, NobodyLapped, Waiting, Live,
     Arrived, OpenPhaseSleepersCannotProceed, SleeperOfOldPhaseIsNotified
<1>2. ASSUME NEW t \in Threads, BarrierStep(t) PROVE BarrierInv'
  <2>1. CASE WaitBlocks(t)
    BY <2>1, WaitBlocksPreserves
  <2>2. CASE WaitLast(t)
    BY <2>2, LastCompletesThePhase, OpenNextPhasePreserves DEF WaitLast, LastToEnter
  <2>3. CASE Released(t)
    BY <2>3, ReleasedPreserves
  <2>4. CASE BecomesLast(t)
    <3>1. entered_ = running_threads_
      BY <2>4 DEF BecomesLast, MayProceed
    <3>2. Live = Arrived \cup {t}
      BY <2>4, <3>1, FullPhase DEF BecomesLast, Live
    <3>3. QED
      BY <2>4, <3>2, OpenNextPhasePreserves DEF BecomesLast
  <2>5. CASE BlocksAgain(t)
    BY <2>5, BlocksAgainPreserves
  <2>6. CASE NotifyAll(t)
    BY <2>6, NotifyAllPreserves
  <2>7. CASE SpuriousWake(t)
    BY <2>7, SpuriousWakePreserves
  <2>8. CASE RemoveThread(t)
    BY <2>8, RemoveThreadPreserves
  <2>9. QED
    BY <1>2, <2>1, <2>2, <2>3, <2>4, <2>5, <2>6, <2>7, <2>8 DEF BarrierStep, Wait, Recheck
<1>3. QED
  BY <1>1, <1>2 DEF BarrierNext

\* The inductive invariant holds in every reachable state of the barrier.
THEOREM BarrierInvariance == BarrierSpec => []BarrierInv
<1>1. BarrierInit => BarrierInv
  BY InitEstablishesInv
<1>2. BarrierInv /\ [BarrierNext]_barrierVars => BarrierInv'
  BY StepPreservesInv
<1>3. QED
  BY <1>1, <1>2, PTL DEF BarrierSpec

\* Type correctness of the barrier's fields and of the threads' positions.
THEOREM BarrierTypeCorrect == BarrierSpec => []TypeOK
<1>1. BarrierInv => TypeOK
  BY DEF BarrierInv
<1>2. QED
  BY <1>1, BarrierInvariance, PTL

\* running_threads_ and entered_ count what they are meant to count.
THEOREM BarrierCountersAgree == BarrierSpec => []CountersAgree
<1>1. BarrierInv => CountersAgree
  BY DEF BarrierInv
<1>2. QED
  BY <1>1, BarrierInvariance, PTL

\* The BM_CHECK_LT at the top of createBarrier never fires.
THEOREM BarrierCheckNeverFires == BarrierSpec => []EntryCheckHolds
<1>1. BarrierInv => EntryCheckHolds
  BY OutsiderLeavesRoom DEF EntryCheckHolds, EntryCheck
<1>2. QED
  BY <1>1, BarrierInvariance, PTL

\* No thread is ever two phases behind the barrier.
THEOREM BarrierNobodyLapped == BarrierSpec => []NobodyLapped
<1>1. BarrierInv => NobodyLapped
  BY DEF BarrierInv
<1>2. QED
  BY <1>1, BarrierInvariance, PTL

\* No thread sleeps with a true predicate unless its notification is on the way.
THEOREM BarrierNoLostWakeup == BarrierSpec => []NoLostWakeup
<1>1. BarrierInv => NoLostWakeup
  <2> SUFFICES ASSUME BarrierInv, NEW t \in Threads, pc[t] = "asleep", MayProceed(t)
               PROVE  \E u \in Threads : pc[u] = "notify"
    BY DEF NoLostWakeup
  <2>1. phase_number_cp[t] # phase_number_
    <3> SUFFICES ASSUME phase_number_cp[t] = phase_number_ PROVE FALSE
      OBVIOUS
    <3>1. ~PhaseOver(t)
      BY DEF PhaseOver, BarrierInv, TypeOK
    <3>2. entered_ = running_threads_
      BY <3>1 DEF MayProceed
    <3>3. entered_ < running_threads_
      BY DEF BarrierInv, OpenPhaseSleepersCannotProceed
    <3>4. QED
      BY <3>2, <3>3 DEF BarrierInv, TypeOK
  <2>2. QED
    BY <2>1 DEF BarrierInv, SleeperOfOldPhaseIsNotified
<1>2. QED
  BY <1>1, BarrierInvariance, PTL
-----------------------------------------------------------------------------
\* Where the abstract barrier sees a thread that is outside the concrete one.
LEMMA OutsideMapsToOutside ==
    ASSUME NEW t \in Threads, pc[t] = "outside"
    PROVE  t \in Promise!Outside
BY DEF Promise!Outside, Live, Arrived, Leaving, Waiting

\* Opening the next phase is the abstract end of a phase: the waiters and the
\* last thread all become threads on their way out.
LEMMA OpenNextPhaseLetsAllGo ==
    ASSUME BarrierInv, NEW t \in Threads, OpenNextPhase(t),
           Live = Arrived \cup {t}
    PROVE  Live' = Live /\ Arrived' = {} /\ Leaving' = Live
<1> USE DEF BarrierInv, OpenNextPhase
<1>1. phase_number_ \in Nat /\ phase_number_' = phase_number_ + 1
  BY DEF TypeOK
<1>2. \A u \in Threads : Waiting(u)' => /\ u # t
                                        /\ phase_number_cp'[u] = phase_number_
  BY DEF Waiting, TypeOK, Live, Arrived
<1>3. Live' = Live
  BY DEF Live, TypeOK, Arrived, Waiting
<1>4. Arrived' = {}
  BY <1>1, <1>2 DEF Arrived
<1>5. Leaving' \subseteq Live'
  BY DEF Leaving, Live, Waiting
<1>6. Live' \subseteq Leaving'
  <2> SUFFICES ASSUME NEW u \in Live PROVE u \in Leaving'
    BY <1>3
  <2>1. CASE u = t
    BY <2>1 DEF Leaving, TypeOK
  <2>2. CASE u # t
    <3>1. u \in Arrived /\ u \in Threads
      BY <2>2 DEF Live
    <3>2. Waiting(u)'
      BY <2>2, <3>1 DEF Arrived, Waiting, TypeOK
    <3>3. QED
      BY <1>1, <1>2, <3>1, <3>2 DEF Leaving
  <2>3. QED
    BY <2>1, <2>2
<1>7. QED
  BY <1>3, <1>4, <1>5, <1>6

\* Every step of the barrier is a step of the abstract barrier or leaves it
\* unchanged.
LEMMA StepRefines ==
    ASSUME BarrierInv, [BarrierNext]_barrierVars
    PROVE  [Promise!Next]_(Promise!vars)
<1> USE DEF BarrierInv
<1>1. CASE UNCHANGED barrierVars
  BY <1>1 DEF barrierVars, Promise!vars, Live, Arrived, Leaving, Waiting
<1>2. ASSUME NEW t \in Threads, BarrierStep(t) PROVE [Promise!Next]_(Promise!vars)
  <2>1. CASE WaitBlocks(t)
    <3>1. t \in Promise!Outside
      BY <2>1, OutsideMapsToOutside DEF WaitBlocks, LastToEnter
    <3>2. Live' = Live /\ Leaving' = Leaving /\ Arrived' = Arrived \cup {t} /\ t \notin Arrived
      BY <2>1 DEF WaitBlocks, LastToEnter, Live, Leaving, Arrived, Waiting, TypeOK
    <3>3. Cardinality(Arrived \cup {t}) = entered_ + 1
      BY <3>2, CountedSetsFinite, FS_AddElement DEF CountersAgree
    <3>4. Arrived \cup {t} # Live
      BY <2>1, <3>3, CountedSetsFinite DEF WaitBlocks, LastToEnter, CountersAgree
    <3>5. Promise!Arrive(t)
      BY <3>1, <3>2, <3>4 DEF Promise!Arrive
    <3>6. QED
      BY <3>5 DEF Promise!Next, Promise!Step
  <2>2. CASE WaitLast(t)
    <3>1. t \in Promise!Outside
      BY <2>2, OutsideMapsToOutside DEF WaitLast, LastToEnter
    <3>2. Live = Arrived \cup {t}
      BY <2>2, LastCompletesThePhase DEF WaitLast, LastToEnter
    <3>3. Promise!ArriveLast(t)
      BY <2>2, <3>1, <3>2, OpenNextPhaseLetsAllGo DEF WaitLast, LastToEnter, Promise!ArriveLast
    <3>4. QED
      BY <3>3 DEF Promise!Next, Promise!Step
  <2>3. CASE Released(t)
    <3>1. Live' = Live /\ Arrived' = Arrived
      BY <2>3 DEF Released, PhaseOver, Live, Arrived, Waiting, TypeOK
    <3>2. t \in Leaving /\ Leaving' = Leaving \ {t}
      BY <2>3 DEF Released, PhaseOver, Leaving, Waiting, TypeOK
    <3>3. Promise!Return(t)
      BY <3>1, <3>2 DEF Promise!Return
    <3>4. QED
      BY <3>3 DEF Promise!Next, Promise!Step
  <2>4. CASE BecomesLast(t)
    <3>1. Live = Arrived
      BY <2>4, FullPhase DEF BecomesLast, MayProceed
    <3>2. t \in Live
      BY <2>4 DEF BecomesLast, Live
    <3>3. Promise!Trip
      BY <2>4, <3>1, <3>2, OpenNextPhaseLetsAllGo DEF BecomesLast, Promise!Trip
    <3>4. QED
      BY <3>3 DEF Promise!Next
  <2>5. CASE BlocksAgain(t)
    BY <2>5 DEF BlocksAgain, Promise!vars, Live, Arrived, Leaving, Waiting, TypeOK
  <2>6. CASE NotifyAll(t)
    <3>1. Live' = Live /\ Arrived' = Arrived
      BY <2>6 DEF NotifyAll, Woken, Live, Arrived, Waiting, TypeOK
    <3>2. t \in Leaving /\ Leaving' = Leaving \ {t}
      BY <2>6 DEF NotifyAll, Woken, Leaving, Waiting, TypeOK
    <3>3. Promise!Return(t)
      BY <3>1, <3>2 DEF Promise!Return
    <3>4. QED
      BY <3>3 DEF Promise!Next, Promise!Step
  <2>7. CASE SpuriousWake(t)
    BY <2>7 DEF SpuriousWake, Promise!vars, Live, Arrived, Leaving, Waiting, TypeOK
  <2>8. CASE RemoveThread(t)
    <3>1. t \in Promise!Outside
      BY <2>8, OutsideMapsToOutside DEF RemoveThread, Remaining, WokenByRemoval
    <3>2. Live' = Live \ {t} /\ Arrived' = Arrived /\ Leaving' = Leaving
      BY <2>8 DEF RemoveThread, Remaining, WokenByRemoval, Woken, Live, Arrived, Leaving, Waiting, TypeOK
    <3>3. Promise!Depart(t)
      BY <3>1, <3>2 DEF Promise!Depart
    <3>4. QED
      BY <3>3 DEF Promise!Next, Promise!Step
  <2>9. QED
    BY <1>2, <2>1, <2>2, <2>3, <2>4, <2>5, <2>6, <2>7, <2>8 DEF BarrierStep, Wait, Recheck
<1>3. QED
  BY <1>1, <1>2 DEF BarrierNext

\* The barrier implements the safety part of the abstract barrier.
THEOREM BarrierRefinement == BarrierSpec => Promise!Safe
<1>1. BarrierInit => Promise!Init
  BY DEF BarrierInit, Promise!Init, Live, Arrived, Leaving, Waiting
<1>2. BarrierInv /\ [BarrierNext]_barrierVars => [Promise!Next]_(Promise!vars)
  BY StepRefines
<1>3. QED
  BY <1>1, <1>2, BarrierInvariance, PTL DEF BarrierSpec, Promise!Safe

-----------------------------------------------------------------------------
(* The threads of one run. *)

\* A step of a thread is a step of the barrier or leaves it alone.
LEMMA ThreadStepMaps ==
    ASSUME NEW t \in Threads, ThreadStep(t)
    PROVE  BarrierStep(t) \/ UNCHANGED barrierVars
<1>1. CASE Spawn(t) \/ Skip(t) \/ ReturnEarly(t) \/ Return(t) \/ Merge(t)
           \/ DecrementAlive(t) \/ NotifyEnd(t)
  BY <1>1 DEF Spawn, Skip, ReturnEarly, Return, Merge, DecrementAlive, NotifyEnd
<1>2. CASE StartKeepRunning(t) \/ FinishKeepRunning(t)
  BY <1>2 DEF StartKeepRunning, FinishKeepRunning, BarrierStep
<1>3. CASE EnterLoop(t) \/ LeaveLoop(t)
  BY <1>3 DEF EnterLoop, LeaveLoop, BarrierStep, Recheck
<1>4. CASE InsideBarrier(t)
  BY <1>4 DEF InsideBarrier, BarrierStep, Recheck
<1>5. CASE LeaveBarrier(t)
  BY <1>5 DEF LeaveBarrier, BarrierStep
<1>6. QED
  BY <1>1, <1>2, <1>3, <1>4, <1>5 DEF ThreadStep

\* The main thread never touches the barrier outside of its own RunInThread.
LEMMA MainStepMaps ==
    ASSUME MainStep \/ Finished
    PROVE  UNCHANGED barrierVars
BY DEF MainStep, MainProgress, MainLocks, MainFindsAllDone, MainFindsSomeAlive, MainBlocks,
       MainSpuriousWake, MainCollects, Finished, MainGoes, vars

\* UsesBarrier, for every set of threads: StartKeepRunning, FinishKeepRunning
\* and NotifyThreadComplete call the barrier only where Barrier allows it.
THEOREM ThreadsUseBarrier == ThreadsSpec => UsesBarrier
<1>1. ThreadsInit => BarrierInit
  BY DEF ThreadsInit
<1>2. ASSUME [ThreadsNext]_vars PROVE [BarrierNext]_barrierVars
  <2>1. CASE ThreadsNext
    BY <2>1, ThreadStepMaps, MainStepMaps DEF ThreadsNext, BarrierNext
  <2>2. CASE UNCHANGED vars
    BY <2>2 DEF vars
  <2>3. QED
    BY <1>2, <2>1, <2>2
<1>3. QED
  BY <1>1, <1>2, PTL DEF ThreadsSpec, UsesBarrier, BarrierSpec

\* In every run of a benchmark no thread sleeps in the barrier that could go
\* on and that nobody is about to wake: skips, early returns and leaving
\* threads included.
THEOREM ThreadsNoLostWakeup == ThreadsSpec => []NoLostWakeup
BY ThreadsUseBarrier, BarrierNoLostWakeup DEF UsesBarrier

\* In every run of a benchmark BM_CHECK_LT(entered_, running_threads_) holds
\* whenever a thread comes to its gate.
THEOREM ThreadsCheckNeverFires == ThreadsSpec => []EntryCheckHolds
BY ThreadsUseBarrier, BarrierCheckNeverFires DEF UsesBarrier

-----------------------------------------------------------------------------
(* ThreadsInv is inductive. *)

LEMMA ThreadsInitEstablishesInv == ThreadsInit => ThreadsInv
<1> SUFFICES ASSUME ThreadsInit PROVE ThreadsInv
  OBVIOUS
<1>1. BarrierInv
  BY InitEstablishesInv DEF ThreadsInit
<1>2. Cardinality(Threads) \in Nat /\ Alive = Threads
  BY CountedSetsFinite DEF ThreadsInit, Alive
<1>3. ThreadsTypeOK
  BY <1>1, <1>2 DEF BarrierInv, ThreadsInit, ThreadsTypeOK, Steps, MainSteps, Totals, NoTotals
<1>4. GatesFollowPhases
  BY DEF ThreadsInit, BarrierInit, GatesFollowPhases, PlaceAgrees
<1>5. ResultsAddUp
  <2>1. Merged = {}
    BY DEF ThreadsInit, Merged
  <2>2. QED
    BY <2>1, SumOfEmpty, MainAssumption DEF ThreadsInit, ResultsAddUp, NoTotals
<1>6. QED
  BY <1>2, <1>3, <1>4, <1>5 DEF ThreadsInit, ThreadsInv, AliveAgrees, EndNotified, MainInOrder

\* Only DecrementAlive changes alive_threads_, and it finds the thread counted.
LEMMA DecrementKeepsCount ==
    ASSUME ThreadsInv, NEW t \in Threads, DecrementAlive(t)
    PROVE  AliveAgrees' /\ alive_threads_' \in 0 .. Cardinality(Threads)
<1>1. t \in Alive /\ IsFiniteSet(Alive) /\ Alive \in SUBSET Threads
  BY ThreadsAssumption, FS_Subset DEF DecrementAlive, Alive
<1>2. Alive' = Alive \ {t}
  BY DEF DecrementAlive, GoTo, Alive, ThreadsInv, ThreadsTypeOK
<1>3. Cardinality(Alive') = Cardinality(Alive) - 1
  BY <1>1, <1>2, FS_RemoveElement
<1>4. Cardinality(Alive') \in Nat
  BY <1>1, <1>2, FS_RemoveElement, FS_CardinalityType
<1>5. alive_threads_' = alive_threads_ - 1
  BY DEF DecrementAlive, StillAlive
<1>6. QED
  BY <1>3, <1>4, <1>5, CountedSetsFinite DEF ThreadsInv, ThreadsTypeOK, AliveAgrees

LEMMA StopTimerTypes ==
    ASSUME ThreadsTypeOK, NEW t \in Threads, \E d \in Durations : StopTimer(t, d)
    PROVE  running_' \in [Threads -> BOOLEAN] /\ real_time_used_' \in [Threads -> Nat]
<1>1. PICK d \in Durations : StopTimer(t, d)
  OBVIOUS
<1>2. d \in Nat /\ real_time_used_[t] + d \in Nat
  BY ItersAssumption DEF ThreadsTypeOK
<1>3. QED
  BY <1>1, <1>2 DEF StopTimer, ThreadsTypeOK

LEMMA TypesPreserved ==
    ASSUME ThreadsInv, TypeOK', NEW t \in Threads, ThreadStep(t)
    PROVE  ThreadsTypeOK'
<1> USE DEF ThreadsInv, ThreadsTypeOK, Steps, GoTo
<1>1. CASE Spawn(t) \/ ReturnEarly(t) \/ Return(t)
  BY <1>1 DEF Spawn, ReturnEarly, Return
<1>2. CASE Skip(t)
  <2>1. results' \in Totals
    BY <1>2 DEF Skip, RecordSkip, Totals
  <2>2. running_' \in [Threads -> BOOLEAN] /\ real_time_used_' \in [Threads -> Nat]
    BY <1>2, StopTimerTypes DEF Skip, TimerOnSkip
  <2>3. QED
    BY <1>2, <2>1, <2>2 DEF Skip
<1>3. CASE StartKeepRunning(t)
  BY <1>3 DEF StartKeepRunning
<1>4. CASE EnterLoop(t)
  BY <1>4 DEF EnterLoop
<1>5. CASE FinishKeepRunning(t)
  <2>1. running_' \in [Threads -> BOOLEAN] /\ real_time_used_' \in [Threads -> Nat]
    BY <1>5, StopTimerTypes DEF FinishKeepRunning
  <2>2. QED
    BY <1>5, <2>1 DEF FinishKeepRunning
<1>6. CASE LeaveLoop(t)
  BY <1>6 DEF LeaveLoop
<1>7. CASE InsideBarrier(t)
  BY <1>7 DEF InsideBarrier, runVars
<1>8. CASE Merge(t)
  <2>1. Iterations(t) \in Nat
    BY ItersAssumption DEF Iterations
  <2>2. results.iterations + Iterations(t) \in Nat
        /\ results.real_time_used + real_time_used_[t] \in Nat
    BY <2>1 DEF Totals
  <2>3. results' \in Totals
    BY <1>8, <2>2 DEF Merge, Totals
  <2>4. QED
    BY <1>8, <2>3 DEF Merge
<1>9. CASE LeaveBarrier(t)
  BY <1>9 DEF LeaveBarrier
<1>10. CASE DecrementAlive(t)
  BY <1>10, DecrementKeepsCount DEF DecrementAlive
<1>11. CASE NotifyEnd(t)
  BY <1>11 DEF NotifyEnd, MainSteps
<1>12. QED
  BY <1>1, <1>2, <1>3, <1>4, <1>5, <1>6, <1>7, <1>8, <1>9, <1>10, <1>11 DEF ThreadStep

LEMMA CountPreserved ==
    ASSUME ThreadsInv, NEW t \in Threads, ThreadStep(t)
    PROVE  AliveAgrees'
<1>1. CASE DecrementAlive(t)
  BY <1>1, DecrementKeepsCount
<1>2. CASE ~DecrementAlive(t)
  <2>1. alive_threads_' = alive_threads_
    BY <1>2 DEF ThreadStep, Spawn, Skip, ReturnEarly, StartKeepRunning, EnterLoop,
       FinishKeepRunning, LeaveLoop, InsideBarrier, runVars, Return, Merge,
       LeaveBarrier, NotifyEnd
  <2>2. Alive' = Alive
    BY <1>2 DEF ThreadStep, Spawn, Skip, ReturnEarly, StartKeepRunning, EnterLoop,
       FinishKeepRunning, LeaveLoop, InsideBarrier, runVars, Return, Merge,
       LeaveBarrier, NotifyEnd, GoTo, Alive, ThreadsInv, ThreadsTypeOK
  <2>3. QED
    BY <2>1, <2>2 DEF AliveAgrees, ThreadsInv
<1>3. QED
  BY <1>1, <1>2

-----------------------------------------------------------------------------
(* Gates follow phases. *)

\* Opening a phase finds everybody else at the gate of the caller, or gone.
LEMMA OpeningKeepsPlaces ==
    ASSUME ThreadsInv, BarrierInv, NEW t \in Threads, NEW s,
           OpenNextPhase(t), Live = Arrived \cup {t}, GoTo(t, s),
           \/ phase_number_ = 0 /\ s = "startGate"
           \/ phase_number_ = 1 /\ s = "endGate"
    PROVE  GatesFollowPhases'
<1> USE DEF ThreadsInv, ThreadsTypeOK, TypeOK, OpenNextPhase, GoTo, PlaceAgrees, InGate
<1> SUFFICES ASSUME NEW u \in Threads PROVE PlaceAgrees(u)'
  BY DEF GatesFollowPhases
<1>1. CASE u = t
  BY <1>1
<1>2. CASE u # t
  <2>1. pc[u] = "removed" \/ (Waiting(u) /\ phase_number_cp[u] = phase_number_)
    BY <1>2 DEF Live, Arrived
  <2>2. step'[u] = step[u] /\ pc'[u] = pc[u] /\ phase_number_cp' = phase_number_cp
    BY <1>2
  <2>3. PlaceAgrees(u)
    BY DEF GatesFollowPhases
  <2>4. QED
    BY <2>1, <2>2, <2>3 DEF Waiting
<1>3. QED
  BY <1>1, <1>2

\* wait() keeps the places, when it is called at the gate of the open phase.
LEMMA WaitKeepsPlaces ==
    ASSUME ThreadsInv, BarrierInv, NEW t \in Threads, NEW s, Wait(t), GoTo(t, s),
           \/ phase_number_ = 0 /\ s = "startGate"
           \/ phase_number_ = 1 /\ s = "endGate"
    PROVE  GatesFollowPhases'
<1>1. CASE WaitBlocks(t)
  BY <1>1 DEF WaitBlocks, ThreadsInv, ThreadsTypeOK, TypeOK, GoTo, PlaceAgrees,
     InGate, GatesFollowPhases
<1>2. CASE WaitLast(t)
  <2>1. Live = Arrived \cup {t}
    BY <1>2, LastCompletesThePhase DEF WaitLast, LastToEnter
  <2>2. QED
    BY <1>2, <2>1, OpeningKeepsPlaces DEF WaitLast
<1>3. QED
  BY <1>1, <1>2 DEF Wait

\* Returning from wait() finds the phase of the gate over.
LEMMA ReturnKeepsPlaces ==
    ASSUME ThreadsInv, BarrierInv, NEW t \in Threads, NEW s,
           Released(t) \/ NotifyAll(t), GoTo(t, s),
           \/ step[t] = "startGate" /\ s \in {"loop", "noLoop"}
           \/ step[t] = "endGate" /\ s = "finish"
    PROVE  GatesFollowPhases'
<1> USE DEF ThreadsInv, ThreadsTypeOK, TypeOK, GoTo, PlaceAgrees, InGate, GatesFollowPhases
<1>1. CASE Released(t)
  BY <1>1 DEF Released, PhaseOver
<1>2. CASE NotifyAll(t)
  BY <1>2 DEF NotifyAll, Woken
<1>3. QED
  BY <1>1, <1>2

LEMMA InsideKeepsPlaces ==
    ASSUME ThreadsInv, BarrierInv, NEW t \in Threads, InsideBarrier(t)
    PROVE  GatesFollowPhases'
<1> USE DEF ThreadsInv, ThreadsTypeOK, InsideBarrier, runVars
<1>1. CASE BecomesLast(t)
  <2>1. phase_number_cp[t] \in Nat /\ phase_number_ \in Nat
    BY DEF TypeOK
  <2>2. entered_ = running_threads_ /\ pc[t] = "awake" /\ phase_number_ <= phase_number_cp[t]
    BY <1>1, <2>1 DEF BecomesLast, MayProceed, PhaseOver
  <2>3. Live = Arrived \cup {t}
    BY <2>2, FullPhase, CountedSetsFinite DEF Live
  <2>4. PlaceAgrees(t)
    BY DEF GatesFollowPhases
  <2>5. \/ phase_number_ = 0 /\ step[t] = "startGate"
        \/ phase_number_ = 1 /\ step[t] = "endGate"
    BY <2>1, <2>2, <2>4 DEF PlaceAgrees, Steps
  <2>6. GoTo(t, step[t])
    BY DEF GoTo
  <2>7. OpenNextPhase(t)
    BY <1>1 DEF BecomesLast
  <2>8. QED
    BY <2>3, <2>5, <2>6, <2>7, OpeningKeepsPlaces
<1>2. CASE BlocksAgain(t) \/ SpuriousWake(t)
  BY <1>2 DEF BlocksAgain, SpuriousWake, TypeOK, PlaceAgrees, InGate, GatesFollowPhases
<1>3. QED
  BY <1>1, <1>2

LEMMA LeavingKeepsPlaces ==
    ASSUME ThreadsInv, NEW t \in Threads, LeaveBarrier(t)
    PROVE  GatesFollowPhases'
BY DEF LeaveBarrier, RemoveThread, WokenByRemoval, Woken, ThreadsInv, ThreadsTypeOK,
       TypeOK, GoTo, PlaceAgrees, InGate, GatesFollowPhases

LEMMA PlacesPreserved ==
    ASSUME ThreadsInv, BarrierInv, NEW t \in Threads, ThreadStep(t)
    PROVE  GatesFollowPhases'
<1>1. CASE Spawn(t) \/ ReturnEarly(t) \/ Return(t) \/ Merge(t) \/ DecrementAlive(t)
           \/ NotifyEnd(t)
  BY <1>1 DEF Spawn, ReturnEarly, Return, Merge, DecrementAlive, NotifyEnd, barrierVars,
     ThreadsInv, ThreadsTypeOK, GoTo, PlaceAgrees, InGate, GatesFollowPhases
<1>2. CASE Skip(t)
  BY <1>2 DEF Skip, barrierVars, ThreadsInv, PlaceAgrees, InGate, GatesFollowPhases
<1>3. CASE StartKeepRunning(t)
  <2>1. phase_number_ = 0
    BY <1>3 DEF StartKeepRunning, ThreadsInv, GatesFollowPhases, PlaceAgrees
  <2>2. QED
    BY <1>3, <2>1, WaitKeepsPlaces DEF StartKeepRunning
<1>4. CASE EnterLoop(t)
  BY <1>4, ReturnKeepsPlaces DEF EnterLoop
<1>5. CASE FinishKeepRunning(t)
  <2>1. phase_number_ = 1
    BY <1>5 DEF FinishKeepRunning, ThreadsInv, GatesFollowPhases, PlaceAgrees
  <2>2. QED
    BY <1>5, <2>1, WaitKeepsPlaces DEF FinishKeepRunning
<1>6. CASE LeaveLoop(t)
  BY <1>6, ReturnKeepsPlaces DEF LeaveLoop
<1>7. CASE InsideBarrier(t)
  BY <1>7, InsideKeepsPlaces
<1>8. CASE LeaveBarrier(t)
  BY <1>8, LeavingKeepsPlaces
<1>9. QED
  BY <1>1, <1>2, <1>3, <1>4, <1>5, <1>6, <1>7, <1>8 DEF ThreadStep

-----------------------------------------------------------------------------
(* The totals. *)

\* A thread adds its own counts to the totals once, when it merges.
LEMMA MergeKeepsTotals ==
    ASSUME ThreadsInv, NEW t \in Threads, Merge(t)
    PROVE  ResultsAddUp'
<1> DEFINE its == [u \in Threads |-> Iterations(u)]
<1>1. step[t] = "returned" /\ t \notin Merged /\ Merged' = Merged \cup {t}
  BY DEF Merge, GoTo, Merged, ThreadsInv, ThreadsTypeOK
<1>2. IsFiniteSet(Merged) /\ Merged \in SUBSET Threads
  BY ThreadsAssumption, FS_Subset DEF Merged
<1>3. its \in [Threads -> Nat] /\ its' = its /\ real_time_used_' = real_time_used_
  BY ItersAssumption DEF Iterations, Merge
<1>4. results'.iterations = results.iterations + its[t]
      /\ results'.real_time_used = results.real_time_used + real_time_used_[t]
      /\ results'.skipped_ = results.skipped_
  BY DEF Merge, ThreadsInv, ThreadsTypeOK, Totals
<1>5. results.iterations \in Nat /\ results.real_time_used \in Nat
      /\ real_time_used_ \in [Threads -> Nat]
  BY DEF ThreadsInv, ThreadsTypeOK, Totals
<1>6. results.iterations = SumFunctionOnSet(its, Merged)
      /\ results.real_time_used = SumFunctionOnSet(real_time_used_, Merged)
  BY DEF ThreadsInv, ResultsAddUp
<1>7. results'.iterations = SumFunctionOnSet(its', Merged')
      /\ results'.real_time_used = SumFunctionOnSet(real_time_used_', Merged')
  <2> HIDE DEF its
  <2>1. SumFunctionOnSet(its, Merged \cup {t}) = its[t] + SumFunctionOnSet(its, Merged)
    BY <1>1, <1>2, <1>3, SumAdd
  <2>2. SumFunctionOnSet(real_time_used_, Merged \cup {t})
            = real_time_used_[t] + SumFunctionOnSet(real_time_used_, Merged)
    BY <1>1, <1>2, <1>5, SumAdd
  <2>3. its[t] \in Nat /\ real_time_used_[t] \in Nat
    BY <1>3, <1>5
  <2>4. QED
    BY <1>1, <1>3, <1>4, <1>5, <1>6, <2>1, <2>2, <2>3
<1>8. main # "gone" /\ main' = main /\ skipped_' = skipped_
  BY <1>1 DEF Merge, ThreadsInv, MainInOrder
<1>9. QED
  BY <1>4, <1>7, <1>8 DEF ResultsAddUp, ThreadsInv

\* Nothing a thread does changes the counts of a thread that has merged.
LEMMA MergedCountsKept ==
    ASSUME ThreadsInv, NEW t \in Threads, ThreadStep(t)
    PROVE  \A u \in Merged : Iterations(u)' = Iterations(u)
                             /\ real_time_used_'[u] = real_time_used_[u]
<1> USE DEF Merged, Iterations, ThreadsInv, ThreadsTypeOK
<1>1. CASE Skip(t)
  BY <1>1 DEF Skip, TimerOnSkip, StopTimer
<1>2. CASE StartKeepRunning(t)
  BY <1>2 DEF StartKeepRunning
<1>3. CASE FinishKeepRunning(t)
  BY <1>3 DEF FinishKeepRunning, StopTimer
<1>4. CASE ~Skip(t) /\ ~StartKeepRunning(t) /\ ~FinishKeepRunning(t)
  BY <1>4 DEF ThreadStep, Spawn, ReturnEarly, EnterLoop, LeaveLoop, InsideBarrier,
     runVars, Return, Merge, LeaveBarrier, DecrementAlive, NotifyEnd
<1>5. QED
  BY <1>1, <1>2, <1>3, <1>4

\* The totals' skip record says whether a thread has skipped.
LEMMA SkipRecorded ==
    ASSUME ThreadsInv, NEW t \in Threads, Skip(t)
    PROVE  /\ results'.skipped_ # Nobody /\ ~ \A u \in Threads : ~skipped_'[u]
           /\ results'.iterations = results.iterations
           /\ results'.real_time_used = results.real_time_used
           /\ main # "gone" /\ main' = main
BY MainAssumption DEF Skip, RecordSkip, ThreadsInv, ThreadsTypeOK, Totals, MainInOrder

LEMMA ResultsPreserved ==
    ASSUME ThreadsInv, ThreadsTypeOK', NEW t \in Threads, ThreadStep(t)
    PROVE  ResultsAddUp'
<1> DEFINE its == [u \in Threads |-> Iterations(u)]
<1>1. CASE Merge(t)
  BY <1>1, MergeKeepsTotals
<1>2. CASE ~Merge(t)
  <2>1. Merged' = Merged
    BY <1>2 DEF ThreadStep, Spawn, Skip, ReturnEarly, StartKeepRunning, EnterLoop,
       FinishKeepRunning, LeaveLoop, InsideBarrier, runVars, Return, LeaveBarrier,
       DecrementAlive, NotifyEnd, GoTo, Merged, ThreadsInv, ThreadsTypeOK
  <2>2. IsFiniteSet(Merged) /\ Merged \in SUBSET Threads
    BY ThreadsAssumption, FS_Subset DEF Merged
  <2>3. /\ \A u \in Merged : its[u] \in Int /\ its'[u] = its[u]
        /\ \A u \in Merged : real_time_used_[u] \in Int
                             /\ real_time_used_'[u] = real_time_used_[u]
    BY <2>2, MergedCountsKept, ItersAssumption DEF Iterations, ThreadsInv, ThreadsTypeOK
  <2> HIDE DEF its
  <2>4. SumFunctionOnSet(its', Merged) = SumFunctionOnSet(its, Merged)
    BY <2>2, <2>3, SumEqual
  <2>5. SumFunctionOnSet(real_time_used_', Merged) = SumFunctionOnSet(real_time_used_, Merged)
    BY <2>2, <2>3, SumEqual
  <2>6. results.iterations = SumFunctionOnSet(its, Merged)
        /\ results.real_time_used = SumFunctionOnSet(real_time_used_, Merged)
    BY DEF its, ThreadsInv, ResultsAddUp
  <2>7. CASE Skip(t)
    BY <2>1, <2>4, <2>5, <2>6, <2>7, SkipRecorded DEF its, ResultsAddUp
  <2>8. CASE ~Skip(t)
    <3>1. results' = results /\ skipped_' = skipped_ /\ collected' = collected
          /\ (main' = "gone" => main = "gone")
      BY <1>2, <2>8 DEF ThreadStep, Spawn, ReturnEarly, StartKeepRunning, EnterLoop,
         FinishKeepRunning, LeaveLoop, InsideBarrier, runVars, Return, LeaveBarrier,
         DecrementAlive, NotifyEnd
    <3>2. QED
      BY <2>1, <2>4, <2>5, <2>6, <3>1 DEF its, ThreadsInv, ResultsAddUp
  <2>9. QED
    BY <2>7, <2>8
<1>3. QED
  BY <1>1, <1>2

-----------------------------------------------------------------------------
(* The main thread. *)

\* The last thread out notifies after it has made alive_threads_ zero.
LEMMA EndPreserved ==
    ASSUME ThreadsInv, NEW t \in Threads, ThreadStep(t)
    PROVE  EndNotified'
<1> USE DEF ThreadsInv, ThreadsTypeOK, GoTo, EndNotified
<1>1. CASE DecrementAlive(t)
  BY <1>1 DEF DecrementAlive
<1>2. CASE NotifyEnd(t)
  BY <1>2 DEF NotifyEnd, EndMutexFree
<1>3. CASE ~DecrementAlive(t) /\ ~NotifyEnd(t)
  <2>1. UNCHANGED <<main, alive_threads_>>
    BY <1>3 DEF ThreadStep, Spawn, Skip, ReturnEarly, StartKeepRunning, EnterLoop,
       FinishKeepRunning, LeaveLoop, InsideBarrier, runVars, Return, Merge, LeaveBarrier
  <2>2. \A u \in Threads : step[u] = "lastOut" => step'[u] = "lastOut"
    BY <1>3 DEF ThreadStep, Spawn, Skip, ReturnEarly, StartKeepRunning, EnterLoop,
       FinishKeepRunning, LeaveLoop, InsideBarrier, runVars, Return, Merge, LeaveBarrier
  <2>3. QED
    BY <2>1, <2>2
<1>4. QED
  BY <1>1, <1>2, <1>3

\* Nobody leaves once the main thread joins, and a thread that is done stays so.
LEMMA OrderPreserved ==
    ASSUME ThreadsInv, NEW t \in Threads, ThreadStep(t)
    PROVE  MainInOrder'
<1>1. \A u \in Threads : step[u] = "done" => step'[u] = "done"
  BY DEF ThreadStep, Spawn, Skip, ReturnEarly, StartKeepRunning, EnterLoop,
     FinishKeepRunning, LeaveLoop, InsideBarrier, runVars, Return, Merge, LeaveBarrier,
     DecrementAlive, NotifyEnd, GoTo, ThreadsInv, ThreadsTypeOK
<1>2. main' = main \/ (main = "asleep" /\ main' = "woken")
  BY DEF ThreadStep, Spawn, Skip, ReturnEarly, StartKeepRunning, EnterLoop,
     FinishKeepRunning, LeaveLoop, InsideBarrier, runVars, Return, Merge, LeaveBarrier,
     DecrementAlive, NotifyEnd
<1>3. ASSUME alive_threads_ = 0 PROVE alive_threads_' = 0
  <2>1. CASE DecrementAlive(t)
    <3>1. alive_threads_' = 0 - 1
      BY <1>3, <2>1 DEF DecrementAlive, StillAlive
    <3>2. QED
      BY <2>1, <3>1, DecrementKeepsCount, CountedSetsFinite
  <2>2. CASE ~DecrementAlive(t)
    BY <1>3, <2>2 DEF ThreadStep, Spawn, Skip, ReturnEarly, StartKeepRunning, EnterLoop,
       FinishKeepRunning, LeaveLoop, InsideBarrier, runVars, Return, Merge,
       LeaveBarrier, NotifyEnd
  <2>3. QED
    BY <2>1, <2>2
<1>4. QED
  BY <1>1, <1>2, <1>3, MainAssumption DEF MainInOrder, ThreadsInv

LEMMA MainStepPreserves ==
    ASSUME ThreadsInv, MainStep \/ UNCHANGED vars
    PROVE  ThreadsInv'
<1> USE DEF ThreadsInv
<1>1. UNCHANGED <<barrierVars, step, started_, skipped_, running_, real_time_used_,
                  alive_threads_, results>>
  BY DEF MainStep, MainProgress, MainLocks, MainFindsAllDone, MainFindsSomeAlive, MainBlocks,
     MainSpuriousWake, MainCollects, MainGoes, vars, runVars
<1>2. ThreadsTypeOK'
  BY <1>1 DEF MainStep, MainProgress, MainLocks, MainFindsAllDone, MainFindsSomeAlive, MainBlocks,
     MainSpuriousWake, MainCollects, MainGoes, vars, runVars, barrierVars,
     ThreadsTypeOK, TypeOK, MainSteps
<1>3. GatesFollowPhases' /\ AliveAgrees'
  BY <1>1 DEF barrierVars, GatesFollowPhases, PlaceAgrees, InGate, AliveAgrees, Alive
<1>4. EndNotified'
  BY <1>1 DEF MainStep, MainProgress, MainLocks, MainFindsAllDone, MainFindsSomeAlive, MainBlocks,
     MainSpuriousWake, MainCollects, MainGoes, vars, runVars, EndNotified
<1>5. MainInOrder'
  BY <1>1 DEF MainStep, MainProgress, MainLocks, MainFindsAllDone, MainFindsSomeAlive, MainBlocks,
     MainSpuriousWake, MainCollects, MainGoes, vars, runVars, MainInOrder, Joined
<1>6. ResultsAddUp'
  <2>1. results' = results /\ (main' = "gone" => collected' = results')
    BY <1>1 DEF MainStep, MainProgress, MainLocks, MainFindsAllDone, MainFindsSomeAlive, MainBlocks,
       MainSpuriousWake, MainCollects, MainGoes, vars, runVars, ResultsAddUp
  <2>2. QED
    BY <1>1, <2>1 DEF ResultsAddUp, Merged, Iterations
<1>7. QED
  BY <1>2, <1>3, <1>4, <1>5, <1>6

-----------------------------------------------------------------------------
\* In every run of a benchmark each passage through the barrier belongs to one
\* phase, the counters of the manager count, and the main thread is notified.
THEOREM ThreadsInvariance == ThreadsSpec => []ThreadsInv
<1>1. ThreadsInit => ThreadsInv
  BY ThreadsInitEstablishesInv
<1>2. ASSUME ThreadsInv, BarrierInv, BarrierInv', [ThreadsNext]_vars PROVE ThreadsInv'
  <2>1. ASSUME NEW t \in Threads, ThreadStep(t) PROVE ThreadsInv'
    BY <1>2, <2>1, TypesPreserved, PlacesPreserved, CountPreserved, EndPreserved,
       OrderPreserved, ResultsPreserved DEF ThreadsInv, BarrierInv
  <2>2. CASE MainStep \/ UNCHANGED vars
    BY <1>2, <2>2, MainStepPreserves
  <2>3. QED
    BY <1>2, <2>1, <2>2 DEF ThreadsNext, Finished
<1>3. ThreadsSpec => []BarrierInv
  BY ThreadsUseBarrier, BarrierInvariance DEF UsesBarrier
<1>4. QED
  BY <1>1, <1>2, <1>3, PTL DEF ThreadsSpec

\* No thread runs timed iterations before every other has reached its loop, or
\* has returned: for any number of threads, skips and early returns.
THEOREM ThreadsStartTogether == ThreadsSpec => []StartTogether
<1>1. ThreadsInv => StartTogether
  BY DEF ThreadsInv, GatesFollowPhases, PlaceAgrees, StartTogether
<1>2. QED
  BY <1>1, ThreadsInvariance, PTL

\* No thread runs the code after its loop while another is in its own loop or on
\* the way into it.
THEOREM ThreadsStopTogether == ThreadsSpec => []StopTogether
<1>1. ThreadsInv => StopTogether
  BY DEF ThreadsInv, GatesFollowPhases, PlaceAgrees, StopTogether
<1>2. QED
  BY <1>1, ThreadsInvariance, PTL

\* Both gates hold for any number of threads.
THEOREM ThreadsTogether == ThreadsSpec => []Together
BY ThreadsStartTogether, ThreadsStopTogether, PTL DEF Together

\* The two gates share one barrier and never mix: whoever waits for the open
\* phase waits at the same gate.
THEOREM ThreadsGatesAlign == ThreadsSpec => []GatesAlign
<1>1. ThreadsInv => GatesAlign
  BY DEF ThreadsInv, ThreadsTypeOK, Steps, GatesFollowPhases, PlaceAgrees, InGate,
     GatesAlign, Arrived, Waiting
<1>2. QED
  BY <1>1, ThreadsInvariance, PTL

\* CollectedIsComplete, for any number of threads: when DoNIterations returns no
\* thread can touch the manager, and the totals handed to the caller are the
\* sums over all threads of what each of them measured.
THEOREM ThreadsCollectedIsComplete == ThreadsSpec => []CollectedIsComplete
<1>1. ThreadsInv => CollectedIsComplete
  <2> SUFFICES ASSUME ThreadsInv, main = "gone" PROVE CollectedIsComplete
    BY DEF CollectedIsComplete
  <2>1. \A t \in Threads : step[t] = "done"
    BY DEF ThreadsInv, MainInOrder
  <2>2. Merged = Threads /\ DOMAIN real_time_used_ = Threads
    BY <2>1 DEF Merged, ThreadsInv, ThreadsTypeOK
  <2>3. QED
    BY <2>1, <2>2 DEF ThreadsInv, ResultsAddUp, CollectedIsComplete, SumFunction
<1>2. QED
  BY <1>1, ThreadsInvariance, PTL
-----------------------------------------------------------------------------
(* The runner, for all settings, flags, clocks and bounds. *)

\* The runner is about to report, or reports, a run it has accepted.
Accepted == at \in {"memory", "profile", "report"}

\* The warm-up comes before everything else, and only before it.
WarmUpFirst ==
    /\ at \in {"measure", "memory", "profile", "report", "done"} \/ num_repetitions_done # 0 => warmup_done
    /\ at = "warmup" => ~warmup_done /\ i_backup # 0

\* The latest run is one that iters iterations can have given; the search has
\* ended with it if it is that of the first repetition.
LastAccepted ==
    Accepted => /\ last \in Outcomes(iters)
                /\ num_repetitions_done = 0 =>
                      has_explicit_iteration_count \/ ShouldReportIterationResults(last)

\* Every report that was not skipped is of iters iterations per thread.
ReportsOfIters ==
    \A k \in DOMAIN reports : Unskipped(reports[k]) => reports[k].iterations = b.threads * Ran(iters)

RepetitionsCounted ==
    /\ Len(reports) = num_repetitions_done
    /\ at # "done" => num_repetitions_done # repeats

RunnerInv ==
    RunnerTypeOK /\ RepetitionsCounted /\ WarmUpFirst /\ LastAccepted /\ ReportsOfIters
    /\ FirstReportSignificant

-----------------------------------------------------------------------------
LEMMA SettingsTypes ==
    ASSUME b \in Benchmarks, flags \in Flags
    PROVE  /\ b \in BenchmarkSettings /\ flags \in FlagSettings
           /\ min_time \in Nat /\ min_warmup_time \in Nat
           /\ repeats \in Nat \ {0} /\ initial_iters \in Nat \ {0}
           /\ GetMinTimeToApply \in Nat
<1>1. b \in BenchmarkSettings /\ flags \in FlagSettings
      /\ (flags.tag = "ITERS" => flags.min_time > 0)
  BY SettingsAssumption
<1>2. min_time \in Nat /\ min_warmup_time \in Nat
  BY <1>1, RunAssumption DEF BenchmarkSettings, FlagSettings, min_time, min_warmup_time
<1>3. repeats \in Nat \ {0} /\ initial_iters \in Nat \ {0}
  BY <1>1 DEF BenchmarkSettings, FlagSettings, repeats, initial_iters, has_explicit_iteration_count
<1>4. QED
  BY <1>1, <1>2, <1>3 DEF GetMinTimeToApply

\* A loop of batches runs a natural number of iterations.
LEMMA RanType == ASSUME NEW n \in Nat PROVE Ran(n) \in Nat
<1>1. n + Batch - 1 \in Nat /\ Batch \in Nat \ {0}
  BY RunAssumption
<1>2. (n + Batch - 1) \div Batch \in Nat
  BY <1>1
<1>3. QED
  BY <1>1, <1>2 DEF Ran

\* A natural divided by a positive one is a natural.
LEMMA QuotientType == ASSUME NEW n \in Nat, NEW d \in Nat \ {0} PROVE n \div d \in Nat
OBVIOUS

\* The product of naturals is a natural.
LEMMA ProductType == ASSUME NEW m \in Nat, NEW n \in Nat PROVE m * n \in Nat
OBVIOUS

\* What a run of n iterations can give.
LEMMA OutcomeTypes ==
    ASSUME b \in BenchmarkSettings, NEW n \in Nat, NEW i \in Outcomes(n)
    PROVE  /\ i \in Results
           /\ i.skipped = "no" => i.iterations = b.threads * Ran(n)
<1>1. PICK skip \in Skips, wall \in Costs, measured \in Costs : i = Outcome(n, skip, wall, measured)
  BY DEF Outcomes
<1> DEFINE total == b.threads * Credited(n, skip)
<1>2. Credited(n, skip) \in Nat
  BY <1>1, RanType, RunAssumption DEF Credited
<1>3. b.threads \in Nat \ {0} /\ wall \in Nat /\ measured \in Nat
  BY RunAssumption DEF BenchmarkSettings
<1>4. total \in Nat
  BY <1>2, <1>3, ProductType
<1>5. total \div b.threads \in Nat
  BY <1>3, <1>4, QuotientType
<1>6. total * (IF b.clock = "real" THEN wall ELSE measured) \in Nat /\ total * wall \in Nat
  BY <1>3, <1>4, ProductType
<1>7. i = [skipped |-> skip, iterations |-> total, iters |-> total \div b.threads,
           seconds |-> total * (IF b.clock = "real" THEN wall ELSE measured),
           real |-> total * wall]
  BY <1>1 DEF Outcome
<1> HIDE DEF total
<1>8. i \in Results
  BY <1>4, <1>5, <1>6, <1>7 DEF Results
<1>9. i.skipped = "no" => total = b.threads * Ran(n)
  BY <1>7 DEF total, Credited
<1>10. QED
  BY <1>7, <1>8, <1>9

\* PredictNumItersNeeded after a run that is not accepted: more iterations than
\* that run had, whatever the rounded prediction is, and no more than the cap.
LEMMA PredictionGrows ==
    ASSUME b \in Benchmarks, flags \in Flags, NEW i \in Results, ~ShouldReportIterationResults(i)
    PROVE  /\ PredictNumItersNeeded(i) \in Nat \ {0}
           /\ PredictNumItersNeeded(i) > i.iters /\ PredictNumItersNeeded(i) <= kMaxIterations
<1> DEFINE num == 14 * GetMinTimeToApply * i.iters
           den == 10 * i.seconds
           scaled == IF den > GetMinTimeToApply THEN Rounded(num, den) ELSE 10 * i.iters
<1>1. GetMinTimeToApply \in Nat /\ i.iters \in Nat /\ i.seconds \in Nat /\ kMaxIterations \in Nat
  BY SettingsTypes, RunAssumption DEF Results
<1>2. num \in Nat /\ den \in Nat
  BY <1>1, ProductType
<1>3. den > GetMinTimeToApply => Rounded(num, den) \in Nat
  <2> SUFFICES ASSUME den > GetMinTimeToApply PROVE Rounded(num, den) \in Nat
    OBVIOUS
  <2>1. 2 * num + den \in Nat /\ 2 * den \in Nat \ {0}
    BY <1>1, <1>2
  <2> HIDE DEF num, den
  <2>2. QED
    BY <2>1, QuotientType DEF Rounded
<1>4. scaled \in Nat
  BY <1>1, <1>3
<1>5. i.iters < kMaxIterations
  BY <1>1 DEF ShouldReportIterationResults
<1>6. PredictNumItersNeeded(i) = Smaller(Larger(scaled, i.iters + 1), kMaxIterations)
  BY DEF PredictNumItersNeeded
<1> HIDE DEF scaled
<1>7. QED
  BY <1>1, <1>4, <1>5, <1>6 DEF Smaller, Larger

-----------------------------------------------------------------------------
LEMMA InitRunnerInv == Init => RunnerInv
<1> SUFFICES ASSUME Init PROVE RunnerInv
  OBVIOUS
<1>1. repeats \in Nat \ {0} /\ initial_iters \in Nat \ {0}
  BY SettingsTypes DEF Init
<1>2. RunnerTypeOK
  BY <1>1 DEF Init, RunnerTypeOK, Places
<1>3. QED
  BY <1>1, <1>2 DEF Init, RunnerInv, RepetitionsCounted, WarmUpFirst, LastAccepted, Accepted,
                    ReportsOfIters, FirstReportSignificant

\* The settings do not change, and what is derived from them does not either.
LEMMA SettingsKept ==
    ASSUME UNCHANGED <<b, flags>>
    PROVE  /\ min_time' = min_time /\ repeats' = repeats
           /\ has_explicit_iteration_count' = has_explicit_iteration_count
           /\ \A n : Outcomes(n)' = Outcomes(n)
           /\ warmup_done' = warmup_done =>
                 \A i : ShouldReportIterationResults(i)' = ShouldReportIterationResults(i)
<1>1. min_time' = min_time /\ repeats' = repeats
      /\ has_explicit_iteration_count' = has_explicit_iteration_count
  BY DEF min_time, repeats, has_explicit_iteration_count
<1>2. min_warmup_time' = min_warmup_time
  BY DEF min_warmup_time
<1>3. \A n : Outcomes(n)' = Outcomes(n)
  BY DEF Outcomes, Outcome
<1>4. warmup_done' = warmup_done =>
         \A i : ShouldReportIterationResults(i)' = ShouldReportIterationResults(i)
  BY <1>1, <1>2 DEF ShouldReportIterationResults, GetMinTimeToApply
<1>5. QED
  BY <1>1, <1>3, <1>4

\* What the reports say does not depend on where the runner is.
LEMMA FirstReportKept ==
    ASSUME FirstReportSignificant, UNCHANGED <<b, flags, reports>>
    PROVE  FirstReportSignificant'
BY SettingsKept DEF FirstReportSignificant, Unskipped

LEMMA BeginRepetitionKeeps == RunnerInv /\ BeginRepetition => RunnerInv'
<1> SUFFICES ASSUME RunnerInv, BeginRepetition PROVE RunnerInv'
  OBVIOUS
<1>1. UNCHANGED <<b, flags, warmup_done, iters, num_repetitions_done, last, reports>>
      /\ at = "ready" /\ at' \in {"measure", "warmup"} /\ repeats' = repeats
  BY SettingsKept DEF BeginRepetition
<1>2. RunnerTypeOK'
  BY <1>1 DEF RunnerInv, RunnerTypeOK, Places, BeginRepetition
<1>3. RepetitionsCounted'
  BY <1>1 DEF RunnerInv, RepetitionsCounted
<1>4. WarmUpFirst'
  BY <1>1 DEF RunnerInv, RunnerTypeOK, WarmUpFirst, BeginRepetition
<1>5. LastAccepted' /\ ReportsOfIters'
  BY <1>1 DEF RunnerInv, LastAccepted, Accepted, ReportsOfIters, Unskipped, Ran
<1>6. QED
  BY <1>1, <1>2, <1>3, <1>4, <1>5, FirstReportKept DEF RunnerInv

LEMMA WarmUpRunKeeps ==
    ASSUME RunnerInv, NEW i \in Outcomes(iters), WarmUpRun(i) PROVE RunnerInv'
<1>1. UNCHANGED <<b, flags, num_repetitions_done, i_backup, reports>> /\ at = "warmup"
      /\ last' = i /\ at' \in {"measure", "warmup"} /\ repeats' = repeats
  BY SettingsKept DEF WarmUpRun
<1>2. ~warmup_done /\ i_backup # 0 /\ num_repetitions_done = 0 /\ reports = <<>>
  <2>1. ~warmup_done /\ i_backup # 0 /\ num_repetitions_done = 0
    BY <1>1 DEF RunnerInv, WarmUpFirst
  <2>2. reports = <<>>
    BY <2>1 DEF RunnerInv, RunnerTypeOK, RepetitionsCounted
  <2>3. QED
    BY <2>1, <2>2
<1>3. i \in Results
  BY OutcomeTypes, SettingsAssumption DEF RunnerInv, RunnerTypeOK
<1>4. /\ iters' \in Nat \ {0}
      /\ warmup_done' \in BOOLEAN
      /\ at' = "measure" => warmup_done'
      /\ at' = "warmup" => ~warmup_done'
  <2>1. CASE ShouldReportIterationResults(i)
    BY <2>1, <1>2 DEF WarmUpRun, FinishWarmUp, RunnerInv, RunnerTypeOK
  <2>2. CASE ~ShouldReportIterationResults(i)
    BY <2>2, <1>1, <1>2, <1>3, PredictionGrows DEF WarmUpRun, RunnerInv, RunnerTypeOK
  <2>3. QED
    BY <2>1, <2>2
<1>5. RunnerTypeOK'
  BY <1>1, <1>3, <1>4 DEF RunnerInv, RunnerTypeOK, Places
<1>6. RepetitionsCounted' /\ WarmUpFirst'
  BY <1>1, <1>2, <1>4 DEF RunnerInv, RepetitionsCounted, WarmUpFirst
<1>7. LastAccepted' /\ ReportsOfIters'
  BY <1>1, <1>2 DEF LastAccepted, Accepted, ReportsOfIters
<1>8. QED
  BY <1>1, <1>5, <1>6, <1>7, FirstReportKept DEF RunnerInv

LEMMA MeasuredRunKeeps ==
    ASSUME RunnerInv, NEW i \in Outcomes(iters), MeasuredRun(i) PROVE RunnerInv'
<1>1. UNCHANGED <<b, flags, warmup_done, num_repetitions_done, i_backup, reports>>
      /\ at = "measure" /\ last' = i /\ repeats' = repeats
  BY SettingsKept DEF MeasuredRun
<1>2. i \in Results /\ num_repetitions_done \in Nat
  BY OutcomeTypes, SettingsAssumption, SettingsTypes DEF RunnerInv, RunnerTypeOK
<1>3. CASE ResultsAreSignificant(i)
  <2>1. iters' = iters /\ Accepted' /\ at' \in Places \ {"done", "warmup", "ready"}
    BY <1>3 DEF MeasuredRun, AfterMeasure, Accepted, Places
  <2>2. LastAccepted'
    <3>1. i \in Outcomes(iters)'
      BY <1>1, <2>1 DEF Outcomes, Outcome
    <3>2. num_repetitions_done = 0 =>
             has_explicit_iteration_count' \/ ShouldReportIterationResults(i)'
      BY <1>1, <1>3, SettingsKept DEF ResultsAreSignificant
    <3>3. QED
      BY <1>1, <3>1, <3>2 DEF LastAccepted, ShouldReportIterationResults, GetMinTimeToApply
  <2>3. RunnerTypeOK'
    BY <1>1, <1>2, <2>1 DEF RunnerInv, RunnerTypeOK
  <2>4. RepetitionsCounted' /\ WarmUpFirst'
    BY <1>1, <2>1 DEF RunnerInv, RepetitionsCounted, WarmUpFirst
  <2>5. ReportsOfIters'
    BY <1>1, <2>1 DEF RunnerInv, ReportsOfIters, Unskipped, Ran
  <2>6. QED
    BY <1>1, <2>2, <2>3, <2>4, <2>5, FirstReportKept DEF RunnerInv
<1>4. CASE ~ResultsAreSignificant(i)
  <2>1. at' = "measure" /\ iters' = PredictNumItersNeeded(i)
        /\ num_repetitions_done = 0 /\ ~ShouldReportIterationResults(i)
    BY <1>1, <1>4 DEF MeasuredRun, ResultsAreSignificant
  <2>2. RunnerTypeOK'
    BY <1>1, <1>2, <2>1, PredictionGrows DEF RunnerInv, RunnerTypeOK
  <2>3. RepetitionsCounted' /\ WarmUpFirst' /\ LastAccepted'
    BY <1>1, <2>1 DEF RunnerInv, RepetitionsCounted, WarmUpFirst, LastAccepted, Accepted
  <2>4. reports = <<>>
    BY <2>1 DEF RunnerInv, RunnerTypeOK, RepetitionsCounted
  <2>5. ReportsOfIters'
    BY <1>1, <2>4 DEF ReportsOfIters
  <2>6. QED
    BY <1>1, <2>2, <2>3, <2>5, FirstReportKept DEF RunnerInv
<1>5. QED
  BY <1>3, <1>4

\* The extra runs of a memory and a profiler manager change nothing but where
\* the repetition is.
LEMMA ExtraRunKeeps == RunnerInv /\ (MemoryRun \/ ProfilerRun) => RunnerInv'
<1> SUFFICES ASSUME RunnerInv, MemoryRun \/ ProfilerRun PROVE RunnerInv'
  OBVIOUS
<1>1. UNCHANGED <<b, flags, warmup_done, iters, num_repetitions_done, i_backup, last, reports>>
      /\ Accepted /\ Accepted' /\ at' \in Places \ {"done", "warmup", "ready"} /\ at # "done"
  BY DEF MemoryRun, ProfilerRun, Accepted, Places
<1>2. repeats' = repeats
  BY <1>1, SettingsKept
<1>3. RunnerTypeOK'
  BY <1>1, <1>2 DEF RunnerInv, RunnerTypeOK
<1>4. RepetitionsCounted' /\ WarmUpFirst'
  BY <1>1, <1>2 DEF RunnerInv, RepetitionsCounted, WarmUpFirst, Accepted
<1>5. LastAccepted'
  <2>1. Outcomes(iters)' = Outcomes(iters)
    BY <1>1 DEF Outcomes, Outcome
  <2>2. last \in Outcomes(iters)
    BY <1>1 DEF RunnerInv, LastAccepted
  <2>3. num_repetitions_done = 0 => has_explicit_iteration_count \/ ShouldReportIterationResults(last)
    BY <1>1 DEF RunnerInv, LastAccepted
  <2>4. has_explicit_iteration_count' = has_explicit_iteration_count
        /\ ShouldReportIterationResults(last)' = ShouldReportIterationResults(last)
    BY <1>1 DEF has_explicit_iteration_count, ShouldReportIterationResults, GetMinTimeToApply,
                min_time, min_warmup_time
  <2>5. QED
    BY <1>1, <2>1, <2>2, <2>3, <2>4 DEF LastAccepted
<1>6. ReportsOfIters'
  BY <1>1 DEF RunnerInv, ReportsOfIters, Unskipped, Ran
<1>7. QED
  BY <1>1, <1>3, <1>4, <1>5, <1>6, FirstReportKept DEF RunnerInv

LEMMA ReportKeeps == RunnerInv /\ Report => RunnerInv'
<1> SUFFICES ASSUME RunnerInv, Report PROVE RunnerInv'
  OBVIOUS
<1> DEFINE r == [skipped |-> last.skipped, iterations |-> last.iterations, run |-> last]
<1>1. UNCHANGED <<b, flags, warmup_done, iters, i_backup>> /\ at = "report" /\ last' = NoResults
      /\ reports' = Append(reports, r) /\ num_repetitions_done' = num_repetitions_done + 1
      /\ at' = (IF num_repetitions_done' = repeats THEN "done" ELSE "ready")
  BY DEF Report
<1>2. repeats' = repeats /\ min_time' = min_time
      /\ has_explicit_iteration_count' = has_explicit_iteration_count
  BY <1>1, SettingsKept
<1>3. last \in Results
      /\ (last.skipped = "no" => last.iterations = b.threads * Ran(iters))
      /\ (num_repetitions_done = 0 =>
             has_explicit_iteration_count \/ ShouldReportIterationResults(last))
  BY <1>1, OutcomeTypes, SettingsAssumption
     DEF RunnerInv, RunnerTypeOK, LastAccepted, Accepted
<1>4. /\ repeats \in Nat /\ num_repetitions_done \in 0 .. repeats /\ num_repetitions_done # repeats
      /\ Len(reports) = num_repetitions_done /\ warmup_done
      /\ reports \in Seq([skipped : Skips, iterations : Nat, run : Results])
  BY <1>1, SettingsTypes DEF RunnerInv, RunnerTypeOK, RepetitionsCounted, WarmUpFirst
<1>5. r \in [skipped : Skips, iterations : Nat, run : Results]
  BY <1>3 DEF Results
<1> HIDE DEF r
<1>6. /\ Len(reports') = Len(reports) + 1
      /\ DOMAIN reports' = 1 .. Len(reports) + 1 /\ DOMAIN reports = 1 .. Len(reports)
      /\ \A k \in 1 .. Len(reports) : reports'[k] = reports[k]
      /\ reports'[Len(reports) + 1] = r
      /\ reports' \in Seq([skipped : Skips, iterations : Nat, run : Results])
  BY <1>1, <1>4, <1>5
<1>7. RunnerTypeOK'
  BY <1>1, <1>2, <1>4, <1>6 DEF RunnerInv, RunnerTypeOK, Places
<1>8. RepetitionsCounted' /\ WarmUpFirst' /\ LastAccepted'
  BY <1>1, <1>2, <1>4, <1>6 DEF RepetitionsCounted, WarmUpFirst, LastAccepted, Accepted
<1>9. ReportsOfIters'
  <2> SUFFICES ASSUME NEW k \in 1 .. Len(reports) + 1, Unskipped(reports'[k])
               PROVE  reports'[k].iterations = b.threads * Ran(iters)
    BY <1>1, <1>6 DEF ReportsOfIters, Unskipped, Ran
  <2>1. CASE k \in 1 .. Len(reports)
    BY <2>1, <1>6 DEF RunnerInv, ReportsOfIters, Unskipped
  <2>2. CASE k = Len(reports) + 1
    BY <2>2, <1>3, <1>6 DEF Unskipped, r
  <2>3. QED
    BY <2>1, <2>2, <1>4
<1>10. FirstReportSignificant'
  <2> SUFFICES ASSUME Unskipped(reports'[1]), ~has_explicit_iteration_count, ~flags.dry_run
               PROVE  \/ reports'[1].run.seconds >= min_time
                      \/ reports'[1].run.iters >= kMaxIterations
                      \/ reports'[1].run.real >= 5 * min_time /\ b.clock # "manual"
    BY <1>1, <1>2 DEF FirstReportSignificant, Unskipped
  <2>1. CASE num_repetitions_done = 0
    <3>1. reports'[1] = r
      BY <2>1, <1>4, <1>6
    <3>2. ShouldReportIterationResults(last) /\ r.run = last /\ last.skipped = "no"
      BY <2>1, <3>1, <1>3 DEF r, Unskipped
    <3>3. QED
      BY <3>1, <3>2, <1>4 DEF ShouldReportIterationResults, GetMinTimeToApply
  <2>2. CASE num_repetitions_done # 0
    <3>1. reports'[1] = reports[1] /\ reports # <<>>
      BY <2>2, <1>4, <1>6
    <3>2. QED
      BY <3>1 DEF RunnerInv, FirstReportSignificant, Unskipped
  <2>3. QED
    BY <2>1, <2>2
<1>11. QED
  BY <1>7, <1>8, <1>9, <1>10 DEF RunnerInv

LEMMA RunnerStep == RunnerInv /\ [Next]_runnerVars => RunnerInv'
<1> SUFFICES ASSUME RunnerInv, [Next]_runnerVars PROVE RunnerInv'
  OBVIOUS
<1>1. CASE BeginRepetition
  BY <1>1, BeginRepetitionKeeps
<1>2. ASSUME NEW i \in Outcomes(iters), WarmUpRun(i) PROVE RunnerInv'
  BY <1>2, WarmUpRunKeeps
<1>3. ASSUME NEW i \in Outcomes(iters), MeasuredRun(i) PROVE RunnerInv'
  BY <1>3, MeasuredRunKeeps
<1>4. CASE MemoryRun \/ ProfilerRun
  BY <1>4, ExtraRunKeeps
<1>5. CASE Report
  BY <1>5, ReportKeeps
<1>6. CASE UNCHANGED runnerVars
  <2>1. UNCHANGED <<b, flags, at, warmup_done, iters, num_repetitions_done, i_backup, last, reports>>
    BY <1>6 DEF runnerVars
  <2>2. repeats' = repeats
    BY <2>1, SettingsKept
  <2>3. LastAccepted'
    BY <2>1 DEF RunnerInv, LastAccepted, Accepted, Outcomes, Outcome, has_explicit_iteration_count,
                ShouldReportIterationResults, GetMinTimeToApply, min_time, min_warmup_time
  <2>4. QED
    BY <2>1, <2>2, <2>3, FirstReportKept
       DEF RunnerInv, RunnerTypeOK, RepetitionsCounted, WarmUpFirst, ReportsOfIters, Unskipped, Ran
<1>7. QED
  BY <1>1, <1>2, <1>3, <1>4, <1>5, <1>6 DEF Next, RunnerFinished

-----------------------------------------------------------------------------
\* RunnerInv is an invariant of a runner whatever the benchmark and the command
\* line ask for, however long iterations take and wherever runs skip.
THEOREM RunnerInvariance == Spec => []RunnerInv
BY InitRunnerInv, RunnerStep, PTL DEF Spec

\* The variables of the runner keep their types; in particular every count that
\* RunWarmUp and DoOneRepetition try is a positive number of iterations.
THEOREM RunnerTypeCorrect == Spec => []RunnerTypeOK
<1>1. RunnerInv => RunnerTypeOK
  BY DEF RunnerInv
<1>2. QED
  BY <1>1, RunnerInvariance, PTL

\* The first repetition, unless it was skipped, dry or given its iterations, ran
\* for the minimum time, for five times that on the wall clock, or up to the cap.
THEOREM RunnerFirstReport == Spec => []FirstReportSignificant
<1>1. RunnerInv => FirstReportSignificant
  BY DEF RunnerInv
<1>2. QED
  BY <1>1, RunnerInvariance, PTL

\* The repetitions that were not skipped have one number of iterations, as
\* ComputeStats expects of them.
THEOREM RunnerRepetitionsAgree == Spec => []RepetitionsAgree
<1>1. RunnerInv => RepetitionsAgree
  BY DEF RunnerInv, ReportsOfIters, RepetitionsAgree
<1>2. QED
  BY <1>1, RunnerInvariance, PTL

\* After a run that is not accepted the next one has more iterations than it had
\* and no more than kMaxIterations: the asserts of both loops hold.
THEOREM RunnerSearchGrows == Spec => SearchGrows
<1> DEFINE Grows == at' = at /\ at \in {"warmup", "measure"} =>
                        iters' > last'.iters /\ iters' <= kMaxIterations
<1>1. RunnerInv /\ [Next]_runnerVars => [Grows]_runnerVars
  <2> SUFFICES ASSUME RunnerInv, Next, at' = at, at \in {"warmup", "measure"}
               PROVE  (iters' > last'.iters /\ iters' <= kMaxIterations) \/ UNCHANGED runnerVars
    OBVIOUS
  <2>1. ASSUME NEW i \in Outcomes(iters), WarmUpRun(i) \/ MeasuredRun(i)
        PROVE  iters' > last'.iters /\ iters' <= kMaxIterations
    <3>1. i \in Results
      BY OutcomeTypes, SettingsAssumption DEF RunnerInv, RunnerTypeOK
    <3>2. ~ShouldReportIterationResults(i) /\ iters' = PredictNumItersNeeded(i) /\ last' = i
      BY <2>1 DEF WarmUpRun, MeasuredRun, AfterMeasure, ResultsAreSignificant
    <3>3. QED
      BY <3>1, <3>2, PredictionGrows DEF RunnerInv, RunnerTypeOK
  <2>2. QED
    BY <2>1 DEF Next, BeginRepetition, MemoryRun, ProfilerRun, Report, RunnerFinished
<1>2. QED
  BY <1>1, RunnerInvariance, PTL DEF Spec, SearchGrows
=============================================================================
