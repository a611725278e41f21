----------------------------- MODULE StateTiming -----------------------------
(***************************************************************************)
(* benchmark::State and its ThreadTimer as one benchmark thread uses them, *)
(* with what each build mode hangs on them: the walltime markers, and the  *)
(* callgrind toggle and the start and stop hooks of the analysis builds.   *)
(*                                                                         *)
(* A schedule of States is run one after the other, warm-up ones and       *)
(* measured ones: what outlives a State (the toggle, the hooks, the        *)
(* markers, CodSpeed's current benchmark) is carried to the next.  The     *)
(* State is alone in its barrier, which then never blocks; Barrier and     *)
(* BenchmarkThreads are about the case where it is not.                    *)
(*                                                                         *)
(* The user's function is any legal one: it may skip before or in the      *)
(* loop, return once it has skipped, pause and resume within an iteration. *)
(***************************************************************************)
EXTENDS Integers, Sequences, FiniteSetsExt

CONSTANTS
    Modes,      \* build modes to explore: "off", "analysis", "walltime"
    Styles,     \* loops to explore: "range", "keep", "batch"
    Schedule,   \* sequence of "warmup" and "measured": the States to run
    Pausing,    \* kinds of State whose user code pauses its timer
    MaxIters,   \* max_iterations of every State
    MaxBatch,   \* largest n passed to KeepRunningBatch
    MaxPauses,  \* bound on the pauses of one State
    MaxTime     \* bound on the clock

ASSUME ModesAssumption ==
    /\ Modes \subseteq {"off", "analysis", "walltime"}
    /\ Styles \subseteq {"range", "keep", "batch"}
    /\ Schedule \in Seq({"warmup", "measured"})
    /\ Pausing \subseteq {"warmup", "measured"}
ASSUME BoundsAssumption ==
    MaxIters \in Nat \ {0} /\ MaxBatch \in Nat \ {0} /\ MaxPauses \in Nat /\ MaxTime \in Nat

VARIABLES
    mode,    \* the build mode
    turn,    \* the State being run, an index of Schedule
    style,   \* the kind of loop its function has
    at,      \* where its function is, see Places
    st,      \* the State's fields and its timer's
    hooks,   \* what outlives the State: hooks, toggle, markers
    now,     \* the clock, in ticks; never 0, as a real timestamp
    bodies,  \* iterations whose body was started in this State
    pauses   \* pauses so far in this State

vars == <<mode, turn, style, at, st, hooks, now, bodies, pauses>>

Places == {"idle", "setup", "test", "body", "after"}

Warmup == Schedule[turn] = "warmup"

\* State::State: started_, finished_, skipped_, the counters and a new timer.
NewState ==
    [started |-> FALSE, finished |-> FALSE, skipped |-> FALSE,
     total_iterations |-> 0, batch_leftover |-> 0, cached |-> 0,
     running |-> FALSE, start_real_time |-> 0, real_time_used |-> 0,
     resume_timestamp |-> 0, failed |-> "none"]

\* measurement.hpp's flag, the external callgrind's switch it mirrors, the
\* instrumentation window, the markers sent, CodSpeed's current benchmark and
\* the benchmarks reported as executed, each with the State that reported it.
NoHooks ==
    [collecting |-> TRUE, callgrind |-> TRUE, window |-> FALSE,
     markers |-> <<>>, current |-> 0, executed |-> <<>>]

Init ==
    /\ mode \in Modes
    /\ style \in Styles
    /\ turn = 0
    /\ at = "idle"
    /\ st = NewState
    /\ hooks = NoHooks
    /\ now = 1
    /\ bodies = 0
    /\ pauses = 0

-----------------------------------------------------------------------------
(* The calls State makes, as functions of its fields s and of the hooks h. *)

\* BM_CHECK: a failure aborts; the first one is kept.
Check(s, holds, name) ==
    IF holds \/ s.failed # "none" THEN s ELSE [s EXCEPT !.failed = name]

\* Mutant of Toggle: the flag is not looked at.
Toggle_Blind(h, wanted) ==
    IF mode = "analysis" THEN [h EXCEPT !.collecting = wanted, !.callgrind = ~@] ELSE h

\* callgrind_toggle_collect, when the flag says that it changes something.
Toggle(h, wanted) ==
    IF mode = "analysis" /\ h.collecting # wanted
    THEN [h EXCEPT !.collecting = wanted, !.callgrind = ~@] ELSE h
measurement_pause_timing(h) == Toggle(h, FALSE)
measurement_resume_timing(h) == Toggle(h, TRUE)

\* The hooks' own start and stop; a start inside a window changes nothing.
measurement_start(h) == [h EXCEPT !.window = TRUE]
measurement_stop(h) == [h EXCEPT !.window = FALSE]

StartTimer(s) == [s EXCEPT !.running = TRUE, !.start_real_time = now]
StopTimer(s) ==
    [Check(s, s.running, "StopTimer") EXCEPT
        !.running = FALSE, !.real_time_used = @ + (now - s.start_real_time)]

ResumeTiming(s) ==
    LET checked == Check(s, s.started /\ ~s.finished /\ ~s.skipped, "ResumeTiming")
        timed == StartTimer(checked)
    IN  IF mode # "walltime" THEN timed
        ELSE [Check(timed, s.resume_timestamp = 0, "resume_timestamp_") EXCEPT
                 !.resume_timestamp = now]

\* The section that PauseTiming closes is sent as a pair of markers.
SendsMarkers(s) == mode = "walltime" /\ ~Warmup /\ s.resume_timestamp # 0
PauseTiming(s) ==
    LET checked == Check(s, s.started /\ ~s.finished /\ ~s.skipped, "PauseTiming")
        stopped == StopTimer(checked)
    IN  IF SendsMarkers(s) THEN [stopped EXCEPT !.resume_timestamp = 0] ELSE stopped
PauseHooks(s, h) ==
    LET paused == measurement_pause_timing(h)
    IN  IF SendsMarkers(s)
        THEN [paused EXCEPT !.markers = Append(@, <<turn, s.resume_timestamp, now>>)]
        ELSE paused

StartKeepRunning(s) ==
    LET checked == Check(s, ~s.started /\ ~s.finished, "StartKeepRunning")
        begun == [checked EXCEPT !.started = TRUE,
                                 !.total_iterations = IF s.skipped THEN 0 ELSE MaxIters]
    IN  IF s.skipped THEN begun ELSE ResumeTiming(begun)
StartHooks(s, h) == IF s.skipped THEN h ELSE measurement_resume_timing(h)

\* Mutant of FinishKeepRunning: a skipped State is paused too.
FinishKeepRunning_PausesAlways(s) ==
    LET checked == Check(s, s.started /\ (~s.finished \/ s.skipped), "FinishKeepRunning")
    IN  [PauseTiming(checked) EXCEPT !.total_iterations = 0, !.finished = TRUE]

FinishKeepRunning(s) ==
    LET checked == Check(s, s.started /\ (~s.finished \/ s.skipped), "FinishKeepRunning")
        paused == IF s.skipped THEN checked ELSE PauseTiming(checked)
    IN  [paused EXCEPT !.total_iterations = 0, !.finished = TRUE]
\* Mutant of FinishHooks: the last section's markers are not sent.
FinishHooks_NoMarkers(s, h) == IF s.skipped THEN h ELSE measurement_pause_timing(h)

FinishHooks(s, h) == IF s.skipped THEN h ELSE PauseHooks(s, h)

\* SkipWithError and SkipWithMessage.
SkipState(s) ==
    LET skipped == [s EXCEPT !.skipped = TRUE, !.total_iterations = 0]
    IN  IF s.running THEN StopTimer(skipped) ELSE skipped

SkipHooks(s, h) == IF s.running THEN measurement_pause_timing(h) ELSE h

\* State::iterations()
Iterations(s) ==
    IF s.started THEN MaxIters - s.total_iterations + s.batch_leftover ELSE 0

-----------------------------------------------------------------------------
\* A failed check has aborted the process: nothing happens after it.
Alive == st.failed = "none"

\* The next State of the schedule is constructed and its function called.
Begin ==
    /\ Alive /\ at \in {"idle", "after"} /\ turn < Len(Schedule)
    /\ turn' = turn + 1
    /\ style' \in Styles
    /\ at' = "setup"
    /\ st' = NewState
    /\ bodies' = 0 /\ pauses' = 0
    /\ UNCHANGED <<mode, hooks, now>>

Skip ==
    /\ Alive /\ at \in {"setup", "body", "after"} /\ ~st.skipped
    /\ st' = SkipState(st)
    /\ hooks' = SkipHooks(st, hooks)
    /\ UNCHANGED <<mode, turn, style, at, now, bodies, pauses>>

\* return, or break and return, by a function that has skipped.
ReturnSkipped ==
    /\ Alive /\ at \in {"setup", "body"} /\ st.skipped
    /\ at' = "after"
    /\ UNCHANGED <<mode, turn, style, st, hooks, now, bodies, pauses>>

\* Mutant of StartBenchmark: CodSpeed is not told which benchmark starts.
StartBenchmark_Unnamed(h) == measurement_start(h)

\* CodSpeed::start_benchmark, unless the codspeed_ pointer is null as in a
\* warm-up State, and measurement_start.
StartBenchmark(h) == measurement_start([h EXCEPT !.current = IF Warmup THEN @ ELSE turn])

\* begin() and end() of a range-for loop.
RangeBegin ==
    /\ Alive /\ at = "setup" /\ style = "range"
    /\ st' = [StartKeepRunning(st) EXCEPT !.cached = IF st.skipped THEN 0 ELSE MaxIters]
    /\ LET begun == StartHooks(st, hooks)
       IN  hooks' = IF mode = "analysis" THEN StartBenchmark(begun) ELSE begun
    /\ at' = "test"
    /\ UNCHANGED <<mode, turn, style, now, bodies, pauses>>

\* StateIterator::operator!= with iterations left.
RangeContinues ==
    /\ Alive /\ at = "test" /\ style = "range" /\ st.cached # 0
    /\ at' = "body"
    /\ bodies' = bodies + 1
    /\ UNCHANGED <<mode, turn, style, st, hooks, now, pauses>>

\* StateIterator::operator!= at the end: stop, FinishKeepRunning, report.
RangeEnds ==
    /\ Alive /\ at = "test" /\ style = "range" /\ st.cached = 0
    /\ st' = FinishKeepRunning(st)
    /\ LET stopped == IF mode = "analysis" THEN measurement_stop(hooks) ELSE hooks
           finished == FinishHooks(st, stopped)
       IN  hooks' = IF mode = "analysis" /\ ~Warmup
                    THEN [finished EXCEPT !.executed = Append(@, <<finished.current, turn>>)]
                    ELSE finished
    /\ at' = "after"
    /\ UNCHANGED <<mode, turn, style, now, bodies, pauses>>

\* The n of a call: KeepRunning passes 1, KeepRunningBatch what it is given.
BatchSizes == IF style = "batch" THEN 1 .. MaxBatch ELSE {1}

\* KeepRunningInternal returns true after taking n iterations off the count.
TakesWhole(n) ==
    LET begun == IF st.started THEN st ELSE StartKeepRunning(st)
    IN  /\ begun.total_iterations >= n
        /\ ~begun.skipped
        /\ st' = [begun EXCEPT !.total_iterations = @ - n]
        /\ hooks' = IF st.started THEN hooks ELSE StartHooks(st, hooks)

\* Mutant of Rest: the overshoot is forgotten.
Rest_NoLeftover(s, n) == [s EXCEPT !.total_iterations = 0]

Rest(s, n) == [s EXCEPT !.batch_leftover = n - s.total_iterations, !.total_iterations = 0]

\* It returns true for a batch larger than what is left.
TakesRest(n) ==
    LET begun == IF st.started THEN st ELSE StartKeepRunning(st)
    IN  /\ style = "batch" /\ begun.total_iterations # 0 /\ begun.total_iterations < n
        /\ st' = Rest(begun, n)
        /\ hooks' = IF st.started THEN hooks ELSE StartHooks(st, hooks)

KeepRunningContinues ==
    /\ Alive /\ at \in {"setup", "test"} /\ style # "range"
    /\ \E n \in BatchSizes : /\ TakesWhole(n) \/ TakesRest(n)
                             /\ bodies' = bodies + n
    /\ at' = "body"
    /\ UNCHANGED <<mode, turn, style, now, pauses>>

\* It returns false after FinishKeepRunning: nothing is left, or it was skipped.
KeepRunningEnds ==
    /\ Alive /\ at \in {"setup", "test"} /\ style # "range"
    /\ LET begun == IF st.started THEN st ELSE StartKeepRunning(st)
           hooked == IF st.started THEN hooks ELSE StartHooks(st, hooks)
       IN  /\ begun.total_iterations = 0
           /\ st' = FinishKeepRunning(begun)
           /\ hooks' = FinishHooks(begun, hooked)
    /\ at' = "after"
    /\ UNCHANGED <<mode, turn, style, now, bodies, pauses>>

\* The body runs to its end with the timer running, or skipped.
BodyEnds ==
    /\ Alive /\ at = "body"
    /\ st.running \/ st.skipped
    /\ st' = IF style = "range" THEN [st EXCEPT !.cached = @ - 1] ELSE st
    /\ at' = "test"
    /\ UNCHANGED <<mode, turn, style, hooks, now, bodies, pauses>>

\* state.PauseTiming() in the body, after some timed work.
Pause ==
    /\ Alive /\ at = "body" /\ st.running
    /\ Schedule[turn] \in Pausing /\ pauses < MaxPauses
    /\ pauses' = pauses + 1
    /\ st' = PauseTiming(st)
    /\ hooks' = PauseHooks(st, hooks)
    /\ UNCHANGED <<mode, turn, style, at, now, bodies>>

\* Time passes: in the timed work, in the untimed work, between two States.
Tick ==
    /\ Alive /\ now < MaxTime
    /\ now' = now + 1
    /\ UNCHANGED <<mode, turn, style, at, st, hooks, bodies, pauses>>

\* state.ResumeTiming() in the body.
Resume ==
    /\ Alive /\ at = "body" /\ ~st.running /\ ~st.skipped
    /\ st' = ResumeTiming(st)
    /\ hooks' = measurement_resume_timing(hooks)
    /\ UNCHANGED <<mode, turn, style, at, now, bodies, pauses>>

Next ==
    \/ Begin \/ Skip \/ ReturnSkipped
    \/ RangeBegin \/ RangeContinues \/ RangeEnds
    \/ KeepRunningContinues \/ KeepRunningEnds
    \/ BodyEnds \/ Pause \/ Tick \/ Resume

Spec == Init /\ [][Next]_vars
-----------------------------------------------------------------------------
Ran == at = "after" /\ st.started /\ ~st.skipped   \* the loop has ended by itself
SectionLength(i) == hooks.markers[i][3] - hooks.markers[i][2]
SectionsOf(k) == {i \in DOMAIN hooks.markers : hooks.markers[i][1] = k}

\* None of the BM_CHECKs that State and ThreadTimer make on themselves fails,
\* whatever a legal function does.
NoCheckFails == st.failed = "none"

\* The instruction counts of an analysis build are of the timed region: in the
\* window opened by the start hook callgrind collects exactly while the timer
\* of the loop runs, even when an earlier State was left in a skip; and nothing
\* that runs before the loop of a later State or after a loop is collected.
CollectsWhatIsTimed ==
    mode = "analysis" /\ hooks.window =>
        /\ at = "body" => hooks.callgrind = st.running
        /\ at \in {"setup", "after"} => ~hooks.callgrind

\* The markers of a measured State add up to the time that it reports. No
\* warm-up run sends one, and the sections sent are in order and disjoint.
MarkersTileTheTimer ==
    /\ mode = "walltime" /\ Ran /\ ~Warmup =>
          SumFunctionOnSet([i \in DOMAIN hooks.markers |-> SectionLength(i)], SectionsOf(turn))
             = st.real_time_used
    /\ \A i, j \in DOMAIN hooks.markers :
          /\ Schedule[hooks.markers[i][1]] = "measured"
          /\ 0 < hooks.markers[i][2] /\ hooks.markers[i][2] <= hooks.markers[i][3]
          /\ i < j => hooks.markers[i][3] <= hooks.markers[j][2]

\* iterations() is the number of iterations that ran, also when the last batch
\* overshoots, and it overshoots by less than one batch.
IterationsCountBodies ==
    Ran => /\ Iterations(st) = bodies
           /\ Iterations(st) \in MaxIters .. (MaxIters + MaxBatch - 1)

\* What is reported as executed is each time the State that has just ended,
\* under its own name, and at most once.
ExecutedUnderItsName ==
    \A i, j \in DOMAIN hooks.executed :
        /\ hooks.executed[i][1] = hooks.executed[i][2]
        /\ Schedule[hooks.executed[i][2]] = "measured"
        /\ i < j => hooks.executed[i][2] < hooks.executed[j][2]
=============================================================================
