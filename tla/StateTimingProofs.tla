--------------------------- MODULE StateTimingProofs ---------------------------
(***************************************************************************)
(* StateTiming for every schedule of States, every number of iterations,   *)
(* batches and pauses: the checks State makes on itself, the iterations it *)
(* counts, what the hooks of an analysis build see, and the sections that  *)
(* a walltime build sends.                                                 *)
(***************************************************************************)
EXTENDS StateTiming, FoldLemmas, SequenceTheorems, TLAPS

Checks == {"none", "StopTimer", "ResumeTiming", "resume_timestamp_", "PauseTiming",
           "StartKeepRunning", "FinishKeepRunning"}
StRecord ==
    [started : BOOLEAN, finished : BOOLEAN, skipped : BOOLEAN,
     total_iterations : Nat, batch_leftover : Nat, cached : Nat,
     running : BOOLEAN, start_real_time : Nat, real_time_used : Int,
     resume_timestamp : Nat, failed : Checks]
HooksRecord ==
    [collecting : BOOLEAN, callgrind : BOOLEAN, window : BOOLEAN,
     markers : Seq(Nat \X Nat \X Nat), current : Nat, executed : Seq(Nat \X Nat)]

TimingTypes ==
    /\ mode \in {"off", "analysis", "walltime"} /\ style \in {"range", "keep", "batch"}
    /\ at \in Places /\ st \in StRecord /\ hooks \in HooksRecord
    /\ now \in Nat \ {0} /\ bodies \in Nat
    /\ turn \in 0 .. Len(Schedule) /\ (at # "idle" => turn # 0)

\* No warm-up State of a walltime build pauses: that one fails a check, as the
\* section its pause closes is not sent and its timestamp stays.
PauseSafe == mode = "walltime" => "warmup" \notin Pausing

\* Where the function is, the flags of its State say.
FlagsFollow ==
    /\ at = "setup" => ~st.started /\ ~st.finished /\ ~st.running /\ st.resume_timestamp = 0
    /\ at \in {"test", "body"} => st.started /\ ~st.finished
    /\ at = "test" => st.skipped \/ st.running
    /\ at = "after" => ~st.running
    /\ st.skipped => ~st.running /\ st.total_iterations = 0

\* A section has a beginning exactly while the timer runs.
SectionOpen ==
    PauseSafe /\ mode = "walltime" /\ ~st.skipped /\ at \in {"setup", "test", "body"} =>
        (st.running <=> st.resume_timestamp # 0)

ChecksHold == PauseSafe => st.failed = "none"

\* What has been taken off the count has run, or is the overshoot.
CountFollows ==
    /\ at = "setup" => bodies = 0 /\ st.batch_leftover = 0
    /\ at = "body" /\ style = "range" => st.cached # 0
    /\ ~st.skipped /\ style = "range" =>
          /\ at = "test" => st.cached + bodies = MaxIters /\ st.batch_leftover = 0
          /\ at = "body" => st.cached + bodies = MaxIters + 1 /\ st.batch_leftover = 0
    /\ ~st.skipped /\ style # "range" /\ at \in {"test", "body"} =>
          /\ st.total_iterations + bodies = MaxIters + st.batch_leftover
          /\ st.batch_leftover # 0 => st.total_iterations = 0 /\ st.batch_leftover < MaxBatch
    /\ ~st.skipped /\ at = "after" =>
          /\ bodies = MaxIters + st.batch_leftover /\ st.total_iterations = 0
          /\ st.batch_leftover < MaxBatch

\* The flag mirrors the switch; within the window the switch is the timer's,
\* and off around a loop, also for what follows a State left in a skip.
SwitchFollows ==
    mode = "analysis" =>
        /\ hooks.collecting = hooks.callgrind
        /\ hooks.window =>
              /\ at # "idle"
              /\ at = "body" => hooks.callgrind = st.running
              /\ at \in {"setup", "after"} => ~hooks.callgrind
              /\ at = "test" /\ ~st.skipped => hooks.callgrind
              /\ at = "test" /\ st.skipped /\ (style # "range" \/ st.cached # 0) => ~hooks.callgrind

\* What is reported as executed comes from States before this one, until this
\* one has reported itself.
ExecutedFollows ==
    /\ ExecutedUnderItsName
    /\ \A i \in DOMAIN hooks.executed :
          hooks.executed[i][2] <= turn /\ (at # "after" => hooks.executed[i][2] < turn)
    /\ mode = "analysis" /\ style = "range" /\ at \in {"test", "body"} /\ ~Warmup =>
          hooks.current = turn

TimingInv ==
    TimingTypes /\ FlagsFollow /\ SectionOpen /\ ChecksHold /\ CountFollows
    /\ SwitchFollows /\ ExecutedFollows

-----------------------------------------------------------------------------
(* What the calls State makes do to its fields. *)

\* The fields of the loop, which the timer does not touch.
LoopFieldsKept(r, s) ==
    /\ r.started = s.started /\ r.finished = s.finished /\ r.skipped = s.skipped
    /\ r.total_iterations = s.total_iterations /\ r.batch_leftover = s.batch_leftover
    /\ r.cached = s.cached

\* A check that fails leaves its name, and changes nothing else.
LEMMA CheckFields ==
    ASSUME NEW s \in StRecord, NEW name \in Checks, NEW r, r = s \/ r = [s EXCEPT !.failed = name]
    PROVE  /\ r \in StRecord /\ LoopFieldsKept(r, s)
           /\ r.running = s.running /\ r.resume_timestamp = s.resume_timestamp
           /\ r.real_time_used = s.real_time_used /\ r.start_real_time = s.start_real_time
<1>1. [s EXCEPT !.failed = name] \in StRecord
  BY DEF StRecord
<1>2. QED
  BY <1>1 DEF StRecord, LoopFieldsKept

LEMMA StopTimerFields ==
    ASSUME NEW s \in StRecord, now \in Nat
    PROVE  /\ StopTimer(s) \in StRecord /\ LoopFieldsKept(StopTimer(s), s)
           /\ ~StopTimer(s).running /\ StopTimer(s).resume_timestamp = s.resume_timestamp
           /\ StopTimer(s).real_time_used = s.real_time_used + (now - s.start_real_time)
           /\ s.running /\ s.failed = "none" => StopTimer(s).failed = "none"
<1> DEFINE c == Check(s, s.running, "StopTimer")
<1>1. (c = s \/ c = [s EXCEPT !.failed = "StopTimer"]) /\ (s.running => c = s)
  BY DEF Check
<1>2. StopTimer(s) = [c EXCEPT !.running = FALSE, !.real_time_used = @ + (now - s.start_real_time)]
  BY DEF StopTimer
<1> HIDE DEF c
<1>3. c \in StRecord /\ LoopFieldsKept(c, s) /\ c.resume_timestamp = s.resume_timestamp
      /\ c.real_time_used = s.real_time_used /\ "StopTimer" \in Checks
  BY <1>1, CheckFields DEF Checks
<1>4. StopTimer(s) \in StRecord
  <2>1. c.real_time_used + (now - s.start_real_time) \in Int
    BY <1>3 DEF StRecord
  <2>2. QED
    BY <1>2, <1>3, <2>1 DEF StRecord
<1>5. QED
  BY <1>1, <1>2, <1>3, <1>4 DEF StRecord, LoopFieldsKept

LEMMA ResumeTimingFields ==
    ASSUME NEW s \in StRecord, now \in Nat
    PROVE  /\ ResumeTiming(s) \in StRecord /\ LoopFieldsKept(ResumeTiming(s), s)
           /\ ResumeTiming(s).running
           /\ ResumeTiming(s).real_time_used = s.real_time_used
           /\ ResumeTiming(s).start_real_time = now
           /\ ResumeTiming(s).resume_timestamp =
                 IF mode = "walltime" THEN now ELSE s.resume_timestamp
           /\ s.started /\ ~s.finished /\ ~s.skipped /\ s.failed = "none"
              /\ (mode = "walltime" => s.resume_timestamp = 0) => ResumeTiming(s).failed = "none"
<1> DEFINE c == Check(s, s.started /\ ~s.finished /\ ~s.skipped, "ResumeTiming")
           t == [c EXCEPT !.running = TRUE, !.start_real_time = now]
           d == Check(t, s.resume_timestamp = 0, "resume_timestamp_")
<1>1. (c = s \/ c = [s EXCEPT !.failed = "ResumeTiming"])
      /\ (s.started /\ ~s.finished /\ ~s.skipped => c = s)
  BY DEF Check
<1>2. ResumeTiming(s) = IF mode # "walltime" THEN t ELSE [d EXCEPT !.resume_timestamp = now]
  BY DEF ResumeTiming, StartTimer
<1> HIDE DEF c
<1>3. c \in StRecord /\ LoopFieldsKept(c, s) /\ c.resume_timestamp = s.resume_timestamp
      /\ (s.started /\ ~s.finished /\ ~s.skipped => c.failed = s.failed)
      /\ c.real_time_used = s.real_time_used /\ now \in Nat
  BY <1>1, CheckFields DEF Checks
<1>4. t \in StRecord /\ LoopFieldsKept(t, s) /\ t.resume_timestamp = s.resume_timestamp
      /\ t.failed = c.failed /\ t.running
      /\ t.real_time_used = s.real_time_used /\ t.start_real_time = now
  BY <1>3 DEF StRecord, LoopFieldsKept
<1> HIDE DEF t
<1>5. (d = t \/ d = [t EXCEPT !.failed = "resume_timestamp_"]) /\ (s.resume_timestamp = 0 => d = t)
  BY <1>4 DEF Check
<1> HIDE DEF d
<1>6. d \in StRecord /\ LoopFieldsKept(d, s) /\ d.running
      /\ d.real_time_used = s.real_time_used /\ d.start_real_time = now
      /\ (s.resume_timestamp = 0 => d.failed = t.failed)
  <2>1. d \in StRecord /\ LoopFieldsKept(d, t) /\ d.running = t.running
         /\ d.real_time_used = t.real_time_used /\ d.start_real_time = t.start_real_time
    <3>1. t \in StRecord /\ "resume_timestamp_" \in Checks
      BY <1>4 DEF Checks
    <3>2. QED
      BY <1>5, <3>1, CheckFields
  <2>2. QED
    BY <1>4, <1>5, <2>1 DEF LoopFieldsKept
<1>7. CASE mode = "walltime"
  <2>1. ResumeTiming(s) = [d EXCEPT !.resume_timestamp = now]
    BY <1>2, <1>7
  <2>2. QED
    BY <1>3, <1>4, <1>6, <1>7, <2>1 DEF StRecord, LoopFieldsKept
<1>8. CASE mode # "walltime"
  BY <1>2, <1>3, <1>4, <1>8
<1>9. QED
  BY <1>7, <1>8

LEMMA PauseTimingFields ==
    ASSUME NEW s \in StRecord, now \in Nat
    PROVE  /\ PauseTiming(s) \in StRecord /\ LoopFieldsKept(PauseTiming(s), s)
           /\ ~PauseTiming(s).running
           /\ PauseTiming(s).real_time_used = s.real_time_used + (now - s.start_real_time)
           /\ PauseTiming(s).resume_timestamp = (IF SendsMarkers(s) THEN 0 ELSE s.resume_timestamp)
           /\ s.started /\ ~s.finished /\ ~s.skipped /\ s.running /\ s.failed = "none" =>
                 PauseTiming(s).failed = "none"
<1> DEFINE c == Check(s, s.started /\ ~s.finished /\ ~s.skipped, "PauseTiming")
           d == StopTimer(c)
<1>1. c \in {s, [s EXCEPT !.failed = "PauseTiming"]}
      /\ (s.started /\ ~s.finished /\ ~s.skipped => c = s)
  BY DEF Check
<1>2. PauseTiming(s) = IF SendsMarkers(s) THEN [d EXCEPT !.resume_timestamp = 0] ELSE d
  BY DEF PauseTiming
<1> HIDE DEF c
<1>3. c \in StRecord /\ LoopFieldsKept(c, s) /\ c.resume_timestamp = s.resume_timestamp
      /\ c.running = s.running
      /\ c.real_time_used = s.real_time_used /\ c.start_real_time = s.start_real_time
      /\ (s.started /\ ~s.finished /\ ~s.skipped => c.failed = s.failed)
      /\ now \in Nat
  BY <1>1, CheckFields DEF Checks
<1>4. d \in StRecord /\ LoopFieldsKept(d, c) /\ ~d.running
      /\ d.resume_timestamp = c.resume_timestamp
      /\ d.real_time_used = c.real_time_used + (now - c.start_real_time)
      /\ (c.running /\ c.failed = "none" => d.failed = "none")
  BY <1>3, StopTimerFields
<1> HIDE DEF d
<1>5. LoopFieldsKept(d, s)
  BY <1>3, <1>4 DEF LoopFieldsKept
<1>6. CASE SendsMarkers(s)
  <2>1. PauseTiming(s) = [d EXCEPT !.resume_timestamp = 0]
    BY <1>2, <1>6
  <2>2. QED
    BY <1>3, <1>4, <1>5, <1>6, <2>1 DEF StRecord, LoopFieldsKept
<1>7. CASE ~SendsMarkers(s)
  BY <1>2, <1>3, <1>4, <1>5, <1>7
<1>8. QED
  BY <1>6, <1>7

LEMMA StartKeepRunningFields ==
    ASSUME NEW s \in StRecord, now \in Nat
    PROVE  LET r == StartKeepRunning(s)
           IN  /\ r \in StRecord
               /\ r.started /\ r.finished = s.finished /\ r.skipped = s.skipped
               /\ r.total_iterations = (IF s.skipped THEN 0 ELSE MaxIters)
               /\ r.batch_leftover = s.batch_leftover /\ r.cached = s.cached
               /\ s.skipped => r.running = s.running /\ r.resume_timestamp = s.resume_timestamp
               /\ ~s.skipped => /\ r.running
                                /\ r.resume_timestamp = IF mode = "walltime" THEN now
                                                        ELSE s.resume_timestamp
                                /\ r.real_time_used = s.real_time_used
                                /\ r.start_real_time = now
               /\ ~s.started /\ ~s.finished /\ s.failed = "none"
                  /\ (mode = "walltime" => s.resume_timestamp = 0) => r.failed = "none"
<1> DEFINE c == Check(s, ~s.started /\ ~s.finished, "StartKeepRunning")
           b == [c EXCEPT !.started = TRUE, !.total_iterations = IF s.skipped THEN 0 ELSE MaxIters]
<1>1. (c = s \/ c = [s EXCEPT !.failed = "StartKeepRunning"])
      /\ (~s.started /\ ~s.finished => c = s)
  BY DEF Check
<1>2. StartKeepRunning(s) = IF s.skipped THEN b ELSE ResumeTiming(b)
  BY DEF StartKeepRunning
<1> HIDE DEF c
<1>3. c \in StRecord /\ LoopFieldsKept(c, s) /\ c.resume_timestamp = s.resume_timestamp
      /\ c.running = s.running /\ c.real_time_used = s.real_time_used
      /\ (~s.started /\ ~s.finished => c.failed = s.failed)
  BY <1>1, CheckFields DEF Checks
<1>4. (IF s.skipped THEN 0 ELSE MaxIters) \in Nat
  BY BoundsAssumption
<1>5. b \in StRecord
  BY <1>3, <1>4 DEF StRecord
<1>6. /\ b.started /\ b.finished = s.finished /\ b.skipped = s.skipped
      /\ b.total_iterations = (IF s.skipped THEN 0 ELSE MaxIters)
      /\ b.batch_leftover = s.batch_leftover /\ b.cached = s.cached
      /\ b.running = s.running /\ b.resume_timestamp = s.resume_timestamp /\ b.failed = c.failed
      /\ b.real_time_used = s.real_time_used
  BY <1>3 DEF StRecord, LoopFieldsKept
<1> HIDE DEF b
<1>7. CASE s.skipped
  BY <1>2, <1>3, <1>5, <1>6, <1>7
<1>8. CASE ~s.skipped
  <2>1. StartKeepRunning(s) = ResumeTiming(b)
    BY <1>2, <1>8
  <2>2. QED
    BY <1>3, <1>5, <1>6, <1>8, <2>1, ResumeTimingFields DEF LoopFieldsKept
<1>9. QED
  BY <1>7, <1>8

LEMMA FinishKeepRunningFields ==
    ASSUME NEW s \in StRecord, now \in Nat
    PROVE  LET r == FinishKeepRunning(s)
           IN  /\ r \in StRecord
               /\ r.started = s.started /\ r.finished /\ r.skipped = s.skipped
               /\ r.total_iterations = 0
               /\ r.batch_leftover = s.batch_leftover /\ r.cached = s.cached
               /\ s.skipped => r.running = s.running
               /\ ~s.skipped =>
                     /\ ~r.running
                     /\ r.resume_timestamp = (IF SendsMarkers(s) THEN 0 ELSE s.resume_timestamp)
                     /\ r.real_time_used = s.real_time_used + (now - s.start_real_time)
               /\ s.started /\ ~s.finished /\ (s.skipped \/ s.running) /\ s.failed = "none" =>
                     r.failed = "none"
<1> DEFINE c == Check(s, s.started /\ (~s.finished \/ s.skipped), "FinishKeepRunning")
           p == IF s.skipped THEN c ELSE PauseTiming(c)
<1>1. (c = s \/ c = [s EXCEPT !.failed = "FinishKeepRunning"])
      /\ (s.started /\ ~s.finished => c = s)
  BY DEF Check
<1>2. FinishKeepRunning(s) = [p EXCEPT !.total_iterations = 0, !.finished = TRUE]
  BY DEF FinishKeepRunning
<1> HIDE DEF c
<1>3. c \in StRecord /\ LoopFieldsKept(c, s) /\ c.running = s.running
      /\ c.resume_timestamp = s.resume_timestamp
      /\ c.real_time_used = s.real_time_used /\ c.start_real_time = s.start_real_time
      /\ (s.started /\ ~s.finished => c.failed = s.failed)
  BY <1>1, CheckFields DEF Checks
<1>4. p \in StRecord /\ LoopFieldsKept(p, s)
      /\ (s.skipped => p = c)
      /\ (~s.skipped =>
              /\ ~p.running
              /\ p.resume_timestamp = (IF SendsMarkers(s) THEN 0 ELSE s.resume_timestamp)
              /\ p.real_time_used = s.real_time_used + (now - s.start_real_time))
      /\ (s.started /\ ~s.finished /\ (s.skipped \/ s.running) /\ s.failed = "none" => p.failed = "none")
  <2>1. CASE s.skipped
    BY <1>3, <2>1
  <2>2. CASE ~s.skipped
    <3>1. p = PauseTiming(c)
      BY <2>2
    <3> HIDE DEF p
    <3>2. QED
      <4>1. SendsMarkers(c) = SendsMarkers(s)
        BY <1>3 DEF SendsMarkers
      <4>2. QED
        BY <1>3, <2>2, <3>1, <4>1, PauseTimingFields DEF LoopFieldsKept
  <2>3. QED
    BY <2>1, <2>2
<1> HIDE DEF p
<1>5. FinishKeepRunning(s) \in StRecord
  <2>1. 0 \in Nat
    OBVIOUS
  <2>2. QED
    BY <1>2, <1>4, <2>1 DEF StRecord
<1>6. QED
  BY <1>2, <1>3, <1>4, <1>5 DEF StRecord, LoopFieldsKept

LEMMA SkipStateFields ==
    ASSUME NEW s \in StRecord, now \in Nat
    PROVE  LET r == SkipState(s)
           IN  /\ r \in StRecord
               /\ r.started = s.started /\ r.finished = s.finished /\ r.skipped
               /\ r.total_iterations = 0
               /\ r.batch_leftover = s.batch_leftover /\ r.cached = s.cached
               /\ ~r.running /\ r.resume_timestamp = s.resume_timestamp
               /\ s.failed = "none" => r.failed = "none"
<1> DEFINE k == [s EXCEPT !.skipped = TRUE, !.total_iterations = 0]
<1>1. SkipState(s) = IF s.running THEN StopTimer(k) ELSE k
  BY DEF SkipState
<1>2. k \in StRecord
  BY DEF StRecord
<1>3. /\ k.started = s.started /\ k.finished = s.finished /\ k.skipped
      /\ k.total_iterations = 0
      /\ k.batch_leftover = s.batch_leftover /\ k.cached = s.cached
      /\ k.running = s.running /\ k.resume_timestamp = s.resume_timestamp /\ k.failed = s.failed
  BY DEF StRecord
<1> HIDE DEF k
<1>4. CASE s.running
  <2>1. SkipState(s) = StopTimer(k)
    BY <1>1, <1>4
  <2>2. QED
    BY <1>2, <1>3, <1>4, <2>1, StopTimerFields DEF LoopFieldsKept
<1>5. CASE ~s.running
  BY <1>1, <1>2, <1>3, <1>5
<1>6. QED
  BY <1>4, <1>5

-----------------------------------------------------------------------------
(* What they do to the hooks. *)

\* The fields that only the start, the stop and the report of a loop change.
ReportKept(r, h) == r.window = h.window /\ r.current = h.current /\ r.executed = h.executed

LEMMA ResumeHookFields ==
    ASSUME NEW h \in HooksRecord
    PROVE  LET r == measurement_resume_timing(h)
           IN  /\ r \in HooksRecord /\ ReportKept(r, h) /\ r.markers = h.markers
               /\ mode = "analysis" /\ h.collecting = h.callgrind => r.collecting /\ r.callgrind
<1>1. [h EXCEPT !.collecting = TRUE, !.callgrind = ~@] \in HooksRecord
  BY DEF HooksRecord
<1>2. CASE mode = "analysis" /\ h.collecting # TRUE
  BY <1>1, <1>2 DEF measurement_resume_timing, Toggle, HooksRecord, ReportKept
<1>3. CASE ~(mode = "analysis" /\ h.collecting # TRUE)
  BY <1>3 DEF measurement_resume_timing, Toggle, HooksRecord, ReportKept
<1>4. QED
  BY <1>2, <1>3

LEMMA PauseHookFields ==
    ASSUME NEW h \in HooksRecord
    PROVE  LET r == measurement_pause_timing(h)
           IN  /\ r \in HooksRecord /\ ReportKept(r, h) /\ r.markers = h.markers
               /\ mode = "analysis" /\ h.collecting = h.callgrind => ~r.collecting /\ ~r.callgrind
<1>1. [h EXCEPT !.collecting = FALSE, !.callgrind = ~@] \in HooksRecord
  BY DEF HooksRecord
<1>2. CASE mode = "analysis" /\ h.collecting # FALSE
  BY <1>1, <1>2 DEF measurement_pause_timing, Toggle, HooksRecord, ReportKept
<1>3. CASE ~(mode = "analysis" /\ h.collecting # FALSE)
  BY <1>3 DEF measurement_pause_timing, Toggle, HooksRecord, ReportKept
<1>4. QED
  BY <1>2, <1>3

LEMMA PauseHooksFields ==
    ASSUME NEW s \in StRecord, NEW h \in HooksRecord, now \in Nat, turn \in Nat
    PROVE  LET r == PauseHooks(s, h)
           IN  /\ r \in HooksRecord /\ ReportKept(r, h)
               /\ r.markers = IF SendsMarkers(s) THEN Append(h.markers, <<turn, s.resume_timestamp, now>>)
                                ELSE h.markers
               /\ mode = "analysis" /\ h.collecting = h.callgrind => ~r.collecting /\ ~r.callgrind
<1> DEFINE p == measurement_pause_timing(h)
           M == Nat \X Nat \X Nat
           m == <<turn, s.resume_timestamp, now>>
<1>1. p \in HooksRecord /\ ReportKept(p, h) /\ p.markers = h.markers
      /\ (mode = "analysis" /\ h.collecting = h.callgrind => ~p.collecting /\ ~p.callgrind)
  BY PauseHookFields
<1>2. PauseHooks(s, h) = IF SendsMarkers(s) THEN [p EXCEPT !.markers = Append(@, m)] ELSE p
  BY DEF PauseHooks
<1>3. m \in M
  BY DEF StRecord
<1> HIDE DEF m, p
<1>4. p.markers \in Seq(M)
  BY <1>1 DEF HooksRecord
<1>5. Append(p.markers, m) \in Seq(M)
  <2> HIDE DEF M
  <2>1. QED
    BY <1>3, <1>4, AppendProperties
<1>6. [p EXCEPT !.markers = Append(@, m)] \in HooksRecord
  BY <1>1, <1>5 DEF HooksRecord
<1>7. CASE SendsMarkers(s)
  <2>1. PauseHooks(s, h) = [p EXCEPT !.markers = Append(@, m)]
    BY <1>2, <1>7
  <2> DEFINE r == [p EXCEPT !.markers = Append(@, m)]
  <2>2. ReportKept(r, p) /\ r.markers = Append(p.markers, m)
        /\ r.collecting = p.collecting /\ r.callgrind = p.callgrind
    BY <1>1 DEF HooksRecord, ReportKept
  <2> HIDE DEF r
  <2>3. QED
    BY <1>1, <1>6, <1>7, <2>1, <2>2 DEF ReportKept, r, m
<1>8. CASE ~SendsMarkers(s)
  BY <1>1, <1>2, <1>8
<1>9. QED
  BY <1>7, <1>8

-----------------------------------------------------------------------------
LEMMA InitTimingInv == Init => TimingInv
<1> SUFFICES ASSUME Init PROVE TimingInv
  OBVIOUS
<1>1. NewState \in StRecord
  <2>1. "none" \in Checks /\ 0 \in Nat /\ 0 \in Int
    BY DEF Checks
  <2>2. QED
    BY <2>1 DEF NewState, StRecord
<1>2. NoHooks \in HooksRecord
  <2>1. <<>> \in Seq(Nat \X Nat \X Nat) /\ <<>> \in Seq(Nat \X Nat) /\ 0 \in Nat
    OBVIOUS
  <2>2. QED
    BY <2>1 DEF NoHooks, HooksRecord
<1>3. TimingTypes
  BY <1>1, <1>2, ModesAssumption DEF Init, TimingTypes, Places
<1>4. FlagsFollow /\ SectionOpen /\ ChecksHold /\ CountFollows
  BY DEF Init, NewState, FlagsFollow, SectionOpen, ChecksHold, CountFollows
<1>5. SwitchFollows /\ ExecutedFollows
  BY DEF Init, NoHooks, SwitchFollows, ExecutedFollows, ExecutedUnderItsName
<1>6. QED
  BY <1>3, <1>4, <1>5 DEF TimingInv

\* A step within a State that reports nothing.
LEMMA ExecutedKept ==
    ASSUME TimingInv, UNCHANGED <<mode, turn>>, ReportKept(hooks', hooks) \/ hooks' = hooks,
           at = "after" => at' = "after",
           at' \in {"test", "body"} => at \in {"test", "body"} /\ style' = style
    PROVE  ExecutedFollows'
<1>1. hooks'.executed = hooks.executed /\ hooks'.current = hooks.current
  BY DEF ReportKept
<1>2. ExecutedUnderItsName'
  BY <1>1 DEF TimingInv, ExecutedFollows, ExecutedUnderItsName
<1>3. QED
  BY <1>1, <1>2 DEF TimingInv, ExecutedFollows, Warmup

LEMMA BeginKeeps == TimingInv /\ Begin => TimingInv'
<1> SUFFICES ASSUME TimingInv, Begin PROVE TimingInv'
  OBVIOUS
<1>1. /\ at \in {"idle", "after"} /\ at' = "setup" /\ turn < Len(Schedule) /\ turn' = turn + 1
      /\ style' \in Styles /\ st' = NewState /\ bodies' = 0 /\ UNCHANGED <<mode, hooks, now>>
  BY DEF Begin
<1>2. NewState \in StRecord
  <2>1. "none" \in Checks /\ 0 \in Nat /\ 0 \in Int
    BY DEF Checks
  <2>2. QED
    BY <2>1 DEF NewState, StRecord
<1>3. TimingTypes'
  BY <1>1, <1>2, ModesAssumption DEF TimingInv, TimingTypes, Places
<1>4. FlagsFollow' /\ SectionOpen' /\ ChecksHold' /\ CountFollows'
  BY <1>1 DEF NewState, FlagsFollow, SectionOpen, ChecksHold, CountFollows
<1>5. SwitchFollows'
  BY <1>1 DEF TimingInv, SwitchFollows
<1>6. ExecutedFollows'
  <2>1. ExecutedUnderItsName'
    BY <1>1 DEF TimingInv, ExecutedFollows, ExecutedUnderItsName
  <2>2. \A i \in DOMAIN hooks.executed :
            hooks.executed[i][2] < turn + 1 /\ hooks.executed[i][2] <= turn + 1
    <3> SUFFICES ASSUME NEW i \in DOMAIN hooks.executed
                 PROVE  hooks.executed[i][2] < turn + 1 /\ hooks.executed[i][2] <= turn + 1
      OBVIOUS
    <3>1. hooks.executed \in Seq(Nat \X Nat) /\ turn \in Nat
      BY DEF TimingInv, TimingTypes, HooksRecord
    <3>2. hooks.executed[i] \in Nat \X Nat
      BY <3>1
    <3>3. hooks.executed[i][2] \in Nat /\ hooks.executed[i][2] <= turn
      BY <3>2 DEF TimingInv, ExecutedFollows
    <3>4. QED
      BY <3>1, <3>3
  <2>3. QED
    BY <1>1, <2>1, <2>2 DEF ExecutedFollows
<1>7. QED
  BY <1>3, <1>4, <1>5, <1>6 DEF TimingInv

LEMMA SkipKeeps == TimingInv /\ Skip => TimingInv'
<1> SUFFICES ASSUME TimingInv, Skip PROVE TimingInv'
  OBVIOUS
<1>1. /\ Alive /\ at \in {"setup", "body", "after"} /\ ~st.skipped
      /\ st' = SkipState(st) /\ hooks' = SkipHooks(st, hooks)
      /\ UNCHANGED <<mode, turn, style, at, now, bodies>>
  BY DEF Skip
<1>2. st \in StRecord /\ hooks \in HooksRecord /\ now \in Nat
  BY DEF TimingInv, TimingTypes
<1>3. /\ st' \in StRecord
      /\ st'.started = st.started /\ st'.finished = st.finished /\ st'.skipped
      /\ st'.total_iterations = 0 /\ st'.cached = st.cached
      /\ st'.batch_leftover = st.batch_leftover
      /\ ~st'.running /\ st'.resume_timestamp = st.resume_timestamp
      /\ st.failed = "none" => st'.failed = "none"
  BY <1>1, <1>2, SkipStateFields
<1>4. /\ hooks' \in HooksRecord /\ ReportKept(hooks', hooks)
      /\ st.running /\ mode = "analysis" /\ hooks.collecting = hooks.callgrind =>
            ~hooks'.collecting /\ ~hooks'.callgrind
      /\ ~st.running => hooks' = hooks
  BY <1>1, <1>2, PauseHookFields DEF SkipHooks, ReportKept
<1>5. TimingTypes'
  BY <1>1, <1>3, <1>4 DEF TimingInv, TimingTypes
<1>6. FlagsFollow' /\ SectionOpen' /\ ChecksHold'
  BY <1>1, <1>3 DEF TimingInv, FlagsFollow, SectionOpen, ChecksHold, PauseSafe, Alive
<1>7. CountFollows'
  BY <1>1, <1>3 DEF TimingInv, CountFollows
<1>8. SwitchFollows'
  <2> SUFFICES ASSUME mode = "analysis" PROVE SwitchFollows'
    BY <1>1 DEF SwitchFollows
  <2>1. hooks.collecting = hooks.callgrind /\ st'.running = FALSE /\ st.running \in BOOLEAN
    BY <1>2, <1>3 DEF TimingInv, SwitchFollows, StRecord
  <2>2. CASE st.running
    <3>1. hooks'.collecting = FALSE /\ hooks'.callgrind = FALSE /\ hooks'.window = hooks.window
      BY <1>4, <2>1, <2>2 DEF HooksRecord, ReportKept
    <3>2. QED
      BY <1>1, <2>1, <3>1 DEF TimingInv, SwitchFollows
  <2>3. CASE ~st.running
    <3>1. hooks' = hooks /\ st.running = FALSE
      BY <1>4, <2>1, <2>3
    <3>2. QED
      BY <1>1, <2>1, <3>1 DEF TimingInv, SwitchFollows
  <2>4. QED
    BY <2>2, <2>3
<1>9. ExecutedFollows'
  BY <1>1, <1>4, ExecutedKept
<1>10. QED
  BY <1>5, <1>6, <1>7, <1>8, <1>9 DEF TimingInv

LEMMA ReturnSkippedKeeps == TimingInv /\ ReturnSkipped => TimingInv'
<1> SUFFICES ASSUME TimingInv, ReturnSkipped PROVE TimingInv'
  OBVIOUS
<1>1. /\ at \in {"setup", "body"} /\ st.skipped /\ at' = "after"
      /\ UNCHANGED <<mode, turn, style, st, hooks, now, bodies>>
  BY DEF ReturnSkipped
<1>2. TimingTypes'
  BY <1>1 DEF TimingInv, TimingTypes, Places
<1>3. FlagsFollow' /\ SectionOpen' /\ ChecksHold' /\ CountFollows'
  BY <1>1 DEF TimingInv, FlagsFollow, SectionOpen, ChecksHold, CountFollows, PauseSafe
<1>4. SwitchFollows'
  BY <1>1 DEF TimingInv, SwitchFollows, FlagsFollow
<1>5. ExecutedFollows'
  BY <1>1, ExecutedKept
<1>6. QED
  BY <1>2, <1>3, <1>4, <1>5 DEF TimingInv

LEMMA RangeBeginKeeps == TimingInv /\ RangeBegin => TimingInv'
<1> SUFFICES ASSUME TimingInv, RangeBegin PROVE TimingInv'
  OBVIOUS
<1> DEFINE k == StartKeepRunning(st)
           h == StartHooks(st, hooks)
           c == IF st.skipped THEN 0 ELSE MaxIters
<1>1. /\ Alive /\ at = "setup" /\ style = "range" /\ at' = "test"
      /\ st' = [k EXCEPT !.cached = c]
      /\ hooks' = IF mode = "analysis" THEN StartBenchmark(h) ELSE h
      /\ UNCHANGED <<mode, turn, style, now, bodies>>
  BY DEF RangeBegin
<1>2. st \in StRecord /\ hooks \in HooksRecord /\ now \in Nat \ {0} /\ turn \in Nat
      /\ ~st.started /\ ~st.finished /\ ~st.running /\ st.resume_timestamp = 0
      /\ bodies = 0 /\ st.batch_leftover = 0
  BY <1>1 DEF TimingInv, TimingTypes, FlagsFollow, CountFollows
<1>3. /\ k \in StRecord
      /\ k.started /\ k.finished = st.finished /\ k.skipped = st.skipped
      /\ k.total_iterations = c /\ k.batch_leftover = 0
      /\ st.skipped => ~k.running /\ k.resume_timestamp = 0
      /\ ~st.skipped => k.running /\ (mode = "walltime" => k.resume_timestamp = now)
      /\ st.failed = "none" => k.failed = "none"
  BY <1>2, StartKeepRunningFields
<1> HIDE DEF k
<1>4. c \in Nat
  BY BoundsAssumption
<1>5. /\ st' \in StRecord
      /\ st'.started /\ ~st'.finished /\ st'.skipped = st.skipped
      /\ st'.total_iterations = c /\ st'.batch_leftover = 0 /\ st'.cached = c
      /\ st.skipped => ~st'.running /\ st'.resume_timestamp = 0
      /\ ~st.skipped => st'.running /\ (mode = "walltime" => st'.resume_timestamp = now)
      /\ st.failed = "none" => st'.failed = "none"
  BY <1>1, <1>2, <1>3, <1>4 DEF StRecord
<1>6. /\ h \in HooksRecord /\ ReportKept(h, hooks)
      /\ st.skipped => h = hooks
      /\ ~st.skipped /\ mode = "analysis" /\ hooks.collecting = hooks.callgrind =>
            h.collecting /\ h.callgrind
  BY <1>2, ResumeHookFields DEF StartHooks, ReportKept
<1> HIDE DEF h
<1>7. /\ hooks' \in HooksRecord
      /\ hooks'.executed = hooks.executed
      /\ hooks'.collecting = h.collecting /\ hooks'.callgrind = h.callgrind
      /\ mode = "analysis" /\ ~Warmup => hooks'.current = turn
  <2>1. CASE mode = "analysis" /\ Warmup
    BY <1>1, <1>6, <2>1 DEF StartBenchmark, measurement_start, HooksRecord, ReportKept
  <2>2. CASE mode = "analysis" /\ ~Warmup
    <3>1. hooks' = [[h EXCEPT !.current = turn] EXCEPT !.window = TRUE]
      BY <1>1, <2>2 DEF StartBenchmark, measurement_start
    <3>2. [h EXCEPT !.current = turn] \in HooksRecord
      BY <1>2, <1>6 DEF HooksRecord
    <3>3. QED
      BY <1>2, <1>6, <3>1, <3>2 DEF HooksRecord, ReportKept
  <2>3. CASE mode # "analysis"
    BY <1>1, <1>6, <2>3 DEF ReportKept
  <2>4. QED
    BY <2>1, <2>2, <2>3
<1>8. TimingTypes'
  BY <1>1, <1>5, <1>7 DEF TimingInv, TimingTypes, Places
<1>9. FlagsFollow'
  BY <1>1, <1>5 DEF FlagsFollow
<1>10. SectionOpen' /\ ChecksHold'
  BY <1>1, <1>2, <1>5 DEF TimingInv, SectionOpen, ChecksHold, PauseSafe, Alive
<1>11. CountFollows'
  BY <1>1, <1>2, <1>5, BoundsAssumption DEF CountFollows
<1>12. SwitchFollows'
  BY <1>1, <1>5, <1>6, <1>7 DEF TimingInv, SwitchFollows
<1>13. ExecutedFollows'
  <2>1. ExecutedUnderItsName'
    BY <1>7 DEF TimingInv, ExecutedFollows, ExecutedUnderItsName
  <2>2. QED
    BY <1>1, <1>7, <2>1 DEF TimingInv, ExecutedFollows, Warmup
<1>14. QED
  BY <1>8, <1>9, <1>10, <1>11, <1>12, <1>13 DEF TimingInv

LEMMA RangeContinuesKeeps == TimingInv /\ RangeContinues => TimingInv'
<1> SUFFICES ASSUME TimingInv, RangeContinues PROVE TimingInv'
  OBVIOUS
<1>1. /\ at = "test" /\ style = "range" /\ st.cached # 0 /\ at' = "body" /\ bodies' = bodies + 1
      /\ UNCHANGED <<mode, turn, style, st, hooks, now>>
  BY DEF RangeContinues
<1>2. st \in StRecord /\ hooks \in HooksRecord /\ bodies \in Nat
  BY DEF TimingInv, TimingTypes
<1>3. TimingTypes'
  BY <1>1 DEF TimingInv, TimingTypes, Places
<1>4. FlagsFollow' /\ SectionOpen' /\ ChecksHold'
  BY <1>1 DEF TimingInv, FlagsFollow, SectionOpen, ChecksHold, PauseSafe
<1>5. CountFollows'
  BY <1>1, <1>2, BoundsAssumption DEF TimingInv, CountFollows, StRecord
<1>6. SwitchFollows'
  <2> SUFFICES ASSUME mode = "analysis", hooks.window
               PROVE  hooks.callgrind = st.running
    BY <1>1 DEF TimingInv, SwitchFollows
  <2>1. CASE st.skipped
    BY <1>1, <1>2, <2>1 DEF TimingInv, SwitchFollows, FlagsFollow, StRecord, HooksRecord
  <2>2. CASE ~st.skipped
    BY <1>1, <1>2, <2>2 DEF TimingInv, SwitchFollows, FlagsFollow, StRecord, HooksRecord
  <2>3. QED
    BY <2>1, <2>2
<1>7. ExecutedFollows'
  BY <1>1, ExecutedKept
<1>8. QED
  BY <1>3, <1>4, <1>5, <1>6, <1>7 DEF TimingInv

\* What FinishKeepRunning makes of a State whose loop ends.
LEMMA LoopEnds ==
    ASSUME NEW s \in StRecord, NEW h \in HooksRecord, now \in Nat, turn \in Nat,
           s.started, ~s.finished, s.skipped \/ s.running, s.skipped => ~s.running
    PROVE  /\ FinishKeepRunning(s) \in StRecord
           /\ ~FinishKeepRunning(s).running /\ FinishKeepRunning(s).total_iterations = 0
           /\ FinishKeepRunning(s).skipped = s.skipped
           /\ FinishKeepRunning(s).batch_leftover = s.batch_leftover
           /\ s.failed = "none" => FinishKeepRunning(s).failed = "none"
           /\ FinishHooks(s, h) \in HooksRecord /\ ReportKept(FinishHooks(s, h), h)
           /\ s.skipped => FinishHooks(s, h) = h
           /\ mode = "analysis" /\ h.collecting = h.callgrind =>
                 /\ FinishHooks(s, h).collecting = FinishHooks(s, h).callgrind
                 /\ ~s.skipped => FinishHooks(s, h).callgrind = FALSE
<1>1. /\ FinishKeepRunning(s) \in StRecord
      /\ ~FinishKeepRunning(s).running /\ FinishKeepRunning(s).total_iterations = 0
      /\ FinishKeepRunning(s).skipped = s.skipped
      /\ FinishKeepRunning(s).batch_leftover = s.batch_leftover
      /\ s.failed = "none" => FinishKeepRunning(s).failed = "none"
  BY FinishKeepRunningFields
<1>2. CASE s.skipped
  <2>1. FinishHooks(s, h) = h
    BY <1>2 DEF FinishHooks
  <2>2. QED
    BY <1>1, <1>2, <2>1 DEF ReportKept
<1>3. CASE ~s.skipped
  <2>1. FinishHooks(s, h) = PauseHooks(s, h)
    BY <1>3 DEF FinishHooks
  <2> DEFINE r == PauseHooks(s, h)
  <2>2. /\ r \in HooksRecord /\ ReportKept(r, h)
        /\ mode = "analysis" /\ h.collecting = h.callgrind => ~r.collecting /\ ~r.callgrind
    BY PauseHooksFields
  <2> HIDE DEF r
  <2>3. mode = "analysis" /\ h.collecting = h.callgrind => r.collecting = FALSE /\ r.callgrind = FALSE
    BY <2>2 DEF HooksRecord
  <2>4. QED
    BY <1>1, <1>3, <2>1, <2>2, <2>3 DEF r
<1>4. QED
  BY <1>2, <1>3

LEMMA RangeEndsKeeps == TimingInv /\ RangeEnds => TimingInv'
<1> SUFFICES ASSUME TimingInv, RangeEnds PROVE TimingInv'
  OBVIOUS
<1> DEFINE w == IF mode = "analysis" THEN measurement_stop(hooks) ELSE hooks
           f == FinishHooks(st, w)
           e == <<f.current, turn>>
<1>1. /\ Alive /\ at = "test" /\ style = "range" /\ st.cached = 0 /\ at' = "after"
      /\ st' = FinishKeepRunning(st)
      /\ hooks' = IF mode = "analysis" /\ ~Warmup THEN [f EXCEPT !.executed = Append(@, e)] ELSE f
      /\ UNCHANGED <<mode, turn, style, now, bodies>>
  BY DEF RangeEnds
<1>2. st \in StRecord /\ hooks \in HooksRecord /\ now \in Nat /\ turn \in Nat /\ bodies \in Nat
      /\ st.started /\ ~st.finished /\ (st.skipped \/ st.running) /\ (st.skipped => ~st.running)
  BY <1>1 DEF TimingInv, TimingTypes, FlagsFollow
<1>3. w \in HooksRecord /\ w.current = hooks.current /\ w.executed = hooks.executed
      /\ w.collecting = hooks.collecting /\ w.callgrind = hooks.callgrind
      /\ (mode = "analysis" => ~w.window)
  BY <1>2 DEF measurement_stop, HooksRecord
<1> HIDE DEF w
<1>4. /\ st' \in StRecord /\ ~st'.running /\ st'.total_iterations = 0
      /\ st'.skipped = st.skipped /\ st'.batch_leftover = st.batch_leftover
      /\ st.failed = "none" => st'.failed = "none"
      /\ f \in HooksRecord /\ ReportKept(f, w)
      /\ mode = "analysis" /\ w.collecting = w.callgrind => f.collecting = f.callgrind
  BY <1>1, <1>2, <1>3, LoopEnds
<1> HIDE DEF f
<1>5. e \in Nat \X Nat
  BY <1>2, <1>4 DEF HooksRecord
<1>6. f.executed \in Seq(Nat \X Nat) /\ f.executed = hooks.executed /\ f.current = hooks.current
  BY <1>3, <1>4 DEF HooksRecord, ReportKept
<1>7. Append(f.executed, e) \in Seq(Nat \X Nat)
  <2> DEFINE P == Nat \X Nat
  <2>1. e \in P /\ f.executed \in Seq(P)
    BY <1>5, <1>6
  <2> HIDE DEF e, P
  <2>2. Append(f.executed, e) \in Seq(P)
    BY <2>1, AppendProperties
  <2>3. QED
    BY <2>2 DEF P
<1>8. [f EXCEPT !.executed = Append(@, e)] \in HooksRecord
  BY <1>4, <1>7 DEF HooksRecord
<1>9. /\ hooks' \in HooksRecord
      /\ hooks'.window = f.window /\ hooks'.collecting = f.collecting /\ hooks'.callgrind = f.callgrind
      /\ hooks'.executed = IF mode = "analysis" /\ ~Warmup THEN Append(f.executed, e) ELSE f.executed
  <2>1. CASE mode = "analysis" /\ ~Warmup
    <3> HIDE DEF e
    <3>1. hooks' = [f EXCEPT !.executed = Append(@, e)]
      BY <1>1, <2>1
    <3>2. QED
      BY <1>4, <1>8, <2>1, <3>1 DEF HooksRecord
  <2>2. CASE ~(mode = "analysis" /\ ~Warmup)
    BY <1>1, <1>4, <2>2
  <2>3. QED
    BY <2>1, <2>2
<1>10. TimingTypes'
  BY <1>1, <1>4, <1>9 DEF TimingInv, TimingTypes, Places
<1>11. FlagsFollow' /\ SectionOpen' /\ ChecksHold'
  BY <1>1, <1>4 DEF TimingInv, FlagsFollow, SectionOpen, ChecksHold, PauseSafe, Alive
<1>12. CountFollows'
  BY <1>1, <1>2, <1>4, BoundsAssumption DEF TimingInv, CountFollows
<1>13. SwitchFollows'
  BY <1>1, <1>3, <1>4, <1>9 DEF TimingInv, SwitchFollows, ReportKept
<1>14. ExecutedFollows'
  <2>1. CASE ~(mode = "analysis" /\ ~Warmup)
    <3>1. hooks'.executed = hooks.executed
      BY <1>6, <1>9, <2>1
    <3>2. QED
      BY <1>1, <3>1 DEF TimingInv, ExecutedFollows, ExecutedUnderItsName
  <2>2. CASE mode = "analysis" /\ ~Warmup
    <3> DEFINE x == hooks.executed
               n == Len(x)
    <3>1. x \in Seq(Nat \X Nat) /\ e = <<turn, turn>> /\ hooks'.executed = Append(x, e)
      BY <1>1, <1>6, <1>9, <2>2 DEF TimingInv, ExecutedFollows
    <3>2. /\ n \in Nat /\ DOMAIN x = 1 .. n /\ DOMAIN hooks'.executed = 1 .. n + 1
          /\ \A i \in 1 .. n : hooks'.executed[i] = x[i] /\ x[i] \in Nat \X Nat
          /\ hooks'.executed[n + 1] = e
      <4> DEFINE P == Nat \X Nat
      <4>1. x \in Seq(P) /\ e \in P
        BY <1>5, <3>1
      <4> HIDE DEF e, P, x
      <4>2. QED
        BY <3>1, <4>1 DEF P
    <3>3. Schedule[turn] = "measured"
      BY <1>1, <2>2, ModesAssumption DEF TimingInv, TimingTypes, Warmup
    <3>4. \A i \in 1 .. n : /\ x[i][1] = x[i][2] /\ Schedule[x[i][2]] = "measured"
                            /\ x[i][2] < turn /\ x[i][2] <= turn
                            /\ \A j \in 1 .. n : i < j => x[i][2] < x[j][2]
      BY <1>1, <3>2 DEF TimingInv, ExecutedFollows, ExecutedUnderItsName
    <3>5. e[1] = turn /\ e[2] = turn
      BY <3>1
    <3> HIDE DEF e, x, n
    <3>6. ASSUME NEW i \in 1 .. n + 1
          PROVE  /\ hooks'.executed[i][1] = hooks'.executed[i][2]
                 /\ Schedule[hooks'.executed[i][2]] = "measured"
                 /\ hooks'.executed[i][2] <= turn
                 /\ \A j \in 1 .. n + 1 : i < j => hooks'.executed[i][2] < hooks'.executed[j][2]
      <4>1. CASE i \in 1 .. n
        <5>1. ASSUME NEW j \in 1 .. n + 1, i < j PROVE hooks'.executed[i][2] < hooks'.executed[j][2]
          <6>1. CASE j \in 1 .. n
            BY <3>2, <3>4, <4>1, <5>1, <6>1
          <6>2. CASE j = n + 1
            BY <3>2, <3>4, <3>5, <4>1, <6>2
          <6>3. QED
            BY <3>2, <6>1, <6>2
        <5>2. QED
          BY <3>2, <3>4, <4>1, <5>1
      <4>2. CASE i = n + 1
        BY <1>2, <3>2, <3>3, <3>5, <4>2
      <4>3. QED
        BY <3>2, <4>1, <4>2
    <3>7. ExecutedUnderItsName'
      BY <3>2, <3>6 DEF ExecutedUnderItsName
    <3>8. QED
      BY <1>1, <3>2, <3>6, <3>7 DEF ExecutedFollows
  <2>3. QED
    BY <2>1, <2>2
<1>15. QED
  BY <1>10, <1>11, <1>12, <1>13, <1>14 DEF TimingInv

\* The State as a call of KeepRunning finds it, or makes it by starting.
Begun == IF st.started THEN st ELSE StartKeepRunning(st)
Hooked == IF st.started THEN hooks ELSE StartHooks(st, hooks)

LEMMA BegunFields ==
    ASSUME TimingInv, Alive, at \in {"setup", "test"}, style # "range"
    PROVE  /\ Begun \in StRecord /\ Hooked \in HooksRecord /\ ReportKept(Hooked, hooks)
           /\ Begun.started /\ ~Begun.finished /\ Begun.skipped = st.skipped
           /\ st.skipped => ~Begun.running /\ Begun.total_iterations = 0
           /\ ~st.skipped => /\ Begun.running
                             /\ Begun.total_iterations + bodies = MaxIters + Begun.batch_leftover
                             /\ Begun.batch_leftover # 0 =>
                                   Begun.total_iterations = 0 /\ Begun.batch_leftover < MaxBatch
           /\ PauseSafe => Begun.failed = "none"
           /\ PauseSafe /\ mode = "walltime" /\ ~st.skipped => Begun.resume_timestamp # 0
           /\ mode = "analysis" => Hooked.collecting = Hooked.callgrind
           /\ mode = "analysis" /\ Hooked.window =>
                 Hooked.callgrind = ~st.skipped
<1>1. st \in StRecord /\ hooks \in HooksRecord /\ now \in Nat \ {0} /\ bodies \in Nat
  BY DEF TimingInv, TimingTypes
<1>2. CASE at = "test"
  <2>1. st.started /\ Begun = st /\ Hooked = hooks
    BY <1>2 DEF TimingInv, FlagsFollow, Begun, Hooked
  <2>2. mode = "analysis" /\ hooks.window => hooks.callgrind = ~st.skipped
    BY <1>1, <1>2 DEF TimingInv, SwitchFollows, StRecord, HooksRecord
  <2>3. QED
    BY <1>1, <1>2, <2>1, <2>2
       DEF TimingInv, FlagsFollow, SectionOpen, ChecksHold, CountFollows, SwitchFollows, ReportKept
<1>3. CASE at = "setup"
  <2> DEFINE k == StartKeepRunning(st)
             h == StartHooks(st, hooks)
  <2>1. /\ ~st.started /\ ~st.finished /\ ~st.running /\ st.resume_timestamp = 0
        /\ bodies = 0 /\ st.batch_leftover = 0 /\ Begun = k /\ Hooked = h
    BY <1>3 DEF TimingInv, FlagsFollow, CountFollows, Begun, Hooked
  <2>2. /\ k \in StRecord /\ k.started /\ ~k.finished /\ k.skipped = st.skipped
        /\ k.total_iterations = (IF st.skipped THEN 0 ELSE MaxIters) /\ k.batch_leftover = 0
        /\ st.skipped => ~k.running
        /\ ~st.skipped => k.running /\ (mode = "walltime" => k.resume_timestamp = now)
        /\ st.failed = "none" => k.failed = "none"
    BY <1>1, <2>1, StartKeepRunningFields
  <2> HIDE DEF k
  <2>3. /\ h \in HooksRecord /\ ReportKept(h, hooks)
        /\ st.skipped => h = hooks
        /\ ~st.skipped /\ mode = "analysis" /\ hooks.collecting = hooks.callgrind =>
              h.collecting /\ h.callgrind
    BY <1>1, ResumeHookFields DEF StartHooks, ReportKept
  <2> HIDE DEF h
  <2>4. mode = "analysis" => h.collecting = h.callgrind
    BY <1>1, <2>3 DEF TimingInv, SwitchFollows, HooksRecord
  <2>5. mode = "analysis" /\ h.window => h.callgrind = ~st.skipped
    BY <1>1, <1>3, <2>3 DEF TimingInv, SwitchFollows, HooksRecord, StRecord, ReportKept
  <2>6. QED
    BY <1>1, <2>1, <2>2, <2>3, <2>4, <2>5, BoundsAssumption
       DEF TimingInv, ChecksHold, PauseSafe, Alive
<1>4. QED
  BY <1>2, <1>3

LEMMA KeepRunningContinuesKeeps == TimingInv /\ KeepRunningContinues => TimingInv'
<1> SUFFICES ASSUME TimingInv, KeepRunningContinues PROVE TimingInv'
  OBVIOUS
<1>1. /\ Alive /\ at \in {"setup", "test"} /\ style # "range" /\ at' = "body"
      /\ UNCHANGED <<mode, turn, style, now>>
  BY DEF KeepRunningContinues
<1>2. PICK n \in BatchSizes : (TakesWhole(n) \/ TakesRest(n)) /\ bodies' = bodies + n
  BY DEF KeepRunningContinues
<1>3. n \in Nat \ {0} /\ (n # 1 => n <= MaxBatch) /\ MaxBatch \in Nat \ {0} /\ MaxIters \in Nat
  BY <1>2, BoundsAssumption DEF BatchSizes
<1> DEFINE b == Begun
<1>4. /\ b \in StRecord /\ b.started /\ ~b.finished
      /\ st.skipped => b.total_iterations = 0
      /\ ~st.skipped => /\ b.running
                        /\ b.total_iterations + bodies = MaxIters + b.batch_leftover
                        /\ b.batch_leftover # 0 => b.total_iterations = 0 /\ b.batch_leftover < MaxBatch
      /\ PauseSafe => b.failed = "none"
      /\ PauseSafe /\ mode = "walltime" /\ ~st.skipped => b.resume_timestamp # 0
      /\ b.skipped = st.skipped /\ bodies \in Nat
  BY <1>1, BegunFields DEF TimingInv, TimingTypes
<1>5. hooks' = Hooked
  BY <1>2 DEF TakesWhole, TakesRest, Hooked
<1>6. /\ hooks' \in HooksRecord /\ ReportKept(hooks', hooks)
      /\ mode = "analysis" => hooks'.collecting = hooks'.callgrind
      /\ mode = "analysis" /\ hooks'.window => hooks'.callgrind = ~st.skipped
  BY <1>1, <1>5, BegunFields
<1>7. /\ ~st.skipped /\ st' \in StRecord /\ st'.started /\ ~st'.finished /\ ~st'.skipped
      /\ st'.running /\ st'.failed = b.failed /\ st'.resume_timestamp = b.resume_timestamp
      /\ st'.total_iterations + bodies' = MaxIters + st'.batch_leftover
      /\ st'.batch_leftover # 0 => st'.total_iterations = 0 /\ st'.batch_leftover < MaxBatch
  <2>1. CASE TakesWhole(n)
    <3>1. b.total_iterations >= n /\ ~b.skipped /\ st' = [b EXCEPT !.total_iterations = @ - n]
      BY <2>1 DEF TakesWhole, Begun
    <3> HIDE DEF b
    <3>2. b.total_iterations - n \in Nat
      BY <1>3, <1>4, <3>1 DEF StRecord
    <3>3. st' \in StRecord
      BY <1>4, <3>1, <3>2 DEF StRecord
    <3>4. /\ st'.started = b.started /\ st'.finished = b.finished /\ st'.skipped = b.skipped
          /\ st'.running = b.running /\ st'.failed = b.failed
          /\ st'.resume_timestamp = b.resume_timestamp
          /\ st'.batch_leftover = b.batch_leftover
          /\ st'.total_iterations = b.total_iterations - n
      BY <1>4, <3>1 DEF StRecord
    <3>5. b.total_iterations \in Nat /\ b.batch_leftover \in Nat
      BY <1>4 DEF StRecord
    <3>6. QED
      BY <1>2, <1>3, <1>4, <3>1, <3>3, <3>4, <3>5
  <2>2. CASE TakesRest(n)
    <3>1. /\ b.total_iterations # 0 /\ b.total_iterations < n
          /\ st' = [b EXCEPT !.batch_leftover = n - b.total_iterations, !.total_iterations = 0]
      BY <2>2 DEF TakesRest, Begun, Rest
    <3> HIDE DEF b
    <3>2. b.total_iterations \in Nat /\ b.batch_leftover \in Nat
      BY <1>4 DEF StRecord
    <3>3. n - b.total_iterations \in Nat /\ 0 \in Nat
      BY <1>3, <3>1, <3>2
    <3>4. st' \in StRecord
      BY <1>4, <3>1, <3>3 DEF StRecord
    <3>5. /\ st'.started = b.started /\ st'.finished = b.finished /\ st'.skipped = b.skipped
          /\ st'.running = b.running /\ st'.failed = b.failed
          /\ st'.resume_timestamp = b.resume_timestamp
          /\ st'.batch_leftover = n - b.total_iterations
          /\ st'.total_iterations = 0
      BY <1>4, <3>1 DEF StRecord
    <3>6. QED
      BY <1>2, <1>3, <1>4, <3>1, <3>2, <3>4, <3>5
  <2>3. QED
    BY <1>2, <2>1, <2>2
<1> HIDE DEF b
<1>8. TimingTypes'
  BY <1>1, <1>2, <1>3, <1>4, <1>6, <1>7 DEF TimingInv, TimingTypes, Places
<1>9. FlagsFollow'
  BY <1>1, <1>7 DEF FlagsFollow
<1>10. SectionOpen' /\ ChecksHold'
  BY <1>1, <1>4, <1>7 DEF SectionOpen, ChecksHold, PauseSafe
<1>11. CountFollows'
  BY <1>1, <1>7 DEF CountFollows
<1>12. SwitchFollows'
  BY <1>1, <1>6, <1>7 DEF SwitchFollows, StRecord, HooksRecord
<1>13. ExecutedFollows'
  <2>1. ExecutedUnderItsName'
    BY <1>6 DEF TimingInv, ExecutedFollows, ExecutedUnderItsName, ReportKept
  <2>2. QED
    BY <1>1, <1>6, <2>1 DEF TimingInv, ExecutedFollows, ReportKept
<1>14. QED
  BY <1>8, <1>9, <1>10, <1>11, <1>12, <1>13 DEF TimingInv

LEMMA KeepRunningEndsKeeps == TimingInv /\ KeepRunningEnds => TimingInv'
<1> SUFFICES ASSUME TimingInv, KeepRunningEnds PROVE TimingInv'
  OBVIOUS
<1> DEFINE b == Begun
           h == Hooked
<1>1. /\ Alive /\ at \in {"setup", "test"} /\ style # "range" /\ at' = "after"
      /\ b.total_iterations = 0
      /\ st' = FinishKeepRunning(b) /\ hooks' = FinishHooks(b, h)
      /\ UNCHANGED <<mode, turn, style, now, bodies>>
  BY DEF KeepRunningEnds, Begun, Hooked
<1>2. /\ b \in StRecord /\ h \in HooksRecord /\ ReportKept(h, hooks)
      /\ b.started /\ ~b.finished /\ b.skipped = st.skipped
      /\ st.skipped => ~b.running
      /\ ~st.skipped => /\ b.running
                        /\ b.total_iterations + bodies = MaxIters + b.batch_leftover
                        /\ b.batch_leftover # 0 => b.batch_leftover < MaxBatch
      /\ PauseSafe => b.failed = "none"
      /\ mode = "analysis" => h.collecting = h.callgrind
      /\ mode = "analysis" /\ h.window => h.callgrind = ~st.skipped
  BY <1>1, BegunFields
<1>3. now \in Nat /\ turn \in Nat /\ bodies \in Nat /\ st \in StRecord
  BY DEF TimingInv, TimingTypes
<1> HIDE DEF b, h
<1>4. /\ st' \in StRecord /\ ~st'.running /\ st'.total_iterations = 0
      /\ st'.skipped = b.skipped /\ st'.batch_leftover = b.batch_leftover
      /\ b.failed = "none" => st'.failed = "none"
      /\ hooks' \in HooksRecord /\ ReportKept(hooks', h)
      /\ b.skipped => hooks' = h
      /\ mode = "analysis" /\ h.collecting = h.callgrind =>
            /\ hooks'.collecting = hooks'.callgrind
            /\ ~b.skipped => hooks'.callgrind = FALSE
  <2>1. (b.skipped \/ b.running) /\ (b.skipped => ~b.running)
    BY <1>2
  <2> DEFINE r == FinishKeepRunning(b)
             g == FinishHooks(b, h)
  <2>2. /\ r \in StRecord /\ ~r.running /\ r.total_iterations = 0
        /\ r.skipped = b.skipped /\ r.batch_leftover = b.batch_leftover
        /\ b.failed = "none" => r.failed = "none"
        /\ g \in HooksRecord /\ ReportKept(g, h)
        /\ b.skipped => g = h
        /\ mode = "analysis" /\ h.collecting = h.callgrind =>
              /\ g.collecting = g.callgrind
              /\ ~b.skipped => g.callgrind = FALSE
    BY <1>2, <1>3, <2>1, LoopEnds
  <2>3. st' = r /\ hooks' = g
    BY <1>1
  <2> HIDE DEF r, g
  <2>4. QED
    BY <2>2, <2>3
<1>5. TimingTypes'
  BY <1>1, <1>4 DEF TimingInv, TimingTypes, Places
<1>6. FlagsFollow' /\ SectionOpen' /\ ChecksHold'
  BY <1>1, <1>2, <1>4 DEF FlagsFollow, SectionOpen, ChecksHold, PauseSafe
<1>7. CountFollows'
  <2>1. ~st'.skipped => bodies = MaxIters + st'.batch_leftover /\ st'.batch_leftover < MaxBatch
    BY <1>1, <1>2, <1>3, <1>4, BoundsAssumption DEF StRecord
  <2>2. QED
    BY <1>1, <1>4, <2>1 DEF CountFollows
<1>8. SwitchFollows'
  <2> SUFFICES ASSUME mode = "analysis"
               PROVE  hooks'.collecting = hooks'.callgrind /\ (hooks'.window => ~hooks'.callgrind)
    BY <1>1 DEF SwitchFollows
  <2>1. CASE st.skipped
    BY <1>2, <1>4, <2>1
  <2>2. CASE ~st.skipped
    BY <1>2, <1>4, <2>2
  <2>3. QED
    BY <2>1, <2>2
<1>9. ExecutedFollows'
  <2>1. ReportKept(hooks', hooks)
    BY <1>2, <1>4 DEF ReportKept
  <2>2. QED
    BY <1>1, <2>1, ExecutedKept
<1>10. QED
  BY <1>5, <1>6, <1>7, <1>8, <1>9 DEF TimingInv

LEMMA BodyEndsKeeps == TimingInv /\ BodyEnds => TimingInv'
<1> SUFFICES ASSUME TimingInv, BodyEnds PROVE TimingInv'
  OBVIOUS
<1>1. /\ at = "body" /\ (st.running \/ st.skipped) /\ at' = "test"
      /\ st' = IF style = "range" THEN [st EXCEPT !.cached = @ - 1] ELSE st
      /\ UNCHANGED <<mode, turn, style, hooks, now, bodies>>
  BY DEF BodyEnds
<1>2. st \in StRecord /\ hooks \in HooksRecord /\ st.cached \in Nat /\ bodies \in Nat
  BY DEF TimingInv, TimingTypes, StRecord
<1>3. style = "range" => st.cached - 1 \in Nat
  BY <1>1, <1>2 DEF TimingInv, CountFollows
<1>4. /\ st' \in StRecord
      /\ st'.started = st.started /\ st'.finished = st.finished /\ st'.skipped = st.skipped
      /\ st'.running = st.running /\ st'.failed = st.failed
      /\ st'.total_iterations = st.total_iterations /\ st'.batch_leftover = st.batch_leftover
      /\ st'.resume_timestamp = st.resume_timestamp
      /\ style = "range" => st'.cached = st.cached - 1
  <2>1. CASE style = "range"
    BY <1>1, <1>2, <1>3, <2>1 DEF StRecord
  <2>2. CASE style # "range"
    BY <1>1, <1>2, <2>2
  <2>3. QED
    BY <2>1, <2>2
<1>5. TimingTypes'
  BY <1>1, <1>4 DEF TimingInv, TimingTypes, Places
<1>6. FlagsFollow' /\ SectionOpen' /\ ChecksHold'
  BY <1>1, <1>4 DEF TimingInv, FlagsFollow, SectionOpen, ChecksHold, PauseSafe
<1>7. CountFollows'
  BY <1>1, <1>2, <1>4, BoundsAssumption DEF TimingInv, CountFollows
<1>8. SwitchFollows'
  BY <1>1, <1>2, <1>4 DEF TimingInv, SwitchFollows, FlagsFollow, StRecord, HooksRecord
<1>9. ExecutedFollows'
  BY <1>1, ExecutedKept
<1>10. QED
  BY <1>5, <1>6, <1>7, <1>8, <1>9 DEF TimingInv

LEMMA PauseKeeps == TimingInv /\ Pause => TimingInv'
<1> SUFFICES ASSUME TimingInv, Pause PROVE TimingInv'
  OBVIOUS
<1>1. /\ Alive /\ at = "body" /\ st.running /\ Schedule[turn] \in Pausing
      /\ st' = PauseTiming(st) /\ hooks' = PauseHooks(st, hooks)
      /\ UNCHANGED <<mode, turn, style, at, now, bodies>>
  BY DEF Pause
<1>2. /\ st \in StRecord /\ hooks \in HooksRecord /\ now \in Nat /\ turn \in Nat
      /\ st.started /\ ~st.finished /\ ~st.skipped
  BY <1>1 DEF TimingInv, TimingTypes, FlagsFollow
<1>3. /\ st' \in StRecord /\ LoopFieldsKept(st', st) /\ ~st'.running
      /\ st'.resume_timestamp = (IF SendsMarkers(st) THEN 0 ELSE st.resume_timestamp)
      /\ st.failed = "none" => st'.failed = "none"
  BY <1>1, <1>2, PauseTimingFields
<1>4. /\ hooks' \in HooksRecord /\ ReportKept(hooks', hooks)
      /\ mode = "analysis" => hooks'.collecting = FALSE /\ hooks'.callgrind = FALSE
  <2>1. /\ hooks' \in HooksRecord /\ ReportKept(hooks', hooks)
        /\ mode = "analysis" => ~hooks'.collecting /\ ~hooks'.callgrind
    BY <1>1, <1>2, PauseHooksFields DEF TimingInv, SwitchFollows
  <2>2. QED
    BY <2>1 DEF HooksRecord
<1>5. PauseSafe /\ mode = "walltime" => st'.resume_timestamp = 0
  <2> SUFFICES ASSUME PauseSafe, mode = "walltime" PROVE st'.resume_timestamp = 0
    OBVIOUS
  <2>1. ~Warmup
    BY <1>1 DEF PauseSafe, Warmup
  <2>2. st.resume_timestamp # 0
    BY <1>1, <1>2 DEF TimingInv, SectionOpen
  <2>3. QED
    BY <1>3, <2>1, <2>2 DEF SendsMarkers
<1>6. TimingTypes'
  BY <1>1, <1>3, <1>4 DEF TimingInv, TimingTypes
<1>7. FlagsFollow' /\ SectionOpen' /\ ChecksHold'
  BY <1>1, <1>2, <1>3, <1>5 DEF FlagsFollow, SectionOpen, ChecksHold, PauseSafe, LoopFieldsKept, Alive
<1>8. CountFollows'
  BY <1>1, <1>2, <1>3 DEF TimingInv, CountFollows, LoopFieldsKept
<1>9. SwitchFollows'
  BY <1>1, <1>3, <1>4 DEF SwitchFollows, StRecord
<1>10. ExecutedFollows'
  BY <1>1, <1>4, ExecutedKept
<1>11. QED
  BY <1>6, <1>7, <1>8, <1>9, <1>10 DEF TimingInv

LEMMA ResumeKeeps == TimingInv /\ Resume => TimingInv'
<1> SUFFICES ASSUME TimingInv, Resume PROVE TimingInv'
  OBVIOUS
<1>1. /\ Alive /\ at = "body" /\ ~st.running /\ ~st.skipped
      /\ st' = ResumeTiming(st) /\ hooks' = measurement_resume_timing(hooks)
      /\ UNCHANGED <<mode, turn, style, at, now, bodies>>
  BY DEF Resume
<1>2. /\ st \in StRecord /\ hooks \in HooksRecord /\ now \in Nat \ {0}
      /\ st.started /\ ~st.finished
  BY <1>1 DEF TimingInv, TimingTypes, FlagsFollow
<1>3. PauseSafe /\ mode = "walltime" => st.resume_timestamp = 0
  BY <1>1 DEF TimingInv, SectionOpen
<1>4. /\ st' \in StRecord /\ LoopFieldsKept(st', st) /\ st'.running
      /\ mode = "walltime" => st'.resume_timestamp = now
      /\ PauseSafe /\ st.failed = "none" => st'.failed = "none"
  BY <1>1, <1>2, <1>3, ResumeTimingFields
<1>5. /\ hooks' \in HooksRecord /\ ReportKept(hooks', hooks)
      /\ mode = "analysis" => hooks'.collecting = TRUE /\ hooks'.callgrind = TRUE
  <2>1. /\ hooks' \in HooksRecord /\ ReportKept(hooks', hooks)
        /\ mode = "analysis" => hooks'.collecting /\ hooks'.callgrind
    BY <1>1, <1>2, ResumeHookFields DEF TimingInv, SwitchFollows
  <2>2. QED
    BY <2>1 DEF HooksRecord
<1>6. TimingTypes'
  BY <1>1, <1>4, <1>5 DEF TimingInv, TimingTypes
<1>7. FlagsFollow' /\ SectionOpen' /\ ChecksHold'
  BY <1>1, <1>2, <1>4 DEF FlagsFollow, SectionOpen, ChecksHold, PauseSafe, LoopFieldsKept, Alive
<1>8. CountFollows'
  BY <1>1, <1>2, <1>4 DEF TimingInv, CountFollows, LoopFieldsKept
<1>9. SwitchFollows'
  BY <1>1, <1>4, <1>5 DEF SwitchFollows, StRecord
<1>10. ExecutedFollows'
  BY <1>1, <1>5, ExecutedKept
<1>11. QED
  BY <1>6, <1>7, <1>8, <1>9, <1>10 DEF TimingInv

\* Time passes, or nothing happens.
LEMMA TickKeeps == TimingInv /\ (Tick \/ UNCHANGED vars) => TimingInv'
<1> SUFFICES ASSUME TimingInv, Tick \/ UNCHANGED vars PROVE TimingInv'
  OBVIOUS
<1>1. UNCHANGED <<mode, turn, style, at, st, hooks, bodies>> /\ now' \in {now, now + 1}
  BY DEF Tick, vars
<1>2. TimingTypes'
  BY <1>1 DEF TimingInv, TimingTypes
<1>3. FlagsFollow' /\ SectionOpen' /\ ChecksHold' /\ CountFollows' /\ SwitchFollows'
  BY <1>1 DEF TimingInv, FlagsFollow, SectionOpen, ChecksHold, CountFollows, SwitchFollows, PauseSafe
<1>4. ExecutedFollows'
  BY <1>1, ExecutedKept
<1>5. QED
  BY <1>2, <1>3, <1>4 DEF TimingInv

-----------------------------------------------------------------------------
(* The markers of a walltime build. *)
LengthsIn(ms) == [i \in DOMAIN ms |-> ms[i][3] - ms[i][2]]
SectionsIn(ms, k) == {i \in DOMAIN ms : ms[i][1] = k}
TimeIn(ms, k) == SumFunctionOnSet(LengthsIn(ms), SectionsIn(ms, k))

\* The sections sent are of measured States up to this one, in order.
InOrder(ms) ==
    \A i \in DOMAIN ms :
        /\ ms[i][1] \in 1 .. turn /\ Schedule[ms[i][1]] = "measured"
        /\ 0 < ms[i][2] /\ ms[i][2] <= ms[i][3] /\ ms[i][3] <= now
        /\ \A j \in DOMAIN ms : i < j => ms[i][3] <= ms[j][2]

\* The timer of a measured State that is not skipped has counted what its
\* sections add up to; one that runs was started with the section still open,
\* after all that were sent.
TimerFollows(s, ms) ==
    mode = "walltime" /\ ~Warmup /\ ~s.skipped =>
        /\ TimeIn(ms, turn) = s.real_time_used
        /\ s.running <=> s.resume_timestamp # 0
        /\ s.running => /\ s.resume_timestamp = s.start_real_time /\ s.resume_timestamp <= now
                        /\ \A i \in DOMAIN ms : ms[i][3] <= s.resume_timestamp

MarkersInv == InOrder(hooks.markers) /\ (at # "idle" => TimerFollows(st, hooks.markers))

Markers == Seq(Nat \X Nat \X Nat)

LEMMA MarkerAppended ==
    ASSUME NEW ms \in Markers, NEW k \in Nat, NEW b \in Nat, NEW e \in Nat
    PROVE  LET r == Append(ms, <<k, b, e>>)
           IN  /\ DOMAIN ms = 1 .. Len(ms) /\ DOMAIN r = 1 .. Len(ms) + 1 /\ Len(ms) \in Nat
               /\ \A i \in 1 .. Len(ms) : r[i] = ms[i] /\ ms[i] \in Nat \X Nat \X Nat
               /\ r[Len(ms) + 1][1] = k /\ r[Len(ms) + 1][2] = b /\ r[Len(ms) + 1][3] = e
<1> DEFINE M == Nat \X Nat \X Nat
           m == <<k, b, e>>
<1>1. m \in M /\ ms \in Seq(M) /\ m[1] = k /\ m[2] = b /\ m[3] = e
  BY DEF Markers
<1> HIDE DEF M, m
<1>2. /\ DOMAIN ms = 1 .. Len(ms) /\ DOMAIN Append(ms, m) = 1 .. Len(ms) + 1 /\ Len(ms) \in Nat
      /\ \A i \in 1 .. Len(ms) : Append(ms, m)[i] = ms[i] /\ ms[i] \in M
      /\ Append(ms, m)[Len(ms) + 1] = m
  BY <1>1, AppendProperties
<1>3. QED
  BY <1>1, <1>2 DEF M, m

\* A section that is sent adds its length.
LEMMA TimeOfSection ==
    ASSUME NEW ms \in Markers, NEW k \in Nat, NEW b \in Nat, NEW e \in Nat
    PROVE  TimeIn(Append(ms, <<k, b, e>>), k) = TimeIn(ms, k) + (e - b)
<1> DEFINE r == Append(ms, <<k, b, e>>)
           n == Len(ms)
           S == SectionsIn(ms, k)
           f == LengthsIn(ms)
           g == LengthsIn(r)
<1>1. /\ DOMAIN ms = 1 .. n /\ DOMAIN r = 1 .. n + 1 /\ n \in Nat
      /\ \A i \in 1 .. n : r[i] = ms[i] /\ ms[i] \in Nat \X Nat \X Nat
      /\ r[n + 1][1] = k /\ r[n + 1][2] = b /\ r[n + 1][3] = e
  BY MarkerAppended
<1> HIDE DEF r, n
<1>2. SectionsIn(r, k) = S \cup {n + 1} /\ S \subseteq 1 .. n /\ n + 1 \notin S
  <2>1. S = {i \in 1 .. n : ms[i][1] = k} /\ SectionsIn(r, k) = {i \in 1 .. n + 1 : r[i][1] = k}
    BY <1>1 DEF SectionsIn
  <2>2. 1 .. n + 1 = (1 .. n) \cup {n + 1} /\ n + 1 \notin 1 .. n
    BY <1>1
  <2>3. \A i \in 1 .. n : r[i][1] = ms[i][1]
    BY <1>1
  <2>4. QED
    BY <1>1, <2>1, <2>2, <2>3
<1>3. IsFiniteSet(S)
  <2> HIDE DEF S, f, g
  <2>1. IsFiniteSet(1 .. n)
    BY <1>1, FS_Interval
  <2>2. QED
    BY <1>2, <2>1, FS_Subset
<1>4. \A i \in S : f[i] \in Int /\ g[i] = f[i]
  <2>1. ASSUME NEW i \in 1 .. n
        PROVE  f[i] = ms[i][3] - ms[i][2] /\ g[i] = ms[i][3] - ms[i][2] /\ f[i] \in Int
    BY <1>1 DEF LengthsIn
  <2> HIDE DEF S, f, g
  <2>2. QED
    BY <1>2, <2>1
<1>5. g[n + 1] = e - b /\ e - b \in Int
  BY <1>1 DEF LengthsIn
<1> HIDE DEF S, f, g
<1>6. SumFunctionOnSet(g, S) = SumFunctionOnSet(f, S) /\ SumFunctionOnSet(f, S) \in Int
  BY <1>3, <1>4, SumEqual, SumType
<1>7. \A i \in S \cup {n + 1} : g[i] \in Int
  BY <1>4, <1>5
<1>8. SumFunctionOnSet(g, S \cup {n + 1}) = g[n + 1] + SumFunctionOnSet(g, S)
  BY <1>2, <1>3, <1>7, SumAdd
<1>9. TimeIn(r, k) = SumFunctionOnSet(g, S \cup {n + 1}) /\ TimeIn(ms, k) = SumFunctionOnSet(f, S)
  BY <1>2 DEF TimeIn, S, f, g
<1>10. QED
  BY <1>5, <1>6, <1>8, <1>9 DEF r

\* The timer starts: a section opens, after all that were sent.
LEMMA SectionOpens ==
    ASSUME NEW s \in StRecord, NEW ms \in Markers, now \in Nat \ {0}, InOrder(ms), TimerFollows(s, ms),
           NEW r, r.skipped = s.skipped, r.running, r.real_time_used = s.real_time_used,
           r.start_real_time = now, mode = "walltime" => r.resume_timestamp = now
    PROVE  TimerFollows(r, ms)
BY DEF TimerFollows, InOrder

\* The timer stops: the section it has counted is sent.
LEMMA SectionCloses ==
    ASSUME NEW s \in StRecord, NEW h \in HooksRecord, now \in Nat, turn \in 1 .. Len(Schedule),
           InOrder(h.markers), TimerFollows(s, h.markers), s.running, ~s.skipped,
           NEW r, ~r.running,
           r.resume_timestamp = (IF SendsMarkers(s) THEN 0 ELSE s.resume_timestamp),
           r.real_time_used = s.real_time_used + (now - s.start_real_time)
    PROVE  InOrder(PauseHooks(s, h).markers) /\ TimerFollows(r, PauseHooks(s, h).markers)
<1> DEFINE ms == h.markers
           b == s.resume_timestamp
           c == PauseHooks(s, h).markers
           n == Len(ms)
<1>1. ms \in Markers /\ b \in Nat /\ turn \in Nat /\ s.running \in BOOLEAN
  BY DEF HooksRecord, StRecord, Markers
<1>2. c = IF SendsMarkers(s) THEN Append(ms, <<turn, b, now>>) ELSE ms
  BY <1>1, PauseHooksFields
<1> HIDE DEF ms, b, c
<1>3. CASE ~(mode = "walltime" /\ ~Warmup)
  <2>1. c = ms
    BY <1>2, <1>3 DEF SendsMarkers
  <2>2. QED
    BY <1>3, <2>1 DEF TimerFollows, c, ms
<1>4. CASE mode = "walltime" /\ ~Warmup
  <2>1. /\ TimeIn(ms, turn) = s.real_time_used /\ b # 0 /\ b = s.start_real_time /\ b <= now
        /\ \A i \in DOMAIN ms : ms[i][3] <= b
    BY <1>4 DEF TimerFollows, ms, b
  <2>2. c = Append(ms, <<turn, b, now>>) /\ r.resume_timestamp = 0
    BY <1>2, <1>4, <2>1 DEF SendsMarkers, b
  <2>3. Schedule[turn] = "measured"
    BY <1>4, ModesAssumption DEF Warmup
  <2>4. TimeIn(c, turn) = r.real_time_used
    BY <1>1, <2>1, <2>2, TimeOfSection
  <2>5. /\ DOMAIN ms = 1 .. n /\ DOMAIN c = 1 .. n + 1 /\ n \in Nat
        /\ \A i \in 1 .. n : c[i] = ms[i] /\ ms[i] \in Nat \X Nat \X Nat
        /\ c[n + 1][1] = turn /\ c[n + 1][2] = b /\ c[n + 1][3] = now
    BY <1>1, <2>2, MarkerAppended
  <2> HIDE DEF n
  <2>6. InOrder(c)
    <3>1. ASSUME NEW i \in 1 .. n, NEW j \in 1 .. n + 1, i < j PROVE c[i][3] <= c[j][2]
      <4>1. CASE j \in 1 .. n
        BY <2>5, <3>1, <4>1, ZenonT(60) DEF InOrder, ms
      <4>2. CASE j = n + 1
        BY <2>1, <2>5, <4>2
      <4>3. QED
        BY <2>5, <4>1, <4>2
    <3>2. ASSUME NEW i \in 1 .. n
          PROVE  /\ c[i][1] \in 1 .. turn /\ Schedule[c[i][1]] = "measured"
                 /\ 0 < c[i][2] /\ c[i][2] <= c[i][3] /\ c[i][3] <= now
      BY <2>5 DEF InOrder, ms
    <3>3. /\ c[n + 1][1] \in 1 .. turn /\ Schedule[c[n + 1][1]] = "measured"
          /\ 0 < c[n + 1][2] /\ c[n + 1][2] <= c[n + 1][3] /\ c[n + 1][3] <= now
      BY <1>1, <2>1, <2>3, <2>5
    <3>4. \A i \in 1 .. n + 1 : i \in 1 .. n \/ (i = n + 1 /\ \A j \in 1 .. n + 1 : ~(i < j))
      BY <2>5
    <3>5. QED
      BY <2>5, <3>1, <3>2, <3>3, <3>4 DEF InOrder
  <2>7. TimerFollows(r, c)
    BY <2>2, <2>4 DEF TimerFollows
  <2>8. QED
    BY <2>6, <2>7 DEF c
<1>5. QED
  BY <1>3, <1>4

\* A step within a State, after which the timer and the markers are these.
LEMMA MarkersKept ==
    ASSUME NEW s, NEW ms, InOrder(ms), TimerFollows(s, ms),
           UNCHANGED <<mode, turn, now>>, hooks'.markers = ms,
           \/ st'.skipped
           \/ /\ st'.skipped = s.skipped /\ st'.running = s.running
              /\ st'.real_time_used = s.real_time_used /\ st'.start_real_time = s.start_real_time
              /\ st'.resume_timestamp = s.resume_timestamp
    PROVE  MarkersInv'
<1>1. InOrder(hooks.markers)'
  BY DEF InOrder
<1>2. TimerFollows(st, hooks.markers)'
  BY DEF TimerFollows, Warmup
<1>3. QED
  BY <1>1, <1>2 DEF MarkersInv

LEMMA BeginMarkers == TimingInv /\ MarkersInv /\ Begin => MarkersInv'
<1> SUFFICES ASSUME TimingInv, MarkersInv, Begin PROVE MarkersInv'
  OBVIOUS
<1> DEFINE ms == hooks.markers
<1>1. at' = "setup" /\ turn' = turn + 1 /\ st' = NewState /\ UNCHANGED <<mode, hooks, now>>
      /\ turn \in Nat
  BY DEF Begin, TimingInv, TimingTypes
<1>2. InOrder(ms)'
  BY <1>1 DEF MarkersInv, InOrder
<1>3. TimeIn(ms, turn + 1) = 0
  <2>1. SectionsIn(ms, turn + 1) = {}
    BY <1>1 DEF MarkersInv, InOrder, SectionsIn
  <2>2. QED
    BY <2>1, SumOfEmpty DEF TimeIn
<1>4. TimerFollows(st, ms)'
  BY <1>1, <1>3 DEF TimerFollows, NewState
<1>5. QED
  BY <1>2, <1>4 DEF MarkersInv

LEMMA RangeBeginMarkers == TimingInv /\ MarkersInv /\ RangeBegin => MarkersInv'
<1> SUFFICES ASSUME TimingInv, MarkersInv, RangeBegin PROVE MarkersInv'
  OBVIOUS
<1> DEFINE k == StartKeepRunning(st)
           h == StartHooks(st, hooks)
<1>1. /\ at = "setup"
      /\ st' = [k EXCEPT !.cached = IF st.skipped THEN 0 ELSE MaxIters]
      /\ hooks' = IF mode = "analysis" THEN StartBenchmark(h) ELSE h
      /\ UNCHANGED <<mode, turn, now>>
  BY DEF RangeBegin
<1>2. st \in StRecord /\ hooks \in HooksRecord /\ now \in Nat \ {0} /\ ~st.running
  BY <1>1 DEF TimingInv, TimingTypes, FlagsFollow
<1>3. /\ k \in StRecord /\ k.skipped = st.skipped
      /\ ~st.skipped => /\ k.running /\ k.real_time_used = st.real_time_used
                        /\ k.start_real_time = now
                        /\ mode = "walltime" => k.resume_timestamp = now
  BY <1>2, StartKeepRunningFields
<1> HIDE DEF k
<1>4. /\ st'.skipped = k.skipped /\ st'.running = k.running
      /\ st'.real_time_used = k.real_time_used /\ st'.start_real_time = k.start_real_time
      /\ st'.resume_timestamp = k.resume_timestamp
  BY <1>1, <1>3 DEF StRecord
<1>5. h \in HooksRecord /\ h.markers = hooks.markers
  BY <1>2, ResumeHookFields DEF StartHooks
<1> HIDE DEF h
<1>6. hooks'.markers = hooks.markers
  BY <1>1, <1>5 DEF StartBenchmark, measurement_start, HooksRecord
<1>7. InOrder(hooks.markers) /\ TimerFollows(st, hooks.markers) /\ hooks.markers \in Markers
  BY <1>1, <1>2 DEF MarkersInv, HooksRecord, Markers
<1>8. TimerFollows(k, hooks.markers)
  <2>1. CASE st.skipped
    BY <1>3, <2>1 DEF TimerFollows
  <2>2. CASE ~st.skipped
    BY <1>2, <1>3, <1>7, <2>2, SectionOpens
  <2>3. QED
    BY <2>1, <2>2
<1>9. QED
  BY <1>1, <1>4, <1>6, <1>7, <1>8, MarkersKept

LEMMA RangeEndsMarkers == TimingInv /\ MarkersInv /\ RangeEnds => MarkersInv'
<1> SUFFICES ASSUME TimingInv, MarkersInv, RangeEnds PROVE MarkersInv'
  OBVIOUS
<1> DEFINE w == IF mode = "analysis" THEN measurement_stop(hooks) ELSE hooks
           f == FinishHooks(st, w)
           e == <<f.current, turn>>
<1>1. /\ at = "test"
      /\ st' = FinishKeepRunning(st)
      /\ hooks' = IF mode = "analysis" /\ ~Warmup THEN [f EXCEPT !.executed = Append(@, e)] ELSE f
      /\ UNCHANGED <<mode, turn, now>>
  BY DEF RangeEnds
<1>2. /\ st \in StRecord /\ hooks \in HooksRecord /\ now \in Nat /\ turn \in 1 .. Len(Schedule)
      /\ st.skipped \/ st.running
  BY <1>1 DEF TimingInv, TimingTypes, FlagsFollow
<1>3. w \in HooksRecord /\ w.markers = hooks.markers
  BY <1>2 DEF measurement_stop, HooksRecord
<1> HIDE DEF w
<1>4. InOrder(w.markers) /\ TimerFollows(st, w.markers)
  BY <1>1, <1>3 DEF MarkersInv
<1>5. f \in HooksRecord
  <2>1. turn \in Nat
    BY <1>2
  <2>2. PauseHooks(st, w) \in HooksRecord
    BY <1>2, <1>3, <2>1, PauseHooksFields
  <2>3. QED
    BY <1>3, <2>2 DEF FinishHooks
<1>6. CASE st.skipped
  <2>1. st'.skipped /\ f = w
    BY <1>1, <1>2, <1>6, FinishKeepRunningFields DEF FinishHooks
  <2> HIDE DEF f
  <2>2. hooks'.markers = w.markers
    BY <1>1, <1>5, <2>1 DEF HooksRecord
  <2>3. QED
    BY <1>1, <1>4, <2>1, <2>2, MarkersKept
<1>7. CASE ~st.skipped
  <2>1. /\ ~st'.running
        /\ st'.resume_timestamp = (IF SendsMarkers(st) THEN 0 ELSE st.resume_timestamp)
        /\ st'.real_time_used = st.real_time_used + (now - st.start_real_time)
    BY <1>1, <1>2, <1>7, FinishKeepRunningFields
  <2>2. f = PauseHooks(st, w)
    BY <1>7 DEF FinishHooks
  <2> HIDE DEF f
  <2>3. InOrder(f.markers) /\ TimerFollows(st', f.markers)
    BY <1>2, <1>3, <1>4, <1>7, <2>1, <2>2, SectionCloses
  <2>4. hooks'.markers = f.markers
    BY <1>1, <1>5 DEF HooksRecord
  <2>5. QED
    BY <1>1, <2>3, <2>4, MarkersKept
<1>8. QED
  BY <1>6, <1>7

\* KeepRunning and KeepRunningBatch: started when the first call starts it.
LEMMA BegunMarkers ==
    ASSUME TimingInv, MarkersInv, at \in {"setup", "test"}
    PROVE  /\ Begun \in StRecord /\ Hooked \in HooksRecord
           /\ InOrder(Hooked.markers) /\ TimerFollows(Begun, Hooked.markers)
           /\ Begun.skipped = st.skipped /\ (~st.skipped => Begun.running)
<1>1. /\ st \in StRecord /\ hooks \in HooksRecord /\ now \in Nat \ {0}
      /\ InOrder(hooks.markers) /\ TimerFollows(st, hooks.markers) /\ hooks.markers \in Markers
  BY DEF TimingInv, TimingTypes, MarkersInv, HooksRecord, Markers
<1>2. CASE at = "test"
  BY <1>1, <1>2 DEF TimingInv, FlagsFollow, Begun, Hooked
<1>3. CASE at = "setup"
  <2> DEFINE k == StartKeepRunning(st)
             h == StartHooks(st, hooks)
  <2>1. Begun = k /\ Hooked = h /\ ~st.running
    BY <1>3 DEF TimingInv, FlagsFollow, Begun, Hooked
  <2>2. /\ k \in StRecord /\ k.skipped = st.skipped
        /\ ~st.skipped => /\ k.running /\ k.real_time_used = st.real_time_used
                          /\ k.start_real_time = now
                          /\ mode = "walltime" => k.resume_timestamp = now
    BY <1>1, StartKeepRunningFields
  <2> HIDE DEF k
  <2>3. h \in HooksRecord /\ h.markers = hooks.markers
    BY <1>1, ResumeHookFields DEF StartHooks
  <2> HIDE DEF h
  <2>4. CASE st.skipped
    BY <1>1, <2>1, <2>2, <2>3, <2>4 DEF TimerFollows
  <2>5. CASE ~st.skipped
    <3>1. TimerFollows(k, hooks.markers)
      BY <1>1, <2>2, <2>5, SectionOpens
    <3>2. QED
      BY <1>1, <2>1, <2>2, <2>3, <2>5, <3>1
  <2>6. QED
    BY <2>4, <2>5
<1>4. QED
  BY <1>2, <1>3

LEMMA KeepRunningContinuesMarkers == TimingInv /\ MarkersInv /\ KeepRunningContinues => MarkersInv'
<1> SUFFICES ASSUME TimingInv, MarkersInv, KeepRunningContinues PROVE MarkersInv'
  OBVIOUS
<1>1. at \in {"setup", "test"} /\ UNCHANGED <<mode, turn, now>>
  BY DEF KeepRunningContinues
<1>2. PICK n \in BatchSizes : TakesWhole(n) \/ TakesRest(n)
  BY DEF KeepRunningContinues
<1>3. /\ Begun \in StRecord
      /\ InOrder(Hooked.markers) /\ TimerFollows(Begun, Hooked.markers)
  BY <1>1, BegunMarkers
<1>4. /\ st' = [Begun EXCEPT !.total_iterations = @ - n] \/ st' = Rest(Begun, n)
      /\ hooks' = Hooked
  BY <1>2 DEF TakesWhole, TakesRest, Begun, Hooked
<1>5. /\ st'.skipped = Begun.skipped /\ st'.running = Begun.running
      /\ st'.real_time_used = Begun.real_time_used /\ st'.start_real_time = Begun.start_real_time
      /\ st'.resume_timestamp = Begun.resume_timestamp
  BY <1>3, <1>4 DEF Rest, StRecord
<1>6. QED
  BY <1>1, <1>3, <1>4, <1>5, MarkersKept

LEMMA KeepRunningEndsMarkers == TimingInv /\ MarkersInv /\ KeepRunningEnds => MarkersInv'
<1> SUFFICES ASSUME TimingInv, MarkersInv, KeepRunningEnds PROVE MarkersInv'
  OBVIOUS
<1>1. /\ at \in {"setup", "test"} /\ UNCHANGED <<mode, turn, now>>
      /\ st' = FinishKeepRunning(Begun) /\ hooks' = FinishHooks(Begun, Hooked)
      /\ now \in Nat /\ turn \in 1 .. Len(Schedule)
  BY DEF KeepRunningEnds, Begun, Hooked, TimingInv, TimingTypes
<1>2. /\ Begun \in StRecord /\ Hooked \in HooksRecord
      /\ InOrder(Hooked.markers) /\ TimerFollows(Begun, Hooked.markers)
      /\ ~Begun.skipped => Begun.running
  BY <1>1, BegunMarkers
<1>3. CASE Begun.skipped
  <2>1. st'.skipped /\ hooks' = Hooked
    BY <1>1, <1>2, <1>3, FinishKeepRunningFields DEF FinishHooks
  <2>2. QED
    BY <1>1, <1>2, <2>1, MarkersKept
<1>4. CASE ~Begun.skipped
  <2>1. /\ ~st'.running
        /\ st'.resume_timestamp = (IF SendsMarkers(Begun) THEN 0 ELSE Begun.resume_timestamp)
        /\ st'.real_time_used = Begun.real_time_used + (now - Begun.start_real_time)
    BY <1>1, <1>2, <1>4, FinishKeepRunningFields
  <2>2. hooks' = PauseHooks(Begun, Hooked)
    BY <1>1, <1>4 DEF FinishHooks
  <2>3. InOrder(hooks'.markers) /\ TimerFollows(st', hooks'.markers)
    BY <1>1, <1>2, <1>4, <2>1, <2>2, SectionCloses
  <2>4. QED
    BY <1>1, <2>3, MarkersKept
<1>5. QED
  BY <1>3, <1>4

LEMMA BodyMarkers == TimingInv /\ MarkersInv /\ (Skip \/ BodyEnds \/ Pause \/ Resume) => MarkersInv'
<1> SUFFICES ASSUME TimingInv, MarkersInv, Skip \/ BodyEnds \/ Pause \/ Resume PROVE MarkersInv'
  OBVIOUS
<1>1. /\ UNCHANGED <<mode, turn, now>> /\ at # "idle"
      /\ st \in StRecord /\ hooks \in HooksRecord
      /\ now \in Nat \ {0} /\ turn \in 1 .. Len(Schedule)
  BY DEF Skip, BodyEnds, Pause, Resume, TimingInv, TimingTypes
<1>2. InOrder(hooks.markers) /\ TimerFollows(st, hooks.markers) /\ hooks.markers \in Markers
  BY <1>1 DEF MarkersInv, HooksRecord, Markers
<1>3. CASE Skip
  <2>1. st'.skipped
    BY <1>1, <1>3, SkipStateFields DEF Skip
  <2>2. hooks'.markers = hooks.markers
    BY <1>1, <1>3, PauseHookFields DEF Skip, SkipHooks
  <2>3. QED
    BY <1>1, <1>2, <2>1, <2>2, MarkersKept
<1>4. CASE BodyEnds
  <2>1. /\ st'.skipped = st.skipped /\ st'.running = st.running
        /\ st'.real_time_used = st.real_time_used /\ st'.start_real_time = st.start_real_time
        /\ st'.resume_timestamp = st.resume_timestamp /\ hooks' = hooks
    BY <1>1, <1>4 DEF BodyEnds, StRecord
  <2>2. QED
    BY <1>1, <1>2, <2>1, MarkersKept
<1>5. CASE Pause
  <2>1. st.running /\ ~st.skipped /\ st' = PauseTiming(st) /\ hooks' = PauseHooks(st, hooks)
    BY <1>5 DEF Pause, TimingInv, FlagsFollow
  <2>2. /\ ~st'.running
        /\ st'.resume_timestamp = (IF SendsMarkers(st) THEN 0 ELSE st.resume_timestamp)
        /\ st'.real_time_used = st.real_time_used + (now - st.start_real_time)
    BY <1>1, <2>1, PauseTimingFields
  <2>3. InOrder(hooks'.markers) /\ TimerFollows(st', hooks'.markers)
    BY <1>1, <1>2, <2>1, <2>2, SectionCloses
  <2>4. QED
    BY <1>1, <2>3, MarkersKept
<1>6. CASE Resume
  <2>1. ~st.running /\ st' = ResumeTiming(st) /\ hooks' = measurement_resume_timing(hooks)
    BY <1>6 DEF Resume
  <2>2. /\ st'.running /\ st'.skipped = st.skipped
        /\ st'.real_time_used = st.real_time_used /\ st'.start_real_time = now
        /\ mode = "walltime" => st'.resume_timestamp = now
    BY <1>1, <2>1, ResumeTimingFields DEF LoopFieldsKept
  <2>3. TimerFollows(st', hooks.markers)
    BY <1>1, <1>2, <2>1, <2>2, SectionOpens
  <2>4. hooks'.markers = hooks.markers
    BY <1>1, <2>1, ResumeHookFields
  <2>5. QED
    BY <1>1, <1>2, <2>3, <2>4, MarkersKept
<1>7. QED
  BY <1>3, <1>4, <1>5, <1>6

\* The steps that leave the timer and the markers alone.
LEMMA OtherMarkers ==
    TimingInv /\ MarkersInv /\ (ReturnSkipped \/ RangeContinues \/ Tick \/ UNCHANGED vars) => MarkersInv'
<1> SUFFICES ASSUME TimingInv, MarkersInv, ReturnSkipped \/ RangeContinues \/ Tick \/ UNCHANGED vars
             PROVE  MarkersInv'
  OBVIOUS
<1>1. /\ UNCHANGED <<mode, turn, st, hooks>> /\ now' \in {now, now + 1} /\ (at' # "idle" => at # "idle")
      /\ st \in StRecord /\ hooks.markers \in Markers /\ now \in Nat
  BY DEF ReturnSkipped, RangeContinues, Tick, vars, TimingInv, TimingTypes, HooksRecord, Markers
<1>2. InOrder(hooks.markers)'
  <2>1. \A x \in Nat : x <= now => x <= now'
    BY <1>1
  <2>2. \A i \in DOMAIN hooks.markers : hooks.markers[i][3] \in Nat
    BY <1>1 DEF Markers
  <2>3. ASSUME NEW i \in DOMAIN hooks.markers PROVE hooks.markers[i][3] <= now => hooks.markers[i][3] <= now'
    BY <2>1, <2>2, Zenon
  <2>4. QED
    BY <1>1, <2>3 DEF MarkersInv, InOrder
<1>3. at # "idle" => TimerFollows(st, hooks.markers)'
  <2>1. st.resume_timestamp <= now => st.resume_timestamp <= now'
    BY <1>1 DEF StRecord
  <2>2. at # "idle" => TimerFollows(st, hooks.markers)
    BY DEF MarkersInv
  <2>3. mode' = mode /\ turn' = turn /\ st' = st /\ hooks'.markers = hooks.markers /\ Warmup' = Warmup
    BY <1>1 DEF Warmup
  <2>4. TimerFollows(st, hooks.markers) => TimerFollows(st, hooks.markers)'
    BY <2>1, <2>3 DEF TimerFollows
  <2>5. QED
    BY <2>2, <2>4, Zenon
<1>4. QED
  BY <1>1, <1>2, <1>3 DEF MarkersInv

-----------------------------------------------------------------------------
\* TimingInv is an invariant of the States of a schedule, whatever legal code
\* the benchmark consists of.
THEOREM TimingInvariance == Spec => []TimingInv
<1>1. TimingInv /\ [Next]_vars => TimingInv'
  BY BeginKeeps, SkipKeeps, ReturnSkippedKeeps, RangeBeginKeeps, RangeContinuesKeeps, RangeEndsKeeps,
     KeepRunningContinuesKeeps, KeepRunningEndsKeeps, BodyEndsKeeps, PauseKeeps, ResumeKeeps,
     TickKeeps DEF Next
<1>2. QED
  BY InitTimingInv, <1>1, PTL DEF Spec

\* No check of State or ThreadTimer fails, except in a walltime build whose
\* warm-up pauses its timer: that is the only way to the failure warmup_pause shows.
THEOREM TimingChecksHold ==
    ASSUME "warmup" \notin Pausing PROVE Spec => []NoCheckFails
<1>1. TimingInv => NoCheckFails
  BY DEF TimingInv, ChecksHold, PauseSafe, NoCheckFails
<1>2. QED
  BY <1>1, TimingInvariance, PTL

\* In an analysis build callgrind collects exactly what the timer of the loop
\* measures, also after States that were left in a skip.
THEOREM TimingCollectsWhatIsTimed == Spec => []CollectsWhatIsTimed
<1>1. TimingInv => CollectsWhatIsTimed
  BY DEF TimingInv, SwitchFollows, CollectsWhatIsTimed
<1>2. QED
  BY <1>1, TimingInvariance, PTL

\* iterations() is what has run, by all three kinds of loop.
THEOREM TimingCountsBodies == Spec => []IterationsCountBodies
<1>1. TimingInv => IterationsCountBodies
  BY BoundsAssumption
     DEF TimingInv, TimingTypes, StRecord, CountFollows, IterationsCountBodies, Ran, Iterations
<1>2. QED
  BY <1>1, TimingInvariance, PTL

\* An analysis build reports each State that ends its loop under its own name,
\* and once.
THEOREM TimingExecutedUnderItsName == Spec => []ExecutedUnderItsName
<1>1. TimingInv => ExecutedUnderItsName
  BY DEF TimingInv, ExecutedFollows
<1>2. QED
  BY <1>1, TimingInvariance, PTL

\* The sections that a walltime build sends are of measured States, in order
\* and disjoint, and those of a State that ends its loop add up to the time it
\* reports, whatever it pauses and whatever was skipped before.
THEOREM TimingMarkersTileTheTimer == Spec => []MarkersTileTheTimer
<1>1. Init => MarkersInv
  BY DEF Init, NoHooks, MarkersInv, InOrder
<1>2. TimingInv /\ MarkersInv /\ [Next]_vars => MarkersInv'
  BY BeginMarkers, RangeBeginMarkers, RangeEndsMarkers, KeepRunningContinuesMarkers,
     KeepRunningEndsMarkers, BodyMarkers, OtherMarkers DEF Next
<1>3. TimingInv /\ MarkersInv => MarkersTileTheTimer
  <2> SUFFICES ASSUME TimingInv, MarkersInv PROVE MarkersTileTheTimer
    OBVIOUS
  <2>1. ASSUME mode = "walltime", Ran, ~Warmup
        PROVE  SumFunctionOnSet([i \in DOMAIN hooks.markers |-> SectionLength(i)], SectionsOf(turn))
                  = st.real_time_used
    <3>1. TimeIn(hooks.markers, turn) = st.real_time_used
      BY <2>1 DEF MarkersInv, TimerFollows, Ran
    <3>2. SectionsOf(turn) = SectionsIn(hooks.markers, turn)
      BY DEF SectionsOf, SectionsIn
    <3>3. [i \in DOMAIN hooks.markers |-> SectionLength(i)] = LengthsIn(hooks.markers)
      BY DEF SectionLength, LengthsIn
    <3>4. QED
      BY <3>1, <3>2, <3>3 DEF TimeIn
  <2>2. QED
    BY <2>1 DEF MarkersInv, InOrder, MarkersTileTheTimer
<1>4. QED
  BY InitTimingInv, TimingInvariance, <1>1, <1>2, <1>3, PTL DEF Spec
=============================================================================
