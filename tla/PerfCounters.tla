----------------------------- MODULE PerfCounters -----------------------------
(***************************************************************************)
(* The performance counters of a build with libpfm (perf_counters.cc and   *)
(* perf_counters.h): PerfCounters::Create and its groups of descriptors,   *)
(* reading them, and the PerfCountersMeasurement of one RunBenchmarks that *)
(* State starts and stops (benchmark.cc).                                  *)
(*                                                                         *)
(* The kernel is external: a call may be interrupted, may fail, and opens  *)
(* the lowest free descriptor. A value read is the descriptor it is of and *)
(* the time of the reading.                                                *)
(***************************************************************************)
EXTENDS Integers, Selections

CONSTANTS
    Known,               \* the counter names that libpfm knows
    Requests,            \* of each owner: sequences of names; "" is the empty name
    kMaxCounters, kPadding, kNrOfSyscallRetries,
    MaxTime, MaxCreates  \* bounds on the clock and on the calls of Create

ASSUME CountersAssumption ==
    /\ kMaxCounters \in Nat \ {0} /\ kPadding \in Nat /\ kNrOfSyscallRetries \in Nat \ {0}
    /\ "" \notin Known /\ MaxTime \in Nat /\ MaxCreates \in Nat

VARIABLES
    opened,       \* the kernel's open descriptors, in the order of opening
    time,
    pc,           \* where Create is; "idle" outside of it
    create,       \* Create's variables
    counters,     \* the PerfCounters of the measurement and of another owner
    measurement,  \* PerfCountersMeasurement
    stopped,      \* what the last Stop returned, if nothing has happened since
    misused,      \* whether a descriptor that was not open has been closed or read
    ended,        \* the BM_CHECK that has ended the program, and its counters then
    creates       \* calls of Create

vars == <<opened, time, pc, create, counters, measurement, stopped, misused, ended, creates>>

Owners == {"measurement", "other"}
NoCounters == [counter_ids |-> <<>>, leader_ids |-> <<>>, names |-> <<>>]
Buffer == 1 .. kPadding + kMaxCounters
NoValues == [w \in Buffer |-> <<>>]
NewMeasurement(request) ==
    [requested |-> request, valid_read |-> TRUE, start_values |-> NoValues,
     end_values |-> NoValues, running |-> FALSE, started_at |-> 0]
NotStopped == [ok |-> FALSE, list |-> <<>>, ids |-> <<>>, from |-> 0, to |-> 0]
Running == [check |-> "none", num_counters |-> 0]
NotCreating == [owner |-> "other", request |-> <<>>, i |-> 1, group_id |-> -1, is_first |-> FALSE,
                retries |-> 0, enabled |-> 0, made |-> NoCounters]

Init ==
    /\ opened = <<>> /\ time = 0 /\ pc = "idle" /\ create = NotCreating
    /\ counters = [o \in Owners |-> NoCounters]
    /\ measurement = NewMeasurement(<<>>) /\ stopped = NotStopped
    /\ misused = FALSE /\ ended = Running /\ creates = 0

-----------------------------------------------------------------------------
(* The kernel. *)

IsOpen(id) == \E k \in DOMAIN opened : opened[k].id = id
LowestFree == CHOOSE id \in 0 .. Len(opened) : ~IsOpen(id) /\ \A j \in 0 .. id - 1 : IsOpen(j)

Group(leader) == Among(opened, {d \in ToSet(opened) : d.leader = leader})

\* Closing a list of descriptors.
Close(ids) ==
    /\ opened' = Among(opened, {d \in ToSet(opened) : d.id \notin ToSet(ids)})
    /\ misused' = (misused \/ (\E k \in DOMAIN ids : ~IsOpen(ids[k])) \/ ~IsInjective(ids))

Idle == pc = "idle" /\ ended = Running
Creating == UNCHANGED <<time, counters, measurement, stopped, ended, creates>>

\* A check has failed: the process is gone, with all its descriptors.
Abort(check) ==
    /\ ended' = [check |-> check, num_counters |-> Len(counters["measurement"].names)]
    /\ opened' = <<>> /\ time' = 0 /\ counters' = [o \in Owners |-> NoCounters]
    /\ measurement' = NewMeasurement(<<>>)
    /\ UNCHANGED <<pc, create, misused, creates>>

-----------------------------------------------------------------------------
(* PerfCounters::Create. *)

\* Create for an owner that assigns the result to what it has.
Create(owner, request) ==
    /\ Idle /\ creates < MaxCreates /\ creates' = creates + 1
    /\ owner = "measurement" => counters[owner] = NoCounters /\ Len(request) <= kMaxCounters
    /\ pc' = "name" /\ create' = [NotCreating EXCEPT !.owner = owner, !.request = request]
    /\ stopped' = NotStopped
    /\ UNCHANGED <<opened, time, counters, measurement, misused, ended>>

\* The constructor of a measurement first makes the buffers, of a limited size.
TooManyRequested(request) ==
    /\ Idle /\ counters["measurement"] = NoCounters /\ Len(request) > kMaxCounters
    /\ Abort("size") /\ stopped' = NotStopped

Maxed == Len(create.made.names) = kMaxCounters
Name == create.request[create.i]

\* An empty or an unknown name is left out.
SkipName ==
    /\ pc = "name" /\ create.i <= Len(create.request) /\ ~Maxed /\ Name \notin Known
    /\ create' = [create EXCEPT !.i = @ + 1]
    /\ Creating /\ UNCHANGED <<opened, pc, misused>>

\* is_first is decided before the descriptor is opened.
TakeName ==
    /\ pc = "name" /\ create.i <= Len(create.request) /\ ~Maxed /\ Name \in Known
    /\ create' = [create EXCEPT !.is_first = create.group_id < 0, !.retries = 0]
    /\ pc' = "open"
    /\ Creating /\ UNCHANGED <<opened, misused>>

NamesDone ==
    /\ pc = "name" /\ (create.i > Len(create.request) \/ Maxed)
    /\ pc' = "enable" /\ Creating /\ UNCHANGED <<opened, create, misused>>

\* perf_event_open returns a descriptor, in the group or as a new leader.
OpenSucceeds ==
    LET id == LowestFree
        leads == create.group_id < 0
    IN  /\ pc = "open"
        /\ opened' = Append(opened, [id |-> id, name |-> Name, pinned |-> create.is_first,
                                     leader |-> IF leads THEN id ELSE create.group_id])
        /\ create' = [create EXCEPT
               !.group_id = IF leads THEN id ELSE @, !.i = @ + 1,
               !.made.leader_ids = IF leads THEN Append(@, id) ELSE @,
               !.made.counter_ids = Append(@, id), !.made.names = Append(@, Name)]
        /\ pc' = "name" /\ Creating /\ UNCHANGED misused

\* Mutant of NoDescriptor: the group stays.
NoDescriptor_SameGroup ==
    /\ create' = [create EXCEPT !.retries = 0]
    /\ UNCHANGED pc

\* The group may be full: once more as the leader of a new one. As a leader,
\* the counter is left out.
NoDescriptor ==
    IF create.group_id >= 0
    THEN create' = [create EXCEPT !.group_id = -1, !.retries = 0] /\ UNCHANGED pc
    ELSE create' = [create EXCEPT !.i = @ + 1] /\ pc' = "name"

OpenFails ==
    /\ pc = "open" /\ NoDescriptor /\ Creating /\ UNCHANGED <<opened, misused>>

OpenInterrupted ==
    /\ pc = "open"
    /\ IF create.retries + 1 < kNrOfSyscallRetries
       THEN create' = [create EXCEPT !.retries = @ + 1] /\ UNCHANGED pc
       ELSE NoDescriptor
    /\ Creating /\ UNCHANGED <<opened, misused>>

Leaders == create.made.leader_ids

EnableSucceeds ==
    /\ pc = "enable" /\ create.enabled < Len(Leaders)
    /\ create' = [create EXCEPT !.enabled = @ + 1]
    /\ Creating /\ UNCHANGED <<opened, pc, misused>>

\* Everything is closed, and an empty object returned.
EnableFails ==
    /\ pc = "enable" /\ create.enabled < Len(Leaders)
    /\ Close(create.made.counter_ids)
    /\ create' = [create EXCEPT !.made = NoCounters, !.enabled = 0]
    /\ Creating /\ UNCHANGED pc

\* Mutant of MovedFrom: the temporary keeps its descriptors.
MovedFrom_Copied(c) == c

\* What is left of an object that was moved from.
MovedFrom(c) == NoCounters

\* operator=: what the owner had is closed, then what Create returned is moved
\* to it, and the temporary is destroyed.
Assign ==
    /\ pc = "enable" /\ create.enabled = Len(Leaders)
    /\ Close(counters[create.owner].counter_ids \o MovedFrom(create.made).counter_ids)
    /\ counters' = [counters EXCEPT ![create.owner] = create.made]
    /\ measurement' = IF create.owner = "measurement" THEN NewMeasurement(create.request) ELSE measurement
    /\ pc' = "idle" /\ create' = NotCreating
    /\ UNCHANGED <<time, stopped, ended, creates>>

CreateStep ==
    \/ SkipName \/ TakeName \/ NamesDone
    \/ OpenSucceeds \/ OpenFails \/ OpenInterrupted
    \/ EnableSucceeds \/ EnableFails \/ Assign

\* ~PerfCounters.
Destroy(owner) ==
    /\ Idle /\ counters[owner] # NoCounters
    /\ Close(counters[owner].counter_ids)
    /\ counters' = [counters EXCEPT ![owner] = NoCounters]
    /\ measurement' = IF owner = "measurement" THEN NewMeasurement(<<>>) ELSE measurement
    /\ stopped' = NotStopped
    /\ UNCHANGED <<time, pc, create, ended, creates>>

-----------------------------------------------------------------------------
(* Reading. *)

\* memmove of the n values behind ptr over the word before them.
Unpadded(values, ptr, n) ==
    [w \in Buffer |-> IF w \in ptr .. ptr + n - 1 THEN values[w + 1] ELSE values[w]]

\* read of a group at ptr: the number of its values, then the values.
Filled(values, ptr, group) ==
    [w \in Buffer |-> IF w = ptr THEN <<Len(group), -1>>
                      ELSE IF w \in ptr + 1 .. ptr + Len(group) THEN <<group[w - ptr].id, time>>
                      ELSE values[w]]

\* One group, after what has been read; one that is larger than what is left of
\* the buffer cannot be read.
ReadGroup(read, group, fails) ==
    IF ~read.ok \/ fails \/ read.ptr + Len(group) > Cardinality(Buffer)
    THEN [read EXCEPT !.ok = FALSE]
    ELSE [ok |-> TRUE, ptr |-> read.ptr + Len(group),
          values |-> Unpadded(Filled(read.values, read.ptr, group), read.ptr, Len(group))]

\* PerfCounterValues::Read, of which the read of leader number failing fails
\* (0 for none).
Read(leaders, values, failing) ==
    LET reading[k \in 0 .. Len(leaders)] ==
            IF k = 0 THEN [ok |-> TRUE, ptr |-> 1, values |-> values]
            ELSE ReadGroup(reading[k - 1], Group(leaders[k]), k = failing)
    IN  reading[Len(leaders)]

\* PerfCounters::Snapshot.
Complete(c, read) == read.ok /\ read.ptr - 1 = Len(c.counter_ids)

\* Mutant of Valid: only the last reading counts.
Valid_Last(valid_read, complete) == complete

\* valid_read_ &= Snapshot(): one failed reading is never forgotten.
Valid(valid_read, complete) == valid_read /\ complete

Mine == counters["measurement"]
MyLeaders == Mine.leader_ids

\* State::ResumeTiming.
Start(failing) ==
    /\ Idle /\ Mine.names # <<>>
    /\ LET read == Read(MyLeaders, measurement.start_values, failing)
       IN  measurement' = [measurement EXCEPT
               !.valid_read = Valid(@, Complete(Mine, read)), !.start_values = read.values,
               !.running = TRUE, !.started_at = time]
    /\ misused' = (misused \/ \E k \in DOMAIN MyLeaders : ~IsOpen(MyLeaders[k]))
    /\ stopped' = NotStopped
    /\ UNCHANGED <<opened, time, pc, create, counters, ended, creates>>

\* State::PauseTiming, once per Start.
Stop(failing) ==
    /\ Idle /\ Mine.names # <<>> /\ measurement.running
    /\ LET read == Read(MyLeaders, measurement.end_values, failing)
           ok == Valid(measurement.valid_read, Complete(Mine, read))
       IN  /\ measurement' = [measurement EXCEPT
                  !.valid_read = ok, !.end_values = read.values, !.running = FALSE,
                  !.started_at = 0]
           /\ stopped' = [ok |-> ok, from |-> measurement.started_at, to |-> time,
                          ids |-> Mine.counter_ids,
                          list |-> [i \in DOMAIN Mine.names |->
                              <<Mine.names[i], measurement.start_values[i], read.values[i]>>]]
    /\ misused' = (misused \/ \E k \in DOMAIN MyLeaders : ~IsOpen(MyLeaders[k]))
    /\ UNCHANGED <<opened, time, pc, create, counters, ended, creates>>

\* Time that passes outside of the timed region is not seen.
Tick ==
    /\ Idle /\ measurement.running /\ time < MaxTime /\ time' = time + 1 /\ stopped' = NotStopped
    /\ UNCHANGED <<opened, pc, create, counters, measurement, misused, ended, creates>>

\* The constructor of a BenchmarkRunner whose benchmark has a report mode.
CheckCounters ==
    /\ Idle /\ measurement.requested # <<>> /\ Mine.names # <<>>
    /\ Abort("counters") /\ stopped' = NotStopped

Next ==
    \/ \E owner \in Owners : \E request \in Requests[owner] : Create(owner, request)
    \/ \E request \in Requests.measurement : TooManyRequested(request)
    \/ CreateStep
    \/ \E owner \in Owners : Destroy(owner)
    \/ \E failing \in 0 .. Len(MyLeaders) : Start(failing) \/ Stop(failing)
    \/ Tick \/ CheckCounters

Spec == Init /\ [][Next]_vars

\* Create is sequential code and every system call returns.
FairSpec == Spec /\ WF_vars(CreateStep)

-----------------------------------------------------------------------------
Held == Mine.counter_ids \o counters["other"].counter_ids \o create.made.counter_ids

\* However creating goes wrong and objects are moved: each open descriptor has
\* one owner, each owner's descriptors are open, and none is closed twice. The
\* groups of an object follow each other, in the order of its names.
DescriptorsOwned ==
    /\ ~misused
    /\ IsInjective(Held) /\ ToSet(Held) = {opened[k].id : k \in DOMAIN opened}
    /\ \A o \in Owners :
          LET c == counters[o]
              members == FlattenSeq([k \in DOMAIN c.leader_ids |-> Group(c.leader_ids[k])])
          IN  /\ [i \in DOMAIN members |-> members[i].id] = c.counter_ids
              /\ [i \in DOMAIN members |-> members[i].name] = c.names
              /\ Len(c.names) <= kMaxCounters

\* perf_counters.h: names()[i]'s value is values[i]. A Stop that succeeds has
\* measured every counter under its own name, from the Start before it to now,
\* across all groups and whatever reads have failed before.
StopMeasuresInterval ==
    stopped.ok =>
        \A i \in DOMAIN stopped.list :
            /\ stopped.list[i][2] = <<stopped.ids[i], stopped.from>>
            /\ stopped.list[i][3] = <<stopped.ids[i], stopped.to>>

\* However often the kernel interrupts or refuses, Create returns.
CreateReturns == pc # "idle" ~> pc = "idle"
=============================================================================
