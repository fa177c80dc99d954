------------------------ MODULE TaskSchedulerProofs ------------------------
(***************************************************************************)
(* What holds of TaskScheduler for any number of tasks and runs, whatever  *)
(* the users and the runs do between the steps of a tick: one task runs,   *)
(* supervision is bounded, commands hold, runs belong to the running task, *)
(* and the next round of a recurring task is the next moment its schedule  *)
(* names, for days and weeks of any length.                                *)
(***************************************************************************)
EXTENDS TaskScheduler, WellFoundedInduction, TLAPS

(* The next round of a task is at a moment.                                *)
LEMMA OccurrenceType ==
  ASSUME NEW s \in Schedules, NEW t \in Nat
  PROVE  next_loop_occurrence(s, t) \in Nat
<1>a. Day \in Nat \ {0} /\ Week \in Nat \ {0}
  BY ClockAssumption
<1>m. Midnight(t) \in Int /\ Midnight(t) > t - Day
  <2>1. t % Day \in 0 .. Day - 1
    BY <1>a
  <2> QED BY <2>1, <1>a DEF Midnight
<1>h. s.hour \in Nat /\ s.every \in Nat
  BY <1>a DEF Schedules
<1>1. Daily(s, t) \in Nat
  BY <1>a, <1>m, <1>h DEF Daily
<1>2. ASSUME NEW c \in Weekly(s, t) PROVE c \in Nat
  <2>1. c > t /\ \E k \in 0 .. Week : c = Midnight(t) + s.hour + k * Day
    BY <1>2 DEF Weekly, Earliest
  <2>2. PICK k \in 0 .. Week : c = Midnight(t) + s.hour + k * Day
    BY <2>1
  <2>3. k * Day \in Nat
    BY <1>a, <2>2
  <2> QED BY <1>m, <1>h, <2>1, <2>2, <2>3
<1>3. t + s.every \in Nat
  BY <1>h
<1> QED BY <1>1, <1>2, <1>3 DEF next_loop_occurrence

(* Schedules stay schedules.                                               *)
LEMMA ScheduleType ==
  ASSUME NEW s \in Schedules, NEW t \in Nat
  PROVE  finalize_schedule(s, t) \in Schedules /\ build_next_loop_schedule(s, t) \in Schedules
<1>1. next_loop_occurrence(s, t) \in Nat
  BY OccurrenceType
<1>2. ASSUME NEW x \in Nat \cup {NoTime} PROVE [s EXCEPT !.at = x] \in Schedules
  BY DEF Schedules
<1>3. finalize_schedule(s, t) \in Schedules
  BY <1>1, <1>2 DEF finalize_schedule
<1>4. build_next_loop_schedule(s, t) \in Schedules
  <2>1. s.done + 1 \in Nat
    BY DEF Schedules
  <2>2. ASSUME NEW x \in Nat, NEW d \in Nat
        PROVE  [s EXCEPT !.now = FALSE, !.done = d, !.at = x] \in Schedules
    BY DEF Schedules
  <2> QED BY <1>1, <2>1, <2>2 DEF build_next_loop_schedule
<1> QED BY <1>3, <1>4
-----------------------------------------------------------------------------
(* What an action writes has the type of its variable.                     *)
LEMMA JobWrites ==
  ASSUME TypeOK, NEW j \in Jobs
  PROVE  /\ \A s \in JobStatuses : [job EXCEPT ![j].status = s] \in [Jobs -> JobRows]
         /\ \A s \in JobStatuses, p \in Schedules :
              [job EXCEPT ![j].status = s, ![j].plan = p] \in [Jobs -> JobRows]
         /\ \A s \in JobStatuses, p \in Schedules :
              [job EXCEPT ![j].status = s, ![j].plan = p, ![j].count = 0] \in [Jobs -> JobRows]
         /\ \A s \in JobStatuses, r \in Runs, n \in Nat :
              [job EXCEPT ![j].status = s, ![j].last = r, ![j].session = n]
                \in [Jobs -> JobRows]
         /\ [job EXCEPT ![j].count = @ + 1] \in [Jobs -> JobRows]
<1> job \in [Jobs -> JobRows] /\ job[j] \in JobRows
  BY DEF TypeOK
<1>1. ASSUME NEW s \in JobStatuses PROVE [job EXCEPT ![j].status = s] \in [Jobs -> JobRows]
  BY DEF JobRows
<1>2. ASSUME NEW s \in JobStatuses, NEW p \in Schedules
      PROVE  [job EXCEPT ![j].status = s, ![j].plan = p] \in [Jobs -> JobRows]
  BY DEF JobRows
<1>3. ASSUME NEW s \in JobStatuses, NEW p \in Schedules
      PROVE  [job EXCEPT ![j].status = s, ![j].plan = p, ![j].count = 0] \in [Jobs -> JobRows]
  BY DEF JobRows
<1>4. ASSUME NEW s \in JobStatuses, NEW r \in Runs, NEW n \in Nat
      PROVE  [job EXCEPT ![j].status = s, ![j].last = r, ![j].session = n]
               \in [Jobs -> JobRows]
  BY DEF JobRows
<1>5. [job EXCEPT ![j].count = @ + 1] \in [Jobs -> JobRows]
  BY DEF JobRows
<1> QED BY <1>1, <1>2, <1>3, <1>4, <1>5

LEMMA RunWrites ==
  ASSUME TypeOK, NEW r \in Runs
  PROVE  /\ \A c \in {"no", "works", "answered", "closing", "closed"} :
              [run EXCEPT ![r].closes = c] \in [Runs -> RunRows]
         /\ \A c \in {"no", "works", "answered", "closing", "closed"}, s \in JobStatuses,
               d \in Nat, t \in Nat : Thread(r, c, s, d, t) \in RunRows
         /\ \A row \in RunRows : [run EXCEPT ![r] = row] \in [Runs -> RunRows]
         /\ [run EXCEPT ![r].stop = TRUE] \in [Runs -> RunRows]
<1> run \in [Runs -> RunRows] /\ run[r] \in RunRows
  BY DEF TypeOK
<1>1. ASSUME NEW c \in {"no", "works", "answered", "closing", "closed"}
      PROVE  [run EXCEPT ![r].closes = c] \in [Runs -> RunRows]
  BY DEF RunRows
<1>2. ASSUME NEW c \in {"no", "works", "answered", "closing", "closed"},
             NEW s \in JobStatuses, NEW d \in Nat, NEW t \in Nat
      PROVE  Thread(r, c, s, d, t) \in RunRows
  BY DEF Thread, RunRows
<1>3. ASSUME NEW row \in RunRows
      PROVE  [run EXCEPT ![r] = row] \in [Runs -> RunRows]
  OBVIOUS
<1>4. [run EXCEPT ![r].stop = TRUE] \in [Runs -> RunRows]
  BY DEF RunRows
<1> QED BY <1>1, <1>2, <1>3, <1>4

(* The schedule as the thread of a run has read it, and what it makes of it. *)
LEMMA PlanReadType ==
  ASSUME TypeOK, NEW r \in Runs, run[r].job \in Jobs
  PROVE  /\ PlanRead(r) \in Schedules /\ run[r].finished \in Nat
         /\ build_next_loop_schedule(PlanRead(r), run[r].finished) \in Schedules
<1>1. job[run[r].job].plan \in Schedules /\ run[r].done \in Nat /\ run[r].finished \in Nat
  BY DEF TypeOK, JobRows, RunRows
<1>2. \A s \in Schedules, d \in Nat : [s EXCEPT !.done = d] \in Schedules
  BY DEF Schedules
<1>3. PlanRead(r) \in Schedules
  BY <1>1, <1>2 DEF PlanRead
<1> QED BY <1>1, <1>3, ScheduleType

LEMMA NewRuns ==
  ASSUME NEW j \in Jobs \cup {NoJob}, NEW n \in Nat
  PROVE  /\ Started(j, n) \in RunRows /\ Unused \in RunRows
         /\ \A s \in {"absent", "running"} \cup TerminalStatuses :
              [Unused EXCEPT !.status = s] \in RunRows
BY DEF Started, Unused, RunRows, JobStatuses, TerminalStatuses

LEMMA ForgottenType ==
  ASSUME TypeOK, NEW q
  PROVE  Forgotten(q) \in [Runs -> RunRows]
<1>1. \A r \in Runs : run[r] \in RunRows
  BY DEF TypeOK
<1>2. Unused \in RunRows
  BY NewRuns
<1> QED BY <1>1, <1>2 DEF Forgotten

LEMMA Spent ==
  ASSUME TypeOK, NEW kind \in Kinds, Spend(kind)
  PROVE  budget' \in [Kinds -> Nat]
BY DEF TypeOK, Spend

LEMMA GapsAreLapses ==
  ASSUME NEW gap \in Lapses, NEW c
  PROVE  Met(gap, c) \subseteq Lapses
BY DEF Met
-----------------------------------------------------------------------------
LEMMA UsersType ==
  ASSUME TypeOK, UserActs
  PROVE  TypeOK'
<1>t. now \in Nat
  BY TasksAssumption DEF TypeOK
<1>1. ASSUME NEW j \in Jobs, Create(j) PROVE TypeOK'
  <2>1. job[j].plan \in Schedules
    BY DEF TypeOK, JobRows
  <2>2. finalize_schedule(job[j].plan, now) \in Schedules
    BY <1>t, <2>1, ScheduleType
  <2>3. job' \in [Jobs -> JobRows]
    <3>1. job' = [job EXCEPT ![j].status = "queued",
                             ![j].plan = finalize_schedule(job[j].plan, now)]
      BY <1>1 DEF Create, TypeOK, JobRows
    <3> QED BY <2>2, <3>1, JobWrites DEF JobStatuses
  <2>4. budget' \in [Kinds -> Nat]
    BY <1>1, Spent DEF Create, Kinds
  <2>5. Named'
    BY <1>1 DEF Create, Named, TypeOK
  <2> QED BY <1>1, <2>3, <2>4, <2>5 DEF Create, TypeOK, history
<1>2. ASSUME NEW op \in {"pause", "resume", "stop", "delete"} \cup Updates, NEW j \in Jobs,
             NEW runs \in SUBSET Runs, Asks(op, j, runs)
      PROVE  TypeOK'
  <2>1. job[j].status \in JobStatuses
    BY DEF TypeOK, JobRows
  <2>2. request' \in Requests
    BY <1>2, <2>1 DEF Asks, Requests
  <2>3. budget' \in [Kinds -> Nat]
    BY <1>2, Spent DEF Asks, Kinds
  <2>4. Named'
    BY <1>2 DEF Asks, Named, TypeOK
  <2> QED BY <1>2, <2>2, <2>3, <2>4 DEF Asks, TypeOK, history
<1>3. \A j \in Jobs : RunsOf(j) \in SUBSET Runs /\ RunsInSession(j) \in SUBSET Runs
                    /\ (job[j].last \in Live => {job[j].last} \in SUBSET Runs)
  BY DEF RunsOf, RunsInSession, Live
<1>4. ASSUME NEW j \in Jobs, PauseReads(j) PROVE TypeOK'
  <2>1. {} \in SUBSET Runs /\ \A r \in RunsInSession(j) : {r} \in SUBSET Runs
    BY <1>3
  <2> QED BY <1>2, <1>3, <1>4, <2>1 DEF PauseReads
<1>5. ASSUME NEW j \in Jobs, ResumeReads(j) \/ StopReads(j) \/ DeleteReads(j) PROVE TypeOK'
  BY <1>2, <1>3, <1>5 DEF ResumeReads, StopReads, DeleteReads
<1>6. ASSUME NEW j \in Jobs, NEW op \in Updates, UpdateReads(j, op) PROVE TypeOK'
  BY <1>2, <1>6 DEF UpdateReads
<1>7. ASSUME RequestCommits PROVE TypeOK'
  <2> DEFINE j == request.job
             op == request.op
             s == Stored(job[j].status, request.seen, Target(op))
  <2>1. request \in Requests /\ j \in Jobs /\ op # "none"
    BY <1>7 DEF TypeOK, Named, RequestCommits
  <2>2. Target(op) \in {"queued", "paused", "stopped", "deleted"}
    BY <2>1 DEF Requests, Target, Updates
  <2>3. s \in JobStatuses
    BY <2>1, <2>2 DEF TypeOK, JobRows, Stored, JobStatuses, Ended
  <2>4. job' \in [Jobs -> JobRows]
    <3>1. job' = [job EXCEPT ![j].status = s]
      BY <1>7 DEF RequestCommits, TypeOK, JobRows
    <3> QED BY <2>1, <2>3, <3>1, JobWrites
  <2>5. run' \in [Runs -> RunRows]
    <3>1. \A r \in Runs : [run[r] EXCEPT
              !.stop = @ \/ Flags(op),
              !.status = IF op \in {"stop", "delete"} THEN "stopped" ELSE @] \in RunRows
      <4>1. \A r \in Runs : run[r] \in RunRows
        BY DEF TypeOK
      <4>2. \A r \in Runs : run[r].stop \in BOOLEAN /\ Flags(op) \in BOOLEAN
        BY <4>1 DEF RunRows, Flags
      <4>3. ASSUME NEW row \in RunRows, NEW b \in BOOLEAN,
                   NEW status \in {"stopped", row.status}
            PROVE  [row EXCEPT !.stop = b, !.status = status] \in RunRows
        <5>1. status \in {"absent", "running"} \cup TerminalStatuses
          BY DEF RunRows, TerminalStatuses
        <5> QED BY <5>1 DEF RunRows
      <4>4. \A r \in Runs : (run[r].stop \/ Flags(op)) \in BOOLEAN
        BY <4>2
      <4> QED BY <4>1, <4>3, <4>4
    <3> QED BY <1>7, <3>1 DEF RequestCommits, TypeOK
  <2>6. command' \in [Jobs -> {"none", "queued", "paused", "stopped", "deleted"}]
    BY <1>7, <2>2 DEF RequestCommits, TypeOK
  <2>7. request' \in Requests
    BY <1>7 DEF RequestCommits, NoRequest, Requests, JobStatuses
  <2>8. lapses' \subseteq Lapses
    BY <1>7, GapsAreLapses DEF RequestCommits, TypeOK, Lapses
  <2>9. Named'
    <3>1. \A r \in Runs : run'[r].closes = run[r].closes /\ run'[r].job = run[r].job
      <4>1. run' = [r \in Runs |->
                 IF r \in request.runs
                 THEN [run[r] EXCEPT
                         !.stop = @ \/ Flags(request.op),
                         !.status = IF request.op \in {"stop", "delete"} THEN "stopped" ELSE @]
                 ELSE run[r]]
        BY <1>7 DEF RequestCommits
      <4>2. \A r \in Runs : run[r] \in RunRows
        BY DEF TypeOK
      <4> QED BY <4>1, <4>2 DEF RunRows
    <3> QED BY <1>7, <3>1 DEF RequestCommits, NoRequest, Named, TypeOK
  <2> QED BY <1>7, <2>4, <2>5, <2>6, <2>7, <2>8, <2>9 DEF RequestCommits, TypeOK
<1> QED BY <1>1, <1>4, <1>5, <1>6, <1>7 DEF UserActs

LEMMA RunsType ==
  ASSUME TypeOK, NEW r \in Runs, RunSteps(r) \/ ChatBegins(r) \/ RunRestarts(r)
  PROVE  TypeOK'
<1>t. now \in Nat /\ run[r] \in RunRows
  BY TasksAssumption DEF TypeOK
<1>0. CASE TakesTask(r)
  <2>1. run[r].job \in Jobs
    BY <1>0, <1>t DEF TakesTask, RunRows
  <2>2. run' \in [Runs -> RunRows]
    BY <1>0, RunWrites DEF TakesTask
  <2>3. Named'
    BY <1>0, <2>1 DEF TakesTask, Named, TypeOK, RunRows
  <2> QED BY <1>0, <2>2, <2>3 DEF TakesTask, TypeOK, history
<1>1. CASE Answers(r)
  <2>1. run[r].job \in Jobs
    BY <1>1 DEF Answers, Named, TypeOK
  <2>2. run' \in [Runs -> RunRows]
    BY <1>1, RunWrites DEF Answers
  <2>3. Named'
    BY <1>1, <2>1 DEF Answers, Named, TypeOK, RunRows
  <2> QED BY <1>1, <2>2, <2>3 DEF Answers, TypeOK, history
<1>2. CASE CloseReads(r)
  <2>1. run[r].job \in Jobs
    BY <1>2 DEF CloseReads, Named, TypeOK
  <2>2. job[run[r].job].status \in JobStatuses /\ job[run[r].job].plan.done \in Nat
    BY <2>1 DEF TypeOK, JobRows, Schedules
  <2>3. run' \in [Runs -> RunRows]
    <3>1. Thread(r, "closing", job[run[r].job].status, job[run[r].job].plan.done, now)
            \in RunRows
      BY <1>t, <2>2, RunWrites
    <3> QED BY <1>2, <3>1, RunWrites DEF CloseReads
  <2>4. Named'
    BY <1>2, <2>1 DEF CloseReads, Thread, Named, TypeOK, RunRows
  <2> QED BY <1>2, <2>3, <2>4 DEF CloseReads, TypeOK, history
<1>3. CASE CloseCommits(r)
  <2> DEFINE j == run[r].job
  <2>1. j \in Jobs
    BY <1>3 DEF CloseCommits, Named, TypeOK
  <2>2. job[j] \in JobRows
    BY <2>1 DEF TypeOK
  <2>3. \A s \in {"queued", "completed"} : Stored(job[j].status, run[r].seen, s) \in JobStatuses
    BY <2>2 DEF Stored, JobRows, JobStatuses, Ended
  <2>4. build_next_loop_schedule(PlanRead(r), run[r].finished) \in Schedules
    BY <2>1, PlanReadType
  <2>5. job' \in [Jobs -> JobRows]
    <3>1. \/ job' = job
          \/ job' = [job EXCEPT ![j].status = Stored(job[j].status, run[r].seen, "queued"),
                                ![j].plan = build_next_loop_schedule(PlanRead(r), run[r].finished),
                                ![j].count = 0]
          \/ job' = [job EXCEPT ![j].status = Stored(job[j].status, run[r].seen, "completed")]
      BY <1>3, <2>1, <2>2 DEF CloseCommits, TypeOK, JobRows
    <3>2. Stored(job[j].status, run[r].seen, "queued") \in JobStatuses
      BY <2>3
    <3>3. Stored(job[j].status, run[r].seen, "completed") \in JobStatuses
      BY <2>3
    <3>4. job \in [Jobs -> JobRows]
      BY DEF TypeOK
    <3>5. [job EXCEPT ![j].status = Stored(job[j].status, run[r].seen, "queued"),
                      ![j].plan = build_next_loop_schedule(PlanRead(r), run[r].finished),
                      ![j].count = 0] \in [Jobs -> JobRows]
      BY <2>1, <2>4, <3>2, JobWrites
    <3>6. [job EXCEPT ![j].status = Stored(job[j].status, run[r].seen, "completed")]
            \in [Jobs -> JobRows]
      BY <2>1, <3>3, JobWrites
    <3> QED BY <3>1, <3>4, <3>5, <3>6
  <2>6. run' \in [Runs -> RunRows]
    <3>1. Thread(r, "closed", "none", 0, 0) \in RunRows
      BY RunWrites DEF JobStatuses
    <3> QED BY <1>3, <3>1, RunWrites DEF CloseCommits
  <2>7. rounds' \in [Jobs -> Nat]
    BY <1>3 DEF CloseCommits, TypeOK
  <2>8. lapses' \subseteq Lapses
    BY <1>3, GapsAreLapses DEF CloseCommits, TypeOK, Lapses
  <2>9. Named'
    BY <1>3, <2>1 DEF CloseCommits, Thread, Named, TypeOK, RunRows
  <2> QED BY <1>3, <2>5, <2>6, <2>7, <2>8, <2>9 DEF CloseCommits, TypeOK
<1>4. ASSUME NEW goal \in {"completed", "error"}, RunEnds(r, goal) PROVE TypeOK'
  <2> DEFINE s == IF \A j \in Jobs : Exists(j) => job[j].last # r THEN "absent"
                  ELSE IF r \notin Live THEN run[r].status
                  ELSE IF run[r].stop THEN "stopped" ELSE goal
  <2>1. s \in {"absent", "running"} \cup TerminalStatuses
    BY <1>t, <1>4 DEF RunRows, TerminalStatuses
  <2>2. run' = [run EXCEPT ![r] = [Unused EXCEPT !.status = s]]
    BY <1>4 DEF RunEnds
  <2> HIDE DEF s
  <2>3. run' \in [Runs -> RunRows]
    <3>1. [Unused EXCEPT !.status = s] \in RunRows
      BY <2>1, NewRuns
    <3> QED BY <2>2, <3>1, RunWrites
  <2>4. Named'
    <3>1. [Unused EXCEPT !.status = s].closes = "no"
      BY DEF Unused
    <3> QED BY <1>4, <2>2, <3>1 DEF RunEnds, Named, TypeOK
  <2> QED BY <1>4, <2>3, <2>4 DEF RunEnds, TypeOK, history
<1>5. CASE ChatBegins(r)
  <2>1. run' \in [Runs -> RunRows]
    BY <1>5, NewRuns, RunWrites DEF ChatBegins
  <2>2. budget' \in [Kinds -> Nat]
    BY <1>5, Spent DEF ChatBegins, Kinds
  <2>3. Named'
    <3>1. Started(NoJob, 0).closes = "no"
      BY DEF Started, Unused
    <3> QED BY <1>5, <3>1 DEF ChatBegins, Named, TypeOK
  <2> QED BY <1>5, <2>1, <2>2, <2>3 DEF ChatBegins, TypeOK, history
<1>6. CASE RunRestarts(r)
  <2>1. run' \in [Runs -> RunRows]
    <3>1. Thread(r, "no", "none", 0, 0) \in RunRows
      BY RunWrites DEF JobStatuses
    <3> QED BY <1>6, <3>1, RunWrites DEF RunRestarts
  <2>2. budget' \in [Kinds -> Nat]
    BY <1>6, Spent DEF RunRestarts, Kinds
  <2>3. lapses' \subseteq Lapses
    BY <1>6, GapsAreLapses DEF RunRestarts, TypeOK, Lapses
  <2>4. Named'
    BY <1>6 DEF RunRestarts, Thread, Named, TypeOK, RunRows
  <2> QED BY <1>6, <2>1, <2>2, <2>3, <2>4 DEF RunRestarts, TypeOK
<1> QED BY <1>0, <1>1, <1>2, <1>3, <1>4, <1>5, <1>6 DEF RunSteps

LEMMA TickReadsType ==
  ASSUME TypeOK, TickBegins \/ TickGivesUp \/ TickSupervises \/ TickPreempts
                 \/ TickChooses \/ TickRests
  PROVE  TypeOK'
<1>a. tick \in Ticks /\ Asleep \in Ticks /\ Asleep.pc = "none"
  BY DEF TypeOK, Asleep, Ticks, JobStatuses
<1>1. CASE TickBegins
  <2>1. PICK j \in IF Running = {} THEN {NoJob} ELSE First(Running),
             top \in IF Ready = {} THEN {NoJob} ELSE First(Ready) :
          tick' = [Asleep EXCEPT !.pc = "reads", !.running = j, !.top = top,
                     !.count = IF j = NoJob THEN 0 ELSE job[j].count,
                     !.over = j # NoJob /\ job[j].last \notin Live,
                     !.seen = IF top = NoJob THEN "none" ELSE job[top].status]
    BY <1>1 DEF TickBegins
  <2>2. /\ j \in Jobs \cup {NoJob} /\ top \in Jobs \cup {NoJob}
        /\ j \in Jobs \/ top \in Jobs
    <3>1. First(Running) \subseteq Jobs /\ First(Ready) \subseteq Jobs
      BY DEF First, Running, Ready
    <3> QED BY <1>1, <3>1 DEF TickBegins
  <2> DEFINE count == IF j = NoJob THEN 0 ELSE job[j].count
             over  == j # NoJob /\ job[j].last \notin Live
             seen  == IF top = NoJob THEN "none" ELSE job[top].status
  <2>3. count \in Nat /\ over \in BOOLEAN /\ seen \in JobStatuses
    BY <2>2 DEF TypeOK, JobRows, JobStatuses
  <2>4. tick' = [Asleep EXCEPT !.pc = "reads", !.running = j, !.top = top, !.count = count,
                   !.over = over, !.seen = seen]
    BY <2>1
  <2> HIDE DEF count, over, seen
  <2>5. tick' \in Ticks /\ tick'.pc = "reads" /\ tick'.running = j /\ tick'.top = top
    BY <2>2, <2>3, <2>4 DEF Asleep, Ticks
  <2> QED BY <1>1, <2>2, <2>5 DEF TickBegins, Named, TypeOK, history
<1>2. CASE TickGivesUp
  <2>1. tick.running \in Jobs
    BY <1>2, <1>a DEF TickGivesUp, Ticks
  <2>2. tick' \in Ticks /\ tick'.pc = "pauses" /\ tick'.running = tick.running
    BY <1>2, <2>1 DEF TickGivesUp, Asleep, Ticks, JobStatuses
  <2> QED BY <1>2, <2>1, <2>2 DEF TickGivesUp, Reads, Named, TypeOK, history
<1>3. CASE TickSupervises
  <2>1. tick.running \in Jobs
    BY <1>3, <1>a DEF TickSupervises, Ticks
  <2>2. tick' \in Ticks /\ (tick' = Asleep \/ (tick'.pc = "supervises" /\ tick'.top = tick.running))
    <3>1. \/ tick' = Asleep
          \/ tick' = [Asleep EXCEPT !.pc = "supervises", !.top = tick.running, !.seen = "running"]
      BY <1>3 DEF TickSupervises, Rests
    <3> QED BY <1>a, <2>1, <3>1 DEF Ticks, JobStatuses
  <2> QED BY <1>3, <1>a, <2>1, <2>2 DEF TickSupervises, Reads, Named, TypeOK, history
<1>4. CASE TickPreempts
  <2>1. tick.running \in Jobs /\ tick.top \in Jobs
    BY <1>4, <1>a DEF TickPreempts, Ticks
  <2>2. /\ tick' \in Ticks /\ tick'.pc = "preempts"
        /\ tick'.running = tick.running /\ tick'.top = tick.top
    BY <1>4, <1>a DEF TickPreempts, Ticks, Live
  <2> QED BY <1>4, <2>1, <2>2 DEF TickPreempts, Reads, Named, TypeOK, history
<1>5. CASE TickChooses
  <2>1. tick.top \in Jobs
    BY <1>5, TasksAssumption DEF TickChooses, Reads, Named, TypeOK
  <2>2. tick' \in Ticks /\ tick'.pc = "starts" /\ tick'.top = tick.top
    BY <1>5, <1>a DEF TickChooses, Goes, Ticks
  <2> QED BY <1>5, <2>1, <2>2 DEF TickChooses, Reads, Named, TypeOK, history
<1>6. CASE TickRests
  BY <1>6, <1>a DEF TickRests, Rests, Reads, Named, TypeOK, history
<1> QED BY <1>1, <1>2, <1>3, <1>4, <1>5, <1>6

LEMMA TickCommitsType ==
  ASSUME TypeOK, TickPauses \/ TickFlags \/ TickStarts \/ TickCounts \/ TickDies
  PROVE  TypeOK'
<1>a. tick \in Ticks /\ Asleep \in Ticks /\ Asleep.pc = "none"
  BY DEF TypeOK, Asleep, Ticks, JobStatuses
<1>b. \A j \in Jobs : Paused(j) \in [Jobs -> JobRows]
  BY JobWrites DEF Paused, JobStatuses
<1>1. CASE TickPauses
  <2>1. job' \in [Jobs -> JobRows] /\ tick' = Asleep
    BY <1>1, <1>b DEF TickPauses, Fails, Rests, Named, TypeOK
  <2>2. lapses' \subseteq Lapses
    BY <1>1, GapsAreLapses DEF TickPauses, TypeOK, Lapses
  <2> QED BY <1>1, <1>a, <2>1, <2>2 DEF TickPauses, Named, TypeOK
<1>2. CASE TickFlags
  <2>1. tick.running \in Jobs /\ tick.top \in Jobs
    BY <1>2 DEF TickFlags, Named, TypeOK
  <2>2. job' \in [Jobs -> JobRows]
    BY <1>2, <1>b, <2>1 DEF TickFlags, TypeOK
  <2>3. run' \in [Runs -> RunRows]
    <3>1. tick.flag \in Runs \cup {NoRun} /\ run \in [Runs -> RunRows]
      BY <1>a DEF Ticks, TypeOK
    <3>2. tick.flag # NoRun => [run EXCEPT ![tick.flag].stop = TRUE] \in [Runs -> RunRows]
      BY <3>1, RunWrites
    <3>3. run' = run \/ (tick.flag # NoRun /\ run' = [run EXCEPT ![tick.flag].stop = TRUE])
      BY <1>2 DEF TickFlags
    <3> QED BY <3>1, <3>2, <3>3
  <2>4. tick' \in Ticks /\ (tick' = Asleep \/ (tick'.pc = "starts" /\ tick'.top = tick.top))
    <3>1. \/ tick' = Asleep
          \/ tick' = [tick EXCEPT !.pc = "starts", !.flag = NoRun, !.running = NoJob]
      BY <1>2 DEF TickFlags, Fails, Rests
    <3> QED BY <1>a, <3>1 DEF Ticks
  <2>5. lapses' \subseteq Lapses
    BY <1>2, GapsAreLapses DEF TickFlags, TypeOK, Lapses
  <2>6. \A r \in Runs : run'[r].closes = run[r].closes /\ run'[r].job = run[r].job
    BY <1>2 DEF TickFlags, TypeOK, RunRows
  <2> QED BY <1>2, <1>a, <2>1, <2>2, <2>3, <2>4, <2>5, <2>6 DEF TickFlags, Named, TypeOK
<1>3. CASE TickStarts
  <2> DEFINE j == tick.top
  <2>1. j \in Jobs /\ job[j] \in JobRows
    BY <1>3 DEF TickStarts, Named, TypeOK
  <2>2. lapses' \subseteq Lapses
    BY <1>3, GapsAreLapses DEF TickStarts, TypeOK, Lapses
  <2>3. CASE ~ Exists(j)
    BY <1>3, <1>a, <2>1, <2>2, <2>3 DEF TickStarts, Fails, Rests, Named, TypeOK
  <2>4. CASE Exists(j)
    <3>1. PICK r \in NextRow :
             /\ run' = [Forgotten(job[j].last) EXCEPT ![r] = Started(j, job[j].plan.done)]
             /\ job' = [job EXCEPT ![j].status = "running", ![j].last = r,
                                   ![j].session = job[j].plan.done]
      BY <1>3, <2>4 DEF TickStarts
    <3>2. r \in Runs /\ job[j].plan.done \in Nat
      BY <2>1 DEF NextRow, JobRows, Schedules
    <3>3. job' \in [Jobs -> JobRows]
      BY <2>1, <3>1, <3>2, JobWrites DEF JobStatuses
    <3>4. run' \in [Runs -> RunRows]
      <4>1. Started(j, job[j].plan.done) \in RunRows
        BY <2>1, <3>2, NewRuns
      <4>2. Forgotten(job[j].last) \in [Runs -> RunRows]
        BY ForgottenType
      <4> QED BY <3>1, <3>2, <4>1, <4>2
    <3>5. rounds' \in [Jobs -> Nat]
      <4>1. rounds' = [rounds EXCEPT ![j] = @ + 1] \/ rounds' = rounds
        BY <1>3, <2>4 DEF TickStarts
      <4> QED BY <2>1, <4>1 DEF TypeOK
    <3>6. tick' \in Ticks /\ (tick' = Asleep \/ (tick'.pc = "counts" /\ tick'.top = j))
      <4>1. tick' = Asleep \/ tick' = [tick EXCEPT !.pc = "counts"]
        BY <1>3, <2>4 DEF TickStarts, Goes, Rests
      <4> QED BY <1>a, <2>4, <4>1 DEF Ticks
    <3>7. \A s \in Runs : run'[s].closes # "no" => run'[s].job \in Jobs
      <4>1. Started(j, job[j].plan.done).closes = "no" /\ Unused.closes = "no"
        BY DEF Started, Unused
      <4>2. \A s \in Runs : Forgotten(job[j].last)[s].closes # "no"
                             => Forgotten(job[j].last)[s] = run[s]
        BY <4>1 DEF Forgotten
      <4>3. Forgotten(job[j].last) \in [Runs -> RunRows]
        BY ForgottenType
      <4> QED BY <3>1, <3>2, <4>1, <4>2, <4>3 DEF Named, TypeOK
    <3> QED BY <1>3, <1>a, <2>1, <2>2, <3>3, <3>4, <3>5, <3>6, <3>7
            DEF TickStarts, Named, TypeOK
  <2> QED BY <2>3, <2>4
<1>4. CASE TickCounts
  <2>1. tick.top \in Jobs
    BY <1>4 DEF TickCounts, Named, TypeOK
  <2>2. job' \in [Jobs -> JobRows] /\ tick' = Asleep
    <3>1. [job EXCEPT ![tick.top].count = @ + 1] \in [Jobs -> JobRows]
      BY <2>1, JobWrites
    <3>2. job' = [job EXCEPT ![tick.top].count = @ + 1] \/ job' = job
      BY <1>4 DEF TickCounts
    <3>3. job \in [Jobs -> JobRows]
      BY DEF TypeOK
    <3> QED BY <1>4, <3>1, <3>2, <3>3 DEF TickCounts, Fails, Rests
  <2> QED BY <1>4, <1>a, <2>2 DEF TickCounts, Named, TypeOK, history
<1>5. CASE TickDies
  <2>1. budget' \in [Kinds -> Nat]
    BY <1>5, Spent DEF TickDies, Kinds
  <2>2. lapses' \subseteq Lapses
    BY <1>5, GapsAreLapses DEF TickDies, TypeOK, Lapses
  <2> QED BY <1>5, <1>a, <2>1, <2>2 DEF TickDies, Rests, Named, TypeOK
<1> QED BY <1>1, <1>2, <1>3, <1>4, <1>5

(* Every variable of the scheduler, the users and the runs keeps its type, *)
(* and a step under way knows the task it is about.                        *)
THEOREM TypeCorrect == Spec => []TypeOK
<1>1. Init => TypeOK
  <2> SUFFICES ASSUME Init PROVE TypeOK
    OBVIOUS
  <2>1. PICK scenario \in Scenarios :
           /\ job = [j \in Jobs |-> [status |-> "none", last |-> NoRun, session |-> 0,
                                     count |-> 0, plan |-> scenario.plans[j]]]
           /\ budget = scenario.budget
    BY DEF Init
  <2>2. scenario.plans \in [Jobs -> Schedules] /\ scenario.budget \in [Kinds -> Nat]
    BY TasksAssumption
  <2>3. job \in [Jobs -> JobRows]
    BY <2>1, <2>2 DEF JobRows, JobStatuses
  <2>4. run \in [Runs -> RunRows] /\ \A r \in Runs : run[r].closes = "no"
    BY NewRuns DEF Init, Unused
  <2>5. tick \in Ticks /\ tick.pc = "none" /\ request \in Requests /\ request.op = "none"
    BY DEF Init, Asleep, NoRequest, Ticks, Requests, JobStatuses
  <2>6. /\ now \in 0 .. LastMoment /\ rounds \in [Jobs -> Nat] /\ lapses \subseteq Lapses
        /\ command \in [Jobs -> {"none", "queued", "paused", "stopped", "deleted"}]
    BY TasksAssumption DEF Init
  <2> QED BY <2>1, <2>2, <2>3, <2>4, <2>5, <2>6 DEF TypeOK, Named
<1>2. TypeOK /\ [Next]_vars => TypeOK'
  <2> SUFFICES ASSUME TypeOK, [Next]_vars PROVE TypeOK'
    OBVIOUS
  <2>1. CASE ClockTicks
    BY <2>1, TasksAssumption DEF ClockTicks, TypeOK, Named, history
  <2>2. CASE UserActs
    BY <2>2, UsersType
  <2>3. CASE TickSteps \/ TickDies
    BY <2>3, TickReadsType, TickCommitsType DEF TickSteps
  <2>4. CASE \E r \in Runs : RunSteps(r) \/ ChatBegins(r) \/ RunRestarts(r)
    BY <2>4, RunsType
  <2>5. CASE UNCHANGED vars
    BY <2>5 DEF vars, history, TypeOK, Named
  <2> QED BY <2>1, <2>2, <2>3, <2>4, <2>5 DEF Next
<1> QED BY <1>1, <1>2, PTL DEF Spec
-----------------------------------------------------------------------------
(***************************************************************************)
(* One running task.  Only the tick makes a task running, and what it read *)
(* bounds what can be running when it does: everybody else only takes      *)
(* tasks out of that status.                                               *)
(***************************************************************************)
Bounded ==
  /\ tick.pc \in {"reads", "pauses", "preempts"} => Running \subseteq {tick.running}
  /\ tick.pc \in {"supervises", "counts"} => Running \subseteq {tick.top}
  /\ tick.pc = "starts" => Running = {}

OthersAct ==
  \/ ClockTicks \/ UserActs
  \/ \E r \in Runs : RunSteps(r) \/ ChatBegins(r) \/ RunRestarts(r)

LEMMA OthersLeaveTick == ASSUME OthersAct PROVE tick' = tick
BY DEF OthersAct, ClockTicks, UserActs, Create, PauseReads, ResumeReads, StopReads, DeleteReads,
       UpdateReads, Asks, RequestCommits, RunSteps, TakesTask, Answers, CloseReads, CloseCommits, RunEnds,
       ChatBegins, RunRestarts

(* Nobody but the tick makes a task running.                               *)
LEMMA OthersDoNotStart ==
  ASSUME TypeOK, OthersAct
  PROVE  Running' \subseteq Running
<1>1. CASE job' = job
  BY <1>1 DEF Running
<1>2. ASSUME NEW j \in Jobs, Create(j) PROVE Running' \subseteq Running
  BY <1>2 DEF Create, Running, TypeOK, JobRows
<1>3. CASE RequestCommits
  <2>1. request.job \in Jobs /\ request \in Requests /\ request.op # "none"
    BY <1>3 DEF RequestCommits, Named, TypeOK
  <2>2. Target(request.op) # "running"
    BY <2>1 DEF Requests, Target, Updates
  <2> QED BY <1>3, <2>1, <2>2 DEF RequestCommits, Running, Stored, TypeOK, JobRows
<1>4. ASSUME NEW r \in Runs, CloseCommits(r) PROVE Running' \subseteq Running
  <2>1. run[r].job \in Jobs
    BY <1>4 DEF CloseCommits, Named, TypeOK
  <2> QED BY SMTT(30), <1>4, <2>1 DEF CloseCommits, Running, Stored, TypeOK, JobRows
<1>5. OthersAct => \/ job' = job \/ RequestCommits
                   \/ (\E j \in Jobs : Create(j)) \/ \E r \in Runs : CloseCommits(r)
  BY DEF OthersAct, ClockTicks, UserActs, PauseReads, ResumeReads, StopReads, DeleteReads,
         UpdateReads, Asks, RunSteps, TakesTask, Answers, CloseReads, RunEnds, ChatBegins, RunRestarts, history
<1> QED BY <1>1, <1>2, <1>3, <1>4, <1>5

(* The AI has at most one running task, whatever users and runs commit     *)
(* between two steps of a tick.                                            *)
THEOREM OneTaskAtATime == Spec => []OneTaskRuns
<1>1. Init => OneTaskRuns /\ Bounded
  BY DEF Init, OneTaskRuns, Bounded, Running, Asleep
<1>2. TypeOK /\ OneTaskRuns /\ Bounded /\ [Next]_vars => (OneTaskRuns /\ Bounded)'
  <2> SUFFICES ASSUME TypeOK, OneTaskRuns, Bounded, [Next]_vars
               PROVE  (OneTaskRuns /\ Bounded)'
    OBVIOUS
  <2>t. tick \in Ticks
    BY DEF TypeOK
  <2>a. Asleep \in Ticks /\ Asleep.pc = "none"
    BY DEF Asleep, Ticks, JobStatuses
  <2>0. ASSUME Running' \subseteq Running PROVE OneTaskRuns'
    BY <2>0 DEF OneTaskRuns
  <2>1. CASE OthersAct
    BY <2>0, <2>1, OthersLeaveTick, OthersDoNotStart DEF Bounded
  <2>2. CASE TickBegins
    <3>1. PICK j \in IF Running = {} THEN {NoJob} ELSE First(Running) :
            tick'.pc = "reads" /\ tick'.running = j /\ job' = job
      BY <2>2 DEF TickBegins, Asleep
    <3>2. Running \subseteq {j}
      BY <3>1 DEF OneTaskRuns, First
    <3> QED BY <2>0, <3>1, <3>2 DEF Bounded, Running
  <2>3. CASE TickGivesUp \/ TickSupervises \/ TickPreempts \/ TickRests
    <3>1. job' = job /\ tick.pc = "reads"
      BY <2>3 DEF TickGivesUp, TickSupervises, TickPreempts, TickRests, Reads
    <3>2. \/ tick'.pc = "none"
          \/ tick'.pc \in {"pauses", "preempts"} /\ tick'.running = tick.running
          \/ tick'.pc = "supervises" /\ tick'.top = tick.running
      <4>1. CASE TickGivesUp
        BY <4>1 DEF TickGivesUp, Asleep
      <4>2. CASE TickSupervises
        <5>1. \/ tick' = Asleep
              \/ tick' = [Asleep EXCEPT !.pc = "supervises", !.top = tick.running,
                                       !.seen = "running"]
          BY <4>2 DEF TickSupervises, Rests
        <5> QED BY <5>1, <2>a DEF Ticks
      <4>3. CASE TickPreempts
        BY <4>3, <2>t DEF TickPreempts, Ticks
      <4>4. CASE TickRests
        BY <4>4 DEF TickRests, Rests, Asleep
      <4> QED BY <2>3, <4>1, <4>2, <4>3, <4>4
    <3> QED BY <2>0, <3>1, <3>2 DEF Bounded, Running
  <2>4. CASE TickChooses
    <3>1. Running = {}
      BY <2>4, TasksAssumption DEF TickChooses, Reads, Bounded, Running
    <3> QED BY <2>0, <2>4, <3>1 DEF TickChooses, Reads, Goes, Bounded, Running, TypeOK, Ticks
  <2>5. CASE TickPauses
    <3>1. Running' \subseteq Running /\ tick'.pc = "none"
      BY SMTT(30), <2>5 DEF TickPauses, Fails, Rests, Asleep, Paused, Running, TypeOK, JobRows
    <3> QED BY <2>0, <3>1 DEF Bounded
  <2>6. CASE TickFlags
    <3>1. Running' \subseteq Running
      BY <2>6 DEF TickFlags, Paused, Running, TypeOK, JobRows
    <3>2. Exists(tick.running) => Running' = {}
      BY <2>6 DEF TickFlags, Paused, Running, Bounded, TypeOK, JobRows
    <3>3. tick'.pc = IF Exists(tick.running) THEN "starts" ELSE "none"
      <4>1. IF Exists(tick.running)
            THEN tick' = [tick EXCEPT !.pc = "starts", !.flag = NoRun, !.running = NoJob]
            ELSE tick' = Asleep
        BY <2>6 DEF TickFlags, Fails, Rests
      <4> QED BY <4>1, <2>t, <2>a DEF Ticks
    <3> QED BY <2>0, <3>1, <3>2, <3>3 DEF Bounded
  <2>7. CASE TickStarts
    <3>1. Running' \subseteq Running \cup {tick.top} /\ tick.top \in Jobs
      BY <2>7 DEF TickStarts, Running, Named, TypeOK, JobRows
    <3>2. Running \subseteq {tick.top}
      BY <2>7 DEF TickStarts, Bounded
    <3>3. tick'.pc = "none" \/ (tick'.pc = "counts" /\ tick'.top = tick.top)
      <4>1. tick' = Asleep \/ tick' = [tick EXCEPT !.pc = "counts"]
        BY <2>7 DEF TickStarts, Goes, Fails, Rests
      <4> QED BY <4>1, <2>t, <2>a DEF Ticks
    <3> QED BY <3>1, <3>2, <3>3 DEF OneTaskRuns, Bounded
  <2>8. CASE TickCounts \/ TickDies
    <3>1. Running' \subseteq Running /\ tick'.pc = "none"
      BY <2>8 DEF TickCounts, TickDies, Fails, Rests, Asleep, Running, TypeOK, JobRows
    <3> QED BY <2>0, <3>1 DEF Bounded
  <2>9. CASE UNCHANGED vars
    BY <2>9 DEF vars, OneTaskRuns, Bounded, Running
  <2> QED BY <2>1, <2>2, <2>3, <2>4, <2>5, <2>6, <2>7, <2>8, <2>9 DEF Next, OthersAct, TickSteps
<1> QED BY <1>1, <1>2, TypeCorrect, PTL DEF Spec
-----------------------------------------------------------------------------
(***************************************************************************)
(* Bounded supervision.  The rounds of supervision are counted in a commit *)
(* of their own, and a tick decides on a count it read before: it may be   *)
(* too high by then, never too low.                                        *)
(***************************************************************************)
Asked == request.op # "none" => Exists(request.job)

Uncounted(j) == IF tick.pc = "counts" /\ tick.top = j THEN 1 ELSE 0

Counted ==
  /\ Asked
  /\ tick.pc = "reads" /\ tick.running \in Jobs => job[tick.running].count <= tick.count
  /\ tick.pc = "supervises" => job[tick.top].count < MAX_AUTO_SUPERVISION_ROUNDS
  /\ \A j \in Jobs : job[j].status = "none" => rounds[j] = 0
  /\ "uncounted" \notin lapses =>
       \A j \in Jobs :
         /\ rounds[j] <= MAX_AUTO_SUPERVISION_ROUNDS
         /\ job[j].status # "deleted" => rounds[j] <= job[j].count + Uncounted(j)

(* Users and runs set the counts of a task back together, if at all, and a *)
(* task that was deleted stays deleted.                                    *)
LEMMA OthersKeepCounts ==
  ASSUME TypeOK, Asked, OthersAct
  PROVE  /\ lapses \subseteq lapses'
         /\ Asked'
         /\ \A j \in Jobs :
              /\ \/ job'[j].count = job[j].count /\ rounds'[j] = rounds[j]
                 \/ job'[j].count = 0 /\ rounds'[j] = 0
              /\ job[j].status = "deleted" => job'[j].status = "deleted"
              /\ job'[j].status = "none" => job[j].status = "none"
<1> DEFINE Kept(j) ==
             /\ \/ job'[j].count = job[j].count /\ rounds'[j] = rounds[j]
                \/ job'[j].count = 0 /\ rounds'[j] = 0
             /\ job[j].status = "deleted" => job'[j].status = "deleted"
             /\ job'[j].status = "none" => job[j].status = "none"
           Goal == lapses \subseteq lapses' /\ Asked' /\ \A j \in Jobs : Kept(j)
<1>j. job \in [Jobs -> JobRows] /\ \A j \in Jobs : job[j] \in JobRows
  BY DEF TypeOK
<1>1. ASSUME NEW j \in Jobs, Create(j) PROVE Goal
  <2>1. \A k \in Jobs : Kept(k)
    BY <1>1, <1>j DEF Create, history, JobRows
  <2>2. Asked'
    BY <1>1, <1>j DEF Create, Asked, Exists, JobRows, Named, TypeOK
  <2> QED BY <1>1, <2>1, <2>2 DEF Create, history
<1>2. ASSUME NEW op, NEW j \in Jobs, NEW runs, Asks(op, j, runs) PROVE Goal
  <2>1. Asked'
    BY <1>2 DEF Asks, Asked, Exists
  <2> QED BY <1>2, <2>1 DEF Asks, history
<1>3. CASE RequestCommits
  <2>1. request.job \in Jobs /\ Exists(request.job)
    BY <1>3 DEF RequestCommits, Asked, Named, TypeOK
  <2>2. \A k \in Jobs : Kept(k)
    <3>1. Stored(job[request.job].status, request.seen, Target(request.op)) # "none"
      <4>1. request \in Requests /\ request.op # "none"
        BY <1>3 DEF RequestCommits, TypeOK
      <4>2. Target(request.op) # "none"
        BY <4>1 DEF Requests, Target, Updates
      <4> QED BY <2>1, <4>2 DEF Stored, Exists
    <3>2. job' = [job EXCEPT ![request.job].status =
                    Stored(job[request.job].status, request.seen, Target(request.op))]
      BY <1>3, <1>j DEF RequestCommits, JobRows
    <3>3. rounds' = rounds
      BY <1>3 DEF RequestCommits
    <3> QED BY <1>j, <2>1, <3>1, <3>2, <3>3 DEF Exists, JobRows
  <2>3. Asked'
    BY <1>3 DEF RequestCommits, NoRequest, Asked
  <2> QED BY <1>3, <2>2, <2>3 DEF RequestCommits
<1>4. ASSUME NEW r \in Runs, CloseCommits(r) PROVE Goal
  <2> DEFINE j == run[r].job
  <2>1. j \in Jobs
    BY <1>4 DEF CloseCommits, Named, TypeOK
  <2>2. /\ rounds \in [Jobs -> Nat]
        /\ request.op # "none" => request.job \in Jobs
    BY DEF TypeOK, Named
  <2>3. CASE ~ Exists(j)
    BY <1>4, <2>3 DEF CloseCommits, Asked, Exists
  <2>4. CASE Exists(j) /\ Renewable(PlanRead(r), run[r].finished)
    <3>1. /\ job' = [job EXCEPT ![j].status = Stored(@, run[r].seen, "queued"),
                               ![j].plan = build_next_loop_schedule(PlanRead(r), run[r].finished), ![j].count = 0]
          /\ rounds' = [rounds EXCEPT ![j] = 0]
          /\ lapses \subseteq lapses' /\ request' = request
      BY <1>4, <2>4 DEF CloseCommits
    <3>2. \A k \in Jobs : Kept(k)
      BY <1>j, <2>1, <2>2, <2>4, <3>1 DEF Exists, Stored, JobRows
    <3>3. Asked'
      BY <1>j, <2>1, <2>2, <2>4, <3>1 DEF Asked, Exists, Stored, JobRows
    <3> QED BY <3>1, <3>2, <3>3
  <2>5. CASE Exists(j) /\ ~ Renewable(PlanRead(r), run[r].finished)
    <3>1. /\ job' = [job EXCEPT ![j].status = Stored(@, run[r].seen, "completed")]
          /\ rounds' = rounds /\ lapses \subseteq lapses' /\ request' = request
      BY <1>4, <2>5 DEF CloseCommits
    <3>2. \A k \in Jobs : Kept(k)
      BY <1>j, <2>1, <2>5, <3>1 DEF Exists, Stored, JobRows
    <3>3. Asked'
      BY <1>j, <2>1, <2>2, <2>5, <3>1 DEF Asked, Exists, Stored, JobRows
    <3> QED BY <3>1, <3>2, <3>3
  <2> QED BY <2>3, <2>4, <2>5
<1>5. CASE UNCHANGED <<job, request, rounds>> /\ lapses \subseteq lapses'
  BY <1>5 DEF Asked, Exists
<1>6. \/ UNCHANGED <<job, request, rounds>> /\ lapses \subseteq lapses'
      \/ RequestCommits
      \/ \E j \in Jobs : Create(j) \/ \E op : \E runs : Asks(op, j, runs)
      \/ \E r \in Runs : CloseCommits(r)
  BY DEF OthersAct, ClockTicks, UserActs, PauseReads, ResumeReads, StopReads, DeleteReads,
         UpdateReads, RunSteps, TakesTask, Answers, CloseReads, RunEnds, ChatBegins, RunRestarts, history
<1> QED BY <1>1, <1>2, <1>3, <1>4, <1>5, <1>6

(* A step of the tick that only reads.                                     *)
LEMMA ReadsKeepCounts ==
  ASSUME TypeOK, Counted, TickBegins \/ TickGivesUp \/ TickSupervises \/ TickPreempts
                          \/ TickChooses \/ TickRests
  PROVE  Counted'
<1>a. Asleep \in Ticks /\ Asleep.pc = "none" /\ tick \in Ticks
  BY DEF TypeOK, Asleep, Ticks, JobStatuses
<1>j. job \in [Jobs -> JobRows] /\ \A j \in Jobs : job[j] \in JobRows
  BY DEF TypeOK
<1>s. UNCHANGED <<job, rounds, lapses, request>> /\ tick.pc # "counts"
  BY DEF TickBegins, TickGivesUp, TickSupervises, TickPreempts, TickChooses, TickRests, Reads,
         history
<1>q. Asked' /\ \A j \in Jobs : Uncounted(j) = 0
  BY <1>s DEF Counted, Asked, Exists, Uncounted
<1>1. /\ tick'.pc # "counts"
      /\ tick'.pc = "reads" /\ tick'.running \in Jobs => job[tick'.running].count <= tick'.count
      /\ tick'.pc = "supervises" => job[tick'.top].count < MAX_AUTO_SUPERVISION_ROUNDS
  <2>1. CASE TickBegins
    <3>1. PICK j \in IF Running = {} THEN {NoJob} ELSE First(Running) :
             tick'.pc = "reads" /\ tick'.running = j
             /\ tick'.count = IF j = NoJob THEN 0 ELSE job[j].count
      <4>1. PICK j \in IF Running = {} THEN {NoJob} ELSE First(Running),
                 top \in IF Ready = {} THEN {NoJob} ELSE First(Ready) :
               tick' = [Asleep EXCEPT !.pc = "reads", !.running = j, !.top = top,
                          !.count = IF j = NoJob THEN 0 ELSE job[j].count,
                          !.over = j # NoJob /\ job[j].last \notin Live,
                          !.seen = IF top = NoJob THEN "none" ELSE job[top].status]
        BY <2>1 DEF TickBegins
      <4> QED BY <4>1 DEF Asleep
    <3>2. j \in Jobs => j # NoJob /\ job[j].count \in Nat
      BY <1>j, TasksAssumption DEF JobRows
    <3> QED BY <3>1, <3>2
  <2>2. CASE TickGivesUp
    <3>1. tick' = [Asleep EXCEPT !.pc = "pauses", !.running = tick.running]
      BY <2>2 DEF TickGivesUp
    <3> QED BY <1>a, <3>1 DEF Ticks
  <2>3. CASE TickSupervises
    <3>1. \/ tick' = Asleep
          \/ tick' = [Asleep EXCEPT !.pc = "supervises", !.top = tick.running, !.seen = "running"]
      BY <2>3 DEF TickSupervises, Rests
    <3>2. /\ tick.running \in Jobs /\ tick.count < MAX_AUTO_SUPERVISION_ROUNDS
          /\ job[tick.running].count <= tick.count
      BY <1>a, <2>3, TasksAssumption DEF TickSupervises, Reads, Exhausted, Counted, Ticks
    <3>3. job[tick.running].count < MAX_AUTO_SUPERVISION_ROUNDS
      <4>1. job[tick.running].count \in Nat /\ tick.count \in Nat
        BY <1>a, <1>j, <3>2 DEF Ticks, JobRows
      <4> QED BY <3>2, <4>1, TasksAssumption
    <3> QED BY <1>a, <3>1, <3>3 DEF Ticks
  <2>4. CASE TickPreempts
    BY <1>a, <2>4 DEF TickPreempts, Ticks
  <2>5. CASE TickChooses
    BY <1>a, <2>5 DEF TickChooses, Goes, Ticks
  <2>6. CASE TickRests
    BY <1>a, <2>6 DEF TickRests, Rests
  <2> QED BY <2>1, <2>2, <2>3, <2>4, <2>5, <2>6
<1>2. \A j \in Jobs : Uncounted(j)' = 0
  BY <1>1 DEF Uncounted
<1> QED BY <1>s, <1>q, <1>1, <1>2 DEF Counted

(* What the commits of a tick do to a count.                               *)
LEMMA CommitsKeepCounts ==
  ASSUME TypeOK, Counted, TickPauses \/ TickFlags \/ TickStarts \/ TickCounts \/ TickDies
  PROVE  Counted'
<1>a. Asleep \in Ticks /\ Asleep.pc = "none" /\ tick \in Ticks
  BY DEF TypeOK, Asleep, Ticks, JobStatuses
<1>j. job \in [Jobs -> JobRows] /\ rounds \in [Jobs -> Nat] /\ \A j \in Jobs : job[j] \in JobRows
  BY DEF TypeOK
<1>n. request.op # "none" => request.job \in Jobs
  BY DEF TypeOK, Named
<1>1. CASE TickPauses \/ TickFlags
  <2>1. /\ \A j \in Jobs : /\ job'[j].count = job[j].count
                           /\ job'[j].status # "deleted" => job[j].status # "deleted"
                           /\ job'[j].status = "none" => job[j].status = "none"
                           /\ Exists(j) => job'[j].status \notin {"none", "deleted"}
        /\ rounds' = rounds /\ lapses \subseteq lapses' /\ request' = request
        /\ ("uncounted" \in lapses' => "uncounted" \in lapses)
    BY <1>1, <1>j DEF TickPauses, TickFlags, Paused, Exists, JobRows, Met, Named, TypeOK
  <2>2. tick.pc # "counts" /\ tick'.pc \in {"none", "starts"}
    <3>1. \/ tick' = Asleep
          \/ tick' = [tick EXCEPT !.pc = "starts", !.flag = NoRun, !.running = NoJob]
      BY <1>1 DEF TickPauses, TickFlags, Fails, Rests
    <3> QED BY <1>1, <1>a, <3>1 DEF TickPauses, TickFlags, Ticks
  <2>3. \A j \in Jobs : Uncounted(j) = 0 /\ Uncounted(j)' = 0
    BY <2>2 DEF Uncounted
  <2>4. Asked'
    BY <1>n, <2>1 DEF Counted, Asked, Exists
  <2> QED BY <2>1, <2>2, <2>3, <2>4 DEF Counted
<1>2. CASE TickStarts
  <2> DEFINE top == tick.top
  <2>1. top \in Jobs
    BY <1>2 DEF TickStarts, Named, TypeOK
  <2>2. /\ \A j \in Jobs : /\ job'[j].count = job[j].count
                           /\ job'[j].status # "deleted" => job[j].status # "deleted"
                           /\ job'[j].status = "none" => job[j].status = "none"
                           /\ Exists(j) => job'[j].status \notin {"none", "deleted"}
        /\ lapses \subseteq lapses' /\ request' = request
        /\ ("uncounted" \in lapses' => "uncounted" \in lapses)
    <3>1. /\ lapses \subseteq lapses' /\ request' = request
          /\ ("uncounted" \in lapses' => "uncounted" \in lapses)
      BY <1>2 DEF TickStarts, Met
    <3>2. \/ job' = job
          \/ Exists(top) /\ \E r \in NextRow :
               job' = [job EXCEPT ![top].status = "running", ![top].last = r,
                                  ![top].session = job[top].plan.done]
      BY <1>2 DEF TickStarts
    <3>3. ASSUME Exists(top), NEW r,
                 job' = [job EXCEPT ![top].status = "running", ![top].last = r,
                                    ![top].session = job[top].plan.done],
                 NEW j \in Jobs
          PROVE  /\ job'[j].count = job[j].count
                 /\ job'[j].status = IF j = top THEN "running" ELSE job[j].status
      BY <1>j, <2>1, <3>3 DEF JobRows
    <3> QED BY <3>1, <3>2, <3>3 DEF Exists
  <2>3. \/ /\ tick' = Asleep /\ rounds' = rounds
        \/ /\ tick.pc = "supervises" /\ tick' = [tick EXCEPT !.pc = "counts"] /\ Exists(top)
           /\ rounds' = [rounds EXCEPT ![top] = @ + 1]
    BY <1>2 DEF TickStarts, Goes, Fails, Rests
  <2>4. Asked'
    BY <1>n, <2>2 DEF Counted, Asked, Exists
  <2>5. tick.pc # "counts" /\ \A j \in Jobs : Uncounted(j) = 0
    BY <1>2 DEF TickStarts, Uncounted
  <2>6. CASE tick' = Asleep /\ rounds' = rounds
    <3>1. \A j \in Jobs : Uncounted(j)' = 0
      BY <1>a, <2>6 DEF Uncounted
    <3> QED BY <1>a, <2>2, <2>4, <2>5, <2>6, <3>1 DEF Counted
  <2>7. CASE /\ tick.pc = "supervises" /\ tick' = [tick EXCEPT !.pc = "counts"] /\ Exists(top)
             /\ rounds' = [rounds EXCEPT ![top] = @ + 1]
    <3>1. tick'.pc = "counts" /\ tick'.top = top
      BY <1>a, <2>7 DEF Ticks
    <3>2. \A j \in Jobs : Uncounted(j)' = IF j = top THEN 1 ELSE 0
      BY <3>1 DEF Uncounted
    <3>3. job[top].count < MAX_AUTO_SUPERVISION_ROUNDS /\ job[top].status # "deleted"
      BY <2>7 DEF Counted, Exists
    <3>4. ASSUME "uncounted" \notin lapses', NEW j \in Jobs
          PROVE  /\ rounds'[j] <= MAX_AUTO_SUPERVISION_ROUNDS
                 /\ job'[j].status # "deleted" => rounds'[j] <= job'[j].count + Uncounted(j)'
      <4>1. /\ rounds[j] <= MAX_AUTO_SUPERVISION_ROUNDS
            /\ job[j].status # "deleted" => rounds[j] <= job[j].count
            /\ rounds[j] \in Nat /\ job[j].count \in Nat
        BY <1>j, <2>2, <2>5, <3>4 DEF Counted, JobRows
      <4>2. CASE j = top
        BY <1>j, <2>1, <2>2, <2>7, <3>2, <3>3, <4>1, <4>2, TasksAssumption
      <4>3. CASE j # top
        BY <1>j, <2>1, <2>2, <2>7, <3>2, <4>1, <4>3
      <4> QED BY <4>2, <4>3
    <3>5. ASSUME NEW j \in Jobs, job'[j].status = "none" PROVE rounds'[j] = 0
      BY <1>j, <2>1, <2>2, <2>7, <3>5 DEF Counted, Exists
    <3> QED BY <2>4, <3>1, <3>4, <3>5 DEF Counted
  <2> QED BY <2>3, <2>6, <2>7
<1>3. CASE TickCounts
  <2> DEFINE top == tick.top
  <2>1. top \in Jobs /\ tick' = Asleep /\ UNCHANGED <<rounds, lapses, request>>
    BY <1>3 DEF TickCounts, Fails, Rests, Named, TypeOK, history
  <2>2. \A j \in Jobs : /\ job'[j].status = job[j].status
                        /\ job'[j].count = IF Exists(top) /\ j = top THEN job[j].count + 1
                                           ELSE job[j].count
    BY <1>3, <1>j, <2>1 DEF TickCounts, JobRows
  <2>3. \A j \in Jobs : Uncounted(j)' = 0 /\ Uncounted(j) = IF j = top THEN 1 ELSE 0
    BY <1>3, <1>a, <2>1 DEF TickCounts, Uncounted
  <2>4. Asked'
    BY <1>n, <2>1, <2>2 DEF Counted, Asked, Exists
  <2>5. ASSUME "uncounted" \notin lapses, NEW j \in Jobs
        PROVE  /\ rounds[j] <= MAX_AUTO_SUPERVISION_ROUNDS
               /\ job'[j].status # "deleted" => rounds[j] <= job'[j].count
    <3>1. /\ rounds[j] <= MAX_AUTO_SUPERVISION_ROUNDS
          /\ job[j].status # "deleted" => rounds[j] <= job[j].count + Uncounted(j)
          /\ rounds[j] \in Nat /\ job[j].count \in Nat
      BY <1>j, <2>5 DEF Counted, JobRows
    <3>3. CASE Exists(top) \/ j # top \/ job[j].status = "deleted"
      BY <2>2, <2>3, <3>1, <3>3
    <3>4. CASE ~ Exists(top) /\ j = top /\ job[j].status # "deleted"
      <4>1. rounds[j] = 0
        BY <3>4 DEF Counted, Exists
      <4> QED BY <2>2, <3>1, <3>4, <4>1
    <3> QED BY <3>3, <3>4
  <2>6. \A j \in Jobs : job'[j].status = "none" => rounds[j] = 0
    BY <2>2 DEF Counted
  <2>7. \A j \in Jobs : rounds[j] \in Nat /\ job'[j].count \in Nat
    BY <1>j, <2>2 DEF JobRows
  <2>8. "uncounted" \notin lapses' =>
          \A j \in Jobs : /\ rounds'[j] <= MAX_AUTO_SUPERVISION_ROUNDS
                          /\ job'[j].status # "deleted" => rounds'[j] <= job'[j].count + Uncounted(j)'
    BY <2>1, <2>3, <2>5, <2>7
  <2> QED BY <1>a, <2>1, <2>4, <2>6, <2>8 DEF Counted
<1>4. CASE TickDies
  <2>1. /\ tick' = Asleep /\ UNCHANGED <<job, rounds, request>> /\ lapses \subseteq lapses'
        /\ (tick.pc = "counts" => "uncounted" \in lapses')
    BY <1>4 DEF TickDies, Rests, Met
  <2>2. Asked' /\ \A j \in Jobs : Uncounted(j)' = 0
    BY <1>a, <2>1 DEF Counted, Asked, Exists, Uncounted
  <2>3. "uncounted" \notin lapses' => \A j \in Jobs : Uncounted(j) = 0
    BY <2>1 DEF Uncounted
  <2> QED BY <1>a, <2>1, <2>2, <2>3 DEF Counted
<1> QED BY <1>1, <1>2, <1>3, <1>4

(* The counts of the tasks are never too low.                              *)
LEMMA AlwaysCounted == Spec => []Counted
<1>1. Init => Counted
  BY TasksAssumption DEF Init, Counted, Asked, Uncounted, Asleep, NoRequest
<1>2. TypeOK /\ Counted /\ [Next]_vars => Counted'
  <2> SUFFICES ASSUME TypeOK, Counted, [Next]_vars PROVE Counted'
    OBVIOUS
  <2>1. CASE OthersAct
    <3>1. /\ lapses \subseteq lapses' /\ Asked' /\ tick' = tick
          /\ \A j \in Jobs :
               /\ \/ job'[j].count = job[j].count /\ rounds'[j] = rounds[j]
                  \/ job'[j].count = 0 /\ rounds'[j] = 0
               /\ job[j].status = "deleted" => job'[j].status = "deleted"
               /\ job'[j].status = "none" => job[j].status = "none"
      BY <2>1, OthersLeaveTick, OthersKeepCounts DEF Counted
    <3>2. \A j \in Jobs : /\ job[j].count \in Nat /\ job'[j].count <= job[j].count
                          /\ Uncounted(j) \in {0, 1} /\ Uncounted(j)' = Uncounted(j)
      BY <3>1 DEF TypeOK, JobRows, Uncounted
    <3>3. tick.pc = "reads" /\ tick.running \in Jobs => job'[tick.running].count <= tick.count
      BY <3>1, <3>2 DEF Counted, TypeOK, Ticks
    <3>4. tick.pc = "supervises" => job'[tick.top].count < MAX_AUTO_SUPERVISION_ROUNDS
      <4>1. tick.pc = "supervises" => tick.top \in Jobs
        BY DEF Named, TypeOK
      <4>2. tick.pc = "supervises" => job[tick.top].count < MAX_AUTO_SUPERVISION_ROUNDS
        BY DEF Counted
      <4>3. \A j \in Jobs : job'[j].count \in Nat
        BY <3>1 DEF TypeOK, JobRows
      <4>4. tick.pc = "supervises" =>
              /\ job'[tick.top].count \in Nat /\ job[tick.top].count \in Nat
              /\ job'[tick.top].count <= job[tick.top].count
        BY <3>2, <4>1, <4>3
      <4>5. MAX_AUTO_SUPERVISION_ROUNDS \in Nat
        BY TasksAssumption
      <4> QED BY <4>2, <4>4, <4>5
    <3>5. ASSUME NEW j \in Jobs, job'[j].status = "none" PROVE rounds'[j] = 0
      BY <3>1, <3>5 DEF Counted
    <3>6. ASSUME "uncounted" \notin lapses', NEW j \in Jobs
          PROVE  /\ rounds'[j] <= MAX_AUTO_SUPERVISION_ROUNDS
                 /\ job'[j].status # "deleted" => rounds'[j] <= job'[j].count + Uncounted(j)'
      <4>1. /\ rounds[j] <= MAX_AUTO_SUPERVISION_ROUNDS
            /\ job[j].status # "deleted" => rounds[j] <= job[j].count + Uncounted(j)
        BY <3>1, <3>6 DEF Counted
      <4> QED BY <3>1, <3>2, <4>1, TasksAssumption
    <3> QED BY <3>1, <3>3, <3>4, <3>5, <3>6 DEF Counted
  <2>2. CASE TickSteps \/ TickDies
    BY <2>2, ReadsKeepCounts, CommitsKeepCounts DEF TickSteps
  <2>3. CASE UNCHANGED vars
    BY <2>3 DEF vars, history, Counted, Asked, Exists, Uncounted
  <2> QED BY <2>1, <2>2, <2>3 DEF Next, OthersAct
<1> QED BY <1>1, <1>2, TypeCorrect, PTL DEF Spec

(* No task is supervised for more than two rounds, unless the gateway dies *)
(* between starting a round and counting it.                               *)
THEOREM Supervised == Spec => []SupervisionBounded
<1>1. TypeOK /\ Counted => SupervisionBounded
  <2> SUFFICES ASSUME TypeOK, Counted, NEW j \in Jobs, "uncounted" \notin lapses
               PROVE  ~ (rounds[j] > MAX_AUTO_SUPERVISION_ROUNDS)
    BY DEF SupervisionBounded
  <2>1. rounds[j] <= MAX_AUTO_SUPERVISION_ROUNDS /\ rounds[j] \in Nat
    BY DEF Counted, TypeOK
  <2> QED BY <2>1, TasksAssumption
<1> QED BY <1>1, AlwaysCounted, TypeCorrect, PTL
-----------------------------------------------------------------------------
(***************************************************************************)
(* Commands hold.  A commit that finds the task as its reader saw it       *)
(* cannot undo a command: a tick that is to start a task saw it queued or  *)
(* running, a run that closes one saw it open.                             *)
(***************************************************************************)
Clean == "crossed" \notin lapses /\ "late" \notin lapses

Obeyed ==
  /\ Clean => \A j \in Jobs :
       /\ command[j] = "paused" => job[j].status \notin {"queued", "running"}
       /\ command[j] = "stopped" => job[j].status = "stopped"
  /\ \A j \in Jobs : job[j].status = "none" => command[j] = "none"
  /\ \A r \in Runs : run[r].closes = "closing" => run[r].seen \notin Ended
  /\ tick.pc = "reads" /\ tick.top \in Jobs => tick.seen = "queued"
  /\ tick.pc \in {"preempts", "starts"} => tick.seen = "queued"
  /\ tick.pc = "supervises" => tick.seen = "running"

(* What a request leaves is what its user asked for.                       *)
LEMMA RequestsObeyed ==
  ASSUME TypeOK, Asked, Obeyed, RequestCommits
  PROVE  Obeyed'
<1> DEFINE j == request.job
           target == Target(request.op)
<1>j. job \in [Jobs -> JobRows] /\ command \in [Jobs -> {"none", "queued", "paused", "stopped", "deleted"}]
  BY DEF TypeOK
<1>1. request \in Requests /\ j \in Jobs /\ request.op # "none" /\ Exists(j)
  BY DEF RequestCommits, Asked, Named, TypeOK
<1>2. target \in {"queued", "paused", "stopped", "deleted"}
  BY <1>1 DEF Requests, Target, Updates
<1>3. /\ job' = [job EXCEPT ![j].status = Stored(job[j].status, request.seen, target)]
      /\ command' = [command EXCEPT ![j] = target]
      /\ lapses \subseteq lapses' /\ tick' = tick
      /\ (Clean' => job[j].status = request.seen)
  BY <1>j DEF RequestCommits, JobRows, Met, Clean
<1>4. \A k \in Jobs \ {j} : job'[k].status = job[k].status /\ command'[k] = command[k]
  BY <1>j, <1>3
<1>5. /\ command'[j] = target
      /\ job'[j].status = Stored(job[j].status, request.seen, target)
      /\ job'[j].status # "none"
  BY <1>j, <1>1, <1>2, <1>3 DEF Stored, Exists, JobRows
<1>6. Clean' => Clean /\ job'[j].status = target
  BY <1>3, <1>5 DEF Clean, Stored
<1>7. \A r \in Runs : run'[r].closes = run[r].closes /\ run'[r].seen = run[r].seen
  BY DEF RequestCommits, TypeOK, RunRows
<1> QED BY <1>2, <1>3, <1>4, <1>5, <1>6, <1>7 DEF Obeyed

(* A run closes its task only if it is as open as the run saw it.          *)
LEMMA ClosingObeys ==
  ASSUME TypeOK, Obeyed, NEW r \in Runs, CloseReads(r) \/ CloseCommits(r)
  PROVE  Obeyed'
<1> DEFINE j == run[r].job
<1>j. job \in [Jobs -> JobRows] /\ run \in [Runs -> RunRows] /\ j \in Jobs
  BY DEF CloseReads, CloseCommits, Named, TypeOK
<1>1. CASE CloseReads(r)
  <2>1. UNCHANGED <<job, tick, command, lapses>>
    BY <1>1 DEF CloseReads, history
  <2>2. ASSUME NEW q \in Runs, run'[q].closes = "closing" PROVE run'[q].seen \notin Ended
    BY <1>1, <1>j, <2>2 DEF CloseReads, Obeyed, Thread, RunRows
  <2> QED BY <2>1, <2>2 DEF Obeyed, Clean
<1>2. CASE CloseCommits(r)
  <2>1. /\ UNCHANGED <<tick, command>> /\ lapses \subseteq lapses'
        /\ (Clean' => Clean /\ job[j].status = run[r].seen)
        /\ (Clean' /\ Renewable(PlanRead(r), run[r].finished) => command[j] # "paused")
    BY <1>2 DEF CloseCommits, Met, Clean
  <2>2. run[r].seen \notin Ended
    BY <1>2 DEF CloseCommits, Obeyed
  <2>3. ASSUME NEW q \in Runs, run'[q].closes = "closing" PROVE run'[q].seen \notin Ended
    BY <1>2, <1>j, <2>3 DEF CloseCommits, Obeyed, Thread, RunRows
  <2>4. /\ \A k \in Jobs \ {j} : job'[k].status = job[k].status
        /\ \/ job'[j].status = job[j].status
           \/ Renewable(PlanRead(r), run[r].finished) /\ job'[j].status = "queued" /\ Exists(j)
           \/ job'[j].status = "completed" /\ Exists(j)
    <3>1. CASE ~ Exists(j)
      BY <1>2, <3>1 DEF CloseCommits
    <3>2. CASE Exists(j) /\ Renewable(PlanRead(r), run[r].finished)
      <4>1. job' = [job EXCEPT ![j].status = Stored(@, run[r].seen, "queued"),
                              ![j].plan = build_next_loop_schedule(PlanRead(r), run[r].finished), ![j].count = 0]
        BY <1>2, <3>2 DEF CloseCommits
      <4> QED BY <1>j, <3>2, <4>1 DEF Stored, JobRows
    <3>3. CASE Exists(j) /\ ~ Renewable(PlanRead(r), run[r].finished)
      <4>1. job' = [job EXCEPT ![j].status = Stored(@, run[r].seen, "completed")]
        BY <1>2, <3>3 DEF CloseCommits
      <4> QED BY <1>j, <3>3, <4>1 DEF Stored, JobRows
    <3> QED BY <3>1, <3>2, <3>3
  <2>5. ASSUME Clean', NEW k \in Jobs
        PROVE  /\ command[k] = "paused" => job'[k].status \notin {"queued", "running"}
               /\ command[k] = "stopped" => job'[k].status = "stopped"
    BY <2>1, <2>2, <2>4, <2>5 DEF Obeyed, Ended
  <2>6. \A k \in Jobs : job'[k].status = "none" => command[k] = "none"
    BY <2>4 DEF Obeyed
  <2> QED BY <2>1, <2>3, <2>5, <2>6 DEF Obeyed
<1> QED BY <1>1, <1>2

(* A tick starts, preempts and pauses what it saw queued and running.      *)
LEMMA TickObeys ==
  ASSUME TypeOK, Obeyed, TickSteps \/ TickDies
  PROVE  Obeyed'
<1>a. Asleep \in Ticks /\ Asleep.pc = "none" /\ tick \in Ticks
  BY DEF TypeOK, Asleep, Ticks, JobStatuses
<1>j. job \in [Jobs -> JobRows] /\ run \in [Runs -> RunRows]
  BY DEF TypeOK
<1>c. UNCHANGED command /\ lapses \subseteq lapses'
  BY DEF TickSteps, TickBegins, TickGivesUp, TickSupervises, TickPreempts, TickChooses, TickRests,
         TickPauses, TickFlags, TickStarts, TickCounts, TickDies, Reads, history
<1>r. ASSUME NEW q \in Runs, run'[q].closes = "closing" PROVE run'[q].seen \notin Ended
  <2>1. CASE run' = run
    BY <1>r, <2>1 DEF Obeyed
  <2>2. CASE TickFlags
    BY <1>j, <1>r, <2>2 DEF TickFlags, Obeyed, RunRows
  <2>3. CASE TickStarts /\ Exists(tick.top)
    <3>1. PICK r \in NextRow :
            run' = [Forgotten(job[tick.top].last) EXCEPT
                      ![r] = Started(tick.top, job[tick.top].plan.done)]
      BY <2>3 DEF TickStarts
    <3>2. Started(tick.top, job[tick.top].plan.done).closes = "no" /\ Unused.closes = "no"
      BY DEF Started, Unused
    <3>3. Forgotten(job[tick.top].last) \in [Runs -> RunRows]
      BY ForgottenType
    <3>4. \A s \in Runs : Forgotten(job[tick.top].last)[s] \in {Unused, run[s]}
      BY DEF Forgotten
    <3> QED BY <1>r, <3>1, <3>2, <3>3, <3>4 DEF Obeyed, NextRow
  <2> QED BY <2>1, <2>2, <2>3
          DEF TickSteps, TickBegins, TickGivesUp, TickSupervises, TickPreempts, TickChooses,
              TickRests, TickPauses, TickStarts, TickCounts, TickDies, Reads
<1>t. /\ tick'.pc = "reads" /\ tick'.top \in Jobs => tick'.seen = "queued"
      /\ tick'.pc \in {"preempts", "starts"} => tick'.seen = "queued"
      /\ tick'.pc = "supervises" => tick'.seen = "running"
  <2>1. CASE TickBegins
    <3>1. PICK top \in IF Ready = {} THEN {NoJob} ELSE First(Ready) :
            tick'.pc = "reads" /\ tick'.top = top
            /\ tick'.seen = IF top = NoJob THEN "none" ELSE job[top].status
      BY <2>1 DEF TickBegins, Asleep
    <3>2. top \in Jobs => top # NoJob /\ job[top].status = "queued"
      BY TasksAssumption DEF First, Ready
    <3> QED BY <3>1, <3>2
  <2>2. CASE TickGivesUp
    <3>1. tick' = [Asleep EXCEPT !.pc = "pauses", !.running = tick.running]
      BY <2>2 DEF TickGivesUp
    <3> QED BY <1>a, <3>1 DEF Ticks
  <2>3. CASE TickSupervises
    <3>1. \/ tick' = Asleep
          \/ tick' = [Asleep EXCEPT !.pc = "supervises", !.top = tick.running, !.seen = "running"]
      BY <2>3 DEF TickSupervises, Rests
    <3> QED BY <1>a, <3>1 DEF Ticks
  <2>4. CASE TickPreempts
    <3>1. tick.top \in Jobs /\ tick.seen = "queued"
      BY <1>a, <2>4 DEF TickPreempts, Reads, Obeyed, Ticks
    <3> QED BY <1>a, <2>4, <3>1 DEF TickPreempts, Ticks
  <2>5. CASE TickChooses
    <3>1. tick.top \in Jobs /\ tick.seen = "queued"
      BY <2>5, TasksAssumption DEF TickChooses, Reads, Obeyed, Named, TypeOK
    <3> QED BY <1>a, <2>5, <3>1 DEF TickChooses, Goes, Ticks
  <2>6. CASE TickFlags
    <3>1. \/ tick' = Asleep
          \/ tick' = [tick EXCEPT !.pc = "starts", !.flag = NoRun, !.running = NoJob]
      BY <2>6 DEF TickFlags, Fails, Rests
    <3> QED BY <1>a, <2>6, <3>1 DEF TickFlags, Obeyed, Ticks
  <2>7. CASE TickRests \/ TickPauses \/ TickStarts \/ TickCounts \/ TickDies
    <3>1. tick' = Asleep \/ tick' = [tick EXCEPT !.pc = "counts"]
      BY <2>7 DEF TickRests, TickPauses, TickStarts, TickCounts, TickDies, Goes, Fails, Rests
    <3> QED BY <1>a, <3>1 DEF Ticks
  <2> QED BY <2>1, <2>2, <2>3, <2>4, <2>5, <2>6, <2>7 DEF TickSteps
<1>s. /\ \A k \in Jobs : job'[k].status = "none" => job[k].status = "none"
      /\ \A k \in Jobs : Clean' =>
           \/ job'[k].status = job[k].status
           \/ job'[k].status = "paused" /\ job[k].status = "running"
           \/ job'[k].status = "running" /\ job[k].status \in {"queued", "running"}
  <2>1. CASE UNCHANGED job
    BY <2>1
  <2>2. CASE TickPauses \/ TickFlags
    <3>1. tick.running \in Jobs
      BY <2>2 DEF TickPauses, TickFlags, Named, TypeOK
    <3>2. job' = job \/ job' = [job EXCEPT ![tick.running].status = "paused"]
      BY <2>2 DEF TickPauses, TickFlags, Paused
    <3>3. Clean' => job[tick.running].status = "running"
      BY <2>2 DEF TickPauses, TickFlags, Met, Clean
    <3> QED BY <1>j, <3>1, <3>2, <3>3 DEF JobRows
  <2>3. CASE TickStarts
    <3>1. tick.top \in Jobs /\ tick.seen \in {"queued", "running"}
      BY <2>3 DEF TickStarts, Obeyed, Named, TypeOK
    <3>2. job' = job \/ \E r \in NextRow :
            job' = [job EXCEPT ![tick.top].status = "running", ![tick.top].last = r,
                               ![tick.top].session = job[tick.top].plan.done]
      BY <2>3 DEF TickStarts
    <3>3. Clean' => job[tick.top].status = tick.seen
      BY <2>3 DEF TickStarts, Met, Clean
    <3>4. ASSUME NEW r, NEW k \in Jobs,
                 job' = [job EXCEPT ![tick.top].status = "running", ![tick.top].last = r,
                                    ![tick.top].session = job[tick.top].plan.done]
          PROVE  job'[k].status = IF k = tick.top THEN "running" ELSE job[k].status
      BY <1>j, <3>1, <3>4 DEF JobRows
    <3>5. tick.seen # "paused" /\ tick.seen # "stopped"
      BY <3>1
    <3> QED BY <3>1, <3>2, <3>3, <3>4, <3>5
  <2>4. CASE TickCounts
    <3>1. tick.top \in Jobs
      BY <2>4 DEF TickCounts, Named, TypeOK
    <3> QED BY <1>j, <2>4, <3>1 DEF TickCounts, JobRows
  <2> QED BY <2>1, <2>2, <2>3, <2>4
          DEF TickSteps, TickBegins, TickGivesUp, TickSupervises, TickPreempts, TickChooses,
              TickRests, TickDies, Reads
<1>1. Clean' => Clean
  BY <1>c DEF Clean
<1>2. ASSUME Clean', NEW k \in Jobs
      PROVE  /\ command[k] = "paused" => job'[k].status \notin {"queued", "running"}
             /\ command[k] = "stopped" => job'[k].status = "stopped"
  BY <1>1, <1>2, <1>s DEF Obeyed
<1> QED BY <1>c, <1>r, <1>t, <1>s, <1>2 DEF Obeyed

LEMMA AlwaysObeyed == Spec => []Obeyed
<1>1. Init => Obeyed
  BY DEF Init, Obeyed, Unused, Asleep
<1>2. TypeOK /\ Asked /\ Obeyed /\ [Next]_vars => Obeyed'
  <2> SUFFICES ASSUME TypeOK, Asked, Obeyed, [Next]_vars PROVE Obeyed'
    OBVIOUS
  <2>j. job \in [Jobs -> JobRows] /\ run \in [Runs -> RunRows]
    BY DEF TypeOK
  <2>1. CASE TickSteps \/ TickDies
    BY <2>1, TickObeys
  <2>2. CASE RequestCommits
    BY <2>2, RequestsObeyed
  <2>3. ASSUME NEW r \in Runs, CloseReads(r) \/ CloseCommits(r) PROVE Obeyed'
    BY <2>3, ClosingObeys
  <2>4. ASSUME NEW j \in Jobs, Create(j) PROVE Obeyed'
    <3>1. /\ UNCHANGED <<run, tick, command, lapses>>
          /\ job[j].status = "none" /\ job'[j].status = "queued"
          /\ \A k \in Jobs \ {j} : job'[k].status = job[k].status
      BY <2>j, <2>4 DEF Create, history, JobRows
    <3> QED BY <3>1 DEF Obeyed, Clean
  <2>5. ASSUME UNCHANGED <<job, tick, command>>, lapses \subseteq lapses',
               \A q \in Runs : run'[q].closes = "closing" => run'[q].seen = run[q].seen
                                                            /\ run[q].closes = "closing"
        PROVE  Obeyed'
    BY <2>5 DEF Obeyed, Clean
  <2>6. ASSUME NEW r \in Runs, TakesTask(r) \/ Answers(r) \/ ChatBegins(r) \/ RunRestarts(r)
                               \/ \E goal \in {"completed", "error"} : RunEnds(r, goal)
        PROVE  Obeyed'
    <3>1. UNCHANGED <<job, tick, command>> /\ lapses \subseteq lapses'
      BY <2>6 DEF TakesTask, Answers, ChatBegins, RunRestarts, RunEnds, history
    <3>2. run' \in [Runs -> RunRows] /\ (\A q \in Runs \ {r} : run'[q] = run[q])
          /\ run'[r].closes # "closing"
      <4>1. Started(NoJob, 0).closes = "no" /\ \A s : [Unused EXCEPT !.status = s].closes = "no"
        BY DEF Started, Unused
      <4>2. TypeOK'
        BY <2>6, RunsType DEF RunSteps
      <4>3. (\A q \in Runs \ {r} : run'[q] = run[q]) /\ run'[r].closes # "closing"
        <5>1. CASE TakesTask(r) \/ Answers(r) \/ RunRestarts(r)
          BY <2>j, <5>1 DEF TakesTask, Answers, RunRestarts, Thread, RunRows
        <5>2. CASE ChatBegins(r)
          BY <2>j, <4>1, <5>2 DEF ChatBegins
        <5>3. ASSUME NEW goal, RunEnds(r, goal)
              PROVE  (\A q \in Runs \ {r} : run'[q] = run[q]) /\ run'[r].closes # "closing"
          <6>1. \E s : run' = [run EXCEPT ![r] = [Unused EXCEPT !.status = s]]
            BY <5>3 DEF RunEnds
          <6> QED BY <2>j, <4>1, <6>1
        <5> QED BY <2>6, <5>1, <5>2, <5>3
      <4> QED BY <4>2, <4>3 DEF TypeOK
    <3> QED BY <2>5, <3>1, <3>2
  <2>7. CASE UNCHANGED <<job, tick, command, lapses, run>>
    BY <2>5, <2>7
  <2> QED BY <2>1, <2>2, <2>3, <2>4, <2>6, <2>7
          DEF Next, ClockTicks, UserActs, PauseReads, ResumeReads, StopReads, DeleteReads,
              UpdateReads, Asks, RunSteps, vars, history
<1>3. Counted => Asked
  BY DEF Counted
<1> QED BY <1>1, <1>2, <1>3, TypeCorrect, AlwaysCounted, PTL DEF Spec

(* A task a user has paused or ended is not queued or running again unless *)
(* a commit was made over a change it had not seen, or a run that was told *)
(* to pause had answered already and renews its task.                      *)
THEOREM CommandsHold == Spec => []CommandHolds
<1>1. Obeyed => CommandHolds
  BY DEF Obeyed, CommandHolds, Clean
<1> QED BY <1>1, AlwaysObeyed, PTL
-----------------------------------------------------------------------------
(***************************************************************************)
(* Runs belong to the running task.  A task is started only when no run of *)
(* it is at work: it was queued, and a task is queued without runs or by   *)
(* its run, or nothing of the AI was live.  So it has one run at work at   *)
(* most, and whoever takes the task out of "running" tells that run to     *)
(* stop, is that run, or has seen that there is none.                      *)
(***************************************************************************)
Tidy == lapses \cap {"crossed", "masked", "patched", "rerun"} = {}
Over == Ended \cup {"deleted"}
AtWork(j) == {r \in RunsOf(j) : run[r].closes # "closed"}

(* What the requests and the ticks in progress know of the runs.           *)
Requesting ==
  /\ request.op \notin {"none", "delete"} => request.seen \notin Over
  /\ request.op = "resume" => request.runs = {}
  /\ request.op \in {"stop", "delete"} =>
       \A r \in request.runs : run[r].job \in {request.job, NoJob}
TickAlone == tick.pc \in {"pauses", "supervises"} => \A j \in Jobs : RunsOf(j) = {}
RunsCreated == \A r \in Runs : run[r].job \in Jobs => job[run[r].job].status # "none"
ClosingOpen == \A r \in Runs : run[r].closes = "closing" => run[r].seen \notin Over

Belonging ==
  \A j \in Jobs : \A r \in AtWork(j) :
    /\ run[r].stop \/ (j \in Running /\ job[j].last = r)
    /\ job[j].status # "queued"
    /\ AtWork(j) = {r}
EndedOver ==
  \A r \in Runs \ Live : run[r].closes \in {"answered", "closing"} => job[run[r].job].status \in Over

BelongInv ==
  /\ Requesting /\ TickAlone /\ RunsCreated /\ ClosingOpen
  /\ Tidy => Belonging /\ EndedOver

(* Apart from the start of a task, a step begins no run of a task, recalls *)
(* no stop and opens no closed run; executing one again is a gap.          *)
Keeps(r) ==
  /\ run'[r].job \in Jobs => run'[r].job = run[r].job
  /\ run'[r].job \in Jobs /\ run'[r].status \in ActiveStatuses =>
       /\ run[r].status \in ActiveStatuses
       /\ run[r].stop => run'[r].stop
       /\ run[r].closes = "closed" => run'[r].closes = "closed" \/ "rerun" \in lapses'

Starts == TickStarts /\ Exists(tick.top)

LEMMA SameRun ==
  ASSUME NEW r \in Runs, run'[r] = run[r]
  PROVE  Keeps(r)
BY DEF Keeps

LEMMA CommitKeeps ==
  ASSUME TypeOK, RequestCommits
  PROVE  \A r \in Runs : /\ Keeps(r)
                         /\ run'[r].job = run[r].job /\ run'[r].closes = run[r].closes
                         /\ run'[r].seen = run[r].seen
                         /\ r \notin request.runs => run'[r] = run[r]
                         /\ r \in request.runs /\ Flags(request.op) => run'[r].stop
<1> SUFFICES ASSUME NEW r \in Runs
             PROVE  /\ Keeps(r)
                    /\ run'[r].job = run[r].job /\ run'[r].closes = run[r].closes
                    /\ run'[r].seen = run[r].seen
                    /\ r \notin request.runs => run'[r] = run[r]
                    /\ r \in request.runs /\ Flags(request.op) => run'[r].stop
  OBVIOUS
<1>1. run[r] \in RunRows
  BY DEF TypeOK
<1>2. CASE r \notin request.runs
  <2>1. run'[r] = run[r]
    BY <1>2 DEF RequestCommits
  <2> QED BY <1>2, <2>1, SameRun
<1>3. CASE r \in request.runs
  <2>1. run'[r] = [run[r] EXCEPT
                     !.stop = @ \/ Flags(request.op),
                     !.status = IF request.op \in {"stop", "delete"} THEN "stopped" ELSE @]
    BY <1>3 DEF RequestCommits
  <2>2. /\ run'[r].job = run[r].job /\ run'[r].closes = run[r].closes
        /\ run'[r].seen = run[r].seen
        /\ run'[r].status \in {"stopped", run[r].status}
    BY <1>1, <2>1 DEF RunRows
  <2>3. (run[r].stop => run'[r].stop) /\ (Flags(request.op) => run'[r].stop)
    BY <1>1, <2>1 DEF RunRows, Flags
  <2> QED BY <1>3, <2>2, <2>3 DEF Keeps, ActiveStatuses
<1> QED BY <1>2, <1>3

LEMMA RunKeeps ==
  ASSUME TypeOK, NEW q \in Runs, RunSteps(q) \/ ChatBegins(q) \/ RunRestarts(q)
  PROVE  \A r \in Runs : Keeps(r)
<1>0. run \in [Runs -> RunRows] /\ run[q] \in RunRows
  BY DEF TypeOK
<1>1. ASSUME Keeps(q), \A r \in Runs : r # q => run'[r] = run[r] PROVE \A r \in Runs : Keeps(r)
  BY <1>1, SameRun
<1>2. CASE TakesTask(q) \/ Answers(q) \/ CloseReads(q) \/ CloseCommits(q)
  <2>1. /\ \A r \in Runs : r # q => run'[r] = run[r]
        /\ run'[q].job = run[q].job /\ run'[q].status = run[q].status
        /\ run'[q].stop = run[q].stop /\ run[q].closes # "closed"
    <3>1. CASE TakesTask(q) \/ Answers(q)
      BY <1>0, <3>1 DEF TakesTask, Answers, RunRows
    <3>2. CASE CloseReads(q)
      BY <1>0, <3>2 DEF CloseReads, Thread, RunRows
    <3>3. CASE CloseCommits(q)
      BY <1>0, <3>3 DEF CloseCommits, Thread, RunRows
    <3> QED BY <1>2, <3>1, <3>2, <3>3
  <2> QED BY <1>1, <2>1 DEF Keeps
<1>3. CASE RunRestarts(q)
  <2>1. /\ \A r \in Runs : r # q => run'[r] = run[r]
        /\ run'[q].job = run[q].job /\ run'[q].status = run[q].status
        /\ run'[q].stop = run[q].stop
    BY <1>0, <1>3 DEF RunRestarts, Thread, RunRows
  <2>2. run[q].closes = "closed" => "rerun" \in lapses'
    BY <1>3 DEF RunRestarts, Met
  <2> QED BY <1>1, <2>1, <2>2 DEF Keeps
<1>4. ASSUME run'[q].job = NoJob, \A r \in Runs : r # q => run'[r] = run[r]
      PROVE  \A r \in Runs : Keeps(r)
  BY <1>1, <1>4, TasksAssumption DEF Keeps
<1>5. CASE ChatBegins(q)
  <2>1. Started(NoJob, 0).job = NoJob
    BY DEF Started, Unused
  <2> QED BY <1>0, <1>4, <1>5, <2>1 DEF ChatBegins
<1>6. ASSUME NEW goal, RunEnds(q, goal) PROVE \A r \in Runs : Keeps(r)
  <2>1. PICK s : run' = [run EXCEPT ![q] = [Unused EXCEPT !.status = s]]
    BY <1>6 DEF RunEnds
  <2>2. [Unused EXCEPT !.status = s].job = NoJob
    BY DEF Unused
  <2>3. run'[q].job = NoJob /\ \A r \in Runs : r # q => run'[r] = run[r]
    BY <1>0, <2>1, <2>2
  <2> QED BY <1>4, <2>3
<1> QED BY <1>2, <1>3, <1>5, <1>6 DEF RunSteps

LEMMA TickKeeps ==
  ASSUME TypeOK, TickSteps \/ TickDies, ~ Starts
  PROVE  \A r \in Runs : Keeps(r) /\ run'[r].closes = run[r].closes /\ run'[r].job = run[r].job
                         /\ run'[r].seen = run[r].seen /\ run'[r].status = run[r].status
<1>1. CASE run' = run
  BY <1>1, SameRun
<1>2. CASE TickFlags
  <2>0. run' = run \/ run' = [run EXCEPT ![tick.flag].stop = TRUE]
    BY <1>2 DEF TickFlags
  <2>1. \A r \in Runs : run'[r] = run[r] \/ run'[r] = [run[r] EXCEPT !.stop = TRUE]
    BY <2>0 DEF TypeOK
  <2>2. \A r \in Runs : run[r] \in RunRows
    BY DEF TypeOK
  <2>3. ASSUME NEW r \in Runs, run'[r] = [run[r] EXCEPT !.stop = TRUE]
        PROVE  /\ Keeps(r) /\ run'[r].closes = run[r].closes /\ run'[r].job = run[r].job
               /\ run'[r].seen = run[r].seen /\ run'[r].status = run[r].status
    BY <2>2, <2>3 DEF Keeps, RunRows
  <2> QED BY <2>1, <2>3, SameRun
<1>3. run' = run \/ TickFlags
  BY DEF TickSteps, TickBegins, TickGivesUp, TickSupervises, TickPreempts, TickChooses, TickRests,
         TickPauses, TickStarts, TickCounts, TickDies, Reads, Starts
<1> QED BY <1>1, <1>2, <1>3

LEMMA RunsKeep ==
  ASSUME TypeOK, [Next]_vars, ~ Starts
  PROVE  \A r \in Runs : Keeps(r)
<1>1. CASE ClockTicks \/ UNCHANGED vars \/ (UserActs /\ ~ RequestCommits)
  <2>1. run' = run
    BY <1>1 DEF ClockTicks, vars, UserActs, Create, PauseReads, ResumeReads, StopReads,
       DeleteReads, UpdateReads, Asks
  <2> QED BY <2>1, SameRun
<1> QED BY <1>1, CommitKeeps, RunKeeps, TickKeeps DEF Next

(* Hence the runs of a task that are live, and at work, get fewer.         *)
LEMMA RunsFewer ==
  ASSUME TypeOK, [Next]_vars, ~ Starts, NEW j \in Jobs
  PROVE  /\ RunsOf(j)' \subseteq RunsOf(j)
         /\ Tidy' => AtWork(j)' \subseteq AtWork(j)
         /\ \A r \in RunsOf(j)' : run[r].stop => run'[r].stop
<1>1. \A r \in Runs : Keeps(r)
  BY RunsKeep
<1>2. RunsOf(j)' \subseteq RunsOf(j)
  BY <1>1 DEF Keeps, RunsOf, Live
<1>3. \A r \in RunsOf(j)' : run[r].stop => run'[r].stop
  BY <1>1 DEF Keeps, RunsOf, Live
<1>4. Tidy' => AtWork(j)' \subseteq AtWork(j)
  BY <1>1, <1>2 DEF Keeps, AtWork, RunsOf, Live, Tidy
<1> QED BY <1>2, <1>3, <1>4

-----------------------------------------------------------------------------
(* The start of a task: one free row becomes its run, rows nobody refers   *)
(* to are forgotten, and everything else stays as it is.                   *)
StartOf(j, r) ==
  /\ r \notin Live /\ r \notin request.runs
  /\ run'[r] = Started(j, job[j].plan.done)
  /\ \A q \in Runs \ {r} : run'[q] = run[q] \/ (q \notin Live /\ run'[q] = Unused)
  /\ job'[j].status = "running" /\ job'[j].last = r
  /\ \A k \in Jobs \ {j} : job'[k] = job[k]

LEMMA StartShape ==
  ASSUME TypeOK, Starts
  PROVE  /\ tick.top \in Jobs /\ tick.pc \in {"starts", "supervises"} /\ Exists(tick.top)
         /\ \E r \in Runs : StartOf(tick.top, r)
         /\ tick'.pc \in {"counts", "none"} /\ request' = request
         /\ Tidy' => Tidy /\ job[tick.top].status = tick.seen
<1> DEFINE j == tick.top
<1>1. j \in Jobs /\ tick.pc \in {"starts", "supervises"} /\ Exists(j) /\ tick \in Ticks
  BY DEF Starts, TickStarts, Named, TypeOK
<1>2. PICK r \in NextRow :
        /\ run' = [Forgotten(job[j].last) EXCEPT ![r] = Started(j, job[j].plan.done)]
        /\ job' = [job EXCEPT ![j].status = "running", ![j].last = r,
                              ![j].session = job[j].plan.done]
  BY <1>1 DEF Starts, TickStarts
<1>3. r \in Runs /\ r \notin Live /\ r \notin request.runs
  BY DEF NextRow, Free
<1>4. \A q \in Runs : Forgotten(job[j].last)[q] = run[q]
                      \/ (q \notin Live /\ Forgotten(job[j].last)[q] = Unused)
  BY DEF Forgotten
<1>5. /\ run'[r] = Started(j, job[j].plan.done)
      /\ \A q \in Runs \ {r} : run'[q] = run[q] \/ (q \notin Live /\ run'[q] = Unused)
  <2>1. Forgotten(job[j].last) \in [Runs -> RunRows]
    BY ForgottenType
  <2> QED BY <1>2, <1>3, <1>4, <2>1
<1>6. /\ job'[j].status = "running" /\ job'[j].last = r
      /\ \A k \in Jobs \ {j} : job'[k] = job[k]
  BY <1>1, <1>2 DEF TypeOK, JobRows
<1>7. tick'.pc \in {"counts", "none"}
  <2>1. tick' \in {Asleep, [tick EXCEPT !.pc = "counts"]}
    BY DEF Starts, TickStarts, Rests, Goes
  <2> QED BY <1>1, <2>1 DEF Asleep, Ticks
<1>8. Tidy' => Tidy /\ job[j].status = tick.seen
  <2>1. lapses' = lapses \cup Met("crossed", job[j].status # tick.seen)
    BY DEF Starts, TickStarts
  <2> QED BY <2>1 DEF Tidy, Met
<1>9. request' = request
  BY DEF Starts, TickStarts
<1> QED BY <1>1, <1>3, <1>5, <1>6, <1>7, <1>8, <1>9 DEF StartOf

LEMMA LapsesGrow ==
  ASSUME [Next]_vars
  PROVE  lapses \subseteq lapses' /\ (Tidy' => Tidy)
<1>1. lapses \subseteq lapses'
  <2>1. CASE UserActs \/ ClockTicks \/ UNCHANGED vars
    BY <2>1 DEF UserActs, Create, PauseReads, ResumeReads, StopReads, DeleteReads, UpdateReads,
                Asks, RequestCommits, ClockTicks, vars, history
  <2>2. CASE TickSteps \/ TickDies
    BY <2>2 DEF TickSteps, TickBegins, TickGivesUp, TickSupervises, TickPreempts, TickChooses,
                TickRests, TickPauses, TickFlags, TickStarts, TickCounts, TickDies, Reads, history
  <2>3. ASSUME NEW r \in Runs, RunSteps(r) \/ ChatBegins(r) \/ RunRestarts(r)
        PROVE  lapses \subseteq lapses'
    BY <2>3 DEF RunSteps, TakesTask, Answers, CloseReads, CloseCommits, RunEnds, ChatBegins, RunRestarts, history
  <2> QED BY <2>1, <2>2, <2>3 DEF Next
<1> QED BY <1>1 DEF Tidy

LEMMA NextRequesting ==
  ASSUME TypeOK, TypeOK', Requesting, [Next]_vars
  PROVE  Requesting'
<1>1. ASSUME NEW op, NEW j \in Jobs, NEW runs, Asks(op, j, runs),
             op # "delete" => job[j].status \notin Ended,
             op = "resume" => runs = {},
             op \in {"stop", "delete"} => runs = RunsOf(j)
      PROVE  Requesting'
  <2>1. /\ request'.op = op /\ request'.job = j /\ request'.runs = runs
        /\ request'.seen = job[j].status /\ job[j].status # "deleted" /\ run' = run
    BY <1>1 DEF Asks, Exists
  <2> QED BY <1>1, <2>1 DEF Requesting, Over, RunsOf
<1>2. ASSUME NEW j \in Jobs,
             PauseReads(j) \/ ResumeReads(j) \/ StopReads(j) \/ DeleteReads(j)
             \/ \E op \in Updates : UpdateReads(j, op)
      PROVE  Requesting'
  <2>1. CASE PauseReads(j)
    BY <1>1, <2>1 DEF PauseReads
  <2>2. CASE ResumeReads(j)
    BY <1>1, <2>2 DEF ResumeReads
  <2>3. CASE StopReads(j) \/ DeleteReads(j)
    BY <1>1, <2>3 DEF StopReads, DeleteReads
  <2>4. ASSUME NEW op \in Updates, UpdateReads(j, op) PROVE Requesting'
    BY <1>1, <2>4 DEF UpdateReads, Updates
  <2> QED BY <1>2, <2>1, <2>2, <2>3, <2>4
<1>3. CASE RequestCommits
  BY <1>3 DEF RequestCommits, Requesting, NoRequest
<1>4. ASSUME request' = request, \A r \in request.runs : run'[r].job \in {run[r].job, NoJob}
      PROVE  Requesting'
  BY <1>4 DEF Requesting
<1>5. CASE Starts
  <2>1. PICK r \in Runs : StartOf(tick.top, r)
    BY <1>5, StartShape
  <2>2. \A q \in request.runs : q \in Runs /\ q # r
    BY <2>1 DEF StartOf, TypeOK, Requests
  <2>3. \A q \in request.runs : run'[q].job \in {run[q].job, NoJob}
    BY <2>1, <2>2 DEF StartOf, Unused
  <2>4. request' = request
    BY <1>5, StartShape
  <2> QED BY <1>4, <2>3, <2>4
<1>6. ASSUME request' = request, ~ Starts PROVE Requesting'
  <2>1. \A r \in Runs : Keeps(r) /\ run'[r] \in RunRows
    BY <1>6, RunsKeep DEF TypeOK
  <2>2. \A r \in request.runs : r \in Runs
    BY DEF TypeOK, Requests
  <2> QED BY <1>4, <1>6, <2>1, <2>2 DEF Keeps, RunRows
<1>7. CASE TickSteps \/ TickDies \/ ClockTicks \/ UNCHANGED vars
  <2>1. request' = request
    BY <1>7 DEF TickSteps, TickBegins, TickGivesUp, TickSupervises, TickPreempts, TickChooses,
            TickRests, TickPauses, TickFlags, TickStarts, TickCounts, TickDies, Reads, ClockTicks, vars
  <2> QED BY <1>5, <1>6, <2>1
<1>8. ASSUME NEW r \in Runs, RunSteps(r) \/ ChatBegins(r) \/ RunRestarts(r) PROVE Requesting'
  <2>1. request' = request /\ tick' = tick
    BY <1>8 DEF RunSteps, TakesTask, Answers, CloseReads, CloseCommits, RunEnds, ChatBegins, RunRestarts
  <2>2. \A q \in Runs : Keeps(q) /\ run'[q] \in RunRows
    BY <1>8, RunKeeps DEF TypeOK
  <2>3. \A q \in request.runs : q \in Runs
    BY DEF TypeOK, Requests
  <2> QED BY <1>4, <2>1, <2>2, <2>3 DEF Keeps, RunRows
<1>9. ASSUME NEW j \in Jobs, Create(j) PROVE Requesting'
  BY <1>4, <1>9 DEF Create
<1> QED BY <1>2, <1>3, <1>7, <1>8, <1>9 DEF Next, UserActs

LEMMA NextTickAlone ==
  ASSUME TypeOK, TickAlone, [Next]_vars
  PROVE  TickAlone'
<1>1. CASE Starts
  <2>1. tick'.pc \in {"counts", "none"}
    BY <1>1, StartShape
  <2> QED BY <2>1 DEF TickAlone
<1>2. CASE ~ Starts
  <2>1. \A j \in Jobs : RunsOf(j)' \subseteq RunsOf(j)
    BY <1>2, RunsFewer
  <2>2. tick'.pc \in {"pauses", "supervises"} =>
          tick.pc \in {"pauses", "supervises"} \/ Live = {}
    <3>a. tick \in Ticks
      BY DEF TypeOK
    <3>1. CASE tick' = tick
      BY <3>1
    <3>2. CASE TickSteps \/ TickDies
      <4>1. CASE TickBegins
        BY <4>1 DEF TickBegins, Asleep
      <4>2. CASE TickGivesUp \/ TickSupervises
        BY <4>2 DEF TickGivesUp, TickSupervises
      <4>3. CASE TickPreempts \/ TickChooses
        BY <3>a, <4>3 DEF TickPreempts, TickChooses, Goes, Ticks
      <4>4. CASE TickFlags
        <5>1. \/ tick' = Asleep
              \/ tick' = [tick EXCEPT !.pc = "starts", !.flag = NoRun, !.running = NoJob]
          BY <4>4 DEF TickFlags, Fails, Rests
        <5>2. [tick EXCEPT !.pc = "starts", !.flag = NoRun, !.running = NoJob].pc = "starts"
          BY <3>a DEF Ticks
        <5>3. Asleep.pc = "none"
          BY DEF Asleep
        <5> QED BY <5>1, <5>2, <5>3
      <4>5. CASE TickStarts
        <5>1. tick' \in {Asleep, [tick EXCEPT !.pc = "counts"]}
          <6>1. CASE Exists(tick.top)
            BY <4>5, <6>1 DEF TickStarts, Rests, Goes
          <6>2. CASE ~ Exists(tick.top)
            BY <4>5, <6>2 DEF TickStarts, Fails, Rests
          <6> QED BY <6>1, <6>2
        <5> QED BY <3>a, <5>1 DEF Asleep, Ticks
      <4>6. CASE TickRests \/ TickPauses \/ TickCounts \/ TickDies
        BY <4>6 DEF TickRests, TickPauses, TickCounts, TickDies, Fails, Rests, Asleep
      <4> QED BY <3>2, <4>1, <4>2, <4>3, <4>4, <4>5, <4>6 DEF TickSteps
    <3>3. CASE OthersAct \/ UNCHANGED vars \/ ClockTicks
      BY <3>3, OthersLeaveTick DEF vars, ClockTicks
    <3> QED BY <3>2, <3>3 DEF Next, OthersAct
  <2> QED BY <2>1, <2>2 DEF TickAlone, RunsOf
<1> QED BY <1>1, <1>2

(* What a step other than a start makes of a task.                         *)
Cleared(j) ==
  \/ job'[j].status = job[j].status
  \/ AtWork(j)' = {}
  \/ job'[j].status # "queued" /\ \A r \in AtWork(j)' : run'[r].stop
JobMoves(j) ==
  /\ job'[j].last = job[j].last
  /\ job'[j].status = "none" => job[j].status = "none"
  /\ Tidy' => /\ job[j].status \in Over => job'[j].status \in Over
              /\ Cleared(j)

LEMMA SameJob ==
  ASSUME NEW j \in Jobs, job'[j].last = job[j].last, job'[j].status = job[j].status
  PROVE  JobMoves(j)
BY DEF JobMoves, Cleared

LEMMA IdleMoves ==
  ASSUME TypeOK, [Next]_vars, ~ Starts, NEW j \in Jobs, RunsOf(j) = {},
         job'[j].last = job[j].last, job'[j].status # "none",
         Tidy' => job[j].status \notin Over \/ job'[j].status \in Over
  PROVE  JobMoves(j)
<1>1. AtWork(j) = {}
  BY DEF AtWork
<1>2. Tidy' => AtWork(j)' = {}
  BY <1>1, RunsFewer
<1> QED BY <1>2 DEF JobMoves, Cleared

LEMMA RequestMoves ==
  ASSUME TypeOK, Asked, Requesting, RequestCommits
  PROVE  /\ \A j \in Jobs : JobMoves(j)
         /\ request.job \in Jobs
         /\ Tidy' /\ request.op \in {"stop", "delete"} => job'[request.job].status \in Over
<1> DEFINE target == Target(request.op)
<1>0. PICK k \in Jobs : k = request.job
  BY DEF RequestCommits, Named, TypeOK
<1>1. k \in Jobs /\ request \in Requests /\ request.op # "none" /\ Exists(k)
  BY <1>0 DEF RequestCommits, Asked, TypeOK
<1>2. target \in {"queued", "paused", "stopped", "deleted"}
  BY <1>1 DEF Requests, Target, Updates
<1>3. job' = [job EXCEPT ![k].status = Stored(job[k].status, request.seen, target)]
  BY <1>0, <1>1 DEF RequestCommits, TypeOK, JobRows
<1>4. /\ \A j \in Jobs : job'[j].last = job[j].last
      /\ \A j \in Jobs \ {k} : job'[j].status = job[j].status
      /\ job'[k].status = Stored(job[k].status, request.seen, target)
  BY <1>1, <1>3 DEF TypeOK, JobRows
<1>5. Tidy' => /\ job[k].status = request.seen
               /\ request.op \notin Updates => RunsOf(k) \subseteq request.runs
               /\ request.op \in Updates => RunsOf(k) = {}
  <2>1. lapses' = lapses
          \cup Met("crossed", job[k].status # request.seen
                              \/ (request.op \notin Updates /\ ~ (RunsOf(k) \subseteq request.runs)))
          \cup Met("patched", request.op \in Updates /\ RunsOf(k) # {})
    BY <1>0 DEF RequestCommits
  <2> QED BY <2>1 DEF Tidy, Met
<1>6. Tidy' => job'[k].status = target
  BY <1>4, <1>5 DEF Stored
<1>7. job'[k].status # "none"
  BY <1>1, <1>2, <1>4 DEF Stored, Exists
<1>n. [Next]_vars /\ ~ Starts
  <2>1. tick' = tick
    BY DEF RequestCommits
  <2>2. Starts => tick'.pc # tick.pc
    BY StartShape
  <2> QED BY <2>1, <2>2 DEF Next, UserActs
<1>8. Tidy' => job[k].status \notin Over \/ job'[k].status \in Over
  <2>1. request.op = "delete" => target = "deleted"
    BY DEF Target, Updates
  <2> QED BY <1>1, <1>5, <1>6, <2>1 DEF Requesting, Over
<1>e. Tidy' /\ request.op \in {"stop", "delete"} => job'[k].status \in Over
  BY <1>6 DEF Target, Over, Ended, Updates
<1>9. CASE RunsOf(k) = {}
  <2>1. JobMoves(k)
    BY <1>n, <1>1, <1>4, <1>7, <1>8, <1>9, IdleMoves
  <2>2. \A j \in Jobs \ {k} : JobMoves(j)
    BY <1>4, SameJob
  <2> QED BY <1>0, <1>e, <2>1, <2>2
<1>10. CASE RunsOf(k) # {}
  <2>1. Tidy' => request.op \in {"pause", "stop", "delete"}
    BY <1>1, <1>5, <1>10 DEF Requesting, Requests
  <2>2. request.op \in {"pause", "stop", "delete"} => target # "queued"
    BY DEF Target, Updates
  <2>3. Tidy' => \A r \in AtWork(k)' : run'[r].stop
    <3>1. Tidy' => AtWork(k)' \subseteq request.runs
      <4>1. Tidy' => AtWork(k)' \subseteq AtWork(k)
        BY <1>n, <1>1, RunsFewer
      <4>2. AtWork(k) \subseteq RunsOf(k)
        BY DEF AtWork
      <4> QED BY <1>5, <2>1, <4>1, <4>2 DEF Updates
    <3>2. \A r \in AtWork(k)' : r \in Runs
      BY DEF AtWork, RunsOf, Live
    <3> QED BY <2>1, <3>1, <3>2, CommitKeeps DEF Flags
  <2>4. JobMoves(k)
    BY <1>1, <1>4, <1>6, <1>7, <1>8, <2>1, <2>2, <2>3 DEF JobMoves, Cleared
  <2>5. \A j \in Jobs \ {k} : JobMoves(j)
    BY <1>4, SameJob
  <2> QED BY <1>0, <1>e, <2>4, <2>5
<1> QED BY <1>9, <1>10

LEMMA CloseMoves ==
  ASSUME TypeOK, ClosingOpen, Tidy => Belonging /\ EndedOver, NEW q \in Runs, CloseCommits(q)
  PROVE  \A j \in Jobs : JobMoves(j)
<1>0. PICK k \in Jobs : k = run[q].job
  BY DEF CloseCommits, Named, TypeOK
<1>1. k \in Jobs /\ run[q].closes = "closing"
  BY DEF CloseCommits
<1>2. /\ \A j \in Jobs : job'[j].last = job[j].last
      /\ \A j \in Jobs \ {k} : job'[j].status = job[j].status
      /\ job'[k].status = "none" => job[k].status = "none"
  <2>1. CASE ~ Exists(k)
    BY <1>0, <2>1 DEF CloseCommits
  <2>2. CASE Exists(k)
    <3>1. PICK s \in {job[k].status, "queued", "completed"} :
            \/ job' = [job EXCEPT ![k].status = s]
            \/ job' = [job EXCEPT ![k].status = s,
                                  ![k].plan = build_next_loop_schedule(PlanRead(q), run[q].finished),
                                  ![k].count = 0]
      <4>1. CASE Renewable(PlanRead(q), run[q].finished)
        <5>1. job' = [job EXCEPT ![k].status = Stored(job[k].status, run[q].seen, "queued"),
                                 ![k].plan = build_next_loop_schedule(PlanRead(q), run[q].finished),
                                 ![k].count = 0]
          BY <1>0, <2>2, <4>1 DEF CloseCommits, TypeOK, JobRows
        <5> QED BY <5>1 DEF Stored
      <4>2. CASE ~ Renewable(PlanRead(q), run[q].finished)
        <5>1. job' = [job EXCEPT ![k].status = Stored(job[k].status, run[q].seen, "completed")]
          BY <1>0, <2>2, <4>2 DEF CloseCommits, TypeOK, JobRows
        <5> QED BY <5>1 DEF Stored
      <4> QED BY <4>1, <4>2
    <3>2. job \in [Jobs -> JobRows]
      BY DEF TypeOK
    <3>3. job'[k].status = s /\ \A j \in Jobs : job'[j].last = job[j].last
      BY <1>1, <3>1, <3>2 DEF JobRows
    <3>4. \A j \in Jobs \ {k} : job'[j].status = job[j].status
      BY <1>1, <3>1, <3>2 DEF JobRows
    <3> QED BY <2>2, <3>3, <3>4 DEF Exists
  <2> QED BY <2>1, <2>2
<1>n. [Next]_vars /\ ~ Starts
  <2>1. tick' = tick
    BY DEF CloseCommits
  <2>2. Starts => tick'.pc # tick.pc
    BY StartShape
  <2> QED BY <2>1, <2>2 DEF Next, RunSteps
<1>3. Tidy' => Tidy /\ job[k].status \notin Over
  <2>1. lapses \subseteq lapses' /\ (job[k].status # run[q].seen => "crossed" \in lapses')
    BY <1>0 DEF CloseCommits, Met
  <2> QED BY <1>1, <2>1 DEF ClosingOpen, Tidy
<1>4. Tidy' => AtWork(k)' = {}
  <2>1. SUFFICES ASSUME Tidy' PROVE AtWork(k)' = {}
    OBVIOUS
  <2>2. q \in Live
    BY <1>0, <1>1, <1>3, <2>1 DEF EndedOver
  <2>3. q \in AtWork(k)
    BY <1>0, <1>1, <2>2 DEF AtWork, RunsOf
  <2>4. AtWork(k) = {q}
    BY <1>1, <1>3, <2>1, <2>3 DEF Belonging
  <2>5. run'[q].closes = "closed"
    BY DEF CloseCommits, TypeOK, Thread, RunRows
  <2>6. q \notin AtWork(k)'
    BY <2>5 DEF AtWork
  <2>7. AtWork(k)' \subseteq AtWork(k)
    BY <1>n, <2>1, RunsFewer
  <2> QED BY <2>4, <2>6, <2>7
<1>5. JobMoves(k)
  BY <1>1, <1>2, <1>3, <1>4 DEF JobMoves, Cleared
<1>6. \A j \in Jobs \ {k} : JobMoves(j)
  BY <1>2, SameJob
<1> QED BY <1>5, <1>6

LEMMA PauseMoves ==
  ASSUME TypeOK, TickAlone, TickPauses \/ TickFlags
  PROVE  \A j \in Jobs : JobMoves(j)
<1>1. PICK k \in Jobs : k = tick.running
  BY DEF TickPauses, TickFlags, Named, TypeOK
<1>2. CASE ~ Exists(k)
  <2>1. job' = job
    BY <1>1, <1>2 DEF TickPauses, TickFlags
  <2> QED BY <2>1, SameJob
<1>3. CASE Exists(k)
  <2>1. job' = [job EXCEPT ![k].status = "paused"]
    BY <1>1, <1>3 DEF TickPauses, TickFlags, Paused
  <2>2. /\ \A j \in Jobs : job'[j].last = job[j].last
        /\ \A j \in Jobs \ {k} : job'[j].status = job[j].status
        /\ job'[k].status = "paused"
    BY <1>1, <2>1 DEF TypeOK, JobRows
  <2>3. Tidy' => job[k].status = "running"
    <3>1. job[k].status # "running" => "crossed" \in lapses'
      BY <1>1 DEF TickPauses, TickFlags, Met
    <3> QED BY <3>1 DEF Tidy
  <2>n. [Next]_vars /\ ~ Starts
    BY DEF Next, TickSteps, TickPauses, TickFlags, Starts, TickStarts
  <2>4. Tidy' => job[k].status \notin Over
    BY <2>3 DEF Over, Ended
  <2>5. CASE TickPauses
    <3>1. RunsOf(k) = {}
      BY <1>1, <2>5 DEF TickPauses, TickAlone
    <3>2. JobMoves(k)
      BY <2>n, <2>2, <2>4, <3>1, IdleMoves
    <3>3. \A j \in Jobs \ {k} : JobMoves(j)
      BY <2>2, SameJob
    <3> QED BY <3>2, <3>3
  <2>6. CASE TickFlags
    <3>1. Tidy' => \A r \in RunsOf(k) \ {tick.flag} : run[r].stop
      <4>1. (\E r \in RunsOf(k) \ {tick.flag} : ~ run[r].stop) => "masked" \in lapses'
        BY <1>1, <2>6 DEF TickFlags, Met
      <4> QED BY <4>1 DEF Tidy
    <3>2. tick.flag \in Runs => run'[tick.flag].stop
      <4>1. tick.flag \in Runs => run' = [run EXCEPT ![tick.flag].stop = TRUE]
        BY <1>1, <1>3, <2>6, TasksAssumption DEF TickFlags
      <4> QED BY <4>1 DEF TypeOK, RunRows
    <3>3. Tidy' => \A r \in AtWork(k)' : run'[r].stop
      <4>1. \A r \in AtWork(k)' : r \in Runs /\ r \in RunsOf(k)'
        BY DEF AtWork, RunsOf, Live
      <4>2. /\ RunsOf(k)' \subseteq RunsOf(k)
            /\ \A r \in RunsOf(k)' : run[r].stop => run'[r].stop
        BY <2>n, RunsFewer
      <4> QED BY <3>1, <3>2, <4>1, <4>2
    <3>4. JobMoves(k)
      BY <1>1, <2>2, <2>4, <3>3 DEF JobMoves, Cleared
    <3>5. \A j \in Jobs \ {k} : JobMoves(j)
      BY <2>2, SameJob
    <3> QED BY <3>4, <3>5
  <2> QED BY <2>5, <2>6
<1> QED BY <1>2, <1>3

LEMMA TasksMove ==
  ASSUME TypeOK, Asked, BelongInv, [Next]_vars, ~ Starts
  PROVE  \A j \in Jobs : JobMoves(j)
<1>1. CASE job' = job
  BY <1>1, SameJob
<1>2. ASSUME NEW k \in Jobs, Create(k) PROVE \A j \in Jobs : JobMoves(j)
  <2>1. /\ \A j \in Jobs : job'[j].last = job[j].last
        /\ \A j \in Jobs \ {k} : job'[j].status = job[j].status
        /\ job[k].status = "none" /\ job'[k].status = "queued"
    BY <1>2 DEF Create, TypeOK, JobRows
  <2>2. RunsOf(k) = {}
    BY <2>1 DEF BelongInv, RunsCreated, RunsOf, Live
  <2>3. JobMoves(k)
    BY <2>1, <2>2, IdleMoves DEF Over, Ended
  <2>4. \A j \in Jobs \ {k} : JobMoves(j)
    BY <2>1, SameJob
  <2> QED BY <2>3, <2>4
<1>3. CASE TickCounts
  <2>1. \A j \in Jobs : job'[j].last = job[j].last /\ job'[j].status = job[j].status
    <3>1. job' = job \/ job' = [job EXCEPT ![tick.top].count = job[tick.top].count + 1]
      BY <1>3 DEF TickCounts
    <3> QED BY <3>1 DEF TypeOK, JobRows
  <2> QED BY <2>1, SameJob
<1>4. CASE TickPauses \/ TickFlags
  BY <1>4, PauseMoves DEF BelongInv
<1>5. ASSUME NEW r \in Runs, CloseCommits(r) PROVE \A j \in Jobs : JobMoves(j)
  BY <1>5, CloseMoves DEF BelongInv
<1>6. CASE RequestCommits
  BY <1>6, RequestMoves DEF BelongInv
<1>7. \/ job' = job \/ TickCounts \/ TickPauses \/ TickFlags \/ RequestCommits
      \/ (\E j \in Jobs : Create(j)) \/ \E r \in Runs : CloseCommits(r)
  <2>1. CASE TickSteps \/ TickDies
    BY <2>1 DEF TickSteps, TickBegins, TickGivesUp, TickSupervises, TickPreempts, TickChooses, TickRests,
                TickStarts, TickDies, Reads, Starts
  <2>2. CASE ClockTicks \/ UserActs \/ UNCHANGED vars
    BY <2>2 DEF ClockTicks, UserActs, PauseReads, ResumeReads, StopReads, DeleteReads,
                UpdateReads, Asks, vars
  <2>3. ASSUME NEW r \in Runs, RunSteps(r) \/ ChatBegins(r) \/ RunRestarts(r)
        PROVE  job' = job \/ CloseCommits(r)
    BY <2>3 DEF RunSteps, TakesTask, Answers, CloseReads, RunEnds, ChatBegins, RunRestarts
  <2> QED BY <2>1, <2>2, <2>3 DEF Next
<1> QED BY <1>1, <1>2, <1>3, <1>4, <1>5, <1>6, <1>7

LEMMA NextCreated ==
  ASSUME TypeOK, Asked, BelongInv, [Next]_vars
  PROVE  RunsCreated'
<1>1. CASE Starts
  <2>1. PICK r \in Runs : StartOf(tick.top, r)
    BY <1>1, StartShape
  <2>2. tick.top \in Jobs /\ Exists(tick.top)
    BY <1>1, StartShape
  <2>3. \A j \in Jobs : job'[j].status = "none" => job[j].status = "none"
    BY <2>1, <2>2 DEF StartOf
  <2>4. \A q \in Runs \ {r} : run'[q].job \in Jobs => job'[run'[q].job].status # "none"
    <3>1. Unused.job \notin Jobs
      BY TasksAssumption DEF Unused
    <3> QED BY <2>1, <2>3, <3>1 DEF StartOf, BelongInv, RunsCreated
  <2>5. run'[r].job = tick.top /\ job'[tick.top].status = "running"
    BY <2>1 DEF StartOf, Started, Unused
  <2> QED BY <2>4, <2>5 DEF RunsCreated
<1>2. CASE ~ Starts
  <2>1. \A r \in Runs : Keeps(r)
    BY <1>2, RunsKeep
  <2>2. \A j \in Jobs : job'[j].status = "none" => job[j].status = "none"
    BY <1>2, TasksMove DEF JobMoves
  <2> QED BY <2>1, <2>2 DEF Keeps, RunsCreated, BelongInv
<1> QED BY <1>1, <1>2

(* What happens to a closing: it begins open, and only the end of a run    *)
(* with its task and the close itself concern a run that is not live.      *)
ClosingMoves(r) ==
  /\ run'[r].closes = "closing" =>
       \/ run[r].closes = "closing" /\ run'[r].seen = run[r].seen
       \/ run'[r].seen \notin Over
  /\ r \notin Live' /\ run'[r].closes \in {"answered", "closing"} =>
       /\ run[r].closes \in {"answered", "closing"} /\ run'[r].job = run[r].job
       /\ r \in Live /\ Tidy' => job'[run[r].job].status \in Over

LEMMA SameClosing ==
  ASSUME NEW r \in Runs, run'[r] = run[r]
  PROVE  ClosingMoves(r)
BY DEF ClosingMoves, Live

LEMMA RunCloses ==
  ASSUME TypeOK, NEW q \in Runs, RunSteps(q) \/ ChatBegins(q) \/ RunRestarts(q)
  PROVE  \A r \in Runs : ClosingMoves(r)
<1>0. run \in [Runs -> RunRows] /\ run[q] \in RunRows
  BY DEF TypeOK
<1>1. ASSUME ClosingMoves(q), \A r \in Runs : r # q => run'[r] = run[r]
      PROVE  \A r \in Runs : ClosingMoves(r)
  BY <1>1, SameClosing
<1>2. ASSUME run'[q].closes \in {"no", "works", "closed"}, \A r \in Runs : r # q => run'[r] = run[r]
      PROVE  \A r \in Runs : ClosingMoves(r)
  BY <1>1, <1>2 DEF ClosingMoves
<1>a. CASE TakesTask(q)
  <2>1. /\ \A r \in Runs : r # q => run'[r] = run[r]
        /\ run'[q].closes = "works"
    BY <1>0, <1>a DEF TakesTask, RunRows
  <2> QED BY <1>2, <2>1
<1>3. CASE Answers(q)
  <2>1. /\ \A r \in Runs : r # q => run'[r] = run[r]
        /\ run'[q].closes = "answered" /\ run'[q].status = run[q].status /\ q \in Live
    BY <1>0, <1>3 DEF Answers, RunRows, RunsOf
  <2> QED BY <1>1, <2>1 DEF ClosingMoves, Live
<1>4. CASE CloseReads(q)
  <2>1. PICK k \in Jobs : k = run[q].job
    BY <1>4 DEF CloseReads, Named, TypeOK
  <2>2. /\ \A r \in Runs : r # q => run'[r] = run[r]
        /\ run'[q].job = run[q].job /\ run'[q].status = run[q].status
        /\ run'[q].closes = "closing" =>
             Exists(k) /\ job[k].status \notin Ended /\ run'[q].seen = job[k].status
    BY <1>0, <1>4, <2>1 DEF CloseReads, Thread, RunRows
  <2>3. run[q].closes = "answered"
    BY <1>4 DEF CloseReads
  <2> QED BY <1>1, <2>2, <2>3 DEF ClosingMoves, Live, Exists, Over
<1>5. CASE CloseCommits(q) \/ RunRestarts(q)
  <2>1. /\ \A r \in Runs : r # q => run'[r] = run[r]
        /\ run'[q].closes \in {"no", "closed"}
    <3>1. CASE CloseCommits(q)
      BY <1>0, <3>1 DEF CloseCommits, Thread, RunRows
    <3>2. CASE RunRestarts(q)
      BY <1>0, <3>2 DEF RunRestarts, Thread, RunRows
    <3> QED BY <1>5, <3>1, <3>2
  <2> QED BY <1>2, <2>1
<1>6. CASE ChatBegins(q)
  <2>1. Started(NoJob, 0).closes = "no"
    BY DEF Started, Unused
  <2> QED BY <1>0, <1>2, <1>6, <2>1 DEF ChatBegins
<1>7. ASSUME NEW goal, RunEnds(q, goal) PROVE \A r \in Runs : ClosingMoves(r)
  <2>1. PICK s : run' = [run EXCEPT ![q] = [Unused EXCEPT !.status = s]]
    BY <1>7 DEF RunEnds
  <2>2. [Unused EXCEPT !.status = s].closes = "no"
    BY DEF Unused
  <2> QED BY <1>0, <1>2, <2>1, <2>2
<1> QED BY <1>a, <1>3, <1>4, <1>5, <1>6, <1>7 DEF RunSteps

LEMMA ClosingsMove ==
  ASSUME TypeOK, Asked, BelongInv, [Next]_vars
  PROVE  \A r \in Runs : ClosingMoves(r)
<1>1. CASE Starts
  <2>1. PICK r \in Runs : StartOf(tick.top, r)
    BY <1>1, StartShape
  <2>2. Started(tick.top, job[tick.top].plan.done).closes = "no" /\ Unused.closes = "no"
    BY DEF Started, Unused
  <2>3. \A q \in Runs : run'[q] = run[q] \/ run'[q].closes = "no"
    BY <2>1, <2>2 DEF StartOf
  <2>4. \A q \in Runs : run'[q].closes = "no" => ClosingMoves(q)
    BY DEF ClosingMoves
  <2> QED BY <2>3, <2>4, SameClosing
<1>2. CASE (TickSteps \/ TickDies) /\ ~ Starts
  <2>1. \A r \in Runs : /\ run'[r].closes = run[r].closes /\ run'[r].seen = run[r].seen
                        /\ run'[r].job = run[r].job /\ run'[r].status = run[r].status
    BY <1>2, TickKeeps
  <2> QED BY <2>1 DEF ClosingMoves, Live
<1>3. CASE RequestCommits
  <2>1. ASSUME NEW r \in Runs, r \in request.runs PROVE ClosingMoves(r)
    <3>1. /\ run'[r].job = run[r].job /\ run'[r].closes = run[r].closes
          /\ run'[r].seen = run[r].seen
      BY <1>3, CommitKeeps
    <3>2. ASSUME r \in Live, r \notin Live'
          PROVE  request.op \in {"stop", "delete"}
      <4>1. run'[r] = [run[r] EXCEPT
                         !.stop = @ \/ Flags(request.op),
                         !.status = IF request.op \in {"stop", "delete"} THEN "stopped" ELSE @]
        BY <1>3, <2>1 DEF RequestCommits
      <4>2. request.op \notin {"stop", "delete"} => run'[r].status = run[r].status
        BY <2>1, <4>1 DEF TypeOK, RunRows
      <4> QED BY <3>2, <4>2 DEF Live
    <3>3. request.op \in {"stop", "delete"} => run[r].job \in {request.job, NoJob}
      BY <2>1 DEF BelongInv, Requesting
    <3>4. run[r].closes # "no" => run[r].job \in Jobs
      BY DEF TypeOK, Named
    <3>5. Tidy' /\ request.op \in {"stop", "delete"} => job'[request.job].status \in Over
      BY <1>3, RequestMoves DEF BelongInv
    <3> QED BY <3>1, <3>2, <3>3, <3>4, <3>5, TasksAssumption DEF ClosingMoves
  <2>2. ASSUME NEW r \in Runs, r \notin request.runs PROVE ClosingMoves(r)
    BY <1>3, <2>2, CommitKeeps, SameClosing
  <2> QED BY <2>1, <2>2
<1>4. CASE ClockTicks \/ UNCHANGED vars \/ (UserActs /\ ~ RequestCommits)
  <2>1. run' = run
    BY <1>4 DEF ClockTicks, vars, UserActs, Create, PauseReads, ResumeReads, StopReads,
       DeleteReads, UpdateReads, Asks
  <2> QED BY <2>1, SameClosing
<1> QED BY <1>1, <1>2, <1>3, <1>4, RunCloses DEF Next

LEMMA NextClosings ==
  ASSUME TypeOK, TypeOK', Asked, Obeyed, BelongInv, [Next]_vars
  PROVE  ClosingOpen' /\ (Tidy' => EndedOver')
<1>1. \A r \in Runs : ClosingMoves(r)
  BY ClosingsMove
<1>2. ClosingOpen'
  BY <1>1 DEF ClosingMoves, ClosingOpen, BelongInv
<1>3. Tidy' => Tidy
  BY LapsesGrow
<1>4. Tidy' => \A j \in Jobs : job[j].status \in Over => job'[j].status \in Over
  <2>1. CASE Starts
    <3>1. PICK r \in Runs : StartOf(tick.top, r)
      BY <2>1, StartShape
    <3>2. Tidy' => job[tick.top].status = tick.seen
      BY <2>1, StartShape
    <3>3. tick.seen \notin Over
      <4>1. tick.pc \in {"starts", "supervises"}
        BY <2>1, StartShape
      <4> QED BY <4>1 DEF Obeyed, Over, Ended
    <3> QED BY <3>1, <3>2, <3>3 DEF StartOf
  <2>2. CASE ~ Starts
    BY <2>2, TasksMove DEF JobMoves
  <2> QED BY <2>1, <2>2
<1>5. ASSUME Tidy', NEW r \in Runs \ Live', run'[r].closes \in {"answered", "closing"}
      PROVE  job'[run'[r].job].status \in Over
  <2>1. /\ run[r].closes \in {"answered", "closing"} /\ run'[r].job = run[r].job
        /\ r \in Live => job'[run[r].job].status \in Over
    BY <1>1, <1>5 DEF ClosingMoves
  <2>2. run[r].job \in Jobs
    BY <2>1 DEF TypeOK, Named
  <2>3. r \notin Live => job[run[r].job].status \in Over
    BY <1>3, <1>5, <2>1 DEF BelongInv, EndedOver
  <2> QED BY <1>4, <1>5, <2>1, <2>2, <2>3
<1>6. Tidy' => EndedOver'
  BY <1>5 DEF EndedOver
<1> QED BY <1>2, <1>6

LEMMA NextBelonging ==
  ASSUME TypeOK, TypeOK', Asked, Obeyed, BelongInv, [Next]_vars
  PROVE  Tidy' => Belonging'
<1> SUFFICES ASSUME Tidy', NEW j \in Jobs, NEW r \in AtWork(j)'
             PROVE  /\ run'[r].stop \/ (job'[j].status = "running" /\ job'[j].last = r)
                    /\ job'[j].status # "queued"
                    /\ AtWork(j)' = {r}
  BY DEF Belonging, Running
<1>1. Belonging
  BY LapsesGrow DEF BelongInv
<1>2. CASE ~ Starts
  <2>1. JobMoves(j)
    BY <1>2, TasksMove
  <2>2. AtWork(j)' \subseteq AtWork(j)
    BY <1>2, RunsFewer
  <2>3. AtWork(j) = {r} /\ job[j].status # "queued"
        /\ (run[r].stop \/ (job[j].status = "running" /\ job[j].last = r))
    BY <1>1, <2>2 DEF Belonging, Running
  <2>4. run[r].stop => run'[r].stop
    <3>1. r \in RunsOf(j)'
      BY DEF AtWork
    <3> QED BY <1>2, <3>1, RunsFewer
  <2>5. job'[j].last = job[j].last
    BY <2>1 DEF JobMoves
  <2>6. CASE job'[j].status = job[j].status
    BY <2>2, <2>3, <2>4, <2>5, <2>6
  <2>7. CASE job'[j].status # "queued" /\ \A q \in AtWork(j)' : run'[q].stop
    BY <2>2, <2>3, <2>7
  <2> QED BY <2>1, <2>6, <2>7 DEF JobMoves, Cleared
<1>3. CASE Starts
  <2>1. PICK k \in Jobs : k = tick.top
    BY <1>3, StartShape
  <2>2. PICK s \in Runs : StartOf(k, s)
    BY <1>3, <2>1, StartShape
  <2>3. AtWork(k) = {}
    <3>1. job[k].status = tick.seen
      BY <1>3, <2>1, StartShape
    <3>2. CASE tick.pc = "starts"
      BY <1>1, <3>1, <3>2 DEF Obeyed, Belonging
    <3>3. CASE tick.pc = "supervises"
      BY <3>3 DEF BelongInv, TickAlone, AtWork
    <3> QED BY <1>3, <3>2, <3>3, StartShape
  <2>4. run'[s].job = k /\ run'[s].closes = "no"
    BY <2>2 DEF StartOf, Started, Unused
  <2>5. \A q \in Runs \ {s} : q \in AtWork(j)' <=> q \in AtWork(j)
    <3>1. ASSUME NEW q \in Runs \ {s} PROVE q \in AtWork(j)' <=> q \in AtWork(j)
      <4>1. CASE run'[q] = run[q]
        BY <4>1 DEF AtWork, RunsOf, Live
      <4>2. CASE q \notin Live /\ run'[q] = Unused
        BY <4>2, TasksAssumption DEF AtWork, RunsOf, Live, Unused
      <4> QED BY <2>2, <4>1, <4>2 DEF StartOf
    <3> QED BY <3>1
  <2>6. \A q \in AtWork(j)' : q \in Runs
    BY DEF AtWork, RunsOf, Live
  <2>7. CASE j = k
    <3>1. AtWork(j)' = {r} /\ r = s
      BY <2>3, <2>5, <2>6, <2>7
    <3> QED BY <2>2, <2>7, <3>1 DEF StartOf
  <2>8. CASE j # k
    <3>1. s \notin AtWork(j)'
      BY <2>4, <2>8 DEF AtWork, RunsOf
    <3>2. AtWork(j)' = AtWork(j)
      <4>1. s \notin AtWork(j)
        BY <2>2 DEF StartOf, AtWork, RunsOf
      <4>2. \A q \in AtWork(j) : q \in Runs
        BY DEF AtWork, RunsOf, Live
      <4> QED BY <2>5, <2>6, <3>1, <4>1, <4>2
    <3>3. run'[r] = run[r] /\ job'[j] = job[j]
      <4>1. r # s /\ r \in Runs /\ r \in Live
        BY <3>1, <3>2, <2>6 DEF AtWork, RunsOf
      <4> QED BY <2>2, <2>8, <4>1 DEF StartOf
    <3> QED BY <1>1, <3>2, <3>3 DEF Belonging, Running
  <2> QED BY <2>7, <2>8
<1> QED BY <1>2, <1>3

LEMMA AlwaysBelonging == Spec => []BelongInv
<1>1. Init => BelongInv
  <2> SUFFICES ASSUME Init PROVE BelongInv
    OBVIOUS
  <2>1. Live = {}
    BY DEF Init, Live, Unused, ActiveStatuses
  <2>2. \A j \in Jobs : RunsOf(j) = {}
    BY <2>1 DEF RunsOf
  <2>3. \A r \in Runs : run[r].job \notin Jobs /\ run[r].closes = "no"
    BY TasksAssumption DEF Init, Unused
  <2>4. request.op = "none" /\ tick.pc = "none"
    BY DEF Init, NoRequest, Asleep
  <2> QED BY <2>2, <2>3, <2>4 DEF BelongInv, Requesting, TickAlone, RunsCreated, ClosingOpen,
                                 Belonging, EndedOver, AtWork
<1>2. TypeOK /\ TypeOK' /\ Asked /\ Obeyed /\ BelongInv /\ [Next]_vars => BelongInv'
  <2> SUFFICES ASSUME TypeOK, TypeOK', Asked, Obeyed, BelongInv, [Next]_vars
               PROVE  BelongInv'
    OBVIOUS
  <2>1. Requesting' /\ TickAlone'
    BY NextRequesting, NextTickAlone DEF BelongInv
  <2>2. RunsCreated' /\ ClosingOpen' /\ (Tidy' => EndedOver')
    BY NextCreated, NextClosings
  <2>3. Tidy' => Belonging'
    BY NextBelonging
  <2> QED BY <2>1, <2>2, <2>3 DEF BelongInv
<1>3. Counted => Asked
  BY DEF Counted
<1> QED BY <1>1, <1>2, <1>3, TypeCorrect, AlwaysCounted, AlwaysObeyed, PTL DEF Spec

(* A live run of a task that was not told to stop is the last run of the   *)
(* running task or has closed it, unless one of the known gaps was met.    *)
THEOREM RunsBelongToTheirTask == Spec => []RunsBelong
<1>1. BelongInv => RunsBelong
  <2>1. Tidy \/ lapses \cap {"crossed", "masked", "patched", "rerun"} # {}
    BY DEF Tidy
  <2> QED BY <2>1 DEF BelongInv, Belonging, AtWork, RunsBelong
<1> QED BY <1>1, AlwaysBelonging, PTL
-----------------------------------------------------------------------------
(***************************************************************************)
(* The next round of a task, day by day and week by week.                  *)
(***************************************************************************)
(* Sets of naturals have a least element, and integers divide in one way.  *)
LEMMA Smallest ==
  ASSUME NEW S, S \subseteq Nat, S # {}
  PROVE  \E x \in S : \A y \in S : x <= y
<1>1. PICK x \in S : \A y \in S : ~ (<<y, x>> \in OpToRel(<, Nat))
  BY Zenon, NatLessThanWellFounded, WFMin
<1>2. \A y \in S : ~ (y < x)
  BY <1>1 DEF OpToRel
<1> QED BY <1>2

LEMMA Multiples ==
  ASSUME NEW d \in Nat \ {0}, NEW k \in Int, NEW l \in Int, k < l
  PROVE  d * k + d <= d * l
<1>1. d * (l - k) >= d
  OBVIOUS
<1>2. d * (l - k) = d * l - d * k
  OBVIOUS
<1>3. d * l \in Int /\ d * k \in Int
  OBVIOUS
<1> QED BY <1>1, <1>2, <1>3

LEMMA Parts ==
  ASSUME NEW d \in Nat \ {0}, NEW t \in Int
  PROVE  /\ t \div d \in Int /\ t % d \in 0 .. d - 1
         /\ t = d * (t \div d) + (t % d)
<1>1. t \div d \in Int
  OBVIOUS
<1>2. t % d \in 0 .. d - 1
  OBVIOUS
<1>3. t = d * (t \div d) + (t % d)
  OBVIOUS
<1> QED BY <1>1, <1>2, <1>3

LEMMA PartsUnique ==
  ASSUME NEW d \in Nat \ {0}, NEW k \in Int, NEW h \in 0 .. d - 1
  PROVE  (d * k + h) \div d = k /\ (d * k + h) % d = h
<1> DEFINE t == d * k + h
<1>1. t \in Int /\ d * k \in Int
  OBVIOUS
<1>2. t \div d \in Int /\ t % d \in 0 .. d - 1 /\ t = d * (t \div d) + (t % d)
  BY <1>1, Parts
<1> HIDE DEF t
<1>3. ~ (t \div d < k)
  <2>1. ASSUME t \div d < k PROVE FALSE
    <3>1. d * (t \div d) + d <= d * k
      BY <1>2, <2>1, Multiples
    <3> QED BY <1>1, <1>2, <3>1 DEF t
  <2> QED BY <2>1
<1>4. ~ (k < t \div d)
  <2>1. ASSUME k < t \div d PROVE FALSE
    <3>1. d * k + d <= d * (t \div d)
      BY <1>2, <2>1, Multiples
    <3> QED BY <1>1, <1>2, <3>1 DEF t
  <2> QED BY <2>1
<1>5. t \div d = k
  BY <1>1, <1>2, <1>3, <1>4
<1> QED BY <1>1, <1>2, <1>5 DEF t

(* A moment is a day and a time of that day, in one way only.              *)
Moment(day, hour) == Day * day + hour

LEMMA MomentParts ==
  ASSUME NEW t \in Nat
  PROVE  \E day \in Nat, hour \in 0 .. Day - 1 :
           /\ t = Moment(day, hour) /\ Midnight(t) = Moment(day, 0)
           /\ t \div Day = day /\ t % Day = hour
<1>1. /\ t \div Day \in Int /\ t % Day \in 0 .. Day - 1
      /\ t = Day * (t \div Day) + (t % Day)
  BY Parts, ClockAssumption
<1>2. t \div Day \in Nat
  BY ClockAssumption
<1>3. Day * (t \div Day) \in Int
  BY <1>1, ClockAssumption
<1>4. Midnight(t) = Moment(t \div Day, 0)
  BY <1>1, <1>3 DEF Midnight, Moment
<1> QED BY <1>1, <1>2, <1>4 DEF Moment

LEMMA MomentsDiffer ==
  ASSUME NEW day \in Nat, NEW hour \in 0 .. Day - 1
  PROVE  /\ Moment(day, hour) \in Nat
         /\ Moment(day, hour) \div Day = day /\ Moment(day, hour) % Day = hour
         /\ Moment(day, 0) <= Moment(day, hour) /\ Moment(day, hour) < Moment(day, 0) + Day
         /\ Moment(day + 1, hour) = Moment(day, hour) + Day
<1>a. Day \in Nat \ {0}
  BY ClockAssumption
<1>1. Day * day \in Nat /\ Day * (day + 1) = Day * day + Day
  BY <1>a
<1>2. Moment(day, hour) \div Day = day /\ Moment(day, hour) % Day = hour
  BY <1>a, PartsUnique DEF Moment
<1> QED BY <1>a, <1>1, <1>2 DEF Moment

LEMMA MomentsOrder ==
  ASSUME NEW k \in Nat, NEW l \in Nat, NEW hour \in 0 .. Day - 1,
         Moment(k, hour) < Moment(l, hour)
  PROVE  k < l /\ Moment(k, hour) + Day <= Moment(l, hour)
<1>a. Day \in Nat \ {0} /\ Day * k \in Nat /\ Day * l \in Nat
  BY ClockAssumption
<1>1. k < l
  <2>1. ASSUME l < k PROVE FALSE
    <3>1. Day * l + Day <= Day * k
      BY <1>a, <2>1, Multiples
    <3> QED BY <1>a, <3>1 DEF Moment
  <2>2. k # l
    BY <1>a DEF Moment
  <2> QED BY <2>1, <2>2
<1>2. Day * k + Day <= Day * l
  BY <1>a, <1>1, Multiples
<1> QED BY <1>a, <1>1, <1>2 DEF Moment

(* The next day at that time, and no moment of that time in between.       *)
LEMMA NextDay ==
  ASSUME NEW s \in Schedules, NEW t \in Nat
  PROVE  /\ Daily(s, t) \in Nat /\ Daily(s, t) > t /\ Daily(s, t) % Day = s.hour
         /\ \A u \in t + 1 .. Daily(s, t) - 1 : u % Day # s.hour
<1>a. Day \in Nat \ {0} /\ s.hour \in 0 .. Day - 1
  BY ClockAssumption DEF Schedules
<1>1. PICK day \in Nat, hour \in 0 .. Day - 1 :
        t = Moment(day, hour) /\ Midnight(t) = Moment(day, 0)
  BY MomentParts
<1>2. Midnight(t) + s.hour = Moment(day, s.hour)
  <2>1. Day * day \in Nat
    BY <1>a
  <2> QED BY <1>a, <1>1, <2>1 DEF Moment
<1>3. /\ Moment(day, s.hour) \in Nat /\ Moment(day, s.hour) % Day = s.hour
      /\ Moment(day + 1, s.hour) % Day = s.hour
      /\ Moment(day + 1, s.hour) = Moment(day, s.hour) + Day
      /\ Moment(day, 0) <= Moment(day, s.hour) /\ Moment(day, s.hour) < Moment(day, 0) + Day
      /\ Moment(day, 0) <= t /\ t < Moment(day, 0) + Day
      /\ Moment(day, 0) \in Nat
  <2>1. /\ Moment(day, s.hour) \in Nat /\ Moment(day, s.hour) % Day = s.hour
        /\ Moment(day + 1, s.hour) = Moment(day, s.hour) + Day
        /\ Moment(day, 0) <= Moment(day, s.hour) /\ Moment(day, s.hour) < Moment(day, 0) + Day
    BY <1>a, MomentsDiffer
  <2>2. Moment(day + 1, s.hour) % Day = s.hour
    <3>1. PICK next \in Nat : next = day + 1
      OBVIOUS
    <3>2. Moment(next, s.hour) % Day = s.hour
      BY <1>a, MomentsDiffer
    <3> QED BY <3>1, <3>2
  <2>3. Moment(day, 0) <= t /\ t < Moment(day, 0) + Day
    BY <1>1, MomentsDiffer
  <2>4. Moment(day, 0) \in Nat
    BY <1>a DEF Moment
  <2> QED BY <2>1, <2>2, <2>3, <2>4
<1>4. PICK k \in {day, day + 1} :
        /\ Daily(s, t) = Moment(k, s.hour) /\ Moment(k, s.hour) > t
        /\ Moment(k, s.hour) - Day <= t /\ Moment(k, s.hour) % Day = s.hour
  BY <1>a, <1>2, <1>3 DEF Daily
<1>5. k \in Nat /\ Moment(k, s.hour) \in Nat
  BY <1>a, <1>3
<1>6. ASSUME NEW u \in t + 1 .. Moment(k, s.hour) - 1, u % Day = s.hour PROVE FALSE
  <2>1. u \in Nat /\ u < Moment(k, s.hour) /\ u > t
    BY <1>5, <1>6
  <2>2. PICK l \in Nat : u = Moment(l, s.hour)
    BY <1>6, <2>1, MomentParts
  <2>3. u + Day <= Moment(k, s.hour)
    BY <1>a, <1>5, <2>1, <2>2, MomentsOrder
  <2> QED BY <1>a, <1>4, <1>5, <2>1, <2>3
<1> QED BY <1>4, <1>5, <1>6

(* Every weekday comes up within a week.                                   *)
LEMMA WeekdayComes ==
  ASSUME NEW day \in Nat, NEW d \in 0 .. Week - 1
  PROVE  \E k \in 1 .. Week : (day + k) % Week = d
<1>a. Week \in Nat \ {0}
  BY ClockAssumption
<1> DEFINE e == (d - day - 1) \div Week
           k == ((d - day - 1) % Week) + 1
<1>1. e \in Int /\ k \in 1 .. Week /\ d - day - 1 = Week * e + (k - 1)
  <2>1. d - day - 1 \in Int
    OBVIOUS
  <2>2. /\ e \in Int /\ (d - day - 1) % Week \in 0 .. Week - 1
        /\ d - day - 1 = Week * e + ((d - day - 1) % Week)
    BY <1>a, <2>1, Parts
  <2> QED BY <1>a, <2>2
<1> HIDE DEF e, k
<1>2. Week * (- e) = - (Week * e) /\ Week * e \in Int /\ - e \in Int
  BY <1>a, <1>1
<1>3. day + k = Week * (- e) + d
  BY <1>1, <1>2
<1>4. (Week * (- e) + d) % Week = d
  BY <1>a, <1>2, PartsUnique
<1> QED BY <1>1, <1>3, <1>4

(* The next of the days of a week at that time, and none of them before.   *)
LEMMA NextWeekday ==
  ASSUME NEW s \in Schedules, NEW t \in Nat, s.days # {}
  PROVE  /\ Weekly(s, t) # {}
         /\ \A c \in Weekly(s, t) :
              /\ c \in Nat /\ c > t /\ c % Day = s.hour /\ Weekday(c) \in s.days
              /\ \A u \in t + 1 .. c - 1 : ~ (u % Day = s.hour /\ Weekday(u) \in s.days)
<1>a. /\ Day \in Nat \ {0} /\ Week \in Nat \ {0}
      /\ s.hour \in 0 .. Day - 1 /\ s.days \subseteq 0 .. Week - 1
  BY ClockAssumption DEF Schedules
<1>1. PICK day \in Nat, hour \in 0 .. Day - 1 :
        t = Moment(day, hour) /\ Midnight(t) = Moment(day, 0)
  BY MomentParts
<1>2. \A k \in 0 .. Week : Midnight(t) + s.hour + k * Day = Moment(day + k, s.hour)
  <2>1. \A k \in 0 .. Week : Day * (day + k) = Day * day + k * Day /\ k * Day \in Nat
    BY <1>a
  <2>2. Day * day \in Nat
    BY <1>a
  <2> QED BY <1>a, <1>1, <2>1, <2>2 DEF Moment
<1> DEFINE Due == {c \in Nat : c > t /\ \E k \in 0 .. Week : c = Moment(day + k, s.hour)
                                                        /\ (day + k) % Week \in s.days}
<1>3. \A k \in 0 .. Week : /\ Moment(day + k, s.hour) \in Nat
                           /\ Moment(day + k, s.hour) % Day = s.hour
                           /\ Weekday(Moment(day + k, s.hour)) = (day + k) % Week
  <2>1. \A k \in 0 .. Week : day + k \in Nat
    BY <1>a
  <2> QED BY <1>a, <2>1, MomentsDiffer DEF Weekday
<1>4. Weekly(s, t) = {x \in Due : \A y \in Due : x <= y}
  <2>1. {c \in {Midnight(t) + s.hour + k * Day : k \in 0 .. Week} :
           Weekday(c) \in s.days /\ c > t} = Due
    BY <1>2, <1>3
  <2> QED BY <2>1 DEF Weekly, Earliest
<1>5. Due # {}
  <2>1. PICK d \in 0 .. Week - 1 : d \in s.days
    BY <1>a
  <2>2. PICK k \in 1 .. Week : (day + k) % Week = d
    BY <2>1, WeekdayComes
  <2>3. Moment(day + k, s.hour) > t
    <3>1. Moment(day, 0) + Day > t
      BY <1>1, MomentsDiffer
    <3>2. Day * (day + k) >= Day * day + Day
      BY <1>a, <2>2, Multiples
    <3>3. Day * (day + k) \in Nat /\ Day * day \in Nat
      BY <1>a, <2>2
    <3> QED BY <1>a, <3>1, <3>2, <3>3 DEF Moment
  <2>4. Moment(day + k, s.hour) \in Due
    <3>1. k \in 0 .. Week /\ (day + k) % Week \in s.days
      BY <1>a, <2>1, <2>2
    <3>2. Moment(day + k, s.hour) \in Nat
      BY <1>3, <3>1
    <3> QED BY <2>3, <3>1, <3>2
  <2> QED BY <2>4
<1>6. Weekly(s, t) # {}
  <2>1. \E x \in Due : \A y \in Due : x <= y
    BY <1>5, Smallest
  <2> QED BY <1>4, <2>1
<1>7. ASSUME NEW c \in Weekly(s, t)
      PROVE  /\ c \in Nat /\ c > t /\ c % Day = s.hour /\ Weekday(c) \in s.days
             /\ \A u \in t + 1 .. c - 1 : ~ (u % Day = s.hour /\ Weekday(u) \in s.days)
  <2>1. PICK k \in 0 .. Week : c = Moment(day + k, s.hour) /\ (day + k) % Week \in s.days
    BY <1>4, <1>7
  <2>2. c \in Nat /\ c > t /\ \A y \in Due : c <= y
    BY <1>4, <1>7
  <2>3. ASSUME NEW u \in t + 1 .. c - 1, u % Day = s.hour, Weekday(u) \in s.days PROVE FALSE
    <3>1. u \in Nat /\ u > t /\ u < c
      BY <2>2, <2>3
    <3>2. PICK l \in Nat : u = Moment(l, s.hour) /\ u \div Day = l
      BY <2>3, <3>1, MomentParts
    <3>3. l < day + k
      BY <1>a, <2>1, <3>1, <3>2, MomentsOrder
    <3>4. day <= l
      <4>1. ASSUME l < day PROVE FALSE
        <5>1. Day * l + Day <= Day * day /\ Day * l \in Nat /\ Day * day \in Nat
          BY <1>a, <4>1, Multiples
        <5>2. Moment(l, s.hour) < Moment(day, 0) /\ Moment(day, 0) <= t
          BY <1>a, <1>1, <5>1 DEF Moment
        <5> QED BY <1>a, <3>1, <3>2, <5>1, <5>2 DEF Moment
      <4> QED BY <4>1
    <3>5. l - day \in 0 .. Week /\ l = day + (l - day)
      BY <1>a, <3>3, <3>4
    <3>6. u \in Due
      BY <2>3, <3>1, <3>2, <3>5 DEF Weekday
    <3> QED BY <2>2, <3>1, <3>6
  <2> QED BY <1>3, <2>1, <2>2, <2>3
<1> QED BY <1>6, <1>7

(* The next occurrence is the first moment after a given one that a    *)
(* schedule names.                                                                  *)
THEOREM NextOccurrence ==
  ASSUME NEW s \in Schedules, NEW t \in Nat
  PROVE  /\ next_loop_occurrence(s, t) > t
         /\ Names(s, next_loop_occurrence(s, t), t)
         /\ \A u \in t + 1 .. next_loop_occurrence(s, t) - 1 : ~ Names(s, u, t)
<1>1. CASE s.mode = "daily"
  <2>1. next_loop_occurrence(s, t) = Daily(s, t)
    BY <1>1 DEF next_loop_occurrence
  <2> QED BY <1>1, <2>1, NextDay DEF Names
<1>2. CASE s.mode = "weekly"
  <2>1. s.days # {}
    BY <1>2 DEF Schedules
  <2>2. next_loop_occurrence(s, t) \in Weekly(s, t)
    BY <1>2, <2>1, NextWeekday DEF next_loop_occurrence
  <2> QED BY <1>2, <2>1, <2>2, NextWeekday DEF Names
<1>3. CASE s.mode = "interval"
  <2>1. next_loop_occurrence(s, t) = t + s.every /\ s.every \in Nat \ {0}
    BY <1>3 DEF next_loop_occurrence, Schedules
  <2> QED BY <1>3, <2>1 DEF Names
<1> QED BY <1>1, <1>2, <1>3 DEF Schedules

(* The schedule of an existing task changes only when a run closes it, and *)
(* it is then the one the run has computed.                                *)
LEMMA PlanRenewed ==
  ASSUME TypeOK, [Next]_vars, NEW j \in Jobs, Exists(j), job'[j].plan # job[j].plan
  PROVE  \E r \in Runs : /\ CloseCommits(r) /\ run[r].job = j
                         /\ job'[j].plan = build_next_loop_schedule(PlanRead(r), run[r].finished)
<1>j. job \in [Jobs -> JobRows] /\ job[j] \in JobRows
  BY DEF TypeOK
<1>1. ASSUME NEW k \in Jobs, Create(k) PROVE FALSE
  <2>1. k # j
    BY <1>1 DEF Create, Exists
  <2> QED BY <1>j, <1>1, <2>1 DEF Create, JobRows
<1>2. ASSUME NEW r \in Runs, CloseCommits(r)
      PROVE  /\ run[r].job = j
             /\ job'[j].plan = build_next_loop_schedule(PlanRead(r), run[r].finished)
  <2>1. PICK k \in Jobs : k = run[r].job
    BY <1>2 DEF CloseCommits, Named, TypeOK
  <2>2. PICK next : next = build_next_loop_schedule(PlanRead(r), run[r].finished)
    OBVIOUS
  <2>3. \/ job' = job
        \/ \E s : job' = [job EXCEPT ![k].status = s]
        \/ \E s : job' = [job EXCEPT ![k].status = s, ![k].plan = next, ![k].count = 0]
    BY <1>2, <2>1, <2>2 DEF CloseCommits
  <2>4. ASSUME NEW s, job' = [job EXCEPT ![k].status = s] PROVE FALSE
    BY <1>j, <2>4 DEF JobRows
  <2>5. ASSUME NEW s, job' = [job EXCEPT ![k].status = s, ![k].plan = next, ![k].count = 0]
        PROVE  j = k /\ job'[j].plan = next
    <3>1. CASE j = k
      BY <1>j, <2>5, <3>1 DEF JobRows
    <3>2. CASE j # k
      BY <1>j, <2>5, <3>2 DEF JobRows
    <3> QED BY <3>1, <3>2
  <2> QED BY <2>1, <2>2, <2>3, <2>4, <2>5
<1>3. CASE RequestCommits
  <2>1. \E s : job' = [job EXCEPT ![request.job].status = s]
    BY <1>3 DEF RequestCommits
  <2> QED BY <1>j, <2>1 DEF JobRows
<1>4. CASE TickPauses \/ TickFlags
  <2>1. job' = job \/ job' = [job EXCEPT ![tick.running].status = "paused"]
    BY <1>4 DEF TickPauses, TickFlags, Paused
  <2> QED BY <1>j, <2>1 DEF JobRows
<1>5. CASE TickStarts
  <2>1. \/ job' = job
        \/ \E r, d : job' = [job EXCEPT ![tick.top].status = "running", ![tick.top].last = r,
                                       ![tick.top].session = d]
    BY <1>5 DEF TickStarts
  <2>2. ASSUME NEW r, NEW d,
               job' = [job EXCEPT ![tick.top].status = "running", ![tick.top].last = r,
                                  ![tick.top].session = d]
        PROVE  FALSE
    BY <1>j, <2>2 DEF JobRows
  <2> QED BY <2>1, <2>2
<1>6. CASE TickCounts
  <2>1. job' = job \/ \E n : job' = [job EXCEPT ![tick.top].count = n]
    BY <1>6 DEF TickCounts
  <2>2. ASSUME NEW n, job' = [job EXCEPT ![tick.top].count = n] PROVE FALSE
    BY <1>j, <2>2 DEF JobRows
  <2> QED BY <2>1, <2>2
<1>7. CASE job' = job
  BY <1>7
<1>8. \/ job' = job \/ TickCounts \/ TickPauses \/ TickFlags \/ TickStarts \/ RequestCommits
      \/ (\E k \in Jobs : Create(k)) \/ \E r \in Runs : CloseCommits(r)
  <2>1. CASE TickSteps \/ TickDies
    BY <2>1 DEF TickSteps, TickBegins, TickGivesUp, TickSupervises, TickPreempts, TickChooses,
                TickRests, TickDies, Reads
  <2>2. CASE ClockTicks \/ UserActs \/ UNCHANGED vars
    BY <2>2 DEF ClockTicks, UserActs, PauseReads, ResumeReads, StopReads, DeleteReads,
                UpdateReads, Asks, vars
  <2>3. ASSUME NEW r \in Runs, RunSteps(r) \/ ChatBegins(r) \/ RunRestarts(r)
        PROVE  job' = job \/ CloseCommits(r)
    BY <2>3 DEF RunSteps, TakesTask, Answers, CloseReads, RunEnds, ChatBegins, RunRestarts
  <2> QED BY <2>1, <2>2, <2>3 DEF Next
<1> QED BY <1>1, <1>2, <1>3, <1>4, <1>5, <1>6, <1>7, <1>8

(* A schedule moves on only when a run closes a round of its task: to the  *)
(* first moment after the end of that round that the schedule names,       *)
(* however much later the thread stores it.                                *)
THEOREM RoundsFollow == Spec => NextRoundIsNext
<1> DEFINE Follows(j, r) == /\ run[r].job = j
                            /\ run[r].closes = "closing" /\ run'[r].closes = "closed"
                            /\ FirstAfter(job'[j].plan, run[r].finished)
<1>1. ASSUME TypeOK, [Next]_vars, NEW j \in Jobs, Exists(j), job'[j].plan # job[j].plan
      PROVE  \E r \in Runs : Follows(j, r)
  <2>1. PICK r \in Runs :
          /\ CloseCommits(r) /\ run[r].job = j
          /\ job'[j].plan = build_next_loop_schedule(PlanRead(r), run[r].finished)
    BY <1>1, PlanRenewed
  <2>2. PICK p \in Schedules : p = PlanRead(r)
    BY <1>1, <2>1, PlanReadType
  <2>3. PICK end \in Nat : end = run[r].finished
    BY <1>1, <2>1, PlanReadType
  <2>4. PICK s : s = job'[j].plan
    OBVIOUS
  <2>5. s = [p EXCEPT !.now = FALSE, !.done = p.done + 1, !.at = next_loop_occurrence(p, end)]
    BY <2>1, <2>2, <2>3, <2>4 DEF build_next_loop_schedule
  <2>6. /\ s.at = next_loop_occurrence(p, end) /\ s.mode = p.mode /\ s.hour = p.hour
        /\ s.days = p.days /\ s.every = p.every
    BY <2>2, <2>5 DEF Schedules
  <2>7. \A t : Names(s, t, end) <=> Names(p, t, end)
    BY <2>6 DEF Names
  <2>8. FirstAfter(s, end)
    BY <2>2, <2>3, <2>6, <2>7, NextOccurrence DEF FirstAfter
  <2>9. run[r].closes = "closing" /\ run'[r].closes = "closed"
    BY <1>1, <2>1 DEF CloseCommits, TypeOK, Thread, RunRows
  <2> QED BY <2>1, <2>3, <2>4, <2>8, <2>9
<1>2. TypeOK /\ [Next]_vars =>
        [\A j \in Jobs : Exists(j) /\ job'[j].plan # job[j].plan =>
           \E r \in Runs : Follows(j, r)]_vars
  BY <1>1
<1> QED BY <1>2, TypeCorrect, PTL DEF Spec, NextRoundIsNext
=============================================================================
