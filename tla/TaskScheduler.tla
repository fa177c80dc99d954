--------------------------- MODULE TaskScheduler ---------------------------
(***************************************************************************)
(* The tasks of one AI: the scheduler of the gateway that starts them one  *)
(* at a time, preempts and supervises them, the users who create, pause,   *)
(* resume and end them, and the runs that carry them out.                  *)
(*                                                                         *)
(* A tick of the scheduler reads the tasks and later the runs, and commits *)
(* what it decides by primary key; so do the users and the runs.  Nobody   *)
(* looks again at the row it overwrites: a read and the commit that rests  *)
(* on it are two steps, and the steps of the others come in between.       *)
(*                                                                         *)
(* Of a run only what the tasks see of it is left: its row, its stop flag  *)
(* and how far its thread is with closing the task.  A plan of the AI ends *)
(* a task the way a final answer does.                                     *)
(***************************************************************************)
EXTENDS RunStatus, TaskSchedule, FiniteSets

CONSTANTS
  Jobs,        \* AITaskJob rows, numbered as they are created
  Runs,        \* ChatRun rows of the AI; a row nobody refers to is used again
  NoJob, NoRun,
  MAX_AUTO_SUPERVISION_ROUNDS,
  Priority,    \* the priority of each task
  LastMoment,  \* bound: the clock stops
  Scenarios    \* the schedules the tasks are created with, and bounds: commands
               \* of users, other runs of the AI, crashes, tasks

Kinds == {"tasks", "commands", "chats", "crashes"}

ASSUME TasksAssumption ==
  /\ Jobs \subseteq Nat /\ Runs \subseteq Nat /\ NoJob \notin Jobs /\ NoRun \notin Runs
  /\ MAX_AUTO_SUPERVISION_ROUNDS \in Nat
  /\ Priority \in [Jobs -> Nat] /\ LastMoment \in Nat
  /\ \A s \in Scenarios : s.plans \in [Jobs -> Schedules] /\ s.budget \in [Kinds -> Nat]

VARIABLES
  now,        \* the clock
  job,        \* the rows of the tasks
  run,        \* the rows of the runs, and their threads
  tick,       \* the tick of the scheduler in progress
  request,    \* the request of a user in progress
  command,    \* history: what a user last told a task to do
  rounds,     \* history: supervision rounds since it was created or renewed
  lapses,     \* history: which known gaps of the protocol were met
  budget      \* bound: what is left of that of the scenario

history == <<command, rounds, lapses>>
vars == <<now, job, run, tick, request, history, budget>>
-----------------------------------------------------------------------------
Ended == {"completed", "stopped"}
JobStatuses == {"none", "queued", "running", "paused", "deleted"} \cup Ended
Lapses == {"crossed", "masked", "patched", "late", "uncounted", "rerun"}

Unused == [status |-> "absent", stop |-> FALSE, job |-> NoJob, session |-> 0,
           closes |-> "no", seen |-> "none", done |-> 0, finished |-> 0]
Asleep == [pc |-> "none", running |-> NoJob, count |-> 0, over |-> FALSE,
           top |-> NoJob, seen |-> "none", flag |-> NoRun]
NoRequest == [op |-> "none", job |-> NoJob, seen |-> "none", runs |-> {}]

Live == {r \in Runs : run[r].status \in ActiveStatuses}
RunsOf(j) == {r \in Live : run[r].job = j}
\* Each round of a task has a conversation of its own.
InSession(r, j) == run[r].job = j /\ run[r].session = job[j].session
RunsInSession(j) == {r \in Live : InSession(r, j)}
Exists(j) == job[j].status \notin {"none", "deleted"}
Running == {j \in Jobs : job[j].status = "running"}

(* order_by priority desc, created_at asc                                  *)
First(S) == {j \in S : \A k \in S \ {j} :
               Priority[j] > Priority[k] \/ (Priority[j] = Priority[k] /\ j < k)}

Spend(kind) == budget[kind] > 0 /\ budget' = [budget EXCEPT ![kind] = @ - 1]
Met(gap, condition) == IF condition THEN {gap} ELSE {}

(* What an UPDATE leaves in a column that its writer has read as `seen`:   *)
(* an attribute that did not change is not written.                        *)
Stored(old, seen, new) == IF new = seen THEN old ELSE new
-----------------------------------------------------------------------------
Init ==
  /\ now = 0
  /\ \E scenario \in Scenarios :
       /\ job = [j \in Jobs |-> [status |-> "none", last |-> NoRun, session |-> 0,
                                 count |-> 0, plan |-> scenario.plans[j]]]
       /\ budget = scenario.budget
  /\ run = [r \in Runs |-> Unused]
  /\ tick = Asleep
  /\ request = NoRequest
  /\ command = [j \in Jobs |-> "none"]
  /\ rounds = [j \in Jobs |-> 0]
  /\ lapses = {}

\* Time matters to recurring tasks only.
ClockTicks ==
  /\ now < LastMoment
  /\ \E j \in Jobs : job[j].plan.enabled /\ Exists(j) /\ job[j].status \notin Ended
  /\ now' = now + 1
  /\ UNCHANGED <<job, run, tick, request, history, budget>>
-----------------------------------------------------------------------------
(***************************************************************************)
(* Users, and AIs that use the task tools.                                 *)
(***************************************************************************)
\* trigger_ai_task, _task_create_impl, _ensure_scheduled_jobs.
Create(j) ==
  /\ job[j].status = "none"
  /\ \A k \in Jobs : k < j => job[k].status # "none"
  /\ Spend("tasks")
  /\ job' = [job EXCEPT ![j].status = "queued",
                        ![j].plan = finalize_schedule(@, now)]
  /\ UNCHANGED <<now, run, tick, request, history>>

(* Each request reads the task and its live runs ...                       *)
Asks(op, j, runs) ==
  /\ request.op = "none"
  /\ Exists(j)
  /\ Spend("commands")
  /\ request' = [op |-> op, job |-> j, seen |-> job[j].status, runs |-> runs]
  /\ UNCHANGED <<now, job, run, tick, history>>

\* ... pause_ai_task_job the one find_task_active_run finds, ...
PauseReads(j) ==
  /\ job[j].status \notin Ended
  /\ \/ job[j].last \in Live /\ Asks("pause", j, {job[j].last})
     \/ job[j].last \notin Live /\ RunsInSession(j) = {} /\ Asks("pause", j, {})
     \/ job[j].last \notin Live /\ \E r \in RunsInSession(j) : Asks("pause", j, {r})

\* ... resume_ai_task_job answers "running" if there is one, whatever the task is, ...
ResumeReads(j) ==
  /\ job[j].status \notin Ended
  /\ job[j].last \notin Live /\ RunsInSession(j) = {}
  /\ Asks("resume", j, {})

\* ... stop_ai_task_job and delete_ai_task_job all of them, ...
StopReads(j)   == job[j].status \notin Ended /\ Asks("stop", j, RunsOf(j))
DeleteReads(j) == Asks("delete", j, RunsOf(j))

\* ... and update_ai_task_job, which also accepts a status, none.
Updates == {"update to paused", "update to queued"}
UpdateReads(j, op) == job[j].status \notin Ended /\ Asks(op, j, {})

\* Mutant: an update stores the status in the words of its caller.
TargetAsSent(op) ==
  CASE op = "pause" -> "paused" [] op = "resume" -> "queued" [] op = "stop" -> "stopped"
    [] op = "delete" -> "deleted" [] OTHER -> op
Target(op) ==
  CASE op \in {"pause", "update to paused"} -> "paused"
    [] op \in {"resume", "update to queued"} -> "queued"
    [] op = "stop" -> "stopped"
    [] op = "delete" -> "deleted"

\* Mutant: pausing a task does not reach its run.
FlagsEndedOnly(op) == op \in {"stop", "delete"}
Flags(op) == op \in {"pause", "stop", "delete"}

(* ... and commits: the runs it has read are told to stop, those of an     *)
(* ended task are ended with it, and the task gets its status.             *)
RequestCommits ==
  LET j == request.job
      op == request.op
      ends == op \in {"stop", "delete"}
  IN /\ op # "none"
     /\ job' = [job EXCEPT ![j].status = Stored(@, request.seen, Target(op))]
     /\ run' = [r \in Runs |->
                 IF r \in request.runs
                 THEN [run[r] EXCEPT !.stop = @ \/ Flags(op),
                                     !.status = IF ends THEN "stopped" ELSE @]
                 ELSE run[r]]
     /\ command' = [command EXCEPT ![j] = Target(op)]
     /\ lapses' = lapses
          \cup Met("crossed", job[j].status # request.seen
                              \/ (op \notin Updates /\ ~ (RunsOf(j) \subseteq request.runs)))
          \cup Met("patched", op \in Updates /\ RunsOf(j) # {})
     /\ request' = NoRequest
     /\ UNCHANGED <<now, tick, rounds, budget>>

UserActs ==
  \/ \E j \in Jobs :
       \/ Create(j) \/ PauseReads(j) \/ ResumeReads(j) \/ StopReads(j) \/ DeleteReads(j)
       \/ (\E op \in Updates : UpdateReads(j, op))
  \/ RequestCommits
-----------------------------------------------------------------------------
(***************************************************************************)
(* Runs.                                                                   *)
(***************************************************************************)
Free(r) ==
  /\ r \notin Live /\ run[r].closes = "no"
  /\ \A j \in Jobs : Exists(j) => job[j].last # r
  /\ r \notin request.runs /\ tick.flag # r

NextRow == {r \in Runs : Free(r) /\ \A s \in Runs : Free(s) => r <= s}
Started(j, session) ==
  [Unused EXCEPT !.status = "running", !.job = j, !.session = session]

\* Of a run that has ended only its status is kept, for the task that points
\* to it.
Forgotten(r) ==
  [s \in Runs |-> IF s = r /\ s \notin Live /\ run[s].closes = "no" THEN Unused ELSE run[s]]

\* A run of the AI in another conversation.
ChatBegins(r) ==
  /\ Spend("chats")
  /\ r \in NextRow
  /\ run' = [run EXCEPT ![r] = Started(NoJob, 0)]
  /\ UNCHANGED <<now, job, tick, request, history>>

\* How far its thread is with closing the task, what it has read of it (the
\* status and the rounds done), and when.
Thread(r, closes, seen, done, finished) ==
  [run[r] EXCEPT !.closes = closes, !.seen = seen, !.done = done, !.finished = finished]

\* _load_task_job_by_session: its thread takes the task of its conversation.
TakesTask(r) ==
  /\ r \in RunsOf(run[r].job) /\ run[r].job # NoJob
  /\ InSession(r, run[r].job) /\ Exists(run[r].job)
  /\ ~ run[r].stop /\ run[r].closes = "no"
  /\ run' = [run EXCEPT ![r].closes = "works"]
  /\ UNCHANGED <<now, job, tick, request, history, budget>>

\* The model has given its final answer and no stop was requested so far.
Answers(r) ==
  /\ r \in Live /\ ~ run[r].stop
  /\ run[r].closes = "works"
  /\ run' = [run EXCEPT ![r].closes = "answered"]
  /\ UNCHANGED <<now, job, tick, request, history, budget>>

\* _finalize_simple_task: the task is read again, whatever round it is in, and
\* unless it has ended ...
CloseReads(r) ==
  /\ run[r].closes = "answered"
  /\ LET j == run[r].job
         open == Exists(j) /\ job[j].status \notin Ended
     IN run' = IF ~ open THEN [run EXCEPT ![r].closes = "closed"]
               ELSE [run EXCEPT ![r] = Thread(r, "closing", job[j].status,
                                              job[j].plan.done, now)]
  /\ UNCHANGED <<now, job, tick, request, history, budget>>

\* Its schedule as the thread has read it: of an existing one only the rounds
\* it has done and its next time change.
PlanRead(r) == [job[run[r].job].plan EXCEPT !.done = run[r].done]

\* ... completed or, if a further round is due, put back in the queue.  That
\* was decided before the completion notice, at the time the task was read.
CloseCommits(r) ==
  LET j == run[r].job
      renewed == Renewable(PlanRead(r), run[r].finished)
  IN /\ run[r].closes = "closing"
     /\ run' = [run EXCEPT ![r] = Thread(r, "closed", "none", 0, 0)]
     /\ job' = IF ~ Exists(j) THEN job
               ELSE IF renewed
               THEN [job EXCEPT ![j].status = Stored(@, run[r].seen, "queued"),
                                ![j].plan = build_next_loop_schedule(PlanRead(r),
                                                                     run[r].finished),
                                ![j].count = 0]
               ELSE [job EXCEPT ![j].status = Stored(@, run[r].seen, "completed")]
     /\ rounds' = IF Exists(j) /\ renewed THEN [rounds EXCEPT ![j] = 0] ELSE rounds
     /\ lapses' = lapses
          \cup Met("crossed", job[j].status # run[r].seen)
          \cup Met("late", command[j] = "paused" /\ renewed)
     /\ UNCHANGED <<now, tick, request, command, budget>>

\* The run ends: it has closed the task, or ran out of steps, failed or was
\* stopped without doing so.
RunEnds(r, goal) ==
  /\ \/ run[r].closes = "no" /\ r \in Live
     \/ run[r].closes = "works"
     \/ run[r].closes = "closed" /\ goal = "completed"
  /\ run' = [run EXCEPT ![r] = [Unused EXCEPT !.status =
                IF \A j \in Jobs : Exists(j) => job[j].last # r THEN "absent"
                ELSE IF r \notin Live THEN run[r].status
                ELSE IF run[r].stop THEN "stopped" ELSE goal]]
  /\ UNCHANGED <<now, job, tick, request, history, budget>>

\* The process dies, and the run is executed again from its beginning.
RunRestarts(r) ==
  /\ Spend("crashes")
  /\ r \in Live /\ run[r].closes # "no"
  /\ run' = [run EXCEPT ![r] = Thread(r, "no", "none", 0, 0)]
  /\ lapses' = lapses \cup Met("rerun", run[r].closes = "closed")
  /\ UNCHANGED <<now, job, tick, request, command, rounds>>

RunSteps(r) ==
  \/ TakesTask(r) \/ Answers(r) \/ CloseReads(r) \/ CloseCommits(r)
  \/ \E goal \in {"completed", "error"} : RunEnds(r, goal)
-----------------------------------------------------------------------------
(***************************************************************************)
(* process_task_scheduler.                                                 *)
(***************************************************************************)
\* Mutant: a paused task is resumed when its time has come.
ReadyOrPaused ==
  {j \in Jobs : job[j].status \in {"queued", "paused"} /\ is_time_ready(job[j].plan, now)}
Ready == {j \in Jobs : job[j].status = "queued" /\ is_time_ready(job[j].plan, now)}

\* A tick reads the tasks, ...
TickBegins ==
  /\ tick.pc = "none"
  /\ Running # {} \/ Ready # {}
  /\ \E j \in IF Running = {} THEN {NoJob} ELSE First(Running),
        top \in IF Ready = {} THEN {NoJob} ELSE First(Ready) :
       tick' = [Asleep EXCEPT !.pc = "reads", !.running = j, !.top = top,
                              !.count = IF j = NoJob THEN 0 ELSE job[j].count,
                              !.over = j # NoJob /\ job[j].last \notin Live,
                              !.seen = IF top = NoJob THEN "none" ELSE job[top].status]
  /\ UNCHANGED <<now, job, run, request, history, budget>>

Goes(pc) == tick' = [tick EXCEPT !.pc = pc]
Rests == tick' = Asleep
\* An UPDATE of a task that has been deleted fails the tick, and the next one
\* comes all the same.  Mutant: the thread of the scheduler ends.
Dies == tick' = [Asleep EXCEPT !.pc = "dead"]
Fails == Rests
Reads == tick.pc = "reads" /\ UNCHANGED <<now, job, run, request, history, budget>>

\* Mutant: supervision is bounded by the rounds of the schedule only.
Endless == FALSE
Exhausted == tick.count >= MAX_AUTO_SUPERVISION_ROUNDS
Failed(j) == run[job[j].last].status \in {"error", "stopped"}

\* ... then the runs.  Nobody works on the running task: after a failure or
\* two rounds of supervision it is paused, ...
TickGivesUp ==
  /\ Reads
  /\ tick.running # NoJob /\ Live = {}
  /\ Failed(tick.running) \/ Exhausted
  /\ tick' = [Asleep EXCEPT !.pc = "pauses", !.running = tick.running]

\* ... else it goes on under supervision, if it has been idle for a while: a
\* run that ended during this tick is too young, unless an earlier round of
\* supervision is what the clock counts from.
TickSupervises ==
  /\ Reads
  /\ tick.running # NoJob /\ Live = {}
  /\ ~ Failed(tick.running) /\ ~ Exhausted
  /\ IF tick.over \/ tick.count > 0
     THEN tick' = [Asleep EXCEPT !.pc = "supervises", !.top = tick.running, !.seen = "running"]
     ELSE Rests

\* Somebody works on it, and a task of higher priority is ready: the run the
\* AI touched last is told to stop if it is one of the running task, ...
TickPreempts ==
  /\ Reads
  /\ tick.running # NoJob /\ Live # {}
  /\ tick.top # NoJob /\ Priority[tick.top] > Priority[tick.running]
  /\ \E latest \in Live :
       tick' = [tick EXCEPT !.pc = "preempts",
                     !.flag = IF InSession(latest, tick.running) THEN latest ELSE NoRun]

\* ... and without a running task the first of those that are ready is started.
TickChooses ==
  /\ Reads
  /\ tick.running = NoJob
  /\ Goes("starts")

TickRests ==
  /\ Reads
  /\ tick.running # NoJob /\ Live # {}
  /\ tick.top # NoJob => Priority[tick.top] <= Priority[tick.running]
  /\ Rests

\* Mutant: the preempted task stays as it is.
PausedByItsRun(j) == job
Paused(j) == [job EXCEPT ![j].status = "paused"]

\* The commits.
TickPauses ==
  /\ tick.pc = "pauses"
  /\ IF Exists(tick.running) THEN job' = Paused(tick.running) /\ Rests
     ELSE Fails /\ UNCHANGED job
  /\ lapses' = lapses \cup Met("crossed", job[tick.running].status # "running")
  /\ UNCHANGED <<now, run, request, command, rounds, budget>>

TickFlags ==
  /\ tick.pc = "preempts"
  /\ IF Exists(tick.running)
     THEN /\ job' = Paused(tick.running)
          /\ run' = IF tick.flag = NoRun THEN run ELSE [run EXCEPT ![tick.flag].stop = TRUE]
          /\ tick' = [tick EXCEPT !.pc = "starts", !.flag = NoRun, !.running = NoJob]
     ELSE Fails /\ UNCHANGED <<job, run>>
  /\ lapses' = lapses
       \cup Met("crossed", job[tick.running].status # "running")
       \cup Met("masked", \E r \in RunsOf(tick.running) \ {tick.flag} : ~ run[r].stop)
  /\ UNCHANGED <<now, request, command, rounds, budget>>

\* _start_task_run: the row of the run and the task, in one commit.
TickStarts ==
  LET j == tick.top
      supervised == tick.pc = "supervises"
  IN /\ tick.pc \in {"starts", "supervises"}
     /\ IF Exists(j)
        THEN /\ \E r \in NextRow :
                  /\ run' = [Forgotten(job[j].last) EXCEPT ![r] = Started(j, job[j].plan.done)]
                  /\ job' = [job EXCEPT ![j].status = "running", ![j].last = r,
                                        ![j].session = job[j].plan.done]
             /\ rounds' = IF supervised THEN [rounds EXCEPT ![j] = @ + 1] ELSE rounds
             /\ IF supervised THEN Goes("counts") ELSE Rests
        ELSE Fails /\ UNCHANGED <<run, job, rounds>>
     /\ lapses' = lapses \cup Met("crossed", job[j].status # tick.seen)
     /\ UNCHANGED <<now, request, command, budget>>

\* The round is counted in a commit of its own.
TickCounts ==
  /\ tick.pc = "counts"
  /\ IF Exists(tick.top) THEN job' = [job EXCEPT ![tick.top].count = @ + 1] /\ Rests
     ELSE Fails /\ UNCHANGED job
  /\ UNCHANGED <<now, run, request, history, budget>>

\* The gateway dies.
TickDies ==
  /\ Spend("crashes")
  /\ tick.pc # "none"
  /\ Rests
  /\ lapses' = lapses \cup Met("uncounted", tick.pc = "counts")
  /\ UNCHANGED <<now, job, run, request, command, rounds>>

TickSteps ==
  \/ TickBegins \/ TickGivesUp \/ TickSupervises \/ TickPreempts \/ TickChooses
  \/ TickRests \/ TickPauses \/ TickFlags \/ TickStarts \/ TickCounts
-----------------------------------------------------------------------------
Next ==
  \/ ClockTicks \/ UserActs \/ TickSteps \/ TickDies
  \/ \E r \in Runs : RunSteps(r) \/ ChatBegins(r) \/ RunRestarts(r)

Spec == Init /\ [][Next]_vars

(* The scheduler ticks, a started request is answered and the threads of   *)
(* the runs go on.  Nothing is assumed of the users.                       *)
Fairness ==
  /\ WF_vars(TickSteps) /\ WF_vars(RequestCommits)
  /\ \A r \in Runs : WF_vars(RunSteps(r))

LiveSpec == Spec /\ Fairness
-----------------------------------------------------------------------------
JobRows ==
  [status : JobStatuses, last : Runs \cup {NoRun}, session : Nat, count : Nat,
   plan : Schedules]
RunRows ==
  [status : {"absent", "running"} \cup TerminalStatuses, stop : BOOLEAN,
   job : Jobs \cup {NoJob}, session : Nat,
   closes : {"no", "works", "answered", "closing", "closed"}, seen : JobStatuses,
   done : Nat, finished : Nat]
Ticks ==
  [pc : {"none", "reads", "pauses", "preempts", "starts", "supervises", "counts"},
   running : Jobs \cup {NoJob}, count : Nat, over : BOOLEAN,
   top : Jobs \cup {NoJob}, seen : JobStatuses, flag : Runs \cup {NoRun}]
Requests ==
  [op : {"none", "pause", "resume", "stop", "delete"} \cup Updates,
   job : Jobs \cup {NoJob}, seen : JobStatuses, runs : SUBSET Runs]

Named ==
  /\ request.op # "none" => request.job \in Jobs
  /\ tick.pc = "reads" => tick.running \in Jobs \/ tick.top \in Jobs
  /\ tick.pc \in {"pauses", "preempts"} => tick.running \in Jobs
  /\ tick.pc \in {"preempts", "starts", "supervises", "counts"} => tick.top \in Jobs
  /\ \A r \in Runs : run[r].closes # "no" => run[r].job \in Jobs

(* Every variable has its type, and who is at work on a task knows which   *)
(* one.                                                                    *)
TypeOK ==
  /\ now \in 0 .. LastMoment
  /\ job \in [Jobs -> JobRows] /\ run \in [Runs -> RunRows]
  /\ tick \in Ticks /\ request \in Requests
  /\ command \in [Jobs -> {"none", "queued", "paused", "stopped", "deleted"}]
  /\ rounds \in [Jobs -> Nat] /\ lapses \subseteq Lapses
  /\ budget \in [Kinds -> Nat]
  /\ Named

(* The AI has one running task, whatever users and runs do meanwhile.      *)
OneTaskRuns == \A j, k \in Running : j = k

(* A run that carries out a task and was not told to stop is the last one  *)
(* of the running task, or its thread has closed the task.  The gaps: a    *)
(* commit over a task that has changed, a preempted run hidden by another  *)
(* run of the AI, a status set by an update, a run executed again.         *)
RunsBelong ==
  \A j \in Jobs : \A r \in RunsOf(j) :
    \/ run[r].stop \/ run[r].closes = "closed"
    \/ j \in Running /\ job[j].last = r
    \/ lapses \cap {"crossed", "masked", "patched", "rerun"} # {}

(* A task a user has paused or ended is not started again, neither by the  *)
(* scheduler nor for its next round.  The gaps: a commit over a task that  *)
(* has changed, and a paused run that renews its task.                     *)
CommandHolds ==
  \A j \in Jobs : command[j] \in {"paused", "stopped"} =>
    job[j].status \notin {"queued", "running"} \/ lapses \cap {"crossed", "late"} # {}

(* A task is supervised for two rounds at most, unless the gateway dies    *)
(* before it has counted one.                                              *)
SupervisionBounded ==
  \A j \in Jobs : rounds[j] > MAX_AUTO_SUPERVISION_ROUNDS => "uncounted" \in lapses

(* Only a run that closes a round of a recurring task moves its schedule   *)
(* on: to the first moment after the end of that round that the schedule   *)
(* names, however much later the thread stores it.                         *)
Names(s, t, end) ==
  CASE s.mode = "daily" -> t % Day = s.hour
    [] s.mode = "weekly" -> t % Day = s.hour /\ Weekday(t) \in s.days
    [] s.mode = "interval" -> t = end + s.every
FirstAfter(s, end) ==
  /\ s.at > end /\ Names(s, s.at, end)
  /\ \A t \in end + 1 .. s.at - 1 : ~ Names(s, t, end)
NextRoundIsNext ==
  [][\A j \in Jobs : Exists(j) /\ job'[j].plan # job[j].plan =>
       \E r \in Runs : /\ run[r].job = j
                       /\ run[r].closes = "closing" /\ run'[r].closes = "closed"
                       /\ FirstAfter(job'[j].plan, run[r].finished)]_vars

(* A task that is due is started, or somebody takes it out of the queue or *)
(* puts it off to its next round.                                          *)
QueuedTaskStarts == \A j \in Jobs : (j \in Ready) ~> (j \notin Ready)
=============================================================================
