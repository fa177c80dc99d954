# HeySure server: TLA+ models and proofs

HeySure is a server for AI assistants that chat, call tools and drive the devices
of their users.  Several processes share one Postgres database and nothing else;
what makes the program hard is that durable rows (a chat run, a dispatched task, a
workflow run) are read, decided upon and rewritten by several of them, and that
each of them may be restarted at any moment.  These modules model those protocols,
TLC checks them on small instances, and TLAPS proves the central theorems for
every value of the constants.

Paths below are relative to `src/main/` unless they say otherwise.

## 1. Inventory

### Processes

| process | started by | role |
|---|---|---|
| `gateway` | `gateway/` (FastAPI, Socket.IO) | REST routes of the UI: start, stop, resume and inject chat runs, cancel jobs; watchdog of stale runs (`api/runtime/gateway_periodic.py`); task scheduler |
| `ai_runtime` (several) | `ai_runtime/main.py` | worker pool: dispatcher threads claim chat runs, one thread per run drives the inference loop |
| `connector_runtime` | `connector_runtime/app.py` | one asyncio process: sockets of the devices, dispatch queue, workflow scheduler, bots, remote control |
| `mcp_runtime` | `mcp_runtime/` | registry and execution of server-side tools |
| Postgres | external | the only shared state; READ COMMITTED, `NOTIFY` as a hint |

### Components

State, operations, what is hard, and what makes the component correct.

1. **Chat run lifecycle** (`api/chat_runtime/chat_run_state.py`, `api/models/chat.py`).
   The status of a `ChatRun` row and `set_status`, which accepts an edge or refuses
   it.  Correct when every writer goes through it and terminal rows stay terminal.
2. **Chat run queue and worker pool** (`ai_runtime/worker.py`, `ai_runtime/main.py`,
   `api/runtime/heartbeat.py`).  State: the row (status, stop flag, owner, lease),
   and per process the semaphore `_run_slots` and the set `_active_run_ids`.
   Operations: insert, claim with `SKIP LOCKED`, heartbeat, boot sweep, watchdog
   reap, drain on SIGTERM, requeue at the drain deadline.  Hard: crashes between
   claim and registration, two reapers with one stale snapshot, late heartbeats, a
   stop that races everything.  Correct when a run has one executor, slots are
   conserved, a stop before the claim is honoured, and every run ends.
3. **Inference loop** (`ai_runtime/inference/`).  State: step counter, and the row
   through `_run_set_status`.  A turn completes, asks for another turn, fails or sees
   the stop flag.  Correct when the status written matches the outcome and the flag.
4. **Gateway chat routes** (`gateway/routers/chat_run_start_routes.py`,
   `chat_action_routes.py`, `api/services/chat/chat_run_control.py`).  Insert, stop
   and resume rows; one active run per session.
5. **Device dispatch queue** (`connector_runtime/dispatch/`,
   `connector_runtime/socket_handlers/registration.py`).  State: `AgentDispatchTask`
   rows (status, lease, deadline, owner instance), the registry `agents`.
   Operations: enqueue, claim the next, emit, result and acknowledgement, expire,
   cancel, put back after a failed send, sweep orphans, register, disconnect.  Hard:
   a handler is cut by its awaits, the gateway writes rows from another process,
   packets and acknowledgements get lost, the process restarts with tasks in flight.
   Correct when a device is given one task at a time, the queue moves on, outcomes
   are final and told consistently, and every caller returns.
6. **Dispatch poller** (`ai_runtime/inference/runtime_clients.py`).  Polls the row
   until it is terminal or time is up, then requests the expiry once.
7. **Cancellation of device work in the gateway**
   (`api/services/workflows/workflow_cancellation.py`, `gateway/routers/mcp.py`).
   Rewrites dispatch rows from outside the connector.
8. **Message injection** (`api/services/chat/chat_inject.py`).  State: the tag
   `user_inject_pending` of a stored message.  A message for a live run is taken between
   turns; one that arrives after the last look is answered by a continuation run that
   the teardown of every run starts.  Hard: "is there a live run" and "are there
   messages" are separate reads; stops, wakes and crashes take away whoever was to
   look.  Correct when a tagged message always has a taker, is taken once, and what was
   taken reaches the model.
9. **AI-to-AI messages** (`ai_runtime/inference/ai_message_service.py`).  State: the
   inbox row, and the registry `_RUN_THREADS` of one process.  Wakes an addressee with
   a run it starts itself and decides which runs are alive.  Correct when it leaves the
   runs of other processes alone, which it does not.
10. **Workflow engine** (`api/services/workflows/run_service.py`, `ai_interaction.py`,
    `connector_runtime/dispatch/workflow_dispatch.py`, `workflow_scheduler.py`).
    State: the run (status, current step, deadline), its attempts, dispatch rows and
    reviews.  Operations: advance, dispatch, reconcile, results, expiry, retry, pause,
    resume, cancel, respond.  Hard: some writers lock the run row, others read it and
    write by key, and the lock returns the attributes of an earlier read.  Correct when
    one attempt is in flight, an unsafe step runs once, decisions stand, recorded
    answers arrive and every run ends.
11. **Task scheduler** (`api/chat_runtime/chat_scheduler.py`, `api/services/tasks/`,
    `gateway/routers/ai_task_routes.py`).  State: `AITaskJob` (status, last run,
    session, supervision count, schedule).  Operations: create, tick (start, preempt,
    supervise, give up), pause, resume, stop, delete, update, closing by the run,
    renewal of a recurring task.  Hard: the tick decides on rows read earlier, and the
    user, the run and the tick all write the status by key.  Correct when one task runs
    per AI, commands of users hold, supervision is bounded, rounds come when they are
    due, and a due task starts.
12. **Codex bridge** (`api/services/codex_bridge.py`,
    `connector_runtime/socket_handlers/codex.py`).  Mirrors turns of an agent that
    lives on a device into `ChatRun` rows.
13. **MCP runtime** (`mcp_runtime/`): tools; background program jobs have a small
    queue of their own.
14. **Remote control and terminal**: in-memory pairing of sockets.
15. **Chat bots** (Feishu, QQ, WeChat): adapters that start and stop runs.
16. **Push notifications**: durable delivery with retries.
17. **Accounts, sessions, permissions**: request-response checks.
18. **Models, migrations, launcher, operator scripts**: no protocol of their own.

### How they interact

    UI/bots --routes--> gateway --INSERT, UPDATE--> chat_runs <--claim, lease, status-- ai_runtime
                           |                            ^
                           |        watchdog reaps -----'
                           |
                           '--cancel (UPDATE)--> agent_dispatch_tasks <--poll-- ai_runtime (tool call)
                                                        ^                        |
                        devices <--sockets--> connector_runtime <--HTTP: dispatch, expire, cancel

A tool call of a run on a device is an HTTP request to the connector, which inserts
the dispatch row and emits the task; the thread of the run polls the row.  Results
come back on the socket.  Between the processes there is no lock: apart from the
claim of a chat run (`FOR UPDATE SKIP LOCKED`), every writer reads a row, decides on
the copy, and commits an UPDATE that matches on the primary key.  This
read-decide-commit gap is what all the models are built around.

`PROJECT.json` lists the hazards of the code, each at its line, with the properties
that would catch it.

## 2. Plan

| # | modules | subject | state |
|---|---|---|---|
| 1 | `RunStatus`, `ChatRunQueue` | chat runs from insert to terminal status | modelled, checked, proved |
| 2 | `DeviceSlot`, `DispatchQueue` | dispatch to one device; implements `DeviceSlot` | modelled, checked, proved |
| 3 | `WorkflowRun` | one run of a workflow card: advance, dispatch, results, retries, deadlines, reviews, pause, cancel | modelled, checked, proved |
| 4 | `ChatSession` (over `RunStatus`) | one conversation: starts, injection, continuation, wakes by other AIs, bots | modelled, checked, proved |
| 5 | `TaskSchedule`, `TaskScheduler` | tasks of one AI, preemption, supervision, recurring rounds | modelled, checked, proved |
| 6 | proofs | `SingleExecution`, `QueueNeverStalls`, `OneMessagePerTask`, `TakenOnce`, `NothingLeftUnread`, `RunsBelong`, `NextRoundIsNext` | proved |
| 7 | Codex bridge | a second writer of chat runs whose agent lives on a device | if its agent can be characterised |
| 8 | program jobs, push, remote control | small queues and pairings of the shapes of 1 and 2 | if the others leave room |

Order of the proofs: types, the lifecycle, slots and the refinement first, then the
invariants of modules 3 to 5, then `SingleExecution`, `OneMessagePerTask`,
`QueueNeverStalls` and the rest of row 6, whose inductive invariants relate more of the
state.  Every safety and action property the passing runs check is now a theorem; what
is left for further proofs are abstract specifications of the conversation and of the
tasks, implemented by modules 4 and 5.
Runs are bounded so that each one contains every kind of fault at least once.

## 3. The modules and the code

### RunStatus

The statuses and edges of `chat_run_state.py` (`ALLOWED_TRANSITIONS`,
`set_status`).  No state.

### ChatRunQueue

| variable | code |
|---|---|
| `row[r]` | `ChatRun`: `status`, `stop_requested`, `worker_instance_id`, `lease_expires_at` (none, ahead of or behind the clock); `attempt` counts claims and is history |
| `exec[e]` | the thread `_execute_run_with_slot` of one claim: where it stands, the status it is about to write and what it read |
| `proc[w]` | life of a process: booting, up, draining, past the drain deadline, down |
| `disp[w][d]`, `free[w]`, `active[w]` | a dispatcher thread in its sweep, `_run_slots`, `_active_run_ids` |
| `requeue[p]` | rows a reaper or a draining process has read and will put back |
| `stopping[r]` | a stop request between its read and its commit |
| `clobbered` | history: an UPDATE hit a row that had changed since its read |

`Create`, `StopRead`/`StopCommit` and `FlagStop` are the gateway routes and the task
scheduler as far as a row is concerned.  `Tick`, `LeaseLapses` and `ReapRead` with
`RequeueCommit` are `heartbeat.py`.  `SweepBegins`, `AcquireSlot`, `NoFreeSlot`,
`Claim`, `ClaimNothing` and `ClaimFails` are one iteration each of the claim loop in
`worker.py`.  `Register` to `Release` are the thread of a run:
`_execute_run`, `start_worker_run`, the inference loop with its step budget and stop
checks, `_run_set_status` in two steps, the error handlers, the `finally` block.
`Boot` to `Exit` are `main.py` and the drain.

Every writer except the claim is a read action and a commit action, so that another
commit may fall between them.  A commit overwrites the columns the code assigns,
whatever is in the row by then, except that a column assigned the value it was read
with is left out of the UPDATE (`StatusChanges`): `start_worker_run`, which writes
"running" over "running", overwrites nothing.

### DeviceSlot and DispatchQueue

`DeviceSlot` is the promise to a device: it serves one task at a time and is handed
the next one only after the first has been given up.  `DispatchQueue` implements it
with `served <- Pending`.

| variable | code |
|---|---|
| `status[t]`, `due[t]`, `mine[t]` | `AgentDispatchTask`: `status`, whether lease or deadline has passed, whether `owner_instance_id` is the running process |
| `loop` | the job of the event loop between two awaits: which handler, which row, what it read, what it will write |
| `emitting`, `wake` | coroutines suspended at the emit, and those suspended before they resume the queue |
| `stale` | rows the orphan sweep has read |
| `online` | the device is in `agents` |
| `device[t]` | what the device knows: nothing, running, answered, acknowledged |
| `saved[t]` | chat messages written for the result |
| `caller[t]` | what the poller in the ai runtime was told |
| `requests`, `cancelling[t]` | HTTP requests under way, a cancellation of the gateway between its read and its commit |
| `clobbered`, `botched`, `skipped` | history: a crossing UPDATE, a database error that was swallowed, a path that freed the device and resumed nothing, or lost the resume to an exception |

The connector runs on one event loop, so its handlers are atomic between two
awaits; an action with `loop = Idle` in its guard starts one.  The database calls
inside are separate jobs only because the gateway may commit in between.
`Enqueue`/`Insert` are `enqueue_dispatch_row` and its caller, `ResumeFinds`/
`ClaimCommit` are `resume_device_dispatch_queue` with `claim_next_queued`, `Sent`/
`SendFails` the emit, `ResultArrives`/`DuplicateResult` the result handlers,
`FinalizeRead`/`Commit`/`CommitFails` `finalize_dispatch_row` and `requeue_pending`,
`SweepRead`/`SweepCommit` `expire_orphan_dispatches`.  `HandlerGoesOn` says which
handler resumes the queue afterwards, and whether it awaits something first: that
table is where the code decides whether a device idles.  Nothing in a handler catches
what its awaits and `claim_next_queued` raise: `HandlerFails` loses the resume between
the finalize and the claim, `ClaimFails` in the claim.

A device is taken to follow the protocol the server documents for its clients: it
drops a second copy of a task and repeats an answer until it is acknowledged.

### WorkflowRun

One run of a compiled card.  `prog` is the card: per step its kind, the steps it goes
to, the tries of its retry policy, whether repeating it is safe, and where an error
leaves the nested card it is in.

| variable | code |
|---|---|
| `run`, `cur` | `WorkflowRun.status`, `current_step_id` |
| `ctl`, `debug` | what `_pause_run` remembers, the flag of single-stepping |
| `clock` | 0 in time, 1 past the deadline of the step or review, 2 past that of the run |
| `st[a]` | `WorkflowStepRun.status` of attempt `a`, a step and a number |
| `row[a]` | the `AgentDispatchTask` of the attempt |
| `conf[s]` | `WorkflowConfirmation` of an AI step |
| `conn`, `hook` | the synchronous section of the scheduler tick that is open and what it read, the recorded answer about to be applied |
| `cancel`, `pausing` | a cancel request between its read and its write, a pause that holds the row lock |
| `performed`, `missed` | what the device has carried out; attempts dropped because the row was locked (history) |

The sections of a tick (`advance_run`, `advance_interactive_run`,
`dispatch_pending_steps`, `reconcile_finished_dispatches`, the expiry of runs and reviews)
read and write in two steps; those that lock the row and read it afresh
(`apply_step_result`, `respond_ai_interaction`, resume) are one step.  The device
handlers of `DispatchQueue` appear here as one step per outcome; what happens in
between is the subject of that module.

### ChatSession

One conversation, up to four rows.  Unlike `ChatRunQueue` it looks inside the history:

| variable | code |
|---|---|
| `status`, `stop`, `kwargs` | `ChatRun.status`, `stop_requested`, the `model_user_content` in `worker_kwargs_json` |
| `note[m]`, `at[m]` | `ChatMessage`: not saved, plain, or tagged `user_inject_pending`; its order |
| `thread[t]` | a thread of a run, of the worker pool or started by a wake: where it stands, steps, the conversation in its memory, the messages it has read and not yet untagged, its prompt |
| `backstop[c]` | `resume_orphaned_injects` in progress, at the end of a thread or in a bot |
| `request[m]`, `resuming`, `waking` | a start, an injection, a bot handler, a resume, a wake between its query and its insert, with the rows it has seen |
| `shown`, `takes`, `passed`, `lapses` | history: what the model saw, how often a message was taken, what a run passed over, which gap was met |

`Send*`, `Inject*`, `Bot*`, `StopRun` and `Resume*` are the routes and the bots;
`Wake*` and `Poll` are other AIs; `Begins` to `Completes` are the thread of a run, with
the two places where it takes messages (`Reads`/`Takes` before a turn,
`Answers`/`Again` after an answer); `Backstop*` is the continuation; `Reap` and
`Crash` are the worker pool.  Status writes, leases and slots are atomic here because
`ChatRunQueue` has them in detail.

### TaskSchedule and TaskScheduler

`TaskSchedule` has the arithmetic of `task_schedule.py` on moments, days and weeks of
any length.  `TaskScheduler` has the tasks of one AI:

| variable | code |
|---|---|
| `job[j]` | `AITaskJob`: status, `last_run_id`, the session of its round, `supervision_count`, schedule |
| `run[r]` | `ChatRun`: status, stop flag, task and round; how far its thread is with closing the task, and the status, the rounds and the time of the end it goes by |
| `tick` | `process_task_scheduler` between two statements that touch the database: what it has read and which branch it took |
| `request` | a request of a user between read and commit |
| `now` | the clock |
| `command`, `rounds`, `lapses` | history: what a user last told the task, supervision rounds since it was created or renewed, which gap was met |

A tick reads the tasks (`TickBegins`) and then the runs (`TickGivesUp`,
`TickSupervises`, `TickPreempts`, `TickChooses`, `TickRests`: its branches in order)
and commits (`TickPauses`, `TickFlags`, `TickStarts`, `TickCounts`).  The thread of a
run takes the task of its conversation when it begins (`TakesTask`) and closes that
very task after its final answer, whatever round it is in by then: `CloseReads` and
`CloseCommits` are `_finalize_simple_task` with `_renew_loop_scheduled_job`.  The next
round is computed from the time before the completion notice (`finished`), not from that
of the commit.  A commit stores a column only if the writer changed what it had
read (`Stored`), as SQLAlchemy does: a request that pauses a task it has read as paused
writes no status at all.

## 4. What the runs check

| run | instance | properties | shows |
|---|---|---|---|
| `slots` | 2 rows, 1 process, 2 dispatchers, 1 slot, 2 claims per row, 1 fault | `TypeOK`, `SlotsConserved` | no path leaks or invents a slot, crashes, failed claims and drains included (2.6 million states) |
| `safety` | 1 row, 2 processes (symmetric), 3 claims, 1 fault, 1 late heartbeat | `SingleExecution`, `LateClaimNeverInfers`, `LifecycleUnlessClobbered` | who may execute a run, that a stop before the claim wins, and that only crossing UPDATEs break the lifecycle (2.4 million states) |
| `live` | 1 row, 2 processes, 4 claims, 1 fault | `EventuallySettled` | every run ends for good (330 thousand states) |
| `reopen` | 1 row, 1 process, 2 claims, 1 late heartbeat | `TerminalNeverReopened` violated | finding 1 |
| `dispatch_faults` | 2 tasks, 2 faults | `TypeOK`, `OneTaskAtATime`, `QueueNeverStalls`, `OneMessagePerTask` | the device queue under lost packets, lost connections, failed sends, failed claims and other database errors, handlers that raise and restarts (1.8 million states) |
| `dispatch_cancels` | 2 tasks, 1 cancellation | `OneTaskAtATime`, `QueueNeverStalls`, `OutcomesFinal`, `PollersAgree` | the device queue with the gateway committing between any two steps (1 million states) |
| `dispatch_live` | 2 tasks, 1 fault | `DispatchesSettle` | every task ends and every caller returns (460 thousand states) |
| `reconnect` | 1 task | `ReconnectDelivers` violated | finding 2 |
| `restart` | 1 task, 1 fault | `RestartKeepsTasks` violated | finding 3 |
| `workflow` | 4 cards of up to 4 steps, 2 tries, 1 or 3 events | `TypeOK`, `OneAttemptInFlight`, `StatusMatchesWork`, `UnsafeStepOnce`, `AttemptsWithinPolicy`, `EndedOnlyOverwritten`, `ApprovalStands`, `AnswerSettles`, `RunEnds` | one workflow run with its reviews, retries and deadlines, cancelled, paused and restarted between any two commits (290 thousand states) |
| `conversation` | 4 rows, 2 messages, 2 steps per run, 11 budgets | `TypeOK`, `OneLiveRun`, `PendingHasTaker`, `TakenOnce`, `NothingLeftUnread`, `PendingTaken` | who may start a second run, that an injected message has a taker, is taken once and reaches the model (590 thousand states) |
| `tasks` | 2 tasks, 4 rows, 7 scenarios, days and weeks of 2 | `TypeOK`, `OneTaskRuns`, `RunsBelong`, `CommandHolds`, `SupervisionBounded`, `NextRoundIsNext`, `QueuedTaskStarts` | one running task, commands that hold, bounded supervision, rounds in time, no due task forgotten (870 thousand states) |

Each property of a passing run has a mutant in `PROJECT.json`: a changed definition
under which TLC finds it violated.  Operators marked "Mutant:" in the modules are these.

`CHECK_DEADLOCK FALSE` is set in every cfg: each system stops when every row is
terminal and the bounded faults and users are used up.

### Bounds

`MaxAttempts` bounds claims of a row, `MaxFaults` crashes, signals, database errors and
lost packets together, `MaxDelays` heartbeats later than the lease, `MaxCancels`
cancellations by the gateway.  Two rows are needed for the claim order and for a sweep
that goes on after a claim; two processes for a requeued run whose old thread is alive;
three claims for a run that is put back after it was put back; two tasks for a queue
with one waiting.  One fault is enough to reach every failure path by itself; the
dispatch queue is given two, so that a restart meets a lost packet or a failed write
(acknowledgements get lost without using up the bound).  Faults and cancellations have
runs of their own because their product takes long; the product of one of each over two
tasks (8.3 million states), of two of each over one task, and two cancellations over two
tasks were explored without a violation.  Combinations of several faults are covered by
the proofs, which bound neither the faults nor the rows.

In `live` a row may be claimed four times.  A queued row whose claims were used up
would violate `EventuallySettled`, so the passing run also shows that this bound is
never what stops a run.

`workflow`: the cards have every kind of step: an unsafe tool before a review, a tool
in a nested card with an error branch, a condition that may skip a review, a delay, and
a tool that may be repeated.  `MCEvents` bounds cancels, pauses, restarts and results
that meet a locked row together, 3 of them in the cards with one attempt and 1 where a
retry doubles the attempts.

`conversation`: a budget gives the number of messages of web clients and of bots, of
wakes, stops, resumes and faults (a poll of a waiting AI, a crash, a failed load), and
how often the pool claims a row that a wake started its own thread for (`doubles`).  The
budgets are two messages of either kind with a fault or with a stop (six), one message
with a stop and a resume (two) or with a wake and a double (two), and two messages of
clients with a wake, so that one may be tagged while the wake is between its look and its
insert.  Two messages are a run and the injection into it, or two starters that cross;
four rows leave room for a run, a wake or a resume and two continuations.  Adding a
message of a client and one of a bot with a wake (2.6 million states in all) keeps the
safety properties; it is left out because the liveness check would take too long.

`tasks`: a scenario gives the schedule of the first task and the numbers of tasks,
commands, chats and crashes: (once,1,2,0,0), (once,2,1,0,0), (once,2,0,1,0),
(once,2,0,0,1), (interval,1,1,0,0), (daily,1,0,1,1), (weekly,2,0,0,0).  Two tasks of
different priority are one preemption; two commands are a pause with its resume.  A day
of two moments and a week of two days with one weekday contain "due right now", "later
today", "tomorrow" and "in a week".  Four rows are one more than any scenario keeps in
use: a row nobody refers to is used again.

### Fairness

`ChatRunQueue`: dispatcher steps (the 10 s tick and the freed-slot event exist for
lost NOTIFYs), threads, the life of a process (a supervisor restarts it), commits of
transactions that have read, the periodic watchdog for each row, and the clock as
long as the heartbeat is on time.  A model turn is assumed to end: the clients have
timeouts.  Claims that fail, users, crashes and signals are not fair.

`DispatchQueue`: the event loop takes its next step (the periodic sweep is one), the
deadline of a row passes, a poller polls and gives up.  Nothing is assumed of
devices, connections, users, the gateway, acknowledgements or HTTP requests.

`WorkflowRun`: an open section of the tick, a pause that holds the lock and a cancel
request finish (weak).  Reconciling an attempt and expiring a run recur with every tick,
but other sections disable them in between, so they are strongly fair: the scheduler
calls them in every iteration.  `AnswerSettles` needs no clock; only `RunEnds` assumes
that time goes on (`WF_vars(Tick)` is its premise).

`ChatSession`: dispatchers claim, the watchdog reaps, a thread whose process lives goes
on, and so does a backstop; a wake inserts its row right after it has looked
(`ai_message_service.py:451-521`), so a wake that has ended the live run of a tagged
message brings the run that takes it.  `TaskScheduler`: the tick (`gateway_periodic.py`
calls it in a loop that survives exceptions), the commit of a request, the threads of
the runs.  Nothing is assumed of users or crashes in either, of whether another AI wakes
this one, nor of the clock.

### How properties are qualified

`SingleExecution`, `LifecycleUnlessClobbered`, `OutcomesFinal` and `PollersAgree` hold
unless `clobbered`: two read-decide-commit transactions on one row crossed.  That is the
code's known limit (no row lock, no version column) and it is reachable; the findings
below show a consequence.  The properties say that this is the *only* way to break them.
`SingleExecution` further excludes heartbeats later than the lease, and lets a process
past its drain deadline overlap its successor, as the code does.  `QueueNeverStalls`
names the paths that free a device and resume nothing (the sweep, a cancellation the
connector was not told of, a failed send) and the exceptions that take a resume away (in
its claim, in the handler before it); `OneMessagePerTask` excludes database errors that
the connector swallows.

`ChatSession` and `TaskScheduler` name their gaps one by one in `lapses`, and each
property lists the ones that can break it:

| gap | what happened |
|---|---|
| `crossed` (conversation) | a row was inserted between the query of a starter and its insert |
| `straggled` | a row was ended (stop, wake, poll) while its thread goes on |
| `doubled` | a dispatcher claimed a row that a wake had started a thread for |
| `late` (conversation) | a message was tagged after the run it was meant for had ended |
| `cut` | a process died while it was doing something no other process repeats |
| `unserved` | a run ended that had no thread, hence no backstop |
| `crossed` (tasks) | a commit over a task, or its runs, changed since they were read |
| `masked` | another run of the AI hid the run to be preempted |
| `patched` | an update changed the status of a task and left its run alone |
| `late` (tasks) | a run renewed a task that a user had paused |
| `uncounted` | the gateway died between a supervision round and its count |
| `rerun` | a run was executed again after it had closed its task |

For every property and gap a run without the exemption shows the violation, so the lists
are as short as they can be.

### What the models show about the code

Not every disagreement is with a sentence of the repository; the ones below are, in the
runs above, the reason for a gap or for a disjunct of a property.

- A message that was injected, taken and answered by nobody is lost when its run is
  executed again: the run's own prompt replaces the latest user message
  (`conversation_history.py:106`), which by then is the injected one.  The same happens
  when a stopped run is resumed (`passed` in `Builds`).
- A message taken after the answer of the last allowed step completes the run without
  another turn (`OutOfSteps`).
- The bots save a message as ordinary history and tag it afterwards; a run that rebuilds
  its conversation in between reads it twice.  They also insert the row before they
  store its prompt.  The one for WeChat looks a second time and drops the message if a
  run has come up.
- Stopping a queued run leaves its tagged messages to the next message of the user.
- `_get_live_active_run` knows only threads of its own process and ends every claimed
  run of the worker pool, from `wait_for_reply` every half second.
- `ai_message_routing.py` (lines 15, 179, 225) uses `_get_live_active_run` and
  `_enqueue_unwaited_reply`, which it neither defines nor imports.
- `_start_task_run` writes "running" over whatever a user has committed since the tick
  read the task; closing a task writes "completed" over a stop or a pause.
- Preemption flags the most recently updated run of the AI, which may be a chat; the
  preempted task's run then goes on beside the new one.
- Resuming a paused task whose flagged run is still alive answers "running" and changes
  nothing; the status route changes the status and leaves the run alone.
- A manual resume does not reset `supervision_count`: the task is paused again as soon
  as its run ends.

### Findings

1. `chat_run_state.py:28-29` says that a terminal row is never reopened.  The
   watchdog reads stale rows, decides on that copy and updates by key
   (`heartbeat.py:58-76`): a run that completes or is stopped in between is queued
   and executed again.  (`api/models/chat.py:158-160` moreover says that the watchdog
   marks such rows "error", while it puts them back in the queue.)
2. `device_dispatch.py:375` promises that a task for an offline device waits for the
   device to reconnect.  Such a row is "pending" from the start; the resume at
   registration takes a pending row for a busy device, so the task is never sent.
3. `api/models/ai_runtime.py:40` says dispatch rows are persisted so that restarts
   lose no task in flight.  The sweep at startup ends every row of the previous
   process, whatever its lease, and the late answer is dropped.

## 5. What is proved

All theorems hold for any set of rows, tasks, processes and dispatchers and any
bounds, from the assumptions named in the modules: keys are numbers, the constants
that stand for "none" are not members, a process has finitely many dispatcher
threads and at least one slot.

**`ChatRunQueueProofs`.**  `TypeCorrect`: `Spec => []TypeOK`.  By itself `TypeOK` is
not inductive: a commit writes the status its thread decided on before, so
`WritesChecked` is needed: a thread about to commit has read an active status from
which its write is allowed.  The same invariant gives `LifecycleRespected`
(`Spec => LifecycleUnlessClobbered`): a commit that finds the row as it was read
follows an edge of the lifecycle.  `StoppedBeforeClaim`
(`Spec => []LateClaimNeverInfers`) rests on `LateClaimsSeeStop`: no writer takes a
stop flag down (`StopSticks`), so a thread that was claimed with the flag up finds
it up at the head of the loop.

**`ChatRunQueueSlotProofs`.**  `NoSlotLeaks`: `Spec => []SlotsConserved`.  It is a
counting argument over the cardinalities of the sets of slot holders and threads,
one lemma per way a slot moves.  It needs `AttemptsFresh` (a claim never reuses the
index of a live thread, otherwise the new thread would hide an old one) and
finiteness of the threads of a process.

**`ChatRunQueueOwnerProofs`.**  `OneThreadPerRun`: `Spec => []SingleExecution`.  A
thread is healthy while its process is not past its drain deadline.  The inductive
invariant `OwnerInv` says that, as long as no UPDATE crossed another and no heartbeat
was late, a healthy thread owns its row (`HealthyOwns`: the row carries its attempt and
its owner, the lease is ahead of the clock, it is not queued) and is in the snapshot of
no reaper (`HealthySpared`).  Two healthy threads of one row would both be its latest
claim.  The premise is needed in the invariant and not only in the property: what
disturbs a run never heals, so the invariant assumes less and less as steps are taken.

**`DispatchQueueProofs`.**  The inductive invariant is
`IInv == TypeOK /\ JobsSound /\ OnePending /\ CancelsRows`: at most one task is
pending; what a job of the event loop has read may have been ended by the gateway
but not otherwise moved; the gateway cancels rows that exist.  From it follow
`TypeCorrect`, `DeviceServesOneTask` (`Spec => OneTaskAtATime`, the refinement of
`DeviceSlot`: initial states map to initial states, and every step takes the free
device for one task, gives it back, or stutters), `OutcomesAreFinal` and
`PollersAgreeWithRows`.

**`DispatchQueueFlowProofs`.**  `QueueIsResumed`: `Spec => []QueueNeverStalls`.  The
property speaks of moments at which nobody is at work; the invariant `Owed` says for
every other moment who owes the queue a resume: a suspended coroutine, the handler that
has the event loop and where it stands in it, or a cancellation that is on its way from
the gateway.  A handler that raises, or whose claim does, drops what it owes, and says so
in `skipped`.  `AnswerSavedOnce`: `Spec => []OneMessagePerTask`.  A message is saved with
the answer of the device and before its row is ended, so the row must not return to the
queue in between: `Untold` and `SentOnce` say that a task which may yet be put back was
never told to its device, hence has no answer, and `Recorded` that the row of a saved
message has ended or is about to.

**`WorkflowRunProofs`.** A pause hides the status a run will come back to and a cancel
may fall between what a section reads and what it writes, so the invariant `IInv` speaks
of the effective status `Eff`, relates it to the attempts and the reviews (`Matching`,
`Behind`), and says of every open section what it may still rely on when it writes: that
nobody but itself can have put an attempt in flight, and that the run is where it was
read, paused from there, or cancelled.  There is one lemma per action.  From `IInv`
follow `TypeCorrect`, `NeverTwoInFlight`, `StatusIsTrue`, `UnsafeOnce` and `PolicyKept`;
`EndedStays` and `ApprovalIsKept` are action properties proved from it.  The card is any
compiled card:  `ProgramAssumption` assumes what the compiler guarantees, that jumps
only go forward.

**`ChatSessionProofs`.**  `TypeCorrect`; `PendingTakerExists`, which is inductive given
the types: each action leaves somebody who takes the tagged messages, or has met a gap;
and `OneRunAtATime`, which needs what a starter may rely on between its query and its
insert (`Watching`): as long as it has seen every row there is, no row has come to life
since, because an ended row never does (the edges of `RunStatus`).  `InjectTakenOnce`
(`Spec => []TakenOnce`) builds on it: one live run, and no thread beyond its row
(`ThreadsAlone`), leave one reader of the tags, so what a thread or a backstop has read
is still tagged and was never taken when its UPDATE comes (`HeldFresh`, `AdoptsFresh`).
`HistoryIsRead` (`Spec => []NothingLeftUnread`) follows every message no model has seen
through the hands that hold it (`InHand`): a sender that is about to start a run or to
tag it, a live run that has still to build its conversation, a thread whose conversation
contains it and whose turn comes.  A step may pass it from one to the next, and drops it
only where a run fails, is stopped or is cut off, or passes over it (`passed`).

**`TaskSchedulerProofs`.** `TypeCorrect` includes that the next occurrence of every
schedule is a moment.  `OneTaskAtATime` (`Bounded`): only the tick makes a task running,
so what it has read bounds what can be running when it commits, whatever users and runs
have taken out since.  `Supervised` (`Counted`): the count in the row, with the round
the tick is about to count, is never below the rounds there were.  `CommandsHold`
(`Obeyed`, `Asked`): a commit that finds the task as its reader saw it cannot undo a
command that was given before it read.  `RunsBelongToTheirTask` (`Spec => []RunsBelong`)
needs to know that a task is started only when no run of it is at work, and a queued
task has none:  `Belonging` says that a task has one run at work at most, which is the
last run of the running task or was told to stop; `EndedOver` that a run ended with its
task leaves that task ended, so its thread cannot close it; and the rest of `BelongInv`
what requests, ticks and closings in progress have seen.  Each way a task leaves
"running" is then either a crossing, the close by that one run, or tells it to stop.
`RoundsFollow` (`Spec => NextRoundIsNext`) says that only a run that closes a round
moves the schedule on, to the first moment after the end of the round; that the thread
stores it later, from the rounds it has read, changes nothing (`PlanRenewed`).  It rests
on `NextOccurrence`: for days and weeks of any length `next_loop_occurrence` is the
first moment after a given one that the schedule names.  It is proved from the
uniqueness of quotient and remainder (`PartsUnique`), and for weekly schedules from a
weekday that comes up within a week and a least element of the candidates
(`WeekdayComes`, `Smallest`).  `Schedules` therefore says what `normalize_schedule`
guarantees: a weekly schedule names a day.

**Only model-checked.**  The liveness properties `EventuallySettled`, `DispatchesSettle`,
`AnswerSettles`, `RunEnds`, `PendingTaken` and `QueuedTaskStarts`: they argue from
fairness, hence from `ENABLED`, which is out of the prover's reach.  Every other property
of a passing run is a theorem.

## 6. What is not modelled, and why

In `ChatRunQueue`: message texts, prompts, usage counters and events (data); a plan
that lets a task run exceed its step budget; rows that are not for the dispatchers
alone (wakes are in `ChatSession`; the local dispatch mode and the Codex bridge are not
modelled); the failure of `Thread.start`; sessions, which are `ChatSession`'s subject.

In `DispatchQueue`: tools, arguments and results (data); the workshop device, which has
no queue; the cache of task contexts (the row is its fallback); the in-process waiter of
a monolithic deployment; `redeliver_dispatch`, which belongs to the workflow engine
(`WorkflowRun` sends an attempt again under its own identifier); rows inserted by
processes other than the connector (the lock around the insert is local to a process);
the poller's error after three reads that find no row.  One device is modelled: queues
of different devices share nothing but the table.  A dispatch whose request raised is
still polled in the model; in the code the tool call has failed by then, so the model
has more callers than the code.

In `WorkflowRun`: creating a run and retrying it as a whole (limits, idempotency keys:
one transaction each), preparing a debug target, the stack of nested frames (a step
names where an error leaves its card), expressions and data of steps, the notifier that
tells an AI of a review, the confirm step the code no longer compiles.

In `ChatSession`: the local dispatch mode; the inbox, replies and reminders of AI
messages; compression of the history and plans (a plan lets a run exceed its steps);
attachments; requests that die half way (a start that has saved its message and inserts
no run leaves plain history); other conversations of the same AI.

In `TaskScheduler`: a user who chats in the conversation of a task, edits of schedule or
priority, the caps on tasks, completion notices and plans (a plan closes a task the way
a final answer does), other AIs, two requests of users at a time, time zones and changes
to summer time; several gateways, each of which would run a scheduler of its own.

Components 12 to 14 and 16 to 18 of the inventory are not modelled: the events of the
Codex bridge come from an agent outside the repository; tools, accounts and models are
request-response code without a protocol; remote control and push are planned last.
`PROJECT.json` gives the reason for each.
