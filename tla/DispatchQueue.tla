---------------------------- MODULE DispatchQueue ----------------------------
(***************************************************************************)
(* The durable queue of tool dispatches to one endpoint device.            *)
(*                                                                         *)
(* The connector runtime is one asyncio process: between two awaits a      *)
(* handler runs alone in it, so a handler is a sequence of jobs of the     *)
(* event loop.  Other processes share the rows only: the gateway cancels   *)
(* them, the ai runtime polls them.  Every job reads a row and commits an  *)
(* UPDATE in two steps, and a commit of the gateway may fall in between    *)
(* (READ COMMITTED, no lock is taken and the UPDATE matches on the key).   *)
(*                                                                         *)
(* Left out: tools, arguments, results, the chat text written for them,    *)
(* events for the UI, the built-in workshop device (it has no queue), the  *)
(* map that caches task contexts (the row is its fallback), the in-process *)
(* waiter of a monolithic deployment, and redeliver_dispatch.              *)
(***************************************************************************)
EXTENDS Naturals, FiniteSets

CONSTANTS
  Tasks,       \* keys of AgentDispatchTask rows, handed out in order of insertion
  NoTask,      \* no row
  Registered,  \* the registration handler, when it is about to resume the queue
  MaxFaults,   \* bound of the model: restarts, lost connections, lost or failed sends,
               \* database errors
  MaxCancels   \* bound of the model: cancellations by the gateway

ASSUME TasksAssumption  == Tasks \subseteq Nat /\ NoTask \notin Tasks /\ Registered \notin Tasks
ASSUME BoundsAssumption == MaxFaults \in Nat /\ MaxCancels \in Nat

VARIABLES
  status,     \* status[t]: column of the row, "absent" before the INSERT
  due,        \* due[t]: "lease" or "deadline" once that time has passed
  mine,       \* mine[t]: owner_instance_id is the running connector
  loop,       \* the job of the event loop
  stale,      \* rows the sweep has read, with the status it saw
  online,     \* the device is in the registry `agents`
  emitting,   \* <<task, handler>>: awaiting the emit of task:dispatch
  wake,       \* handlers that will resume the queue after their next await
  device,     \* device[t]: what the device knows of the task
  saved,      \* saved[t]: result messages written to the chat session
  caller,     \* caller[t]: what the poller in the ai runtime was told
  requests,   \* <<kind, task>>: HTTP requests on their way to the connector
  cancelling, \* cancelling[t]: status the gateway has read before its UPDATE
  faults, cancels,
  clobbered,  \* history: an UPDATE hit a row that had changed since it was read
  botched,    \* history: a finalize, a lookup or the boot sweep swallowed a database error
  skipped     \* history: a path left a free device alone with its queue

rowVars  == <<status, due, mine>>
userVars == <<device, saved, caller>>
vars == <<status, due, mine, loop, stale, online, emitting, wake, device, saved, caller,
          requests, cancelling, faults, cancels, clobbered, botched, skipped>>

------------------------------------------------------------------------------
(* State *)

ActiveStatuses   == {"queued", "pending"}
TerminalStatuses == {"completed", "error", "timeout", "cancelled"}
Statuses         == {"absent"} \union ActiveStatuses \union TerminalStatuses

LegalTransitions ==
  [queued  |-> {"pending", "timeout", "cancelled"},
   pending |-> {"completed", "error", "timeout", "cancelled"}]

\* can_transition: terminal states have no edge but the one to themselves.
CanTransition(current, target) ==
  current = target \/ (current \in ActiveStatuses /\ target \in LegalTransitions[current])

\* Jobs: "insert" has looked for rows ahead, "resume" is about to look for the
\* next task, "claim" has found one, "finalize" is about to read the row it will
\* end, "commit" has read it, "sweep" has read the stale rows, "boot" sweeps first.
Jobs == {"idle", "insert", "resume", "claim", "finalize", "commit", "sweep", "boot"}

\* On whose behalf a row is finalized (or put back) and what follows from it.
Handlers == {"none", "result", "expire", "cancel", "sendfail", "requeue"}

Job(pc, op, t, seen, write) == [pc |-> pc, op |-> op, task |-> t, seen |-> seen, write |-> write]
Idle      == Job("idle", "none", NoTask, "absent", "absent")
Resuming  == Job("resume", "none", NoTask, "absent", "absent")
Finalize(op, t, write) == Job("finalize", op, t, "absent", write)

Active  == {t \in Tasks : status[t] \in ActiveStatuses}
Pending == {t \in Tasks : status[t] = "pending"}
Queued  == {t \in Tasks : status[t] = "queued"}
Ended(t) == status[t] \in TerminalStatuses

\* A connected device has nothing to do while tasks are queued for it.
Stranded == online /\ Pending = {} /\ Queued # {}

Init ==
  /\ status     = [t \in Tasks |-> "absent"]
  /\ due        = [t \in Tasks |-> "no"]
  /\ mine       = [t \in Tasks |-> FALSE]
  /\ loop       = Idle
  /\ stale      = {}
  /\ online     = FALSE
  /\ emitting   = {}
  /\ wake       = {}
  /\ device     = [t \in Tasks |-> "none"]
  /\ saved      = [t \in Tasks |-> 0]
  /\ caller     = [t \in Tasks |-> "none"]
  /\ requests   = {}
  /\ cancelling = [t \in Tasks |-> "none"]
  /\ faults     = MaxFaults
  /\ cancels    = MaxCancels
  /\ clobbered  = FALSE
  /\ botched    = FALSE
  /\ skipped    = FALSE

Fault == faults > 0 /\ faults' = faults - 1

\* A new lease, or none any more: a passed deadline stays passed.
Renewed(t) == [due EXCEPT ![t] = IF @ = "lease" THEN "no" ELSE @]

------------------------------------------------------------------------------
(* Dispatching a task *)

\* Mutant: the row stores the status the caller is told.
PublicStatus == IF ~online THEN "waiting_device" ELSE "pending"

InsertedStatus == IF Active # {} THEN "queued" ELSE "pending"

\* enqueue_dispatch_row looks for an active row of the device ...
Enqueue(t) ==
  /\ loop = Idle
  /\ status[t] = "absent"
  /\ \A q \in Tasks : q < t => status[q] # "absent"
  /\ loop' = Job("insert", "none", t, "absent", InsertedStatus)
  /\ UNCHANGED <<rowVars, stale, online, emitting, wake, userVars, requests, cancelling,
                 faults, cancels, clobbered, botched, skipped>>

\* ... and inserts.  A pending task is emitted to a connected device and left to
\* itself otherwise; behind other tasks the queue is resumed at once.
Insert ==
  LET t == loop.task IN
  /\ loop.pc = "insert"
  /\ status' = [status EXCEPT ![t] = loop.write]
  /\ mine'   = [mine EXCEPT ![t] = TRUE]
  /\ caller' = [caller EXCEPT ![t] = "waiting"]
  /\ loop' = IF loop.write = "pending" THEN Idle ELSE Resuming
  /\ emitting' = emitting \union {x \in {<<t, "dispatch">>} : loop.write = "pending" /\ online}
  /\ UNCHANGED <<due, stale, online, wake, device, saved, requests, cancelling,
                 faults, cancels, clobbered, botched, skipped>>

------------------------------------------------------------------------------
(* resume_device_dispatch_queue *)

\* A handler that awaited something goes on to resume the queue.
ResumeBegins(h) ==
  /\ loop = Idle
  /\ h \in wake
  /\ wake' = wake \ {h}
  /\ loop' = Resuming
  /\ UNCHANGED <<rowVars, stale, online, emitting, userVars, requests, cancelling,
                 faults, cancels, clobbered, botched, skipped>>

\* ... or never gets there.  What it awaits before may raise: an event to the
\* user after a result, task:cancel and such an event after a cancellation,
\* device:registered after a registration.  And a cancellation whose lookups
\* failed does not learn that there is a queue to resume.
HandlerFails(h) ==
  /\ loop = Idle
  /\ h \in wake
  /\ Fault
  /\ wake' = wake \ {h}
  /\ skipped' = (skipped \/ Stranded)
  /\ UNCHANGED <<rowVars, loop, stale, online, emitting, userVars, requests, cancelling,
                 cancels, clobbered, botched>>

\* Mutant: the claim does not look for a pending row.
NeverBusy == FALSE

DeviceBusy == Pending # {}

\* Nothing to do: the device is gone, busy, or has no queued task ...
ResumeNothing ==
  /\ loop.pc = "resume"
  /\ ~online \/ DeviceBusy \/ Queued = {}
  /\ loop' = Idle
  /\ skipped' = (skipped /\ ~online)
  /\ UNCHANGED <<rowVars, stale, online, emitting, wake, userVars, requests, cancelling,
                 faults, cancels, clobbered, botched>>

\* ... or claim_next_queued has read the oldest queued row.
ResumeFinds(t) ==
  /\ loop.pc = "resume"
  /\ online
  /\ ~DeviceBusy
  /\ t \in Queued
  /\ \A q \in Queued : t <= q
  /\ loop' = Job("claim", "none", t, status[t], "pending")
  /\ skipped' = FALSE
  /\ UNCHANGED <<rowVars, stale, online, emitting, wake, userVars, requests, cancelling,
                 faults, cancels, clobbered, botched>>

\* claim_next_queued fails in a query or in its commit; the exception leaves the
\* handler.  (Failing after the commit it leaves what a lost packet leaves.)
ClaimFails ==
  /\ (loop.pc = "resume" /\ online) \/ loop.pc = "claim"
  /\ Fault
  /\ loop' = Idle
  /\ skipped' = (skipped \/ Stranded)
  /\ UNCHANGED <<rowVars, stale, online, emitting, wake, userVars, requests, cancelling,
                 cancels, clobbered, botched>>

\* It commits, and the handler awaits the emit.
ClaimCommit ==
  LET t == loop.task IN
  /\ loop.pc = "claim"
  /\ status' = [status EXCEPT ![t] = "pending"]
  /\ mine'   = [mine EXCEPT ![t] = TRUE]
  /\ due'    = Renewed(t)
  /\ clobbered' = (clobbered \/ status[t] # loop.seen)
  /\ emitting'  = emitting \union {<<t, "resume">>}
  /\ loop' = Idle
  /\ UNCHANGED <<stale, online, wake, userVars, requests, cancelling, faults, cancels,
                 botched, skipped>>

------------------------------------------------------------------------------
(* The emit *)

\* A device that has the task already drops the second copy.
Delivered(t) == [device EXCEPT ![t] = IF @ = "none" THEN "running" ELSE @]

\* The packet is out and reaches the device, unless the connection breaks with it.
Sent(t, h) ==
  /\ loop = Idle
  /\ <<t, h>> \in emitting
  /\ emitting' = emitting \ {<<t, h>>}
  /\ \/ device' = Delivered(t) /\ UNCHANGED faults
     \/ Fault /\ UNCHANGED device
  /\ UNCHANGED <<rowVars, loop, stale, online, wake, saved, caller, requests, cancelling,
                 cancels, clobbered, botched, skipped>>

\* The emit raises: a new dispatch ends in "error", a resumed one goes back to
\* the queue if it is still pending, and the exception leaves the handler.
SendFails(t, h) ==
  /\ loop = Idle
  /\ <<t, h>> \in emitting
  /\ Fault
  /\ emitting' = emitting \ {<<t, h>>}
  /\ loop' = IF h = "dispatch" THEN Finalize("sendfail", t, "error")
             ELSE IF status[t] = "pending" THEN Job("commit", "requeue", t, "pending", "queued")
             ELSE Idle
  /\ skipped' = (skipped \/ h = "resume")
  /\ UNCHANGED <<rowVars, stale, online, wake, userVars, requests, cancelling,
                 cancels, clobbered, botched>>

------------------------------------------------------------------------------
(* finalize_dispatch_row *)

\* Mutant: a finalize that lost its guard.
FinalizesAnything(t, target) == status[t] # "absent"

\* Terminal rows are left as they are; require_transition raises on a move that
\* is not legal, which is logged and answered like a terminal row.
Finalizable(t, target) == status[t] \in ActiveStatuses /\ CanTransition(status[t], target)

\* Mutant: an expiry that leaves the queue alone.
ForgetfulExpiry(op, t, done) == op = "sendfail"

\* Handlers that resume the queue at once ...
ResumesNow(op, t, done) == op = "sendfail" \/ (op = "expire" /\ done)

\* ... and those that await an event to the user before.
ResumesLater(op, t, done) ==
  op = "result" \/ (op = "cancel" /\ (done \/ status[t] = "cancelled"))

\* finalize_dispatch_row returned whether it changed the row.
HandlerGoesOn(op, t, done) ==
  /\ loop' = IF ResumesNow(op, t, done) THEN Resuming ELSE Idle
  /\ wake' = wake \union {x \in {t} : ResumesLater(op, t, done)}

FinalizeRead ==
  LET t == loop.task IN
  /\ loop.pc = "finalize"
  /\ IF Finalizable(t, loop.write)
       THEN loop' = Job("commit", loop.op, t, status[t], loop.write) /\ UNCHANGED wake
       ELSE HandlerGoesOn(loop.op, t, FALSE)
  /\ UNCHANGED <<rowVars, stale, online, emitting, userVars, requests, cancelling,
                 faults, cancels, clobbered, botched, skipped>>

\* The commit, for a finalize (which clears the lease) or for requeue_pending
\* (which renews it).
Commit ==
  LET t == loop.task IN
  /\ loop.pc = "commit"
  /\ status' = [status EXCEPT ![t] = loop.write]
  /\ due'    = Renewed(t)
  /\ clobbered' = (clobbered \/ status[t] # loop.seen)
  /\ HandlerGoesOn(loop.op, t, TRUE)
  /\ UNCHANGED <<mine, stale, online, emitting, userVars, requests, cancelling,
                 faults, cancels, botched, skipped>>

\* The database fails: a finalize logs it and returns False, a requeue raises.
CommitFails ==
  /\ loop.pc = "commit"
  /\ Fault
  /\ HandlerGoesOn(loop.op, loop.task, FALSE)
  /\ botched' = TRUE
  /\ UNCHANGED <<rowVars, stale, online, emitting, userVars, requests, cancelling,
                 cancels, clobbered, skipped>>

------------------------------------------------------------------------------
(* Results: the device repeats an answer until it is acknowledged *)

DeviceAnswers(t) ==
  /\ device[t] = "running"
  /\ device' = [device EXCEPT ![t] = "answered"]
  /\ UNCHANGED <<rowVars, loop, stale, online, emitting, wake, saved, caller, requests,
                 cancelling, faults, cancels, clobbered, botched, skipped>>

\* Progress renews the lease of a pending row of this connector.
Progress(t) ==
  /\ loop = Idle
  /\ online
  /\ device[t] = "running"
  /\ status[t] = "pending" /\ mine[t]
  /\ due[t] = "lease"
  /\ due' = Renewed(t)
  /\ UNCHANGED <<status, mine, loop, stale, online, emitting, wake, userVars, requests,
                 cancelling, faults, cancels, clobbered, botched, skipped>>

\* Mutant: only successful outcomes count as recorded.
OnlySuccessRecorded(t) == status[t] = "completed"

\* dispatch_has_recorded_outcome
RecordedOutcome(t) == Ended(t)

\* The acknowledgement may get lost.
Answered(t) == {[device EXCEPT ![t] = "acked"], device}

\* A repeated answer is acknowledged and nothing else.
DuplicateResult(t) ==
  /\ loop = Idle
  /\ online
  /\ device[t] = "answered"
  /\ RecordedOutcome(t)
  /\ device' \in Answered(t)
  /\ UNCHANGED <<rowVars, loop, stale, online, emitting, wake, saved, caller, requests,
                 cancelling, faults, cancels, clobbered, botched, skipped>>

\* A first answer, or one whose lookup failed, writes the chat message, then
\* finalizes the row.  Counting messages to two is a bound of the model.
ResultArrives(t) ==
  /\ loop = Idle
  /\ online
  /\ device[t] = "answered"
  /\ \/ ~RecordedOutcome(t) /\ UNCHANGED <<faults, botched>>
     \/ Fault /\ botched' = TRUE
  /\ saved[t] < 2
  /\ saved' = [saved EXCEPT ![t] = @ + 1]
  /\ device' \in Answered(t)
  /\ \E write \in {"completed", "error"} : loop' = Finalize("result", t, write)
  /\ UNCHANGED <<rowVars, stale, online, emitting, wake, caller, requests, cancelling,
                 cancels, clobbered, skipped>>

------------------------------------------------------------------------------
(* The poller of the ai runtime, and the gateway *)

PollerReads(t) ==
  /\ caller[t] = "waiting"
  /\ Ended(t)
  /\ caller' = [caller EXCEPT ![t] = status[t]]
  /\ UNCHANGED <<rowVars, loop, stale, online, emitting, wake, device, saved, requests,
                 cancelling, faults, cancels, clobbered, botched, skipped>>

\* The last poll saw an active row and time is up (the row's deadline is no later
\* than the poller's): the caller is told so, and the expiry is requested once,
\* without looking at the answer.
PollerGivesUp(t) ==
  /\ caller[t] = "waiting"
  /\ due[t] = "deadline"
  /\ caller' = [caller EXCEPT ![t] = "gaveup"]
  /\ \/ requests' = requests \union {<<"expire", t>>} /\ UNCHANGED faults
     \/ Fault /\ UNCHANGED requests
  /\ UNCHANGED <<rowVars, loop, stale, online, emitting, wake, device, saved,
                 cancelling, cancels, clobbered, botched, skipped>>

RequestArrives(t, kind) ==
  /\ loop = Idle
  /\ <<kind, t>> \in requests
  /\ requests' = requests \ {<<kind, t>>}
  /\ loop' = Finalize(kind, t, IF kind = "expire" THEN "timeout" ELSE "cancelled")
  /\ UNCHANGED <<rowVars, stale, online, emitting, wake, userVars, cancelling,
                 faults, cancels, clobbered, botched, skipped>>

\* A workflow run or a job is cancelled in the gateway, which reads the row ...
CancelRead(t) ==
  /\ cancels > 0
  /\ cancelling[t] = "none"
  /\ status[t] \in ActiveStatuses
  /\ cancelling' = [cancelling EXCEPT ![t] = status[t]]
  /\ cancels' = cancels - 1
  /\ UNCHANGED <<rowVars, loop, stale, online, emitting, wake, userVars, requests,
                 faults, clobbered, botched, skipped>>

\* ... and commits.  The route of a workflow run then tells the connector, and logs
\* it when the call fails; the route of a job has no device in its registry.  A
\* connector that is not told leaves the queue alone.
CancelCommit(t) ==
  /\ cancelling[t] # "none"
  /\ status' = [status EXCEPT ![t] = "cancelled"]
  /\ due' = Renewed(t)
  /\ clobbered' = (clobbered \/ status[t] # cancelling[t])
  /\ cancelling' = [cancelling EXCEPT ![t] = "none"]
  /\ \/ requests' = requests \union {<<"cancel", t>>} /\ UNCHANGED skipped
     \/ skipped' = TRUE /\ UNCHANGED requests
  /\ UNCHANGED <<mine, loop, stale, online, emitting, wake, userVars,
                 faults, cancels, botched>>

------------------------------------------------------------------------------
(* Leases, deadlines and the orphan sweep *)

LeaseLapses(t) ==
  /\ status[t] \in ActiveStatuses
  /\ due[t] = "no"
  /\ due' = [due EXCEPT ![t] = "lease"]
  /\ UNCHANGED <<status, mine, loop, stale, online, emitting, wake, userVars, requests,
                 cancelling, faults, cancels, clobbered, botched, skipped>>

DeadlinePasses(t) ==
  /\ status[t] \in ActiveStatuses \/ caller[t] = "waiting"
  /\ due[t] # "deadline"
  /\ due' = [due EXCEPT ![t] = "deadline"]
  /\ UNCHANGED <<status, mine, loop, stale, online, emitting, wake, userVars, requests,
                 cancelling, faults, cancels, clobbered, botched, skipped>>

\* Mutant: a sweep over the tasks handed to a device only.
OrphansInFlight == {t \in Pending : due[t] # "no" \/ ~mine[t]}

Orphans == {t \in Active : due[t] # "no" \/ ~mine[t]}

SweepRead ==
  /\ loop = Idle \/ loop.pc = "boot"
  /\ Orphans # {}
  /\ stale' = {<<t, status[t]>> : t \in Orphans}
  /\ loop'  = Job("sweep", "none", NoTask, "absent", "timeout")
  /\ UNCHANGED <<rowVars, online, emitting, wake, userVars, requests, cancelling,
                 faults, cancels, clobbered, botched, skipped>>

Swept(t) == \E s \in ActiveStatuses : <<t, s>> \in stale

\* One transaction ends them all and resumes nothing.
SweepCommit ==
  /\ loop.pc = "sweep"
  /\ status' = [t \in Tasks |-> IF Swept(t) THEN "timeout" ELSE status[t]]
  /\ clobbered' = (clobbered \/ \E t \in Tasks : Swept(t) /\ <<t, status[t]>> \notin stale)
  /\ due' = [t \in Tasks |-> IF Swept(t) THEN Renewed(t)[t] ELSE due[t]]
  /\ stale' = {}
  /\ loop'  = Idle
  /\ skipped' = TRUE
  /\ UNCHANGED <<mine, online, emitting, wake, userVars, requests, cancelling,
                 faults, cancels, botched>>

\* At startup there may be nothing to sweep, or the sweep raises and is logged.
BootSweepsNothing ==
  /\ loop.pc = "boot"
  /\ \/ Orphans = {} /\ UNCHANGED <<faults, botched>>
     \/ Fault /\ botched' = TRUE
  /\ loop' = Idle
  /\ UNCHANGED <<rowVars, stale, online, emitting, wake, userVars, requests, cancelling,
                 cancels, clobbered, skipped>>

------------------------------------------------------------------------------
(* The device's connection and the connector process *)

\* A device may come back on a new connection before the loss of the old one was
\* noticed; what was under way to the old one may be lost.
Registers ==
  /\ loop = Idle
  /\ online' = TRUE
  /\ \/ ~online /\ UNCHANGED <<emitting, faults>>
     \/ online /\ Fault /\ emitting' \in {emitting, {}}
  /\ wake' = wake \union {Registered}
  /\ UNCHANGED <<rowVars, loop, stale, userVars, requests, cancelling,
                 cancels, clobbered, botched, skipped>>

\* An emit under way to the lost connection is dropped without an error.
Disconnects ==
  /\ loop = Idle
  /\ online
  /\ Fault
  /\ online' = FALSE
  /\ emitting' = {}
  /\ UNCHANGED <<rowVars, loop, stale, wake, userVars, requests, cancelling,
                 cancels, clobbered, botched, skipped>>

\* A new process: a new instance id, no coroutine, no connection.
Restart ==
  /\ Fault
  /\ loop'     = Job("boot", "none", NoTask, "absent", "absent")
  /\ stale'    = {}
  /\ online'   = FALSE
  /\ emitting' = {}
  /\ wake'     = {}
  /\ requests' = {}
  /\ mine'     = [t \in Tasks |-> FALSE]
  /\ UNCHANGED <<status, due, userVars, cancelling, cancels, clobbered, botched, skipped>>

------------------------------------------------------------------------------

LoopStep ==
  \/ Insert \/ ResumeNothing \/ (\E t \in Tasks : ResumeFinds(t)) \/ ClaimCommit
  \/ FinalizeRead \/ Commit \/ SweepRead \/ SweepCommit \/ BootSweepsNothing

Next ==
  \/ LoopStep
  \/ \E t \in Tasks :
       \/ Enqueue(t)
       \/ DeviceAnswers(t) \/ Progress(t) \/ DuplicateResult(t) \/ ResultArrives(t)
       \/ PollerReads(t) \/ PollerGivesUp(t)
       \/ CancelRead(t) \/ CancelCommit(t)
       \/ LeaseLapses(t) \/ DeadlinePasses(t)
  \/ \E t \in Tasks, h \in {"dispatch", "resume"} : Sent(t, h) \/ SendFails(t, h)
  \/ \E t \in Tasks, kind \in {"expire", "cancel"} : RequestArrives(t, kind)
  \/ \E h \in Tasks \union {Registered} : ResumeBegins(h) \/ HandlerFails(h)
  \/ ClaimFails \/ CommitFails \/ Registers \/ Disconnects \/ Restart

Spec == Init /\ [][Next]_vars

\* The event loop runs, clocks advance, the sweep comes round, pollers poll and
\* give up.  Devices, users and the gateway owe nothing.
Fairness ==
  /\ WF_vars(LoopStep)
  /\ \A t \in Tasks : WF_vars(DeadlinePasses(t)) /\ WF_vars(PollerReads(t) \/ PollerGivesUp(t))

FairSpec == Spec /\ Fairness

------------------------------------------------------------------------------
(* Properties *)

TypeOK ==
  /\ status \in [Tasks -> Statuses]
  /\ due \in [Tasks -> {"no", "lease", "deadline"}]
  /\ mine \in [Tasks -> BOOLEAN]
  /\ loop \in [pc : Jobs, op : Handlers, task : Tasks \union {NoTask},
               seen : Statuses, write : Statuses]
  /\ stale \subseteq Tasks \X ActiveStatuses
  /\ online \in BOOLEAN
  /\ emitting \subseteq Tasks \X {"dispatch", "resume"}
  /\ wake \subseteq Tasks \union {Registered}
  /\ device \in [Tasks -> {"none", "running", "answered", "acked"}]
  /\ saved \in [Tasks -> 0..2]
  /\ caller \in [Tasks -> {"none", "waiting", "gaveup"} \union TerminalStatuses]
  /\ requests \subseteq {"expire", "cancel"} \X Tasks
  /\ cancelling \in [Tasks -> {"none"} \union ActiveStatuses]
  /\ faults \in Nat /\ cancels \in Nat
  /\ clobbered \in BOOLEAN /\ botched \in BOOLEAN /\ skipped \in BOOLEAN

\* The device serves one task at a time: the pending rows behave like DeviceSlot,
\* through requeues, cancellations by the gateway, sweeps and restarts.
Slot == INSTANCE DeviceSlot WITH served <- Pending
OneTaskAtATime == Slot!Spec

\* No queued task waits for a connected device that has nothing to do, once the
\* handlers that owe a resume have run, unless the device came free through the
\* sweep, a cancellation the connector was not told of or a failed send, or the
\* resume was lost to an exception: its claim failed, or its handler before it.
QueueNeverStalls ==
  (/\ Stranded
   /\ loop = Idle /\ wake = {} /\ emitting = {} /\ requests = {}) => skipped

\* An outcome is final: a late answer, a repeated cancellation or an expiry never
\* rewrites a terminal row, and other changes follow LEGAL_DISPATCH_TRANSITIONS
\* or put an unsent task back, unless an UPDATE overwrote a change it had not read.
OutcomesFinal ==
  [][clobbered' \/ \A t \in Tasks :
       \/ status[t] = "absent"
       \/ CanTransition(status[t], status'[t])
       \/ status[t] = "pending" /\ status'[t] = "queued" /\ loop.op = "requeue"]_vars

\* An answer repeated after a lost acknowledgement adds no second chat message,
\* unless the row could not be written.
OneMessagePerTask == ~botched => \A t \in Tasks : saved[t] <= 1

\* What a poller read off a terminal row stays true of the row.
PollersAgree ==
  ~clobbered => \A t \in Tasks : caller[t] \in TerminalStatuses => status[t] = caller[t]

\* Every dispatched task ends and every poller returns, whatever gets lost.
DispatchesSettle ==
  \A t \in Tasks : status[t] \in ActiveStatuses ~> (Ended(t) /\ caller[t] # "waiting")

\* "Task is waiting for ... to reconnect": a task accepted for a device that is
\* offline is sent once the device is back.
ReconnectDelivers ==
  (online /\ loop = Idle /\ wake = {} /\ emitting = {}) =>
    \A t \in Pending : device[t] # "none"

\* "Persisted so connector-runtime restarts don't lose tasks in-flight": the sweep
\* ends no task within its lease and its deadline.
RestartKeepsTasks ==
  [][\A t \in Tasks : loop.pc = "sweep" /\ status[t] = "pending" /\ due[t] = "no"
                        => status'[t] = "pending"]_vars
==============================================================================
