----------------------------- MODULE ChatRunQueue -----------------------------
(***************************************************************************)
(* The durable queue of chat runs.  The gateway inserts ChatRun rows, the  *)
(* dispatchers of several ai-runtime processes claim them, one thread per  *)
(* claim drives the inference loop, heartbeats renew a lease, and rows     *)
(* whose lease lapsed are put back in the queue.                           *)
(*                                                                         *)
(* Granularity: Postgres runs at READ COMMITTED and, except for the claim  *)
(* (SELECT ... FOR UPDATE SKIP LOCKED), every writer of a row first reads  *)
(* it, decides, and commits an UPDATE of the columns it changed.  Such a   *)
(* transaction is two actions here, so another writer may commit between   *)
(* them.  The claim is one action.  A transaction that fails has done      *)
(* nothing; its failure is an action where the caller goes on differently. *)
(*                                                                         *)
(* Left out: message texts, prompts, usage counters, live-phase events,    *)
(* the plan that lets a task run exceed its step budget, and the rows that *)
(* are not for the dispatchers alone: those of the local dispatch mode, of *)
(* an AI message that wakes its addressee (both start a thread where the   *)
(* row is inserted) and of the Codex bridge.                               *)
(***************************************************************************)
EXTENDS RunStatus, Naturals, FiniteSets

CONSTANTS
  Runs,           \* primary keys of ChatRun rows; the claim is in key order
  Workers,        \* ai-runtime processes
  Dispatchers,    \* threads that sweep the queue in one process
  Gateway,        \* the process whose watchdog reaps stale rows
  NoWorker,       \* the NULL of the worker_instance_id column
  MaxConcurrent,  \* run slots of one process (ai_runtime_max_concurrent)
  MaxSteps,       \* inference steps of one execution (max_steps)
  MaxAttempts,    \* bound of the model: claims of one row
  MaxFaults,      \* bound of the model: crashes, signals, database errors
  MaxDelays       \* bound of the model: heartbeats later than the lease

ASSUME RunsAssumption     == Runs \subseteq Nat
ASSUME WorkersAssumption  == NoWorker \notin Workers /\ Gateway \notin Workers
ASSUME BoundsAssumption   ==
  /\ IsFiniteSet(Dispatchers)
  /\ MaxConcurrent \in Nat \ {0}
  /\ MaxSteps \in Nat \ {0}
  /\ MaxAttempts \in Nat \ {0}
  /\ MaxFaults \in Nat
  /\ MaxDelays \in Nat

VARIABLES
  row,      \* row[r]: the ChatRun row with key r
  exec,     \* exec[e]: the thread started by claim number e[2] of row e[1]
  proc,     \* proc[w]: life of an ai-runtime process
  disp,     \* disp[w][d]: where a dispatcher thread stands in its sweep
  free,     \* free[w]: value of the semaphore _run_slots
  active,   \* active[w]: the set _active_run_ids
  requeue,  \* requeue[p]: <<row, attempt>> pairs p has read and will put back
  stopping, \* stopping[r]: the status a stop request has read, "none" without one
  faults,   \* faults still to come
  delays,   \* late heartbeats still to come
  clobbered \* history: some UPDATE hit a row that had changed since it was read

vars == <<row, exec, proc, disp, free, active, requeue, stopping, faults, delays, clobbered>>

------------------------------------------------------------------------------
(* State *)

Attempts == 1..MaxAttempts
Execs    == Runs \X Attempts
Reapers  == Workers \union {Gateway}

RunOf(e) == e[1]

\* lease: "none" stands for NULL, "live" for a deadline ahead of the clock,
\* "lapsed" for one behind it.
Row == [status  : KnownStatuses \union {"absent"},
        stop    : BOOLEAN,
        owner   : Workers \union {NoWorker},
        lease   : {"none", "live", "lapsed"},
        attempt : 0..MaxAttempts]

NoRow == [status |-> "absent", stop |-> FALSE, owner |-> NoWorker,
          lease |-> "none", attempt |-> 0]

\* Where the thread of a claim stands:
\*   claimed     started, not yet registered in _active_run_ids
\*   registered  loading the arguments of the run
\*   setting     about to read the row in order to write status `goal`
\*   commit      has read the row and will commit status `write`
\*   check       at the head of the inference loop
\*   turn        inside a model turn
\*   closing     the run is over for this thread, the slot is still held
Phases == {"none", "claimed", "registered", "setting", "commit",
           "check", "turn", "closing"}

\* "crashed" is the goal of the two handlers of _execute_run that write
\* "error" without looking at the stop flag.
Goals == {"none", "running", "completed", "error", "stopped", "crashed"}

Exec == [pc     : Phases,
         worker : Workers \union {NoWorker},
         step   : 0..MaxSteps,
         goal   : Goals,
         seen   : ActiveStatuses \union {"none"},   \* status read before `write`
         write  : KnownStatuses \union {"none"},
         late   : BOOLEAN]     \* history: the stop flag was set at the claim

NoExec == [pc |-> "none", worker |-> NoWorker, step |-> 0, goal |-> "none",
           seen |-> "none", write |-> "none", late |-> FALSE]

Live(e)        == exec[e].pc # "none"
Threads(w)     == {e \in Execs : Live(e) /\ exec[e].worker = w}
SlotHolders(w) == {d \in Dispatchers : disp[w][d] = "slot"}
Queued         == {r \in Runs : row[r].status = "queued"}
Running        == {r \in Runs : row[r].status = "running"}

Init ==
  /\ row      = [r \in Runs |-> NoRow]
  /\ exec     = [e \in Execs |-> NoExec]
  /\ proc     = [w \in Workers |-> "up"]
  /\ disp     = [w \in Workers |-> [d \in Dispatchers |-> "idle"]]
  /\ free     = [w \in Workers |-> MaxConcurrent]
  /\ active   = [w \in Workers |-> {}]
  /\ requeue  = [p \in Reapers |-> {}]
  /\ stopping = [r \in Runs |-> "none"]
  /\ faults   = MaxFaults
  /\ delays   = MaxDelays
  /\ clobbered = FALSE

Fault == faults > 0 /\ faults' = faults - 1

------------------------------------------------------------------------------
(* The gateway: creating and stopping runs *)

\* A start, resume or inject route inserts a queued row.
Create(r) ==
  /\ row[r].status = "absent"
  /\ row' = [row EXCEPT ![r] = [NoRow EXCEPT !.status = "queued"]]
  /\ UNCHANGED <<exec, proc, disp, free, active, requeue, stopping, faults, delays, clobbered>>

\* The stop route reads the row and answers "already finished" for a terminal one.
StopRead(r) ==
  /\ stopping[r] = "none"
  /\ row[r].status \in ActiveStatuses
  /\ stopping' = [stopping EXCEPT ![r] = row[r].status]
  /\ UNCHANGED <<row, exec, proc, disp, free, active, requeue, faults, delays, clobbered>>

\* request_stop set both columns from what was read; the UPDATE commits.
StopCommit(r) ==
  /\ stopping[r] # "none"
  /\ row' = [row EXCEPT ![r].stop = TRUE, ![r].status = "stopped"]
  /\ clobbered' = (clobbered \/ row[r].status # stopping[r])
  /\ stopping' = [stopping EXCEPT ![r] = "none"]
  /\ UNCHANGED <<exec, proc, disp, free, active, requeue, faults, delays>>

\* Pausing a task and preempting one only raise the flag of the active run.
FlagStop(r) ==
  /\ row[r].status \in ActiveStatuses
  /\ ~row[r].stop
  /\ row' = [row EXCEPT ![r].stop = TRUE]
  /\ UNCHANGED <<exec, proc, disp, free, active, requeue, stopping, faults, delays, clobbered>>

------------------------------------------------------------------------------
(* Leases and the watchdog *)

\* Threads whose heartbeat companion is running.
Beating(e) == exec[e].pc \in {"setting", "commit", "check", "turn"} /\ exec[e].goal # "crashed"

\* heartbeat.tick: renews by run_id, whoever owns the row.  The read and the
\* UPDATE are one action: the UPDATE touches nothing but the lease, which no
\* one reads unless the row is running.
Tick(e) ==
  LET r == RunOf(e) IN
  /\ Beating(e)
  /\ row[r].status = "running"
  /\ row[r].lease # "live"
  /\ row' = [row EXCEPT ![r].lease = "live"]
  /\ UNCHANGED <<exec, proc, disp, free, active, requeue, stopping, faults, delays, clobbered>>

\* Time passes the deadline of a running row.  While a thread of the run lives
\* that is a delay: a heartbeat later than the lease.
LeaseLapses(r) ==
  /\ row[r].status = "running" /\ row[r].lease = "live"
  /\ row' = [row EXCEPT ![r].lease = "lapsed"]
  /\ IF \E e \in Execs : RunOf(e) = r /\ Live(e)
       THEN delays > 0 /\ delays' = delays - 1
       ELSE UNCHANGED delays
  /\ UNCHANGED <<exec, proc, disp, free, active, requeue, stopping, faults, clobbered>>

\* Mutant: a reaper that takes every running row for an orphan.
EveryRunningRow(S) == S = Running

\* Mutant: a reaper without the fallback for rows that carry no lease.
LapsedRowsOnly(S) == S = {r \in Running : row[r].lease = "lapsed"}

\* Rows reap_stale_runs selects: every lapsed lease, and a row without a lease
\* once its timestamps are old enough (any subset of those, then).
StaleRows(S) ==
  /\ S \subseteq {r \in Running : row[r].lease # "live"}
  /\ {r \in Running : row[r].lease = "lapsed"} \subseteq S

\* What a reading transaction remembers of the rows it selected.  The attempt
\* is history: the UPDATE matches on the primary key alone.
Snapshot(S) == {<<r, row[r].attempt>> : r \in S}

\* The watchdog of the gateway reads the running rows.
ReapRead ==
  /\ requeue[Gateway] = {}
  /\ \E S \in SUBSET Runs :
       /\ S # {}
       /\ StaleRows(S)
       /\ requeue' = [requeue EXCEPT ![Gateway] = Snapshot(S)]
  /\ UNCHANGED <<row, exec, proc, disp, free, active, stopping, faults, delays, clobbered>>

\* Mutant: a requeue that starts the run over, stop flag included.
BackToQueueAfresh(S) ==
  [r \in Runs |-> IF \E a \in 0..MaxAttempts : <<r, a>> \in S
                    THEN [NoRow EXCEPT !.status = "queued", !.attempt = row[r].attempt]
                    ELSE row[r]]

\* What the transactions that give runs back to the queue write.
BackToQueue(S) ==
  [r \in Runs |-> IF \E a \in 0..MaxAttempts : <<r, a>> \in S
                    THEN [row[r] EXCEPT !.status = "queued", !.owner = NoWorker,
                                        !.lease = "none"]
                    ELSE row[r]]

\* The row is still the running one of the same claim.
Unchanged(e) == row[RunOf(e)].status = "running" /\ row[RunOf(e)].attempt = e[2]

\* ... and its commit, for the watchdog, a boot sweep or a draining process.
RequeueCommit(p) ==
  /\ requeue[p] # {}
  /\ row' = BackToQueue(requeue[p])
  /\ clobbered' = (clobbered \/ \E e \in requeue[p] : ~Unchanged(e))
  /\ requeue' = [requeue EXCEPT ![p] = {}]
  /\ UNCHANGED <<exec, proc, disp, free, active, stopping, faults, delays>>

------------------------------------------------------------------------------
(* The dispatcher threads of an ai-runtime process *)

\* A NOTIFY, a freed slot or the 10 s tick starts a sweep.
SweepBegins(w, d) ==
  /\ proc[w] = "up"
  /\ disp[w][d] = "idle"
  /\ disp' = [disp EXCEPT ![w][d] = "sweep"]
  /\ UNCHANGED <<row, exec, proc, free, active, requeue, stopping, faults, delays, clobbered>>

\* Mutant: an off-by-one in the non-blocking acquire.
HasSlotOffByOne(w) == free[w] >= 0

HasSlot(w) == free[w] > 0

AcquireSlot(w, d) ==
  /\ disp[w][d] = "sweep"
  /\ HasSlot(w)
  /\ disp' = [disp EXCEPT ![w][d] = "slot"]
  /\ free' = [free EXCEPT ![w] = @ - 1]
  /\ UNCHANGED <<row, exec, proc, active, requeue, stopping, faults, delays, clobbered>>

NoFreeSlot(w, d) ==
  /\ disp[w][d] = "sweep"
  /\ ~HasSlot(w)
  /\ disp' = [disp EXCEPT ![w][d] = "idle"]
  /\ UNCHANGED <<row, exec, proc, free, active, requeue, stopping, faults, delays, clobbered>>

\* Some transaction is about to UPDATE the row, and may hold its row lock.
MaybeLocked(r) ==
  \/ stopping[r] # "none"
  \/ \E p \in Reapers, a \in 0..MaxAttempts : <<r, a>> \in requeue[p]
  \/ \E e \in Execs : RunOf(e) = r /\ exec[e].pc = "commit"

\* ORDER BY id ... SKIP LOCKED: the oldest queued row that is not locked.
Claimable(r) ==
  /\ row[r].status = "queued"
  /\ \A q \in Queued : q < r => MaybeLocked(q)

ClaimedRow(w, r) ==
  [row[r] EXCEPT !.status = "running", !.owner = w, !.lease = "live", !.attempt = @ + 1]

\* _claim_one_queued_run found a row; its thread is started and the sweep goes on.
Claim(w, d, r) ==
  /\ disp[w][d] = "slot"
  /\ Claimable(r)
  /\ row[r].attempt < MaxAttempts
  /\ row'  = [row EXCEPT ![r] = ClaimedRow(w, r)]
  /\ exec' = [exec EXCEPT ![<<r, row[r].attempt + 1>>] =
                [NoExec EXCEPT !.pc = "claimed", !.worker = w, !.late = row[r].stop]]
  /\ disp' = [disp EXCEPT ![w][d] = "sweep"]
  /\ UNCHANGED <<proc, free, active, requeue, stopping, faults, delays, clobbered>>

\* Mutant: a path that forgets _run_slots.release.
SlotKept(w) == free

\* The slot goes back before the sweep ends, ...
ReleasedSlot(w) == [free EXCEPT ![w] = @ + 1]

\* ... when the query returns no row, ...
ClaimNothing(w, d) ==
  /\ disp[w][d] = "slot"
  /\ \A r \in Queued : MaybeLocked(r)
  /\ disp' = [disp EXCEPT ![w][d] = "idle"]
  /\ free' = ReleasedSlot(w)
  /\ UNCHANGED <<row, exec, proc, active, requeue, stopping, faults, delays, clobbered>>

\* ... and when the claim raises.
ClaimFails(w, d) ==
  /\ disp[w][d] = "slot"
  /\ Fault
  /\ disp' = [disp EXCEPT ![w][d] = "idle"]
  /\ free' = ReleasedSlot(w)
  /\ UNCHANGED <<row, exec, proc, active, requeue, stopping, delays, clobbered>>

------------------------------------------------------------------------------
(* The thread of a claimed run *)

SetPc(e, pc)         == exec' = [exec EXCEPT ![e].pc = pc]
SetGoal(e, goal)     == exec' = [exec EXCEPT ![e].pc = "setting", ![e].goal = goal]

Register(e) ==
  /\ exec[e].pc = "claimed"
  /\ SetPc(e, "registered")
  /\ active' = [active EXCEPT ![exec[e].worker] = @ \union {RunOf(e)}]
  /\ UNCHANGED <<row, proc, disp, free, requeue, stopping, faults, delays, clobbered>>

\* _load_worker_kwargs raised: the user of the run is gone, or a query failed.
LoadFails(e) ==
  /\ exec[e].pc = "registered"
  /\ SetGoal(e, "crashed")
  /\ UNCHANGED <<row, proc, disp, free, active, requeue, stopping, faults, delays, clobbered>>

\* start_worker_run looks at the stop flag first.
StartGoal(e) == IF row[RunOf(e)].stop THEN "stopped" ELSE "running"

StartWorker(e) ==
  /\ exec[e].pc = "registered"
  /\ SetGoal(e, StartGoal(e))
  /\ UNCHANGED <<row, proc, disp, free, active, requeue, stopping, faults, delays, clobbered>>

\* The status a writer wants after it has read row r: _run_set_status turns
\* every other status into "stopped" once the flag is up.
Target(r, goal) ==
  IF goal = "crashed" THEN "error" ELSE IF row[r].stop THEN "stopped" ELSE goal

\* Mutant: a write that does not ask set_status.
AcceptedBlindly(e) == row[RunOf(e)].status \in ActiveStatuses

\* Whether set_status lets the write of thread e through.
Accepted(e) == ValidTransition(row[RunOf(e)].status, Target(RunOf(e), exec[e].goal))

\* start_worker_run ignores what became of its write and enters the loop.
AfterWrite(e) == IF exec[e].goal = "running" THEN "check" ELSE "closing"

\* _run_set_status (or a handler of _execute_run) reads the row ...
WriteRead(e) ==
  /\ exec[e].pc = "setting"
  /\ exec' = IF Accepted(e)
               THEN [exec EXCEPT ![e].pc = "commit", ![e].seen = row[RunOf(e)].status,
                                 ![e].write = Target(RunOf(e), exec[e].goal)]
               ELSE [exec EXCEPT ![e].pc = AfterWrite(e)]
  /\ UNCHANGED <<row, proc, disp, free, active, requeue, stopping, faults, delays, clobbered>>

\* The UPDATE carries the columns that changed: "running" written over a status
\* read as "running" (start_worker_run after a claim) leaves it out.
StatusChanges(e) == exec[e].write # exec[e].seen

\* ... and commits the status it decided on.
WriteCommit(e) ==
  /\ exec[e].pc = "commit"
  /\ row'  = IF StatusChanges(e) THEN [row EXCEPT ![RunOf(e)].status = exec[e].write] ELSE row
  /\ exec' = [exec EXCEPT ![e].pc = AfterWrite(e), ![e].write = "none", ![e].seen = "none"]
  /\ clobbered' = (clobbered \/ (StatusChanges(e) /\ row[RunOf(e)].status # exec[e].seen))
  /\ UNCHANGED <<proc, disp, free, active, requeue, stopping, faults, delays>>

\* The database fails in such a write.  The exception reaches the handler of
\* _execute_run, which writes "error"; if that fails too the thread ends.
WriteFails(e) ==
  /\ exec[e].pc \in {"setting", "commit"}
  /\ Fault
  /\ exec' = IF exec[e].goal = "crashed"
               THEN [exec EXCEPT ![e].pc = "closing", ![e].write = "none", ![e].seen = "none"]
               ELSE [exec EXCEPT ![e].pc = "setting", ![e].write = "none", ![e].seen = "none",
                                 ![e].goal = "crashed"]
  /\ UNCHANGED <<row, proc, disp, free, active, requeue, stopping, delays, clobbered>>

\* Head of the loop: budget, then stop flag.
StepLeft(e) == exec[e].step < MaxSteps

StepBegins(e) ==
  /\ exec[e].pc = "check"
  /\ StepLeft(e)
  /\ exec' = IF row[RunOf(e)].stop
               THEN [exec EXCEPT ![e].step = @ + 1, ![e].pc = "setting", ![e].goal = "stopped"]
               ELSE [exec EXCEPT ![e].step = @ + 1, ![e].pc = "turn"]
  /\ UNCHANGED <<row, proc, disp, free, active, requeue, stopping, faults, delays, clobbered>>

\* The budget is spent: step-limit notice, then complete_run.
StepLimit(e) ==
  /\ exec[e].pc = "check"
  /\ ~StepLeft(e)
  /\ SetGoal(e, "completed")
  /\ UNCHANGED <<row, proc, disp, free, active, requeue, stopping, faults, delays, clobbered>>

\* A turn that saw the stop flag ends in stop_run.
TurnStops(e) ==
  /\ exec[e].pc = "turn"
  /\ row[RunOf(e)].stop
  /\ SetGoal(e, "stopped")
  /\ UNCHANGED <<row, proc, disp, free, active, requeue, stopping, faults, delays, clobbered>>

\* A final answer completes the run ...
TurnCompletes(e) ==
  /\ exec[e].pc = "turn"
  /\ ~row[RunOf(e)].stop
  /\ SetGoal(e, "completed")
  /\ UNCHANGED <<row, proc, disp, free, active, requeue, stopping, faults, delays, clobbered>>

\* ... a tool batch or a retried model error asks for another turn, ...
TurnContinues(e) ==
  /\ exec[e].pc = "turn"
  /\ SetPc(e, "check")
  /\ UNCHANGED <<row, proc, disp, free, active, requeue, stopping, faults, delays, clobbered>>

\* ... a model error beyond the retries, or any exception, ends in "error".
TurnFails(e) ==
  /\ exec[e].pc = "turn"
  /\ SetGoal(e, "error")
  /\ UNCHANGED <<row, proc, disp, free, active, requeue, stopping, faults, delays, clobbered>>

\* The finally block of _execute_run_with_slot.
Release(e) ==
  LET w == exec[e].worker IN
  /\ exec[e].pc = "closing"
  /\ active' = [active EXCEPT ![w] = @ \ {RunOf(e)}]
  /\ free'   = ReleasedSlot(w)
  /\ exec'   = [exec EXCEPT ![e] = NoExec]
  /\ UNCHANGED <<row, proc, disp, requeue, stopping, faults, delays, clobbered>>

ExecStep(e) ==
  \/ Register(e) \/ LoadFails(e) \/ StartWorker(e)
  \/ WriteRead(e) \/ WriteCommit(e)
  \/ StepBegins(e) \/ StepLimit(e)
  \/ TurnStops(e) \/ TurnCompletes(e) \/ TurnContinues(e) \/ TurnFails(e)
  \/ Release(e)

------------------------------------------------------------------------------
(* Life of an ai-runtime process *)

\* Threads, semaphore and in-memory sets die with the process.
ProcessGone(w) ==
  /\ proc'    = [proc EXCEPT ![w] = "down"]
  /\ exec'    = [e \in Execs |-> IF exec[e].worker = w THEN NoExec ELSE exec[e]]
  /\ disp'    = [disp EXCEPT ![w] = [d \in Dispatchers |-> "idle"]]
  /\ free'    = [free EXCEPT ![w] = MaxConcurrent]
  /\ active'  = [active EXCEPT ![w] = {}]
  /\ requeue' = [requeue EXCEPT ![w] = {}]

Crash(w) ==
  /\ proc[w] # "down"
  /\ Fault
  /\ ProcessGone(w)
  /\ UNCHANGED <<row, stopping, delays, clobbered>>

\* run_dispatcher_forever reaps before it starts to listen.
Boot(w) ==
  /\ proc[w] = "down"
  /\ proc' = [proc EXCEPT ![w] = "boot"]
  /\ \E S \in SUBSET Runs :
       /\ StaleRows(S)
       /\ requeue' = [requeue EXCEPT ![w] = Snapshot(S)]
  /\ UNCHANGED <<row, exec, disp, free, active, stopping, faults, delays, clobbered>>

BootDone(w) ==
  /\ proc[w] = "boot"
  /\ requeue[w] = {}
  /\ proc' = [proc EXCEPT ![w] = "up"]
  /\ UNCHANGED <<row, exec, disp, free, active, requeue, stopping, faults, delays, clobbered>>

\* SIGTERM: no new sweep; a sweep under way goes on, threads go on.
Sigterm(w) ==
  /\ proc[w] = "up"
  /\ Fault
  /\ proc' = [proc EXCEPT ![w] = "draining"]
  /\ UNCHANGED <<row, exec, disp, free, active, requeue, stopping, delays, clobbered>>

\* wait_for_active_runs saw no registered run.
Drained(w) ==
  /\ proc[w] = "draining"
  /\ active[w] = {}
  /\ ProcessGone(w)
  /\ UNCHANGED <<row, stopping, faults, delays, clobbered>>

\* The drain deadline passed: requeue_runs reads the registered runs this
\* process still owns.
DrainDeadline(w) ==
  /\ proc[w] = "draining"
  /\ active[w] # {}
  /\ proc' = [proc EXCEPT ![w] = "exiting"]
  /\ requeue' = [requeue EXCEPT ![w] = Snapshot({r \in active[w] \intersect Running : row[r].owner = w})]
  /\ UNCHANGED <<row, exec, disp, free, active, stopping, faults, delays, clobbered>>

\* main returns after the commit; daemon threads run until then.
Exit(w) ==
  /\ proc[w] = "exiting"
  /\ requeue[w] = {}
  /\ ProcessGone(w)
  /\ UNCHANGED <<row, stopping, faults, delays, clobbered>>

------------------------------------------------------------------------------

DispatchStep(w, d) ==
  \/ SweepBegins(w, d) \/ AcquireSlot(w, d) \/ NoFreeSlot(w, d)
  \/ \E r \in Runs : Claim(w, d, r)
  \/ ClaimNothing(w, d)

ProcessStep(w) == Boot(w) \/ BootDone(w) \/ Drained(w) \/ DrainDeadline(w) \/ Exit(w)

Next ==
  \/ \E r \in Runs : Create(r) \/ StopRead(r) \/ StopCommit(r) \/ FlagStop(r) \/ LeaseLapses(r)
  \/ ReapRead
  \/ \E p \in Reapers : RequeueCommit(p)
  \/ \E w \in Workers, d \in Dispatchers : DispatchStep(w, d) \/ ClaimFails(w, d)
  \/ \E e \in Execs : ExecStep(e) \/ WriteFails(e) \/ Tick(e)
  \/ \E w \in Workers : ProcessStep(w) \/ Crash(w) \/ Sigterm(w)

Spec == Init /\ [][Next]_vars

\* The watchdog selects row r.
ReapSelects(r) == ReapRead /\ \E a \in 0..MaxAttempts : <<r, a>> \in requeue'[Gateway]

\* Threads and dispatchers are scheduled, transactions that have read commit,
\* the watchdog and the clock go on, a supervisor restarts a dead process.
\* Users, faults and delays owe nothing.
Fairness ==
  /\ \A w \in Workers, d \in Dispatchers : WF_vars(DispatchStep(w, d))
  /\ \A e \in Execs : WF_vars(ExecStep(e))
  /\ \A w \in Workers : WF_vars(ProcessStep(w))
  /\ \A p \in Reapers : WF_vars(RequeueCommit(p))
  /\ \A r \in Runs :
       /\ WF_vars(ReapSelects(r))
       /\ WF_vars(LeaseLapses(r) /\ UNCHANGED delays)
       /\ WF_vars(StopCommit(r))

FairSpec == Spec /\ Fairness

------------------------------------------------------------------------------
(* Properties *)

TypeOK ==
  /\ row \in [Runs -> Row]
  /\ exec \in [Execs -> Exec]
  /\ proc \in [Workers -> {"boot", "up", "draining", "exiting", "down"}]
  /\ disp \in [Workers -> [Dispatchers -> {"idle", "sweep", "slot"}]]
  /\ free \in [Workers -> Nat]
  /\ active \in [Workers -> SUBSET Runs]
  /\ requeue \in [Reapers -> SUBSET (Runs \X (0..MaxAttempts))]
  /\ stopping \in [Runs -> ActiveStatuses \union {"none"}]
  /\ faults \in Nat
  /\ delays \in Nat
  /\ clobbered \in BOOLEAN

\* No slot leaks and none is made up: what the semaphore of a process has left,
\* the slots its sweeps hold and the threads it runs always add up to the
\* configured maximum, through failed claims, empty sweeps and restarts.
SlotsConserved ==
  \A w \in Workers :
    free[w] + Cardinality(SlotHolders(w)) + Cardinality(Threads(w)) = MaxConcurrent

\* A run that was claimed with its stop flag up (raised while it was queued, or
\* put back in the queue after a stop) never reaches a model turn.
LateClaimNeverInfers == \A e \in Execs : exec[e].late => exec[e].pc # "turn"

\* As long as every heartbeat came before its lease ran out, a run that only the
\* dispatchers start has two live threads only if one belongs to a process past
\* its drain deadline, or some UPDATE overwrote a row that had changed since it
\* was read.
SingleExecution ==
  ~clobbered /\ delays = MaxDelays =>
    \A e, f \in Execs :
      /\ RunOf(e) = RunOf(f) /\ e # f
      /\ Live(e) /\ Live(f)
      => \E x \in {e, f} : proc[exec[x].worker] = "exiting"

LegalStatusChange(r) ==
  \/ row'[r].status = row[r].status
  \/ row[r].status = "absent" /\ row'[r].status = "queued"
  \/ ValidTransition(row[r].status, row'[r].status)

\* Every committed change of a status is an edge of the lifecycle, unless the
\* UPDATE overwrote a row that had changed since it was read.
LifecycleUnlessClobbered == [][clobbered' \/ \A r \in Runs : LegalStatusChange(r)]_vars

\* "A terminal row is never reopened; resume creates a new ChatRun instead."
TerminalNeverReopened ==
  [][\A r \in Runs : row[r].status \in TerminalStatuses => row'[r].status \notin ActiveStatuses]_vars

\* Once users, faults and delays have ended, every run ends up in a terminal
\* status for good, whatever crashed, was drained or was left half-written.
EventuallySettled == <>[](\A r \in Runs : row[r].status \notin ActiveStatuses)
==============================================================================
