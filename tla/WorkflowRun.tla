---------------------------- MODULE WorkflowRun ----------------------------
(***************************************************************************)
(* One run of a compiled workflow card: the run row, the attempts of its   *)
(* device steps (the outbox), the dispatch rows of those attempts, the     *)
(* reviews an AI is asked for, and the three processes that write them.    *)
(*                                                                         *)
(*   connector  one event loop: the scheduler tick (reconcile, expire,     *)
(*              advance, dispatch) and the handlers of device messages     *)
(*   gateway    the cancel route, which reads the run without a lock       *)
(*   tools      pause, resume and respond, which lock the run row          *)
(*                                                                         *)
(* A handler that locks the run row is one step. A handler that reads the  *)
(* row, and writes it later by key, is a read step that keeps what it saw  *)
(* and a write step that acts on it: the other processes run in between.   *)
(* The connector's synchronous sections exclude one another, so at most    *)
(* one is open (conn, hook); only waiting for a send lets others in.       *)
(*                                                                         *)
(* Time is one value, clock: 0 in time, 1 past the deadline of the current *)
(* step or review, 2 past the deadline of the run. Wake-up times and claim *)
(* ages only delay a step, so a step they allow may happen at any time.    *)
(***************************************************************************)
EXTENDS Naturals

CONSTANTS
  Steps,        \* the positions of the compiled steps, 1 .. N
  MaxTry,       \* the largest maxAttempts of a retry policy
  Programs,     \* the compiled definitions to consider
  MaxEvents     \* bound, for each program: requests to cancel, requests to pause,
                \* restarts and results that meet a locked run row, together

(***************************************************************************)
(* A compiled step: next is where it goes on, alt where onFalse, onError   *)
(* or a refused review leads (0: the run fails), tries its maxAttempts,    *)
(* safe that it may be repeated, esc the onError of the nested card around *)
(* it (0: none). Jumps only go forward: the compiler refuses a cycle.      *)
(***************************************************************************)
Kinds == {"mcp", "ai", "branch", "card", "delay", "end"}
StepRecord == [kind : Kinds, next : Steps \cup {0}, alt : Steps \cup {0},
               tries : 1 .. MaxTry, safe : BOOLEAN, esc : Steps \cup {0}]

ASSUME StepsAssumption == Steps \subseteq Nat \ {0} /\ 1 \in Steps
ASSUME TryAssumption == MaxTry \in Nat \ {0}
ASSUME ProgramAssumption ==
  /\ Programs \subseteq [Steps -> StepRecord]
  /\ \A p \in Programs : \A s \in Steps :
       /\ p[s].kind # "end" => p[s].next > s
       /\ p[s].alt # 0 => p[s].alt > s
       /\ p[s].esc # 0 => p[s].esc > s
       /\ p[s].kind = "branch" => p[s].alt # 0
ASSUME EventsAssumption == MaxEvents \in [Programs -> Nat]

VARIABLES
  prog,       \* the definition of the run
  run,        \* WorkflowRun.status
  cur,        \* WorkflowRun.current_step_id
  ctl,        \* what a pause remembers: the status and the time it left
  debug,      \* the run pauses after its next step
  clock,      \* how late it is
  st,         \* WorkflowStepRun.status of every attempt, "none" before it
  row,        \* AgentDispatchTask.status of every attempt, "none" before it
  performed,  \* the attempts the device has carried out
  conf,       \* WorkflowConfirmation.status of every AI step
  conn,       \* the open section of the scheduler tick
  hook,       \* the attempt whose recorded answer is about to be applied
  cancel,     \* the cancel request in progress
  pausing,    \* a pause request holds the run row
  missed,     \* history: attempts dropped because the run row was locked
  events      \* how many of the bounded events have happened

vars == <<prog, run, cur, ctl, debug, clock, st, row, performed, conf, conn,
          hook, cancel, pausing, missed, events>>
runVars == <<run, cur, ctl, debug>>
requests == <<cancel, pausing>>
connector == <<conn, hook>>
-----------------------------------------------------------------------------
\* Mutant: a run that waits for a device is advanced too.
ReadyOrSent == {"pending", "running", "retry_wait", "waiting_device"}
Ready == {"pending", "running", "retry_wait"}
Ended == {"succeeded", "failed", "cancelled", "timed_out"}
Pausable == {"pending", "running", "retry_wait", "paused_offline", "waiting_ai"}
RunStatuses == Pausable \cup {"waiting_device", "paused"} \cup Ended
\* Mutant: the deadline sweep forgets the runs that wait for a review.
ExpirableButReviews == RunStatuses \ (Ended \cup {"paused", "waiting_ai"})
Expirable == RunStatuses \ (Ended \cup {"paused"})

ActiveStep == {"dispatch_pending", "dispatching", "waiting_device"}
StepStatuses == {"none", "succeeded", "failed", "timed_out", "cancelled"}
                  \cup ActiveStep
RowStatuses == {"none", "live", "completed", "error", "timeout", "cancelled"}
Answered == {"completed", "error", "timeout"}
ReviewStatuses == {"none", "pending", "approved", "denied", "expired",
                   "cancelled"}

Attempt == Steps \X (1 .. MaxTry)
NoAttempt == <<0, 0>>
Active == {a \in Attempt : st[a] \in ActiveStep}
Pending == {s \in Steps : conf[s] = "pending"}

(* The bound on events.                                                    *)
Room == events < MaxEvents[prog]
Count == events' = events + 1

(* An open section: which one, on what, and what it has read of the run.   *)
Idle == [pc |-> "idle", on |-> NoAttempt, seen |-> "pending", dbg |-> FALSE]
Section(pc, on) == [pc |-> pc, on |-> on, seen |-> run, dbg |-> debug]
Sections == {"idle", "advance", "expire", "review", "late", "apply",
             "claimed", "overdue", "sending", "mark"}

(* Between two synchronous sections of the event loop; Free: and the tick  *)
(* is not waiting for a send either.                                       *)
Between == conn.pc \in {"idle", "sending"} /\ hook = NoAttempt
Free == conn.pc = "idle" /\ hook = NoAttempt

(* What a resume goes by when no pause has left anything else.             *)
NoControl == [from |-> "pending", clock |-> 0]

StepLate == clock >= 1
RunLate == clock = 2
-----------------------------------------------------------------------------
Init ==
  /\ prog \in Programs
  /\ run \in {"pending", "paused"}
  /\ cur = 1
  /\ ctl = NoControl
  /\ debug = FALSE
  /\ clock = 0
  /\ st = [a \in Attempt |-> "none"]
  /\ row = [a \in Attempt |-> "none"]
  /\ performed = {}
  /\ conf = [s \in Steps |-> "none"]
  /\ conn = Idle
  /\ hook = NoAttempt
  /\ cancel = [pc |-> "idle", on |-> {}]
  /\ pausing = FALSE
  /\ missed = {}
  /\ events = 0
-----------------------------------------------------------------------------
(***************************************************************************)
(* The writers of a run. Each is given seen, the status of the run it has  *)
(* read, and decides by it; a column goes to the database only when it     *)
(* differs from what was read.                                             *)
(***************************************************************************)
Stored(seen, status) == IF status = seen THEN run ELSE status

(* Ending a run ends its active attempts and its pending reviews; a        *)
(* deadline leaves its own mark on both.                                   *)
EndSteps(steps, status) ==
  [a \in Attempt |->
     IF steps[a] \in ActiveStep
     THEN IF status = "timed_out" THEN "timed_out" ELSE "cancelled"
     ELSE steps[a]]

EndReviews(reviews, status) ==
  [s \in Steps |->
     IF reviews[s] = "pending"
     THEN IF status = "timed_out" THEN "expired" ELSE "cancelled"
     ELSE reviews[s]]

fail_run(status, steps, reviews) ==
  /\ run' = status
  /\ st' = EndSteps(steps, status)
  /\ conf' = EndReviews(reviews, status)
  /\ UNCHANGED <<cur, ctl, debug>>

(* The run goes to step s; a debugged run pauses there instead.            *)
move_run(seen, s, status) ==
  /\ cur' = s
  /\ run' = Stored(seen, status)
  /\ UNCHANGED <<ctl, debug>>

move_debuggable(seen, dbg, s, status) ==
  IF dbg
  THEN /\ cur' = s
       /\ run' = Stored(seen, "paused")
       /\ ctl' = [from |-> status, clock |-> clock]
       /\ debug' = FALSE
  ELSE move_run(seen, s, status)

(* An attempt failed: retried if the error, the policy and the tool allow, *)
(* else the error branch, else the run fails.                              *)
\* Mutant: destructive tools are retried as well.
RetriedAnyTool(a, retryable) == retryable /\ a[2] < prog[a[1]].tries
\* Mutant: maxAttempts counts the retries.
RetriedOnceMore(a, retryable) == retryable /\ a[2] <= prog[a[1]].tries /\ prog[a[1]].safe
Retried(a, retryable) ==
  /\ retryable
  /\ a[2] < prog[a[1]].tries
  /\ prog[a[1]].safe

\* Mutant: "fail" is taken for the name of a step.
NeverStuck(a) == FALSE
NoErrorBranch(a) == prog[a[1]].alt = 0

handle_step_error(a, seen, dbg, code, retryable) ==
  LET ended == [st EXCEPT ![a] =
                  IF code = "STEP_TIMEOUT" THEN "timed_out" ELSE "failed"]
  IN  IF ~ Retried(a, retryable) /\ NoErrorBranch(a)
      THEN fail_run("failed", ended, conf)
      ELSE /\ st' = ended
           /\ conf' = conf
           /\ IF Retried(a, retryable)
              THEN move_debuggable(seen, dbg, a[1], "retry_wait")
              ELSE move_debuggable(seen, dbg, prog[a[1]].alt, "running")
-----------------------------------------------------------------------------
(* apply_step_result: the recorded outcome of an attempt meets its run. A  *)
(* run row that another transaction has locked is skipped, and then taken  *)
(* for one that has ended. (A locked attempt is skipped too: the tick      *)
(* comes back to it.)                                                      *)
\* Mutant: the status of the run is not looked at.
OnlyLocked(seen) == pausing
Unavailable(seen) == seen \in Ended \/ pausing

DropResult(a, seen) ==
  /\ st' = [st EXCEPT ![a] = "cancelled"]
  /\ missed' = IF seen \in Ended THEN missed ELSE missed \cup {a}
  /\ UNCHANGED <<runVars, conf>>

TakeResult(a, seen, dbg) ==
  \/ /\ StepLate
     /\ handle_step_error(a, seen, dbg, "STEP_TIMEOUT", TRUE)
  \/ /\ ~ StepLate /\ row[a] = "completed"
     /\ st' = [st EXCEPT ![a] = "succeeded"]
     /\ conf' = conf
     /\ move_debuggable(seen, dbg, prog[a[1]].next, "running")
  \/ /\ ~ StepLate   \* reported by the device, or no room for the result
     /\ \E retryable \in BOOLEAN :
          handle_step_error(a, seen, dbg, "DEVICE_ERROR", retryable)

apply_step_result(a, seen, dbg) ==
  IF st[a] \notin ActiveStep
  THEN UNCHANGED <<runVars, st, conf, missed, events>>
  ELSE \/ /\ Unavailable(seen)
          /\ DropResult(a, seen) /\ UNCHANGED events
       \/ /\ ~ Unavailable(seen) /\ Room
          /\ DropResult(a, seen) /\ Count
       \/ /\ ~ Unavailable(seen)
          /\ TakeResult(a, seen, dbg)
          /\ UNCHANGED <<missed, events>>

(* fail_step_dispatch: like it, but a locked run leaves the attempt alone. *)
fail_step_dispatch(a, seen, dbg, code, retryable) ==
  IF Unavailable(seen)
  THEN UNCHANGED <<runVars, st, conf>>
  ELSE handle_step_error(a, seen, dbg, code, retryable)
-----------------------------------------------------------------------------
(***************************************************************************)
(* advance_interactive_run. The run is loaded, then selected again for     *)
(* update in the same session, which keeps the attributes already loaded:  *)
(* the step is taken on what the first read saw.                           *)
(***************************************************************************)
AdvanceRead ==
  /\ Free /\ run \in Ready
  /\ conn' = Section("advance", NoAttempt)
  /\ UNCHANGED <<prog, runVars, clock, st, row, performed, conf, hook,
                 requests, missed, events>>

(* The number after that of the last attempt of the step.                  *)
NextTry(k) == \A j \in 1 .. MaxTry : st[<<cur, j>>] # "none" <=> j < k

(* A new deadline: that of the attempt or review that begins.              *)
NewDeadline == clock' = IF RunLate THEN clock ELSE 0

Advance_late ==
  /\ RunLate
  /\ fail_run("timed_out", st, conf)
  /\ UNCHANGED clock

(* No version, no transition left, an expression that fails, a total time  *)
(* used up, an unknown step, a nested card without an error branch.        *)
Advance_fails ==
  /\ ~ RunLate
  /\ fail_run("failed", st, conf)
  /\ UNCHANGED clock

(* The limit of a nested card is reached: on with its error branch.        *)
Advance_escape ==
  /\ ~ RunLate /\ prog[cur].esc # 0
  /\ move_run(conn.seen, prog[cur].esc, "running")
  /\ UNCHANGED <<clock, st, conf>>

Advance_end ==
  /\ ~ RunLate /\ prog[cur].kind = "end"
  /\ run' = "succeeded"
  /\ UNCHANGED <<cur, ctl, debug, clock, st, conf>>

Advance_branch ==
  /\ ~ RunLate /\ prog[cur].kind = "branch"
  /\ \E s \in {prog[cur].next, prog[cur].alt} :
       move_debuggable(conn.seen, conn.dbg, s, "running")
  /\ UNCHANGED <<clock, st, conf>>

Advance_card ==
  /\ ~ RunLate /\ prog[cur].kind = "card"
  /\ \/ move_debuggable(conn.seen, conn.dbg, prog[cur].next, "running")
     \/ /\ prog[cur].alt # 0
        /\ move_run(conn.seen, prog[cur].alt, "running")
  /\ UNCHANGED <<clock, st, conf>>

Advance_delay ==
  /\ ~ RunLate /\ prog[cur].kind = "delay"
  /\ move_debuggable(conn.seen, conn.dbg, prog[cur].next, "retry_wait")
  /\ UNCHANGED <<clock, st, conf>>

Advance_mcp ==
  /\ ~ RunLate /\ prog[cur].kind = "mcp"
  /\ \E k \in 1 .. MaxTry :
       NextTry(k) /\ st' = [st EXCEPT ![<<cur, k>>] = "dispatch_pending"]
  /\ run' = "waiting_device"
  /\ NewDeadline
  /\ UNCHANGED <<cur, ctl, debug, conf>>

(* _enter_interaction; a review nobody can be asked for fails the run.     *)
Advance_ai ==
  /\ ~ RunLate /\ prog[cur].kind = "ai"
  /\ conf' = [conf EXCEPT ![cur] = "pending"]
  /\ run' = "waiting_ai"
  /\ NewDeadline
  /\ UNCHANGED <<cur, ctl, debug, st>>

advance_run ==
  \/ Advance_late \/ Advance_fails \/ Advance_escape \/ Advance_end
  \/ Advance_branch \/ Advance_card \/ Advance_delay \/ Advance_mcp
  \/ Advance_ai

AdvanceWrite ==
  /\ conn.pc = "advance"
  /\ conn' = Idle
  /\ IF pausing THEN UNCHANGED <<runVars, clock, st, conf>> ELSE advance_run
  /\ UNCHANGED <<prog, row, performed, hook, requests, missed, events>>
-----------------------------------------------------------------------------
(***************************************************************************)
(* reconcile_finished_dispatches. The run is loaded before the dispatch    *)
(* row is looked at, and stays as it was read when the outcome is applied. *)
(***************************************************************************)
\* Mutant: only the attempts known to be sent are looked at.
OnlySent(a) == st[a] = "waiting_device"
Reconcilable(a) == st[a] \in ActiveStep

Reconcile(a) ==
  /\ Free /\ Reconcilable(a)
  /\ run \notin {"waiting_ai", "paused"}
  /\ \/ /\ StepLate /\ row[a] \notin {"completed", "error"}
        /\ conn' = Section("late", a)
     \/ /\ row[a] \in {"completed", "error"} \/ (row[a] = "timeout" /\ ~ StepLate)
        /\ conn' = Section("apply", a)
  /\ UNCHANGED <<prog, runVars, clock, st, row, performed, conf, hook,
                 requests, missed, events>>

ReconcileLate ==
  /\ conn.pc = "late"
  /\ conn' = Idle
  /\ IF st[conn.on] \in ActiveStep
     THEN \E retryable \in BOOLEAN :
            fail_step_dispatch(conn.on, conn.seen, conn.dbg, "STEP_TIMEOUT",
                               retryable)
     ELSE UNCHANGED <<runVars, st, conf>>
  /\ UNCHANGED <<prog, clock, row, performed, hook, requests, missed,
                 events>>

ReconcileApply ==
  /\ conn.pc = "apply"
  /\ conn' = Idle
  /\ apply_step_result(conn.on, conn.seen, conn.dbg)
  /\ UNCHANGED <<prog, clock, row, performed, hook, requests>>

(* _expire_waiting_runs: the run is ended by what it was when it was read. *)
ExpireRead ==
  /\ Free /\ RunLate /\ run \in Expirable
  /\ conn' = Section("expire", NoAttempt)
  /\ UNCHANGED <<prog, runVars, clock, st, row, performed, conf, hook,
                 requests, missed, events>>

ExpireWrite ==
  /\ conn.pc = "expire" /\ ~ pausing
  /\ conn' = Idle
  /\ fail_run("timed_out", st, conf)
  /\ UNCHANGED <<prog, clock, row, performed, hook, requests, missed,
                 events>>

(* expire_ai_interactions: a review is closed, and its run goes on only if *)
(* it was read waiting for it.                                             *)
ReviewRead(s) ==
  /\ Free /\ conf[s] = "pending" /\ StepLate
  /\ conn' = Section("review", <<s, 0>>)
  /\ UNCHANGED <<prog, runVars, clock, st, row, performed, conf, hook,
                 requests, missed, events>>

\* Mutant: the run is moved whatever it does.
MovesAnyRun(seen) == TRUE
MovesWaiting(seen) == seen = "waiting_ai"

ReviewWrite ==
  LET s == conn.on[1]
      closed == [conf EXCEPT ![s] = "expired"]
  IN  /\ conn.pc = "review" /\ (MovesWaiting(conn.seen) => ~ pausing)
      /\ conn' = Idle
      /\ \/ /\ ~ MovesWaiting(conn.seen)
            /\ conf' = closed /\ UNCHANGED <<runVars, st>>
         \/ /\ MovesWaiting(conn.seen) /\ prog[s].alt # 0
            /\ conf' = closed /\ st' = st
            /\ move_run(conn.seen, prog[s].alt, "running")
         \/ /\ MovesWaiting(conn.seen) /\ prog[s].alt = 0
            /\ fail_run("cancelled", st, closed)
      /\ UNCHANGED <<prog, clock, row, performed, hook, requests, missed,
                     events>>
-----------------------------------------------------------------------------
(***************************************************************************)
(* dispatch_pending_steps: the claim is committed, then what to do is      *)
(* decided on the run as it was read back, then the message is sent        *)
(* outside any transaction, then the attempt is marked as sent. The sent   *)
(* attempts of other runs are not seen here; a claim left behind is taken  *)
(* again when it is old.                                                   *)
(***************************************************************************)
Claim(a) ==
  /\ Free /\ st[a] \in {"dispatch_pending", "dispatching"}
  /\ run \notin Ended \cup {"waiting_ai", "paused"}
  /\ st' = [st EXCEPT ![a] = "dispatching"]
  /\ conn' = Section(IF StepLate THEN "overdue" ELSE "claimed", a)
  /\ UNCHANGED <<prog, runVars, clock, row, performed, conf, hook, requests,
                 missed, events>>

ClaimLate ==
  /\ conn.pc = "overdue"
  /\ conn' = Idle
  /\ \E retryable \in BOOLEAN :
       fail_step_dispatch(conn.on, conn.seen, conn.dbg, "STEP_TIMEOUT", retryable)
  /\ UNCHANGED <<prog, clock, row, performed, hook, requests, missed,
                 events>>

(* A tool, a schema or an argument that is not accepted any more.          *)
ClaimRefused ==
  /\ conn.pc = "claimed" /\ row[conn.on] = "none"
  /\ conn' = Idle
  /\ \E retryable \in BOOLEAN :
       fail_step_dispatch(conn.on, conn.seen, conn.dbg, "REFUSED", retryable)
  /\ UNCHANGED <<prog, clock, row, performed, hook, requests, missed,
                 events>>

ClaimOffline ==
  /\ conn.pc = "claimed" /\ row[conn.on] = "none" /\ ~ pausing
  /\ conn' = Idle
  /\ st' = [st EXCEPT ![conn.on] = "dispatch_pending"]
  /\ run' = Stored(conn.seen, "paused_offline")
  /\ UNCHANGED <<prog, cur, ctl, debug, clock, row, performed, conf, hook,
                 requests, missed, events>>

(* dispatch_task_to_agent inserts the row; redeliver_dispatch finds it     *)
(* live. Both succeed without waiting for the result.                      *)
Send ==
  /\ conn.pc = "claimed" /\ row[conn.on] \in {"none", "live"}
  /\ row' = [row EXCEPT ![conn.on] = "live"]
  /\ conn' = [Idle EXCEPT !.pc = "sending", !.on = conn.on]
  /\ UNCHANGED <<prog, runVars, clock, st, performed, conf, hook, requests,
                 missed, events>>

(* The row has ended, or the device of a live one has no connection.       *)
SkipSend ==
  /\ conn.pc = "claimed" /\ row[conn.on] # "none"
  /\ conn' = Idle
  /\ UNCHANGED <<prog, runVars, clock, st, row, performed, conf, hook,
                 requests, missed, events>>

(* A first message that cannot be sent ends its row, a repeated one not.   *)
SendFails ==
  /\ conn.pc = "sending" /\ hook = NoAttempt
  /\ conn' = Idle
  /\ \/ row' = row
     \/ row[conn.on] = "live" /\ row' = [row EXCEPT ![conn.on] = "error"]
  /\ UNCHANGED <<prog, runVars, clock, st, performed, conf, hook, requests,
                 missed, events>>

\* Mutant: the attempt is marked as sent whatever happened meanwhile.
ClaimForgotten(a) == TRUE
StillClaimed(a) == st[a] = "dispatching"

MarkRead ==
  /\ conn.pc = "sending" /\ hook = NoAttempt
  /\ conn' = IF StillClaimed(conn.on) THEN Section("mark", conn.on)
             ELSE Idle
  /\ UNCHANGED <<prog, runVars, clock, st, row, performed, conf, hook,
                 requests, missed, events>>

MarkWrite ==
  /\ conn.pc = "mark" /\ ~ pausing
  /\ conn' = Idle
  /\ st' = [st EXCEPT ![conn.on] = "waiting_device"]
  /\ run' = Stored(conn.seen, "waiting_device")
  /\ UNCHANGED <<prog, cur, ctl, debug, clock, row, performed, conf, hook,
                 requests, missed, events>>
-----------------------------------------------------------------------------
(* The device carries out a message it was sent; it keeps one result per   *)
(* message, so a repeated one is not carried out again.                    *)
Perform(a) ==
  /\ row[a] # "none" /\ a \notin performed
  /\ performed' = performed \cup {a}
  /\ UNCHANGED <<prog, runVars, clock, st, row, conf, connector, requests,
                 missed, events>>

(* handle_task_result, handle_task_error: the first outcome is recorded,   *)
(* then applied in a session of its own.                                   *)
RecordAnswer(a, outcome) ==
  /\ Between /\ row[a] = "live"
  /\ outcome = "completed" => a \in performed
  /\ row' = [row EXCEPT ![a] = outcome]
  /\ hook' = a
  /\ UNCHANGED <<prog, runVars, clock, st, performed, conf, conn, requests,
                 missed, events>>

ApplyHook ==
  /\ hook # NoAttempt
  /\ hook' = NoAttempt
  /\ apply_step_result(hook, run, debug)
  /\ UNCHANGED <<prog, clock, row, performed, conn, requests>>

(* expire_orphan_dispatches gives up on a row nobody answered.             *)
GiveUp(a) ==
  /\ Between /\ row[a] = "live"
  /\ row' = [row EXCEPT ![a] = "timeout"]
  /\ UNCHANGED <<prog, runVars, clock, st, performed, conf, conn, hook,
                 requests, missed, events>>

wake_offline_runs ==
  /\ Between /\ run = "paused_offline" /\ ~ RunLate /\ ~ pausing
  /\ run' = "waiting_device"
  /\ UNCHANGED <<prog, cur, ctl, debug, clock, st, row, performed, conf, conn,
                 hook, requests, missed, events>>

Crash ==
  /\ Room /\ (conn # Idle \/ hook # NoAttempt)
  /\ Count
  /\ conn' = Idle /\ hook' = NoAttempt
  /\ UNCHANGED <<prog, runVars, clock, st, row, performed, conf, requests,
                 missed>>

Tick ==
  /\ clock < 2
  /\ clock' = clock + 1
  /\ UNCHANGED <<prog, runVars, st, row, performed, conf, connector, requests,
                 missed, events>>
-----------------------------------------------------------------------------
(***************************************************************************)
(* cancel_workflow_run: the run and its active attempts are read, then all *)
(* is ended by key; the dispatch rows only of the attempts that were read. *)
(***************************************************************************)
CancelRead ==
  /\ cancel.pc = "idle" /\ Room /\ run \notin Ended
  /\ cancel' = [pc |-> "read", on |-> Active]
  /\ Count
  /\ UNCHANGED <<prog, runVars, clock, st, row, performed, conf, connector,
                 pausing, missed>>

CancelWrite ==
  /\ cancel.pc = "read" /\ ~ pausing
  /\ cancel' = [pc |-> "idle", on |-> {}]
  /\ run' = "cancelled"
  /\ st' = [a \in Attempt |-> IF a \in cancel.on THEN "cancelled"
                              ELSE EndSteps(st, "cancelled")[a]]
  /\ row' = [a \in Attempt |-> IF a \in cancel.on /\ row[a] = "live"
                               THEN "cancelled" ELSE row[a]]
  /\ conf' = EndReviews(conf, "cancelled")
  /\ UNCHANGED <<prog, cur, ctl, debug, clock, performed, connector, pausing, missed, events>>

(* _pause_run locks the run row, not the attempts it looks at.             *)
PauseCheck ==
  /\ ~ pausing /\ Room /\ run \in Pausable
  /\ \A a \in Active : st[a] = "dispatch_pending"
  /\ pausing' = TRUE
  /\ Count
  /\ UNCHANGED <<prog, runVars, clock, st, row, performed, conf, connector,
                 cancel, missed>>

PauseWrite ==
  /\ pausing
  /\ pausing' = FALSE
  /\ ctl' = [from |-> run, clock |-> clock]
  /\ run' = "paused"
  /\ UNCHANGED <<prog, cur, debug, clock, st, row, performed, conf, connector,
                 cancel, missed, events>>

(* _resume_run gives back the time the run was paused; a debugged run is   *)
(* asked to pause again after its next step.                               *)
Resume ==
  /\ run = "paused" /\ ~ pausing
  /\ run' = IF ctl.from \in Pausable THEN ctl.from ELSE "pending"
  /\ clock' = ctl.clock
  /\ ctl' = NoControl
  /\ debug' \in BOOLEAN
  /\ UNCHANGED <<prog, cur, st, row, performed, conf, connector, requests,
                 missed, events>>

(* respond_ai_interaction asks for a pending review, not for a run that    *)
(* waits for one. An answer that comes late counts as a refusal.           *)
respond_ai_interaction(s, approved) ==
  LET granted == approved /\ ~ StepLate
      decided == [conf EXCEPT ![s] = IF granted THEN "approved" ELSE "denied"]
      to == IF granted THEN prog[s].next ELSE prog[s].alt
  IN  /\ conf[s] = "pending" /\ ~ pausing
      /\ IF to = 0
         THEN IF run \in Ended THEN conf' = decided /\ UNCHANGED <<runVars, st>>
              ELSE fail_run("cancelled", st, decided)
         ELSE conf' = decided /\ st' = st /\ move_run(run, to, "running")
      /\ UNCHANGED <<prog, clock, row, performed, connector, requests, missed, events>>
-----------------------------------------------------------------------------
Advance == AdvanceRead \/ AdvanceWrite
Reconciling == (\E a \in Attempt : Reconcile(a)) \/ ReconcileLate \/ ReconcileApply
Expiring == ExpireRead \/ ExpireWrite
Reviewing == (\E s \in Steps : ReviewRead(s)) \/ ReviewWrite
Dispatching ==
  \/ \E a \in Attempt : Claim(a)
  \/ ClaimLate \/ ClaimRefused \/ ClaimOffline \/ Send \/ SkipSend
  \/ SendFails \/ MarkRead \/ MarkWrite
Answering ==
  \/ \E a \in Attempt : \E outcome \in {"completed", "error"} : RecordAnswer(a, outcome)
  \/ ApplyHook \/ wake_offline_runs
  \/ \E a \in Attempt : Perform(a) \/ GiveUp(a)
Requests ==
  \/ CancelRead \/ CancelWrite \/ PauseCheck \/ PauseWrite \/ Resume
  \/ \E s \in Steps : \E approved \in BOOLEAN : respond_ai_interaction(s, approved)

(* The end of the run, once nothing is left to do about it.                *)
Done == run \in Ended /\ UNCHANGED vars

Next ==
  \/ Advance \/ Reconciling \/ Expiring \/ Reviewing \/ Dispatching
  \/ Answering \/ Requests \/ Crash \/ Tick \/ Done

Spec == Init /\ [][Next]_vars

(***************************************************************************)
(* The event loop finishes a section it has begun, and its tick, which     *)
(* goes over all the runs, comes again and again to every phase: a phase   *)
(* that has work whenever the tick gets to it does it. A request that has  *)
(* begun is carried out. Nothing is asked of the device, of the AI or of   *)
(* the user.                                                               *)
(***************************************************************************)
Finishing ==
  \/ AdvanceWrite \/ ReconcileLate \/ ReconcileApply \/ ExpireWrite
  \/ ReviewWrite \/ ClaimLate \/ ClaimRefused \/ ClaimOffline \/ Send
  \/ SkipSend \/ SendFails \/ MarkRead \/ MarkWrite \/ ApplyHook

Fairness ==
  /\ WF_vars(Finishing) /\ WF_vars(PauseWrite) /\ WF_vars(CancelWrite)
  /\ SF_vars(\E a \in Attempt : Reconcile(a))
  /\ SF_vars(ExpireRead)

LiveSpec == Spec /\ Fairness
-----------------------------------------------------------------------------
(* Every variable has its type.                                            *)
TypeOK ==
  /\ prog \in Programs /\ run \in RunStatuses /\ cur \in Steps
  /\ ctl \in [from : RunStatuses, clock : 0 .. 2]
  /\ debug \in BOOLEAN /\ clock \in 0 .. 2
  /\ st \in [Attempt -> StepStatuses] /\ row \in [Attempt -> RowStatuses]
  /\ performed \subseteq Attempt /\ missed \subseteq Attempt
  /\ conf \in [Steps -> ReviewStatuses]
  /\ conn \in [pc : Sections, on : (Steps \cup {0}) \X (0 .. MaxTry),
               seen : RunStatuses, dbg : BOOLEAN]
  /\ hook \in Attempt \cup {NoAttempt}
  /\ cancel \in [pc : {"idle", "read"}, on : SUBSET Attempt]
  /\ pausing \in BOOLEAN
  /\ events \in 0 .. MaxEvents[prog]

(* The device is never given two steps of one run to work on.              *)
OneAttemptInFlight == \A a, b \in Active : a = b

(* The status of the run tells what it waits for, however its sections and *)
(* requests cross: one that is ready has nothing in flight, one that waits *)
(* for a device has an attempt of its current step, unless the result of   *)
(* one was dropped; one that waits for a review has asked for it (the      *)
(* review may have expired in a pause); one that has ended asks nobody.    *)
StatusMatchesWork ==
  /\ run \in Ready => Active = {}
  /\ run \in {"waiting_device", "paused_offline"} => Active # {} \/ missed # {}
  /\ \A a \in Active : a[1] = cur
  /\ run = "waiting_ai" => conf[cur] \in {"pending", "expired"}
  /\ run \in Ended => Pending = {}

(* A step with a destructive tool and no idempotency key reaches a device  *)
(* at most once in a run: neither a crash, a lost result nor a timeout     *)
(* makes it run again.                                                     *)
UnsafeStepOnce ==
  \A a, b \in performed : a[1] = b[1] /\ ~ prog[a[1]].safe => a = b

(* A step is not tried more often than its retry policy says.              *)
AttemptsWithinPolicy ==
  \A a \in Attempt : st[a] # "none" => a[2] <= prog[a[1]].tries

(* A run that has ended is changed only by a section or a cancel request   *)
(* that read it before it ended: no late result, answer, wake-up or resume *)
(* brings it back.                                                         *)
EndedOnlyOverwritten ==
  [][(run \in Ended /\ run' # run) =>
       \/ conn.pc # "idle" /\ conn.seen \notin Ended /\ conn' = Idle
       \/ cancel.pc = "read" /\ run' = "cancelled"]_vars

(* An approval decides: the expiry of a review that has been approved      *)
(* meanwhile (read while the run was paused, say) may overwrite the record *)
(* of the decision, but never moves or ends the run that went on with it.  *)
ApprovalStands ==
  [][\A s \in Steps :
       (conf[s] = "approved" /\ conf'[s] # "approved") => UNCHANGED <<run, cur>>]_vars

(* An answer that was recorded reaches its run, however the connector was  *)
(* interrupted between the two, and without waiting for a deadline.        *)
Unsettled == \E a \in Active : row[a] \in Answered
AnswerSettles ==
  Unsettled ~> (~ Unsettled \/ run \in Ended \cup {"paused", "waiting_ai"})

(* As long as time goes on every run ends, or is left paused, for good:    *)
(* whatever was lost or dropped, the deadline of the run gets it.          *)
RunEnds == WF_vars(Tick) => <>[](run \in Ended \cup {"paused"})
=============================================================================
