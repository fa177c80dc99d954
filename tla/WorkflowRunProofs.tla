------------------------- MODULE WorkflowRunProofs -------------------------
(***************************************************************************)
(* Why the invariants of WorkflowRun hold for every set of compiled cards. *)
(*                                                                         *)
(* A pause hides the status a run will come back to, and a cancellation    *)
(* may fall between what a section reads and what it writes. So the        *)
(* invariant speaks of the effective status of the run (Eff), says how it  *)
(* goes with the attempts and the reviews (Matching, Behind), and says of  *)
(* every open section what it still may rely on when it writes: that       *)
(* nobody but itself can have brought an attempt into flight, and that the *)
(* run is where it was read, paused from there, or cancelled.              *)
(***************************************************************************)
EXTENDS WorkflowRun, TLAPS

Restored == IF ctl.from \in Pausable THEN ctl.from ELSE "pending"
Eff == IF run = "paused" THEN Restored ELSE run
Waiting == {"waiting_device", "paused_offline"}

(* The current step has not been asked for a review, and every attempt of  *)
(* it allows one more.                                                     *)
Fresh ==
  /\ conf[cur] = "none"
  /\ \A a \in Attempt : a[1] = cur /\ st[a] # "none" =>
       a[2] < prog[cur].tries /\ prog[cur].safe
Latest(a) == \A b \in Attempt : b[1] = a[1] /\ st[b] # "none" => b[2] <= a[2]

Matching ==
  /\ \A a \in Active : a[1] = cur /\ Latest(a)
  /\ Eff \in Ready \cup {"waiting_ai"} => Active = {}
  /\ Eff \in Waiting => Active # {} \/ missed # {}
  /\ Eff = "waiting_ai" => conf[cur] \in {"pending", "expired"}
  /\ Eff \in Ready => Fresh
  /\ Pending # {} => Eff = "waiting_ai" /\ Pending = {cur}
  /\ pausing => run \in Pausable

(* Attempts and reviews lie behind the current step, within their policy.  *)
Behind ==
  /\ \A a \in Attempt : st[a] # "none" =>
       /\ a[1] <= cur /\ a[2] <= prog[a[1]].tries
       /\ prog[a[1]].kind = "mcp"
       /\ ~ prog[a[1]].safe => a[2] = 1
  /\ \A s \in Steps : conf[s] # "none" => s <= cur /\ prog[s].kind = "ai"

(* Nothing is sent, carried out, cancelled or applied but an attempt.      *)
Sent ==
  /\ \A a \in Attempt : row[a] # "none" => st[a] # "none"
  /\ \A a \in performed : row[a] # "none"
  /\ \A a \in cancel.on : st[a] # "none"
  /\ hook # NoAttempt =>
       hook \in Attempt /\ row[hook] # "none" /\ conn.pc \in {"idle", "sending"}

OnAttempt ==
  /\ conn.on \in Attempt /\ st[conn.on] # "none"
  /\ Active \subseteq {conn.on} /\ Pending = {}

OnLatest == OnAttempt /\ conn.on[1] = cur /\ Latest(conn.on)

InAdvance == conn.pc = "advance" =>
  /\ Active = {} /\ Pending = {} /\ Fresh
  /\ conn.seen \in Ready /\ Eff \in Ready \cup {"cancelled"}

InReview == conn.pc = "review" =>
  /\ conn.on[1] \in Steps /\ Active = {} /\ Pending \subseteq {conn.on[1]}
  /\ conf[conn.on[1]] # "none"
  /\ conn.seen \in {"waiting_ai", "paused"}
  /\ conn.seen = "waiting_ai" =>
       /\ StepLate /\ conf[conn.on[1]] # "approved"
       /\ run = "paused" => ctl.clock >= 1
  /\ \A a \in Attempt : st[a] # "none" => a[1] <= conn.on[1]
  /\ \A s \in Steps : conf[s] # "none" => s <= conn.on[1]
  /\ Eff \in Ready \cup {"waiting_ai", "cancelled"}

InReconcile == conn.pc \in {"late", "apply"} =>
  /\ OnLatest
  /\ conn.seen \in Waiting \cup Ended
  /\ conn.seen \in Ended => run \in Ended
  /\ Eff \in Waiting \cup Ended

InClaim == conn.pc \in {"claimed", "overdue"} =>
  /\ OnLatest
  /\ conn.seen \in Waiting /\ Eff \in Waiting \cup {"cancelled"}
  /\ st[conn.on] = "dispatching" => run \notin Ended

InSend == conn.pc = "sending" =>
  /\ OnAttempt /\ row[conn.on] # "none"
  /\ st[conn.on] = "dispatching" => run \notin Ended

InMark == conn.pc = "mark" =>
  /\ OnLatest
  /\ st[conn.on] \in {"dispatching", "cancelled"}
  /\ conn.seen \in Waiting \cup {"paused"}
  /\ Eff \in Waiting \cup {"cancelled"}
  /\ conn.seen = "waiting_device" => run \in {"waiting_device", "cancelled"}

InExpire == conn.pc = "expire" => conn.seen \notin Ended

InSections == /\ InAdvance /\ InReview /\ InReconcile /\ InClaim /\ InSend
              /\ InMark /\ InExpire

IInv == TypeOK /\ OneAttemptInFlight /\ Matching /\ Behind /\ Sent /\ InSections

(* The sets and the shorthands below are expanded in every proof.          *)
USE DEF Ready, Ended, Pausable, RunStatuses, ActiveStep, StepStatuses, RowStatuses,
        ReviewStatuses, Sections, Answered, Attempt, NoAttempt, Active, Pending,
        Waiting, Restored, Eff, Section, Idle, Room, Count, StepLate, RunLate,
        runVars, requests, connector

(* What the assumption on compiled cards says of one step.                 *)
LEMMA StepFacts ==
  ASSUME TypeOK, NEW s \in Steps
  PROVE  /\ s \in Nat /\ s >= 1 /\ prog[s] \in StepRecord
         /\ prog[s].tries \in Nat /\ prog[s].tries >= 1
         /\ prog[s].kind # "end" => prog[s].next \in Steps /\ prog[s].next > s
         /\ prog[s].alt # 0 => prog[s].alt \in Steps /\ prog[s].alt > s
         /\ prog[s].esc # 0 => prog[s].esc \in Steps /\ prog[s].esc > s
         /\ prog[s].kind = "branch" => prog[s].alt # 0
BY StepsAssumption, TryAssumption, ProgramAssumption
   DEF TypeOK, StepRecord, Kinds

(* The type of the columns of the run row.                                 *)
TypeRun == /\ run \in RunStatuses /\ cur \in Steps
           /\ ctl \in [from : RunStatuses, clock : 0 .. 2] /\ debug \in BOOLEAN

(* An attempt is a step and a number.                                      *)
LEMMA AttemptFacts ==
  ASSUME NEW a \in Attempt
  PROVE  a[1] \in Steps /\ a[2] \in 1 .. MaxTry /\ a[1] \in Nat /\ a[2] \in Nat
<1>1. a[1] \in Steps /\ a[2] \in 1 .. MaxTry OBVIOUS
<1>2. a[1] \in Nat BY <1>1, StepsAssumption
<1>3. a[2] \in Nat BY <1>1, TryAssumption
<1>4. QED BY <1>1, <1>2, <1>3

(* Moving a run keeps its columns well typed.                              *)
LEMMA MoveTypes ==
  ASSUME TypeOK, NEW s \in Steps, NEW seen \in RunStatuses, NEW dbg \in BOOLEAN,
         NEW status \in {"running", "retry_wait"},
         move_debuggable(seen, dbg, s, status) \/ move_run(seen, s, status)
  PROVE  TypeRun' /\ cur' = s
<1>1. cur' = s BY DEF move_debuggable, move_run
<1>2. (run \in RunStatuses)' BY DEF move_debuggable, move_run, Stored, TypeOK
<1>3. (debug \in BOOLEAN)' BY DEF move_debuggable, move_run, TypeOK
<1>4. (ctl \in [from : RunStatuses, clock : 0 .. 2])'
  BY DEF move_debuggable, move_run, TypeOK
<1>5. QED BY <1>1, <1>2, <1>3, <1>4 DEF TypeRun

(* Ending a run leaves no attempt in flight and no review open.            *)
LEMMA EndTypes ==
  ASSUME TypeOK, NEW steps \in [Attempt -> StepStatuses], NEW reviews \in [Steps -> ReviewStatuses],
         NEW status \in Ended, fail_run(status, steps, reviews)
  PROVE  /\ TypeRun' /\ UNCHANGED cur /\ run' = status
         /\ st' \in [Attempt -> StepStatuses] /\ conf' \in [Steps -> ReviewStatuses]
         /\ Active' = {} /\ Pending' = {}
         /\ \A a \in Attempt : st'[a] # "none" <=> steps[a] # "none"
         /\ \A s \in Steps : conf'[s] # "none" <=> reviews[s] # "none"
BY DEF TypeOK, TypeRun, fail_run, EndSteps, EndReviews

(* A run that only goes forward leaves its attempts and reviews behind.    *)
LEMMA ForwardBehind ==
  ASSUME TypeOK, Behind, cur' \in Steps, cur' >= cur, prog' = prog,
         \A a \in Attempt : st'[a] # "none" => st[a] # "none",
         \A s \in Steps : conf'[s] # "none" => conf[s] # "none"
  PROVE  Behind'
<1>1. cur \in Nat /\ cur' \in Nat BY StepsAssumption DEF TypeOK
<1>2. ASSUME NEW a \in Attempt, st'[a] # "none"
      PROVE  /\ a[1] <= cur' /\ a[2] <= prog'[a[1]].tries
             /\ prog'[a[1]].kind = "mcp" /\ (~ prog'[a[1]].safe => a[2] = 1)
  BY <1>1, <1>2, AttemptFacts DEF Behind
<1>3. ASSUME NEW s \in Steps, conf'[s] # "none"
      PROVE  s <= cur' /\ prog'[s].kind = "ai"
  <2>1. s \in Nat /\ s <= cur BY <1>3, StepsAssumption DEF Behind
  <2>2. prog[s].kind = "ai" BY <1>3 DEF Behind
  <2>3. QED BY <1>1, <2>1, <2>2
<1>4. QED BY <1>2, <1>3 DEF Behind

(* Every move goes to a later step: jumps only go forward.                 *)
LEMMA MoveForward ==
  ASSUME TypeOK, NEW s \in Steps, s > cur, NEW seen \in RunStatuses, NEW dbg \in BOOLEAN,
         NEW status \in {"running", "retry_wait"},
         move_debuggable(seen, dbg, s, status) \/ move_run(seen, s, status)
  PROVE  TypeRun' /\ cur' = s /\ cur' >= cur
<1>1. s \in Nat /\ cur \in Nat BY StepsAssumption DEF TypeOK
<1>2. TypeRun' /\ cur' = s BY MoveTypes
<1>3. QED BY <1>1, <1>2

(* What a section has read is well typed, and so is no section.            *)
LEMMA SeenTypes ==
  ASSUME TypeOK
  PROVE  /\ conn.seen \in RunStatuses /\ conn.dbg \in BOOLEAN /\ cur \in Steps
         /\ Idle \in [pc : Sections, on : (Steps \cup {0}) \X (0 .. MaxTry),
                      seen : RunStatuses, dbg : BOOLEAN]
BY TryAssumption DEF TypeOK

(* A failed attempt moves its run forward, repeats the step or ends the    *)
(* run; it starts nothing.                                                 *)
LEMMA ErrorFacts ==
  ASSUME TypeOK, Behind, NEW a \in Attempt, a[1] = cur, st[a] # "none",
         NEW seen \in RunStatuses, NEW dbg \in BOOLEAN,
         NEW code \in {"STEP_TIMEOUT", "DEVICE_ERROR", "REFUSED"}, NEW retryable \in BOOLEAN,
         handle_step_error(a, seen, dbg, code, retryable)
  PROVE  /\ TypeRun' /\ cur' >= cur
         /\ st' \in [Attempt -> StepStatuses] /\ conf' \in [Steps -> ReviewStatuses]
         /\ \A b \in Attempt : st'[b] # "none" => st[b] # "none"
         /\ \A s \in Steps : conf'[s] # "none" => conf[s] # "none"
<1> DEFINE ended == [st EXCEPT ![a] = IF code = "STEP_TIMEOUT" THEN "timed_out" ELSE "failed"]
<1>1. /\ ended \in [Attempt -> StepStatuses]
      /\ \A b \in Attempt : ended[b] # "none" <=> st[b] # "none"
  BY DEF TypeOK
<1>2. CASE fail_run("failed", ended, conf)
  <2>1. cur' = cur /\ cur \in Nat
    BY <1>1, <1>2, EndTypes, StepsAssumption
       DEF TypeOK
  <2>2. cur' >= cur BY <2>1
  <2>3. conf \in [Steps -> ReviewStatuses] BY DEF TypeOK
  <2>4. QED BY <2>2, <2>3, <1>1, <1>2, EndTypes
<1>3. CASE /\ st' = ended /\ conf' = conf
           /\ move_debuggable(seen, dbg, cur, "retry_wait")
  BY <1>1, <1>3, MoveTypes, StepsAssumption DEF TypeOK
<1>4. CASE /\ st' = ended /\ conf' = conf /\ prog[cur].alt # 0
           /\ move_debuggable(seen, dbg, prog[cur].alt, "running")
  <2>1. /\ prog[cur].alt \in Steps /\ prog[cur].alt > cur
        /\ prog[cur].alt \in Nat /\ cur \in Nat
    BY <1>4, StepFacts, StepsAssumption DEF TypeOK
  <2>2. TypeRun' /\ cur' = prog[cur].alt BY <1>4, <2>1, MoveTypes
  <2>3. cur' >= cur BY <2>1, <2>2
  <2>4. QED BY <1>1, <1>4, <2>2, <2>3 DEF TypeOK
<1>5. QED BY <1>2, <1>3, <1>4 DEF handle_step_error, NoErrorBranch

(* So does an outcome that is applied or dropped.                          *)
LEMMA ResultFacts ==
  ASSUME TypeOK, Behind, NEW a \in Attempt, a[1] = cur \/ st[a] \notin ActiveStep,
         NEW seen \in RunStatuses, NEW dbg \in BOOLEAN,
         apply_step_result(a, seen, dbg)
  PROVE  /\ TypeRun' /\ cur' >= cur
         /\ st' \in [Attempt -> StepStatuses] /\ conf' \in [Steps -> ReviewStatuses]
         /\ missed' \subseteq Attempt /\ events' \in 0 .. MaxEvents[prog]
         /\ \A b \in Attempt : st'[b] # "none" => st[b] # "none"
         /\ \A s \in Steps : conf'[s] # "none" => conf[s] # "none"
<1>0. cur \in Nat BY StepsAssumption DEF TypeOK
<1>1. CASE UNCHANGED <<runVars, st, conf, missed, events>>
  BY <1>0, <1>1 DEF TypeOK, TypeRun
<1>2. CASE st[a] \in ActiveStep /\ DropResult(a, seen) /\ (UNCHANGED events \/ (Room /\ Count))
  <2>1. events' \in 0 .. MaxEvents[prog] BY <1>2, EventsAssumption DEF TypeOK
  <2>2. TypeRun' /\ cur' >= cur BY <1>0, <1>2 DEF TypeOK, TypeRun, DropResult
  <2>3. /\ st' \in [Attempt -> StepStatuses] /\ missed' \subseteq Attempt
        /\ \A b \in Attempt : st'[b] # "none" => st[b] # "none" \/ b = a
    BY <1>2 DEF TypeOK, DropResult
  <2>4. QED BY <1>2, <2>1, <2>2, <2>3 DEF TypeOK, DropResult
<1>3. CASE st[a] \in ActiveStep /\ TakeResult(a, seen, dbg) /\ UNCHANGED <<missed, events>>
  <2>1. st[a] # "none" /\ a[1] = cur BY <1>3
  <2>2. CASE \E code \in {"STEP_TIMEOUT", "DEVICE_ERROR"}, retryable \in BOOLEAN :
               handle_step_error(a, seen, dbg, code, retryable)
    <3>1. PICK code \in {"STEP_TIMEOUT", "DEVICE_ERROR"}, retryable \in BOOLEAN :
            handle_step_error(a, seen, dbg, code, retryable)
      BY <2>2
    <3>2. missed' \subseteq Attempt /\ events' \in 0 .. MaxEvents[prog]
      BY <1>3
         DEF TypeOK
    <3>3. QED BY <2>1, <3>1, <3>2, ErrorFacts
  <2>3. CASE /\ st' = [st EXCEPT ![a] = "succeeded"] /\ conf' = conf
             /\ move_debuggable(seen, dbg, prog[cur].next, "running")
    <3>1. prog[cur].next \in Steps /\ prog[cur].next > cur
      BY <2>1, StepFacts DEF TypeOK, Behind
    <3>2. TypeRun' /\ cur' = prog[cur].next BY <2>3, <3>1, MoveTypes
    <3>3. prog[cur].next \in Nat BY <3>1, StepsAssumption
    <3>4. cur' >= cur BY <1>0, <3>1, <3>2, <3>3
    <3>5. QED BY <1>3, <2>1, <2>3, <3>2, <3>4 DEF TypeOK
  <2>4. QED BY <1>3, <2>1, <2>2, <2>3 DEF TakeResult
<1>4. QED BY <1>1, <1>2, <1>3 DEF apply_step_result

(* So does a dispatch that fails.                                          *)
LEMMA FailFacts ==
  ASSUME TypeOK, Behind, NEW a \in Attempt, a[1] = cur, st[a] # "none",
         NEW seen \in RunStatuses, NEW dbg \in BOOLEAN,
         NEW code \in {"STEP_TIMEOUT", "REFUSED"}, NEW retryable \in BOOLEAN,
         fail_step_dispatch(a, seen, dbg, code, retryable)
  PROVE  /\ TypeRun' /\ cur' >= cur
         /\ st' \in [Attempt -> StepStatuses] /\ conf' \in [Steps -> ReviewStatuses]
         /\ \A b \in Attempt : st'[b] # "none" => st[b] # "none"
         /\ \A s \in Steps : conf'[s] # "none" => conf[s] # "none"
<1>0. cur \in Nat BY StepsAssumption DEF TypeOK
<1>1. CASE UNCHANGED <<runVars, st, conf>>
  BY <1>0, <1>1 DEF TypeOK, TypeRun
<1>2. CASE handle_step_error(a, seen, dbg, code, retryable)
  BY <1>2, ErrorFacts
<1>3. QED BY <1>1, <1>2 DEF fail_step_dispatch

(* When no section is open there is nothing to rely on.                    *)
LEMMA IdleSections == ASSUME conn' = Idle PROVE InSections'
BY DEF InSections, InAdvance, InReview, InReconcile, InClaim, InSend, InMark,
       InExpire

(* One lemma for each action, with one step for each part of the           *)
(* invariant.                                                              *)
LEMMA AdvanceReadKeeps == ASSUME IInv, AdvanceRead PROVE IInv'
<1>1. TypeOK' BY TryAssumption DEF IInv, TypeOK, AdvanceRead, Free
<1>2. Matching' /\ OneAttemptInFlight'
  BY DEF IInv, TypeOK, Matching, OneAttemptInFlight, Latest, Fresh,
         AdvanceRead, Free
<1>3. Behind' BY DEF IInv, TypeOK, Behind, AdvanceRead, Free
<1>4. Sent' BY DEF IInv, TypeOK, Sent, AdvanceRead, Free
<1>5. InSections'
  BY DEF IInv, TypeOK, Matching, Latest, Fresh, InSections, InAdvance,
         InReview, InReconcile, InClaim, InSend, InMark, InExpire, OnAttempt,
         OnLatest, AdvanceRead, Free
<1>6. QED BY <1>1, <1>2, <1>3, <1>4, <1>5 DEF IInv

LEMMA Advance_lateKeeps ==
  ASSUME IInv, AdvanceWrite, ~ pausing, Advance_late
  PROVE IInv'
<1>1. TypeOK'
  BY SeenTypes
     DEF IInv, TypeOK, AdvanceWrite, Advance_late, EndSteps, EndReviews,
         fail_run
<1>2. Matching' /\ OneAttemptInFlight'
  BY DEF IInv, TypeOK, InSections, InAdvance, Matching, OneAttemptInFlight,
         Latest, Fresh, AdvanceWrite, Advance_late, EndSteps, EndReviews,
         fail_run
<1>3. Behind'
  BY DEF IInv, TypeOK, Behind, AdvanceWrite, Advance_late, EndSteps,
         EndReviews, fail_run
<1>4. Sent'
  BY DEF IInv, TypeOK, Sent, AdvanceWrite, Advance_late, EndSteps, EndReviews,
         fail_run
<1>5. InSections' BY IdleSections DEF AdvanceWrite
<1>6. QED BY <1>1, <1>2, <1>3, <1>4, <1>5 DEF IInv

LEMMA Advance_failsKeeps ==
  ASSUME IInv, AdvanceWrite, ~ pausing, Advance_fails
  PROVE IInv'
<1>1. TypeOK'
  BY SeenTypes
     DEF IInv, TypeOK, AdvanceWrite, Advance_fails, EndSteps, EndReviews,
         fail_run
<1>2. Matching' /\ OneAttemptInFlight'
  BY DEF IInv, TypeOK, InSections, InAdvance, Matching, OneAttemptInFlight,
         Latest, Fresh, AdvanceWrite, Advance_fails, EndSteps, EndReviews,
         fail_run
<1>3. Behind'
  BY DEF IInv, TypeOK, Behind, AdvanceWrite, Advance_fails, EndSteps,
         EndReviews, fail_run
<1>4. Sent'
  BY DEF IInv, TypeOK, Sent, AdvanceWrite, Advance_fails, EndSteps,
         EndReviews, fail_run
<1>5. InSections' BY IdleSections DEF AdvanceWrite
<1>6. QED BY <1>1, <1>2, <1>3, <1>4, <1>5 DEF IInv

LEMMA Advance_escapeKeeps ==
  ASSUME IInv, AdvanceWrite, ~ pausing, Advance_escape
  PROVE IInv'
<1>0. /\ TypeRun' /\ cur' >= cur
      /\ UNCHANGED <<prog, st, conf>>
  <2>1. prog[cur].esc \in Steps /\ prog[cur].esc > cur
    BY StepFacts, SeenTypes DEF IInv, Advance_escape
  <2>2. QED
    BY <2>1, SeenTypes, MoveForward
       DEF IInv, AdvanceWrite, Advance_escape
<1>1. TypeOK'
  BY <1>0, SeenTypes
     DEF IInv, TypeOK, TypeRun, AdvanceWrite, Advance_escape
<1>2. Matching' /\ OneAttemptInFlight'
  BY StepFacts
     DEF IInv, TypeOK, InSections, InAdvance, Behind, Sent, Matching,
         OneAttemptInFlight, Latest, Fresh, AdvanceWrite, Advance_escape,
         Stored, move_run
<1>3. Behind' BY <1>0, <1>1, ForwardBehind DEF IInv, TypeOK
<1>4. Sent'
  BY DEF IInv, TypeOK, Sent, AdvanceWrite, Advance_escape, Stored, move_run
<1>5. InSections' BY IdleSections DEF AdvanceWrite
<1>6. QED BY <1>1, <1>2, <1>3, <1>4, <1>5 DEF IInv

LEMMA Advance_endKeeps ==
  ASSUME IInv, AdvanceWrite, ~ pausing, Advance_end
  PROVE IInv'
<1>1. TypeOK' BY SeenTypes DEF IInv, TypeOK, AdvanceWrite, Advance_end
<1>2. Matching' /\ OneAttemptInFlight'
  BY DEF IInv, TypeOK, InSections, InAdvance, Matching, OneAttemptInFlight,
         Latest, Fresh, AdvanceWrite, Advance_end
<1>3. Behind' BY DEF IInv, TypeOK, Behind, AdvanceWrite, Advance_end
<1>4. Sent' BY DEF IInv, TypeOK, Sent, AdvanceWrite, Advance_end
<1>5. InSections' BY IdleSections DEF AdvanceWrite
<1>6. QED BY <1>1, <1>2, <1>3, <1>4, <1>5 DEF IInv

LEMMA Advance_branchKeeps ==
  ASSUME IInv, AdvanceWrite, ~ pausing, Advance_branch
  PROVE IInv'
<1>0. /\ TypeRun' /\ cur' >= cur
      /\ UNCHANGED <<prog, st, conf>>
  <2>1. PICK s \in {prog[cur].next, prog[cur].alt} :
          move_debuggable(conn.seen, conn.dbg, s, "running")
    BY DEF Advance_branch
  <2>2. s \in Steps /\ s > cur
    BY StepFacts, SeenTypes
       DEF IInv, Advance_branch
  <2>3. QED
    BY <2>1, <2>2, SeenTypes, MoveForward
       DEF IInv, AdvanceWrite, Advance_branch
<1>1. TypeOK'
  BY <1>0, SeenTypes
     DEF IInv, TypeOK, TypeRun, AdvanceWrite, Advance_branch
<1>2. Matching' /\ OneAttemptInFlight'
  BY StepFacts
     DEF IInv, TypeOK, InSections, InAdvance, Behind, Sent, Matching,
         OneAttemptInFlight, Latest, Fresh, AdvanceWrite, Advance_branch,
         Stored, move_run, move_debuggable
<1>3. Behind' BY <1>0, <1>1, ForwardBehind DEF IInv, TypeOK
<1>4. Sent'
  BY DEF IInv, TypeOK, Sent, AdvanceWrite, Advance_branch, Stored, move_run,
         move_debuggable
<1>5. InSections' BY IdleSections DEF AdvanceWrite
<1>6. QED BY <1>1, <1>2, <1>3, <1>4, <1>5 DEF IInv

LEMMA Advance_cardKeeps ==
  ASSUME IInv, AdvanceWrite, ~ pausing, Advance_card
  PROVE IInv'
<1>0. /\ TypeRun' /\ cur' >= cur
      /\ UNCHANGED <<prog, st, conf>>
  <2>1. CASE move_debuggable(conn.seen, conn.dbg, prog[cur].next, "running")
    <3>1. prog[cur].next \in Steps /\ prog[cur].next > cur
      BY StepFacts, SeenTypes DEF IInv, Advance_card
    <3>2. QED
      BY <2>1, <3>1, SeenTypes, MoveForward
         DEF IInv, AdvanceWrite, Advance_card
  <2>2. CASE prog[cur].alt # 0 /\ move_run(conn.seen, prog[cur].alt, "running")
    <3>1. prog[cur].alt \in Steps /\ prog[cur].alt > cur
      BY <2>2, StepFacts, SeenTypes DEF IInv
    <3>2. QED
      BY <2>2, <3>1, SeenTypes, MoveForward
         DEF IInv, AdvanceWrite, Advance_card
  <2>3. QED BY <2>1, <2>2 DEF Advance_card
<1>1. TypeOK'
  BY <1>0, SeenTypes
     DEF IInv, TypeOK, TypeRun, AdvanceWrite, Advance_card
<1>2. Matching' /\ OneAttemptInFlight'
  BY StepFacts
     DEF IInv, TypeOK, InSections, InAdvance, Behind, Sent, Matching,
         OneAttemptInFlight, Latest, Fresh, AdvanceWrite, Advance_card,
         Stored, move_run, move_debuggable
<1>3. Behind' BY <1>0, <1>1, ForwardBehind DEF IInv, TypeOK
<1>4. Sent'
  BY DEF IInv, TypeOK, Sent, AdvanceWrite, Advance_card, Stored, move_run,
         move_debuggable
<1>5. InSections' BY IdleSections DEF AdvanceWrite
<1>6. QED BY <1>1, <1>2, <1>3, <1>4, <1>5 DEF IInv

LEMMA Advance_delayKeeps ==
  ASSUME IInv, AdvanceWrite, ~ pausing, Advance_delay
  PROVE IInv'
<1>0. /\ TypeRun' /\ cur' >= cur
      /\ UNCHANGED <<prog, st, conf>>
  <2>1. prog[cur].next \in Steps /\ prog[cur].next > cur
    BY StepFacts, SeenTypes DEF IInv, Advance_delay
  <2>2. QED
    BY <2>1, SeenTypes, MoveForward
       DEF IInv, AdvanceWrite, Advance_delay
<1>1. TypeOK'
  BY <1>0, SeenTypes
     DEF IInv, TypeOK, TypeRun, AdvanceWrite, Advance_delay
<1>2. Matching' /\ OneAttemptInFlight'
  BY StepFacts
     DEF IInv, TypeOK, InSections, InAdvance, Behind, Sent, Matching,
         OneAttemptInFlight, Latest, Fresh, AdvanceWrite, Advance_delay,
         Stored, move_run, move_debuggable
<1>3. Behind' BY <1>0, <1>1, ForwardBehind DEF IInv, TypeOK
<1>4. Sent'
  BY DEF IInv, TypeOK, Sent, AdvanceWrite, Advance_delay, Stored, move_run,
         move_debuggable
<1>5. InSections' BY IdleSections DEF AdvanceWrite
<1>6. QED BY <1>1, <1>2, <1>3, <1>4, <1>5 DEF IInv

LEMMA Advance_mcpKeeps ==
  ASSUME IInv, AdvanceWrite, ~ pausing, Advance_mcp
  PROVE IInv'
<1>1. TypeOK'
  BY SeenTypes
     DEF IInv, TypeOK, InSections, InAdvance, AdvanceWrite, Advance_mcp,
         NextTry, NewDeadline
<1>2. Matching' /\ OneAttemptInFlight'
  BY DEF IInv, TypeOK, InSections, InAdvance, Matching, OneAttemptInFlight,
         Latest, Fresh, AdvanceWrite, Advance_mcp, NextTry, NewDeadline
<1>0. cur \in Steps /\ cur \in Nat /\ prog' = prog /\ cur' = cur /\ conf' = conf
  BY StepsAssumption DEF IInv, TypeOK, AdvanceWrite, Advance_mcp
<1>0a. PICK k \in 1 .. MaxTry : NextTry(k) /\ st' = [st EXCEPT ![<<cur, k>>] = "dispatch_pending"]
  BY DEF Advance_mcp
<1>0b. k <= prog[cur].tries /\ (~ prog[cur].safe => k = 1)
  <2>1. prog[cur].tries \in Nat /\ prog[cur].tries >= 1 /\ k \in Nat
    BY <1>0, StepFacts, TryAssumption DEF IInv
  <2>2. CASE k = 1 BY <2>1, <2>2
  <2>3. CASE k # 1
    <3>1. k - 1 \in 1 .. MaxTry /\ k - 1 < k /\ <<cur, k - 1>> \in Attempt
      BY <1>0, <2>1, <2>3, TryAssumption
    <3>2. st[<<cur, k - 1>>] # "none" BY <3>1, <1>0a DEF NextTry
    <3>3. Fresh BY DEF AdvanceWrite, IInv, InSections, InAdvance
    <3>4. k - 1 < prog[cur].tries /\ prog[cur].safe
      BY <3>1, <3>2, <3>3
         DEF Fresh
    <3>5. QED BY <2>1, <3>1, <3>4
  <2>4. QED BY <2>2, <2>3
<1>3. Behind'
  <2>1. ASSUME NEW a \in Attempt, st'[a] # "none"
        PROVE  /\ a[1] <= cur /\ a[2] <= prog[a[1]].tries
               /\ prog[a[1]].kind = "mcp" /\ (~ prog[a[1]].safe => a[2] = 1)
    <3>1. CASE a = <<cur, k>> BY <3>1, <1>0, <1>0b DEF Advance_mcp
    <3>2. CASE a # <<cur, k>> BY <2>1, <3>2, <1>0a DEF IInv, TypeOK, Behind
    <3>3. QED BY <3>1, <3>2
  <2>2. QED BY <1>0, <2>1 DEF IInv, Behind
<1>4. Sent'
  BY DEF IInv, TypeOK, Sent, AdvanceWrite, Advance_mcp, NextTry, NewDeadline
<1>5. InSections' BY IdleSections DEF AdvanceWrite
<1>6. QED BY <1>1, <1>2, <1>3, <1>4, <1>5 DEF IInv

LEMMA Advance_aiKeeps ==
  ASSUME IInv, AdvanceWrite, ~ pausing, Advance_ai
  PROVE IInv'
<1>1. TypeOK'
  BY SeenTypes
     DEF IInv, TypeOK, InSections, InAdvance, AdvanceWrite, Advance_ai,
         NewDeadline
<1>2. Matching' /\ OneAttemptInFlight'
  BY DEF IInv, TypeOK, InSections, InAdvance, Matching, OneAttemptInFlight,
         Latest, Fresh, AdvanceWrite, Advance_ai, NewDeadline
<1>3. Behind'
  BY StepFacts
     DEF IInv, TypeOK, InSections, InAdvance, Behind, AdvanceWrite,
         Advance_ai, NewDeadline
<1>4. Sent' BY DEF IInv, TypeOK, Sent, AdvanceWrite, Advance_ai, NewDeadline
<1>5. InSections' BY IdleSections DEF AdvanceWrite
<1>6. QED BY <1>1, <1>2, <1>3, <1>4, <1>5 DEF IInv

LEMMA ReconcileKeeps ==
  ASSUME IInv, NEW a \in Attempt, Reconcile(a)
  PROVE IInv'
<1>1. TypeOK' BY TryAssumption DEF IInv, TypeOK, Reconcile, Free, Reconcilable
<1>2. Matching' /\ OneAttemptInFlight'
  BY DEF IInv, TypeOK, Matching, OneAttemptInFlight, Latest, Fresh, Reconcile,
         Free, Reconcilable
<1>3. Behind' BY DEF IInv, TypeOK, Behind, Reconcile, Free, Reconcilable
<1>4. Sent' BY DEF IInv, TypeOK, Sent, Reconcile, Free, Reconcilable
<1>5. InSections'
  BY DEF IInv, TypeOK, Matching, OneAttemptInFlight, Behind, Latest, Fresh,
         InSections, InAdvance, InReview, InReconcile, InClaim, InSend,
         InMark, InExpire, OnAttempt, OnLatest, Reconcile, Free, Reconcilable
<1>6. QED BY <1>1, <1>2, <1>3, <1>4, <1>5 DEF IInv

LEMMA ReconcileLateKeeps == ASSUME IInv, ReconcileLate PROVE IInv'
<1>0. /\ TypeRun' /\ cur' >= cur
      /\ st' \in [Attempt -> StepStatuses] /\ conf' \in [Steps -> ReviewStatuses]
      /\ \A b \in Attempt : st'[b] # "none" => st[b] # "none"
      /\ \A s \in Steps : conf'[s] # "none" => conf[s] # "none"
  <2>0. cur \in Nat BY StepsAssumption DEF IInv, TypeOK
  <2>1. CASE st[conn.on] \notin ActiveStep
    BY <2>0, <2>1 DEF ReconcileLate, IInv, TypeOK, TypeRun
  <2>2. CASE st[conn.on] \in ActiveStep
    <3>1. PICK retryable \in BOOLEAN :
            fail_step_dispatch(conn.on, conn.seen, conn.dbg, "STEP_TIMEOUT", retryable)
      BY <2>2 DEF ReconcileLate
    <3>2. conn.on \in Attempt /\ conn.on[1] = cur /\ st[conn.on] # "none"
      BY DEF IInv, InSections, InReconcile, OnAttempt, OnLatest, ReconcileLate
    <3>3. TypeOK /\ Behind /\ conn.seen \in RunStatuses /\ conn.dbg \in BOOLEAN
      BY SeenTypes DEF IInv
    <3>4. QED BY <3>1, <3>2, <3>3, FailFacts
  <2>3. QED BY <2>1, <2>2
<1>1. TypeOK' BY <1>0, SeenTypes DEF IInv, TypeOK, TypeRun, ReconcileLate
<1>2. Matching' /\ OneAttemptInFlight'
  BY StepFacts
     DEF IInv, TypeOK, InSections, InReconcile, OnAttempt, OnLatest, Behind,
         Sent, Matching, OneAttemptInFlight, Latest, Fresh, ReconcileLate,
         Stored, EndSteps, EndReviews, fail_run, move_run, move_debuggable,
         Retried, NoErrorBranch, handle_step_error, Unavailable,
         fail_step_dispatch
<1>3. Behind'
  BY <1>0, <1>1, ForwardBehind
     DEF IInv, TypeOK, TypeRun, ReconcileLate
<1>4. Sent'
  BY DEF IInv, TypeOK, Sent, ReconcileLate, Stored, EndSteps, EndReviews,
         fail_run, move_run, move_debuggable, Retried, NoErrorBranch,
         handle_step_error, Unavailable, fail_step_dispatch
<1>5. InSections' BY IdleSections DEF ReconcileLate
<1>6. QED BY <1>1, <1>2, <1>3, <1>4, <1>5 DEF IInv

LEMMA ReconcileApplyKeeps == ASSUME IInv, ReconcileApply PROVE IInv'
<1>0. /\ TypeRun' /\ cur' >= cur
      /\ st' \in [Attempt -> StepStatuses] /\ conf' \in [Steps -> ReviewStatuses]
      /\ \A b \in Attempt : st'[b] # "none" => st[b] # "none"
      /\ \A s \in Steps : conf'[s] # "none" => conf[s] # "none"
      /\ missed' \subseteq Attempt /\ events' \in 0 .. MaxEvents[prog]
  <2>1. conn.on \in Attempt /\ (conn.on[1] = cur \/ st[conn.on] \notin ActiveStep)
    BY DEF IInv, InSections, InReconcile, OnAttempt, OnLatest, Matching,
           ReconcileApply
  <2>2. TypeOK /\ Behind /\ conn.seen \in RunStatuses /\ conn.dbg \in BOOLEAN
    BY SeenTypes DEF IInv, TypeOK
  <2>3. QED BY <2>1, <2>2, ResultFacts DEF ReconcileApply
<1>1. TypeOK' BY <1>0, SeenTypes DEF IInv, TypeOK, TypeRun, ReconcileApply
<1>a. \/ st[conn.on] \notin ActiveStep /\ UNCHANGED <<runVars, st, conf, missed>>
      \/ st[conn.on] \in ActiveStep /\ DropResult(conn.on, conn.seen) /\ (conn.seen \in Ended \/ missed' # {})
      \/ /\ st[conn.on] \in ActiveStep /\ UNCHANGED missed /\ conn.seen \notin Ended /\ ~ pausing
         /\ TakeResult(conn.on, conn.seen, conn.dbg)
  <2>1. ASSUME DropResult(conn.on, conn.seen) PROVE conn.seen \in Ended \/ missed' # {}
    BY <2>1 DEF DropResult
  <2>2. CASE st[conn.on] \notin ActiveStep
    <3>1. UNCHANGED <<runVars, st, conf, missed, events>>
      BY <2>2 DEF ReconcileApply, apply_step_result
    <3>2. UNCHANGED <<runVars, st, conf, missed>> BY <3>1
    <3>3. QED BY <2>2, <3>2
  <2>3. CASE st[conn.on] \in ActiveStep
    BY <2>1, <2>3 DEF ReconcileApply, apply_step_result, Unavailable
  <2>4. QED BY <2>2, <2>3
<1>b. ASSUME st[conn.on] \in ActiveStep, TakeResult(conn.on, conn.seen, conn.dbg)
       PROVE  \E status \in {"failed", "timed_out", "succeeded"} :
                LET ended == [st EXCEPT ![conn.on] = status]
                IN  \/ fail_run("failed", ended, conf)
                    \/ /\ st' = ended /\ conf' = conf /\ status # "succeeded"
                       /\ Retried(conn.on, TRUE)
                       /\ move_debuggable(conn.seen, conn.dbg, conn.on[1], "retry_wait")
                    \/ /\ st' = ended /\ conf' = conf
                       /\ \E s \in Steps : s > conn.on[1] /\ move_debuggable(conn.seen, conn.dbg, s, "running")
  <2>1. conn.on \in Attempt /\ conn.on[1] \in Steps /\ prog[conn.on[1]].kind = "mcp"
    BY <1>b, AttemptFacts
       DEF IInv, Behind, InSections, InReconcile, OnAttempt, OnLatest,
           Matching, ReconcileApply
  <2>2. CASE \E code \in {"STEP_TIMEOUT", "DEVICE_ERROR"}, retryable \in BOOLEAN :
               handle_step_error(conn.on, conn.seen, conn.dbg, code, retryable)
    <3>1. PICK code \in {"STEP_TIMEOUT", "DEVICE_ERROR"}, retryable \in BOOLEAN :
               handle_step_error(conn.on, conn.seen, conn.dbg, code, retryable)
      BY <2>2
    <3>2. prog[conn.on[1]].alt # 0 => prog[conn.on[1]].alt \in Steps /\ prog[conn.on[1]].alt > conn.on[1]
      BY <2>1, StepFacts DEF IInv
    <3>3. QED BY <3>1, <3>2 DEF handle_step_error, Retried, NoErrorBranch
  <2>3. CASE /\ st' = [st EXCEPT ![conn.on] = "succeeded"] /\ conf' = conf
             /\ move_debuggable(conn.seen, conn.dbg, prog[conn.on[1]].next, "running")
    <3>1. prog[conn.on[1]].next \in Steps /\ prog[conn.on[1]].next > conn.on[1]
      BY <2>1, StepFacts DEF IInv
    <3>2. QED BY <2>3, <3>1
  <2>4. QED BY <1>b, <2>2, <2>3 DEF TakeResult
<1>c. ASSUME st[conn.on] \in ActiveStep
       PROVE  /\ conn.on \in Attempt /\ conn.on[1] = cur /\ Latest(conn.on)
              /\ \A b \in Attempt : st[b] # "none" => b[1] <= cur
              /\ \A r \in Steps : conf[r] # "none" => r <= cur
  BY <1>c
     DEF IInv, Behind, InSections, InReconcile, OnAttempt, OnLatest, Matching,
         ReconcileApply
<1>d. cur \in Nat /\ Steps \subseteq Nat BY StepsAssumption DEF IInv, TypeOK
<1>e. ASSUME st[conn.on] \in ActiveStep, Retried(conn.on, TRUE), NEW b \in Attempt,
              b[1] = cur, st[b] # "none"
       PROVE  b[2] < prog[cur].tries /\ prog[cur].safe
  <2>1. /\ b[2] \in Nat /\ conn.on[2] \in Nat /\ b[2] <= conn.on[2]
        /\ conn.on[2] < prog[cur].tries /\ prog[cur].safe
    BY <1>c, <1>e, AttemptFacts DEF Latest, Retried
  <2>2. prog[cur].tries \in Nat BY StepFacts DEF IInv, TypeOK
  <2>3. QED BY <2>1, <2>2
<1>2. Matching' /\ OneAttemptInFlight'
  <2>1. CASE st[conn.on] \notin ActiveStep /\ UNCHANGED <<runVars, st, conf, missed>>
    BY <2>1
       DEF IInv, TypeOK, Matching, Behind, Sent, OneAttemptInFlight, Latest,
           Fresh, InSections, InAdvance, InReview, InReconcile, InClaim,
           InSend, InMark, InExpire, OnAttempt, OnLatest, ReconcileApply
  <2>2. CASE st[conn.on] \in ActiveStep /\ DropResult(conn.on, conn.seen) /\ (conn.seen \in Ended \/ missed' # {})
    <3>1. UNCHANGED <<prog, run, cur, ctl, conf, row, performed, pausing, cancel>>
      BY <2>2 DEF DropResult, ReconcileApply
    <3>2. /\ st' = [st EXCEPT ![conn.on] = "cancelled"] /\ Active' = Active \ {conn.on}
      BY <2>2 DEF DropResult, IInv, TypeOK
    <3>3. conn.seen \in Ended => run \in Ended
      BY DEF IInv, InSections, InReconcile, ReconcileApply
    <3>4. QED
      BY <2>2, <3>1, <3>2, <3>3
         DEF IInv, TypeOK, Matching, Behind, Sent, OneAttemptInFlight, Latest,
             Fresh, InSections, InAdvance, InReview, InReconcile, InClaim,
             InSend, InMark, InExpire, OnAttempt, OnLatest, ReconcileApply
  <2>3. CASE /\ st[conn.on] \in ActiveStep /\ UNCHANGED missed /\ conn.seen \notin Ended /\ ~ pausing
             /\ TakeResult(conn.on, conn.seen, conn.dbg)
    <3>1. PICK status \in {"failed", "timed_out", "succeeded"} :
            LET ended == [st EXCEPT ![conn.on] = status]
            IN  \/ fail_run("failed", ended, conf)
                \/ /\ st' = ended /\ conf' = conf /\ status # "succeeded"
                   /\ Retried(conn.on, TRUE)
                   /\ move_debuggable(conn.seen, conn.dbg, conn.on[1], "retry_wait")
                \/ /\ st' = ended /\ conf' = conf
                   /\ \E s \in Steps : s > conn.on[1] /\ move_debuggable(conn.seen, conn.dbg, s, "running")
      BY <1>b, <2>3
    <3> DEFINE ended == [st EXCEPT ![conn.on] = status]
    <3>2. CASE fail_run("failed", ended, conf)
      BY <2>3, <3>2
         DEF IInv, TypeOK, Matching, Behind, Sent, OneAttemptInFlight, Latest,
             Fresh, InSections, InAdvance, InReview, InReconcile, InClaim,
             InSend, InMark, InExpire, OnAttempt, OnLatest, ReconcileApply,
             fail_run, EndSteps, EndReviews
    <3>3. CASE /\ st' = ended /\ conf' = conf /\ Retried(conn.on, TRUE)
               /\ move_debuggable(conn.seen, conn.dbg, conn.on[1], "retry_wait")
      BY <2>3, <3>3, <1>c, <1>e
         DEF IInv, TypeOK, Matching, Behind, Sent, OneAttemptInFlight, Latest,
             Fresh, InSections, InAdvance, InReview, InReconcile, InClaim,
             InSend, InMark, InExpire, OnAttempt, OnLatest, ReconcileApply,
             move_debuggable, move_run, Stored, Retried
    <3>4. CASE /\ st' = ended /\ conf' = conf
               /\ \E s \in Steps : s > conn.on[1] /\ move_debuggable(conn.seen, conn.dbg, s, "running")
      <4>1. PICK s \in Steps : s > conn.on[1] /\ move_debuggable(conn.seen, conn.dbg, s, "running")
        BY <3>4
      <4>2. \A b \in Attempt : st[b] # "none" => b[1] # s
        BY <2>3, <4>1, <1>c, <1>d, AttemptFacts
      <4>3. \A r \in Steps : conf[r] # "none" => r # s
        BY <2>3, <4>1, <1>c, <1>d, AttemptFacts
      <4>4. QED
        BY <2>3, <3>4, <4>1, <4>2, <4>3
           DEF IInv, TypeOK, Matching, Behind, Sent, OneAttemptInFlight,
               Latest, Fresh, InSections, InAdvance, InReview, InReconcile,
               InClaim, InSend, InMark, InExpire, OnAttempt, OnLatest,
               ReconcileApply, move_debuggable, move_run, Stored
    <3>5. QED BY <3>1, <3>2, <3>3, <3>4
  <2>4. QED BY <1>a, <2>1, <2>2, <2>3
<1>3. Behind'
  BY <1>0, <1>1, ForwardBehind
     DEF IInv, TypeOK, TypeRun, ReconcileApply
<1>4. Sent'
  BY DEF IInv, TypeOK, Sent, ReconcileApply, Stored, EndSteps, EndReviews,
         fail_run, move_run, move_debuggable, Retried, NoErrorBranch,
         handle_step_error, Unavailable, DropResult, TakeResult,
         apply_step_result
<1>5. InSections'
  <2>1. CASE st[conn.on] \notin ActiveStep /\ UNCHANGED <<runVars, st, conf, missed>>
    BY <2>1
       DEF IInv, TypeOK, Matching, Behind, Sent, OneAttemptInFlight, Latest,
           Fresh, InSections, InAdvance, InReview, InReconcile, InClaim,
           InSend, InMark, InExpire, OnAttempt, OnLatest, ReconcileApply
  <2>2. CASE st[conn.on] \in ActiveStep /\ DropResult(conn.on, conn.seen) /\ (conn.seen \in Ended \/ missed' # {})
    <3>1. UNCHANGED <<prog, run, cur, ctl, conf, row, performed, pausing, cancel>>
      BY <2>2 DEF DropResult, ReconcileApply
    <3>2. /\ st' = [st EXCEPT ![conn.on] = "cancelled"] /\ Active' = Active \ {conn.on}
      BY <2>2 DEF DropResult, IInv, TypeOK
    <3>3. conn.seen \in Ended => run \in Ended
      BY DEF IInv, InSections, InReconcile, ReconcileApply
    <3>4. QED
      BY <2>2, <3>1, <3>2, <3>3
         DEF IInv, TypeOK, Matching, Behind, Sent, OneAttemptInFlight, Latest,
             Fresh, InSections, InAdvance, InReview, InReconcile, InClaim,
             InSend, InMark, InExpire, OnAttempt, OnLatest, ReconcileApply
  <2>3. CASE /\ st[conn.on] \in ActiveStep /\ UNCHANGED missed /\ conn.seen \notin Ended /\ ~ pausing
             /\ TakeResult(conn.on, conn.seen, conn.dbg)
    <3>1. PICK status \in {"failed", "timed_out", "succeeded"} :
            LET ended == [st EXCEPT ![conn.on] = status]
            IN  \/ fail_run("failed", ended, conf)
                \/ /\ st' = ended /\ conf' = conf /\ status # "succeeded"
                   /\ Retried(conn.on, TRUE)
                   /\ move_debuggable(conn.seen, conn.dbg, conn.on[1], "retry_wait")
                \/ /\ st' = ended /\ conf' = conf
                   /\ \E s \in Steps : s > conn.on[1] /\ move_debuggable(conn.seen, conn.dbg, s, "running")
      BY <1>b, <2>3
    <3> DEFINE ended == [st EXCEPT ![conn.on] = status]
    <3>2. CASE fail_run("failed", ended, conf)
      BY <2>3, <3>2
         DEF IInv, TypeOK, Matching, Behind, Sent, OneAttemptInFlight, Latest,
             Fresh, InSections, InAdvance, InReview, InReconcile, InClaim,
             InSend, InMark, InExpire, OnAttempt, OnLatest, ReconcileApply,
             fail_run, EndSteps, EndReviews
    <3>3. CASE /\ st' = ended /\ conf' = conf /\ Retried(conn.on, TRUE)
               /\ move_debuggable(conn.seen, conn.dbg, conn.on[1], "retry_wait")
      BY <2>3, <3>3, <1>c, <1>e
         DEF IInv, TypeOK, Matching, Behind, Sent, OneAttemptInFlight, Latest,
             Fresh, InSections, InAdvance, InReview, InReconcile, InClaim,
             InSend, InMark, InExpire, OnAttempt, OnLatest, ReconcileApply,
             move_debuggable, move_run, Stored, Retried
    <3>4. CASE /\ st' = ended /\ conf' = conf
               /\ \E s \in Steps : s > conn.on[1] /\ move_debuggable(conn.seen, conn.dbg, s, "running")
      <4>1. PICK s \in Steps : s > conn.on[1] /\ move_debuggable(conn.seen, conn.dbg, s, "running")
        BY <3>4
      <4>2. \A b \in Attempt : st[b] # "none" => b[1] # s
        BY <2>3, <4>1, <1>c, <1>d, AttemptFacts
      <4>3. \A r \in Steps : conf[r] # "none" => r # s
        BY <2>3, <4>1, <1>c, <1>d, AttemptFacts
      <4>4. QED
        BY <2>3, <3>4, <4>1, <4>2, <4>3
           DEF IInv, TypeOK, Matching, Behind, Sent, OneAttemptInFlight,
               Latest, Fresh, InSections, InAdvance, InReview, InReconcile,
               InClaim, InSend, InMark, InExpire, OnAttempt, OnLatest,
               ReconcileApply, move_debuggable, move_run, Stored
    <3>5. QED BY <3>1, <3>2, <3>3, <3>4
  <2>4. QED BY <1>a, <2>1, <2>2, <2>3
<1>6. QED BY <1>1, <1>2, <1>3, <1>4, <1>5 DEF IInv

LEMMA ExpireReadKeeps == ASSUME IInv, ExpireRead PROVE IInv'
<1>1. TypeOK' BY TryAssumption DEF IInv, TypeOK, ExpireRead, Free, Expirable
<1>2. Matching' /\ OneAttemptInFlight'
  BY DEF IInv, TypeOK, Matching, OneAttemptInFlight, Latest, Fresh,
         ExpireRead, Free, Expirable
<1>3. Behind' BY DEF IInv, TypeOK, Behind, ExpireRead, Free, Expirable
<1>4. Sent' BY DEF IInv, TypeOK, Sent, ExpireRead, Free, Expirable
<1>5. InSections'
  BY DEF IInv, TypeOK, Matching, Latest, Fresh, InSections, InAdvance,
         InReview, InReconcile, InClaim, InSend, InMark, InExpire, OnAttempt,
         OnLatest, ExpireRead, Free, Expirable
<1>6. QED BY <1>1, <1>2, <1>3, <1>4, <1>5 DEF IInv

LEMMA ExpireWriteKeeps == ASSUME IInv, ExpireWrite PROVE IInv'
<1>1. TypeOK'
  BY SeenTypes
     DEF IInv, TypeOK, ExpireWrite, EndSteps, EndReviews, fail_run
<1>2. Matching' /\ OneAttemptInFlight'
  BY DEF IInv, TypeOK, InSections, InExpire, Matching, OneAttemptInFlight,
         Latest, Fresh, ExpireWrite, EndSteps, EndReviews, fail_run
<1>3. Behind'
  BY DEF IInv, TypeOK, Behind, ExpireWrite, EndSteps, EndReviews, fail_run
<1>4. Sent'
  BY DEF IInv, TypeOK, Sent, ExpireWrite, EndSteps, EndReviews, fail_run
<1>5. InSections' BY IdleSections DEF ExpireWrite
<1>6. QED BY <1>1, <1>2, <1>3, <1>4, <1>5 DEF IInv

LEMMA ReviewReadKeeps ==
  ASSUME IInv, NEW s \in Steps, ReviewRead(s)
  PROVE IInv'
<1>1. TypeOK' BY TryAssumption DEF IInv, TypeOK, ReviewRead, Free
<1>2. Matching' /\ OneAttemptInFlight'
  BY DEF IInv, TypeOK, Matching, OneAttemptInFlight, Latest, Fresh,
         ReviewRead, Free
<1>3. Behind' BY DEF IInv, TypeOK, Behind, ReviewRead, Free
<1>4. Sent' BY DEF IInv, TypeOK, Sent, ReviewRead, Free
<1>5. InSections'
  BY DEF IInv, TypeOK, Matching, Behind, Latest, Fresh, InSections, InAdvance,
         InReview, InReconcile, InClaim, InSend, InMark, InExpire, OnAttempt,
         OnLatest, ReviewRead, Free
<1>6. QED BY <1>1, <1>2, <1>3, <1>4, <1>5 DEF IInv

LEMMA ReviewWriteKeeps == ASSUME IInv, ReviewWrite PROVE IInv'
<1> DEFINE s == conn.on[1]
            closed == [conf EXCEPT ![s] = "expired"]
<1>a. /\ s \in Steps /\ conf[s] # "none" /\ cur \in Nat /\ cur \in Steps /\ TypeOK
      /\ closed \in [Steps -> ReviewStatuses]
      /\ \A r \in Steps : closed[r] # "none" <=> conf[r] # "none"
  BY StepsAssumption DEF IInv, TypeOK, ReviewWrite, InSections, InReview
<1>b. \/ conf' = closed /\ UNCHANGED <<runVars, st>>
      \/ /\ conf' = closed /\ st' = st /\ prog[s].alt # 0 /\ conn.seen = "waiting_ai"
         /\ move_run(conn.seen, prog[s].alt, "running")
      \/ fail_run("cancelled", st, closed)
  BY DEF ReviewWrite, MovesWaiting
<1>c. /\ TypeRun' /\ cur' \in Steps
      /\ st' \in [Attempt -> StepStatuses] /\ conf' \in [Steps -> ReviewStatuses]
      /\ \A a \in Attempt : st'[a] # "none" => st[a] # "none"
      /\ \A r \in Steps : conf'[r] # "none" => conf[r] # "none"
  <2>1. CASE conf' = closed /\ UNCHANGED <<runVars, st>>
    BY <1>a, <2>1 DEF TypeOK, TypeRun
  <2>2. CASE /\ conf' = closed /\ st' = st /\ prog[s].alt # 0
             /\ move_run(conn.seen, prog[s].alt, "running")
    <3>1. prog[s].alt \in Steps BY <1>a, <2>2, StepFacts
    <3>2. TypeRun' /\ cur' = prog[s].alt
      BY <1>a, <2>2, <3>1, MoveTypes, SeenTypes
    <3>3. QED BY <1>a, <2>2, <3>1, <3>2 DEF TypeOK
  <2>3. CASE fail_run("cancelled", st, closed)
    <3>1. /\ TypeRun' /\ UNCHANGED cur
          /\ st' \in [Attempt -> StepStatuses] /\ conf' \in [Steps -> ReviewStatuses]
          /\ \A a \in Attempt : st'[a] # "none" <=> st[a] # "none"
          /\ \A r \in Steps : conf'[r] # "none" <=> closed[r] # "none"
      BY <1>a, <2>3, EndTypes DEF TypeOK
    <3>2. QED BY <1>a, <3>1
  <2>4. QED BY <1>b, <2>1, <2>2, <2>3
<1>d. prog' = prog BY DEF ReviewWrite
<1>1. TypeOK' BY <1>a, <1>c, SeenTypes DEF TypeOK, TypeRun, ReviewWrite
<1>2. Matching' /\ OneAttemptInFlight'
  BY StepFacts
     DEF IInv, TypeOK, InSections, InReview, Behind, Sent, Matching,
         OneAttemptInFlight, Latest, Fresh, ReviewWrite, Stored, EndSteps,
         EndReviews, fail_run, move_run, MovesWaiting
<1>3. Behind'
  <2>1. CASE cur' = cur
    <3>1. cur' >= cur BY <1>a, <2>1
    <3>2. QED BY <1>a, <1>c, <1>d, <3>1, ForwardBehind DEF IInv
  <2>2. CASE conn.seen = "waiting_ai" /\ prog[s].alt # 0 /\ cur' = prog[s].alt
    <3>0. prog[s].alt > s /\ s \in Nat /\ cur' \in Nat
      BY <1>a, <1>c, <2>2, StepFacts, StepsAssumption
    <3>1. ASSUME NEW a \in Attempt, st'[a] # "none"
          PROVE  /\ a[1] <= cur' /\ a[2] <= prog'[a[1]].tries
                 /\ prog'[a[1]].kind = "mcp" /\ (~ prog'[a[1]].safe => a[2] = 1)
      <4>1. st[a] # "none" BY <1>c, <3>1
      <4>2. a[1] \in Nat /\ a[1] <= s
        BY <4>1, AttemptFacts DEF IInv, ReviewWrite, InSections, InReview
      <4>3. a[1] <= cur' BY <4>2, <3>0, <2>2
      <4>4. QED BY <1>d, <4>1, <4>3 DEF IInv, Behind
    <3>2. ASSUME NEW r \in Steps, conf'[r] # "none"
          PROVE  r <= cur' /\ prog'[r].kind = "ai"
      <4>1. conf[r] # "none" BY <1>c, <3>2
      <4>2. r \in Nat /\ r <= s
        BY <4>1, StepsAssumption DEF IInv, ReviewWrite, InSections, InReview
      <4>3. r <= cur' BY <4>2, <3>0, <2>2
      <4>4. QED BY <1>d, <4>1, <4>3 DEF IInv, Behind
    <3>3. QED BY <3>1, <3>2 DEF Behind
  <2>3. QED BY <1>b, <2>1, <2>2 DEF move_run, fail_run
<1>4. Sent'
  BY DEF IInv, TypeOK, Sent, ReviewWrite, Stored, EndSteps, EndReviews,
         fail_run, move_run, MovesWaiting
<1>5. InSections' BY IdleSections DEF ReviewWrite
<1>6. QED BY <1>1, <1>2, <1>3, <1>4, <1>5 DEF IInv

LEMMA ClaimKeeps == ASSUME IInv, NEW a \in Attempt, Claim(a) PROVE IInv'
<1>1. TypeOK' BY TryAssumption DEF IInv, TypeOK, Claim, Free
<1>2. Matching' /\ OneAttemptInFlight'
  BY DEF IInv, TypeOK, Matching, OneAttemptInFlight, Latest, Fresh, Claim,
         Free
<1>3. Behind' BY DEF IInv, TypeOK, Behind, Claim, Free
<1>4. Sent' BY DEF IInv, TypeOK, Sent, Claim, Free
<1>5. InSections'
  BY DEF IInv, TypeOK, Matching, OneAttemptInFlight, Latest, Fresh,
         InSections, InAdvance, InReview, InReconcile, InClaim, InSend,
         InMark, InExpire, OnAttempt, OnLatest, Claim, Free
<1>6. QED BY <1>1, <1>2, <1>3, <1>4, <1>5 DEF IInv

LEMMA ClaimLateKeeps == ASSUME IInv, ClaimLate PROVE IInv'
<1>0. /\ TypeRun' /\ cur' >= cur
      /\ st' \in [Attempt -> StepStatuses] /\ conf' \in [Steps -> ReviewStatuses]
      /\ \A b \in Attempt : st'[b] # "none" => st[b] # "none"
      /\ \A s \in Steps : conf'[s] # "none" => conf[s] # "none"
  <2>1. PICK retryable \in BOOLEAN :
          fail_step_dispatch(conn.on, conn.seen, conn.dbg, "STEP_TIMEOUT", retryable)
    BY DEF ClaimLate
  <2>2. conn.on \in Attempt /\ conn.on[1] = cur /\ st[conn.on] # "none"
    BY DEF IInv, InSections, InClaim, OnAttempt, OnLatest, ClaimLate
  <2>3. TypeOK /\ Behind /\ conn.seen \in RunStatuses /\ conn.dbg \in BOOLEAN
    BY SeenTypes DEF IInv
  <2>4. QED BY <2>1, <2>2, <2>3, FailFacts
<1>1. TypeOK' BY <1>0, SeenTypes DEF IInv, TypeOK, TypeRun, ClaimLate
<1>2. Matching' /\ OneAttemptInFlight'
  BY StepFacts
     DEF IInv, TypeOK, InSections, InClaim, OnAttempt, OnLatest, Behind, Sent,
         Matching, OneAttemptInFlight, Latest, Fresh, ClaimLate, Stored,
         EndSteps, EndReviews, fail_run, move_run, move_debuggable, Retried,
         NoErrorBranch, handle_step_error, Unavailable, fail_step_dispatch
<1>3. Behind'
  BY <1>0, <1>1, ForwardBehind
     DEF IInv, TypeOK, TypeRun, ClaimLate
<1>4. Sent'
  BY DEF IInv, TypeOK, Sent, ClaimLate, Stored, EndSteps, EndReviews,
         fail_run, move_run, move_debuggable, Retried, NoErrorBranch,
         handle_step_error, Unavailable, fail_step_dispatch
<1>5. InSections' BY IdleSections DEF ClaimLate
<1>6. QED BY <1>1, <1>2, <1>3, <1>4, <1>5 DEF IInv

LEMMA ClaimRefusedKeeps == ASSUME IInv, ClaimRefused PROVE IInv'
<1>0. /\ TypeRun' /\ cur' >= cur
      /\ st' \in [Attempt -> StepStatuses] /\ conf' \in [Steps -> ReviewStatuses]
      /\ \A b \in Attempt : st'[b] # "none" => st[b] # "none"
      /\ \A s \in Steps : conf'[s] # "none" => conf[s] # "none"
  <2>1. PICK retryable \in BOOLEAN :
          fail_step_dispatch(conn.on, conn.seen, conn.dbg, "REFUSED", retryable)
    BY DEF ClaimRefused
  <2>2. conn.on \in Attempt /\ conn.on[1] = cur /\ st[conn.on] # "none"
    BY DEF IInv, InSections, InClaim, OnAttempt, OnLatest, ClaimRefused
  <2>3. TypeOK /\ Behind /\ conn.seen \in RunStatuses /\ conn.dbg \in BOOLEAN
    BY SeenTypes DEF IInv
  <2>4. QED BY <2>1, <2>2, <2>3, FailFacts
<1>1. TypeOK' BY <1>0, SeenTypes DEF IInv, TypeOK, TypeRun, ClaimRefused
<1>2. Matching' /\ OneAttemptInFlight'
  BY StepFacts
     DEF IInv, TypeOK, InSections, InClaim, OnAttempt, OnLatest, Behind, Sent,
         Matching, OneAttemptInFlight, Latest, Fresh, ClaimRefused, Stored,
         EndSteps, EndReviews, fail_run, move_run, move_debuggable, Retried,
         NoErrorBranch, handle_step_error, Unavailable, fail_step_dispatch
<1>3. Behind'
  BY <1>0, <1>1, ForwardBehind
     DEF IInv, TypeOK, TypeRun, ClaimRefused
<1>4. Sent'
  BY DEF IInv, TypeOK, Sent, ClaimRefused, Stored, EndSteps, EndReviews,
         fail_run, move_run, move_debuggable, Retried, NoErrorBranch,
         handle_step_error, Unavailable, fail_step_dispatch
<1>5. InSections' BY IdleSections DEF ClaimRefused
<1>6. QED BY <1>1, <1>2, <1>3, <1>4, <1>5 DEF IInv

LEMMA ClaimOfflineKeeps == ASSUME IInv, ClaimOffline PROVE IInv'
<1>1. TypeOK'
  BY SeenTypes
     DEF IInv, TypeOK, InSections, InClaim, OnAttempt, OnLatest, ClaimOffline,
         Stored
<1>2. Matching' /\ OneAttemptInFlight'
  BY DEF IInv, TypeOK, InSections, InClaim, OnAttempt, OnLatest, Matching,
         OneAttemptInFlight, Latest, Fresh, ClaimOffline, Stored
<1>3. Behind'
  BY DEF IInv, TypeOK, InSections, InClaim, OnAttempt, OnLatest, Behind,
         ClaimOffline, Stored
<1>4. Sent' BY DEF IInv, TypeOK, Sent, ClaimOffline, Stored
<1>5. InSections' BY IdleSections DEF ClaimOffline
<1>6. QED BY <1>1, <1>2, <1>3, <1>4, <1>5 DEF IInv

LEMMA SendKeeps == ASSUME IInv, Send PROVE IInv'
<1>0. /\ conn' = [pc |-> "sending", on |-> conn.on, seen |-> "pending", dbg |-> FALSE]
      /\ conn.on \in Attempt
  BY DEF Send, IInv, InSections, InClaim, OnLatest, OnAttempt
<1>1. TypeOK'
  <2>1. (conn \in [pc : Sections, on : (Steps \cup {0}) \X (0 .. MaxTry),
                   seen : RunStatuses, dbg : BOOLEAN])'
    BY <1>0, TryAssumption
  <2>2. (row \in [Attempt -> RowStatuses])' BY DEF Send, IInv, TypeOK
  <2>3. QED BY <2>1, <2>2 DEF Send, IInv, TypeOK
<1>2. Matching' /\ OneAttemptInFlight'
  BY DEF IInv, TypeOK, InSections, InClaim, OnAttempt, OnLatest, Matching,
         OneAttemptInFlight, Latest, Fresh, Send
<1>3. Behind' BY DEF IInv, TypeOK, Behind, Send
<1>4. Sent'
  BY DEF IInv, TypeOK, InSections, InClaim, OnAttempt, OnLatest, Sent, Send
<1>5. InSections'
  <2>1. OnAttempt /\ row'[conn.on] # "none" /\ (st[conn.on] = "dispatching" => run \notin Ended)
    BY <1>0 DEF Send, IInv, TypeOK, InSections, InClaim, OnLatest, OnAttempt
  <2>2. QED
    BY <1>0, <2>1
       DEF Send, InSections, InAdvance, InReview, InReconcile, InClaim,
           InSend, InMark, InExpire, OnAttempt, OnLatest
<1>6. QED BY <1>1, <1>2, <1>3, <1>4, <1>5 DEF IInv

LEMMA SkipSendKeeps == ASSUME IInv, SkipSend PROVE IInv'
<1>1. TypeOK' BY SeenTypes DEF IInv, TypeOK, SkipSend
<1>2. Matching' /\ OneAttemptInFlight'
  BY DEF IInv, TypeOK, InSections, InClaim, OnAttempt, OnLatest, Matching,
         OneAttemptInFlight, Latest, Fresh, SkipSend
<1>3. Behind' BY DEF IInv, TypeOK, Behind, SkipSend
<1>4. Sent' BY DEF IInv, TypeOK, Sent, SkipSend
<1>5. InSections' BY IdleSections DEF SkipSend
<1>6. QED BY <1>1, <1>2, <1>3, <1>4, <1>5 DEF IInv

LEMMA SendFailsKeeps == ASSUME IInv, SendFails PROVE IInv'
<1>1. TypeOK'
  BY SeenTypes
     DEF IInv, TypeOK, InSections, InSend, OnAttempt, SendFails
<1>2. Matching' /\ OneAttemptInFlight'
  BY DEF IInv, TypeOK, InSections, InSend, OnAttempt, Matching,
         OneAttemptInFlight, Latest, Fresh, SendFails
<1>3. Behind' BY DEF IInv, TypeOK, Behind, SendFails
<1>4. Sent' BY DEF IInv, TypeOK, Sent, SendFails
<1>5. InSections' BY IdleSections DEF SendFails
<1>6. QED BY <1>1, <1>2, <1>3, <1>4, <1>5 DEF IInv

LEMMA MarkReadKeeps == ASSUME IInv, MarkRead PROVE IInv'
<1>1. TypeOK'
  BY SeenTypes, TryAssumption
     DEF IInv, TypeOK, MarkRead, StillClaimed
<1>2. Matching' /\ OneAttemptInFlight'
  BY DEF IInv, TypeOK, InSections, InSend, OnAttempt, Matching,
         OneAttemptInFlight, Latest, Fresh, MarkRead, StillClaimed
<1>3. Behind' BY DEF IInv, TypeOK, Behind, MarkRead, StillClaimed
<1>4. Sent' BY DEF IInv, TypeOK, Sent, MarkRead, StillClaimed
<1>5. InSections'
  BY DEF IInv, TypeOK, Matching, Latest, Fresh, InSections, InAdvance,
         InReview, InReconcile, InClaim, InSend, InMark, InExpire, OnAttempt,
         OnLatest, MarkRead, StillClaimed
<1>6. QED BY <1>1, <1>2, <1>3, <1>4, <1>5 DEF IInv

LEMMA MarkWriteKeeps == ASSUME IInv, MarkWrite PROVE IInv'
<1>1. TypeOK'
  BY SeenTypes
     DEF IInv, TypeOK, InSections, InMark, OnAttempt, OnLatest, MarkWrite,
         Stored
<1>2. Matching' /\ OneAttemptInFlight'
  BY DEF IInv, TypeOK, InSections, InMark, OnAttempt, OnLatest, Matching,
         OneAttemptInFlight, Latest, Fresh, MarkWrite, Stored
<1>3. Behind'
  BY DEF IInv, TypeOK, InSections, InMark, OnAttempt, OnLatest, Behind,
         MarkWrite, Stored
<1>4. Sent' BY DEF IInv, TypeOK, Sent, MarkWrite, Stored
<1>5. InSections' BY IdleSections DEF MarkWrite
<1>6. QED BY <1>1, <1>2, <1>3, <1>4, <1>5 DEF IInv

LEMMA PerformKeeps == ASSUME IInv, NEW a \in Attempt, Perform(a) PROVE IInv'
<1>1. TypeOK' BY  DEF IInv, TypeOK, Perform
<1>2. Matching' /\ OneAttemptInFlight'
  BY DEF IInv, TypeOK, Matching, OneAttemptInFlight, Latest, Fresh, Perform
<1>3. Behind' BY DEF IInv, TypeOK, Behind, Perform
<1>4. Sent' BY DEF IInv, TypeOK, Sent, Perform
<1>5. InSections'
  BY DEF IInv, TypeOK, Matching, Latest, Fresh, InSections, InAdvance,
         InReview, InReconcile, InClaim, InSend, InMark, InExpire, OnAttempt,
         OnLatest, Perform
<1>6. QED BY <1>1, <1>2, <1>3, <1>4, <1>5 DEF IInv

LEMMA RecordAnswerKeeps ==
  ASSUME IInv, NEW a \in Attempt, NEW outcome \in {"completed", "error"}, RecordAnswer(a, outcome)
  PROVE IInv'
<1>1. TypeOK' BY  DEF IInv, TypeOK, RecordAnswer, Between
<1>2. Matching' /\ OneAttemptInFlight'
  BY DEF IInv, TypeOK, Matching, OneAttemptInFlight, Latest, Fresh,
         RecordAnswer, Between
<1>3. Behind' BY DEF IInv, TypeOK, Behind, RecordAnswer, Between
<1>4. Sent' BY DEF IInv, TypeOK, Sent, RecordAnswer, Between
<1>5. InSections'
  BY SMTT(30) DEF IInv, TypeOK, Matching, Latest, Fresh, InSections, InAdvance,
         InReview, InReconcile, InClaim, InSend, InMark, InExpire, OnAttempt,
         OnLatest, RecordAnswer, Between
<1>6. QED BY <1>1, <1>2, <1>3, <1>4, <1>5 DEF IInv

LEMMA ApplyHookKeeps == ASSUME IInv, ApplyHook PROVE IInv'
<1>0. /\ TypeRun' /\ cur' >= cur
      /\ st' \in [Attempt -> StepStatuses] /\ conf' \in [Steps -> ReviewStatuses]
      /\ \A b \in Attempt : st'[b] # "none" => st[b] # "none"
      /\ \A s \in Steps : conf'[s] # "none" => conf[s] # "none"
      /\ missed' \subseteq Attempt /\ events' \in 0 .. MaxEvents[prog]
  <2>1. hook \in Attempt /\ (hook[1] = cur \/ st[hook] \notin ActiveStep)
    BY DEF IInv, Sent, Matching, ApplyHook
  <2>2. TypeOK /\ Behind /\ run \in RunStatuses /\ debug \in BOOLEAN
    BY SeenTypes DEF IInv, TypeOK
  <2>3. QED BY <2>1, <2>2, ResultFacts DEF ApplyHook
<1>1. TypeOK' BY <1>0, SeenTypes DEF IInv, TypeOK, TypeRun, ApplyHook
<1>a. \/ st[hook] \notin ActiveStep /\ UNCHANGED <<runVars, st, conf, missed>>
      \/ st[hook] \in ActiveStep /\ DropResult(hook, run) /\ (run \in Ended \/ missed' # {})
      \/ /\ st[hook] \in ActiveStep /\ UNCHANGED missed /\ run \notin Ended /\ ~ pausing
         /\ TakeResult(hook, run, debug)
  <2>1. ASSUME DropResult(hook, run) PROVE run \in Ended \/ missed' # {}
    BY <2>1 DEF DropResult
  <2>2. CASE st[hook] \notin ActiveStep
    <3>1. UNCHANGED <<runVars, st, conf, missed, events>>
      BY <2>2 DEF ApplyHook, apply_step_result
    <3>2. UNCHANGED <<runVars, st, conf, missed>> BY <3>1
    <3>3. QED BY <2>2, <3>2
  <2>3. CASE st[hook] \in ActiveStep
    BY <2>1, <2>3 DEF ApplyHook, apply_step_result, Unavailable
  <2>4. QED BY <2>2, <2>3
<1>b. ASSUME st[hook] \in ActiveStep, TakeResult(hook, run, debug)
       PROVE  \E status \in {"failed", "timed_out", "succeeded"} :
                LET ended == [st EXCEPT ![hook] = status]
                IN  \/ fail_run("failed", ended, conf)
                    \/ /\ st' = ended /\ conf' = conf /\ status # "succeeded"
                       /\ Retried(hook, TRUE)
                       /\ move_debuggable(run, debug, hook[1], "retry_wait")
                    \/ /\ st' = ended /\ conf' = conf
                       /\ \E s \in Steps : s > hook[1] /\ move_debuggable(run, debug, s, "running")
  <2>1. hook \in Attempt /\ hook[1] \in Steps /\ prog[hook[1]].kind = "mcp"
    BY <1>b, AttemptFacts DEF IInv, Behind, Sent, Matching, ApplyHook
  <2>2. CASE \E code \in {"STEP_TIMEOUT", "DEVICE_ERROR"}, retryable \in BOOLEAN :
               handle_step_error(hook, run, debug, code, retryable)
    <3>1. PICK code \in {"STEP_TIMEOUT", "DEVICE_ERROR"}, retryable \in BOOLEAN :
               handle_step_error(hook, run, debug, code, retryable)
      BY <2>2
    <3>2. prog[hook[1]].alt # 0 => prog[hook[1]].alt \in Steps /\ prog[hook[1]].alt > hook[1]
      BY <2>1, StepFacts DEF IInv
    <3>3. QED BY <3>1, <3>2 DEF handle_step_error, Retried, NoErrorBranch
  <2>3. CASE /\ st' = [st EXCEPT ![hook] = "succeeded"] /\ conf' = conf
             /\ move_debuggable(run, debug, prog[hook[1]].next, "running")
    <3>1. prog[hook[1]].next \in Steps /\ prog[hook[1]].next > hook[1]
      BY <2>1, StepFacts DEF IInv
    <3>2. QED BY <2>3, <3>1
  <2>4. QED BY <1>b, <2>2, <2>3 DEF TakeResult
<1>c. ASSUME st[hook] \in ActiveStep
       PROVE  /\ hook \in Attempt /\ hook[1] = cur /\ Latest(hook)
              /\ \A b \in Attempt : st[b] # "none" => b[1] <= cur
              /\ \A r \in Steps : conf[r] # "none" => r <= cur
  BY <1>c DEF IInv, Behind, Sent, Matching, ApplyHook
<1>d. cur \in Nat /\ Steps \subseteq Nat BY StepsAssumption DEF IInv, TypeOK
<1>e. ASSUME st[hook] \in ActiveStep, Retried(hook, TRUE), NEW b \in Attempt,
              b[1] = cur, st[b] # "none"
       PROVE  b[2] < prog[cur].tries /\ prog[cur].safe
  <2>1. /\ b[2] \in Nat /\ hook[2] \in Nat /\ b[2] <= hook[2]
        /\ hook[2] < prog[cur].tries /\ prog[cur].safe
    BY <1>c, <1>e, AttemptFacts DEF Latest, Retried
  <2>2. prog[cur].tries \in Nat BY StepFacts DEF IInv, TypeOK
  <2>3. QED BY <2>1, <2>2
<1>2. Matching' /\ OneAttemptInFlight'
  <2>1. CASE st[hook] \notin ActiveStep /\ UNCHANGED <<runVars, st, conf, missed>>
    BY <2>1
       DEF IInv, TypeOK, Matching, Behind, Sent, OneAttemptInFlight, Latest,
           Fresh, InSections, InAdvance, InReview, InReconcile, InClaim,
           InSend, InMark, InExpire, OnAttempt, OnLatest, ApplyHook
  <2>2. CASE st[hook] \in ActiveStep /\ DropResult(hook, run) /\ (run \in Ended \/ missed' # {})
    <3>1. UNCHANGED <<prog, run, cur, ctl, conf, row, performed, pausing, cancel>>
      BY <2>2 DEF DropResult, ApplyHook
    <3>2. /\ st' = [st EXCEPT ![hook] = "cancelled"] /\ Active' = Active \ {hook}
      BY <2>2 DEF DropResult, IInv, TypeOK
    <3>3. run \in Ended => run \in Ended
      BY DEF IInv, InSections, InReconcile, ApplyHook
    <3>4. QED
      BY SMTT(30), <2>2, <3>1, <3>2, <3>3
         DEF IInv, TypeOK, Matching, Behind, Sent, OneAttemptInFlight, Latest,
             Fresh, InSections, InAdvance, InReview, InReconcile, InClaim,
             InSend, InMark, InExpire, OnAttempt, OnLatest, ApplyHook
  <2>3. CASE /\ st[hook] \in ActiveStep /\ UNCHANGED missed /\ run \notin Ended /\ ~ pausing
             /\ TakeResult(hook, run, debug)
    <3>1. PICK status \in {"failed", "timed_out", "succeeded"} :
            LET ended == [st EXCEPT ![hook] = status]
            IN  \/ fail_run("failed", ended, conf)
                \/ /\ st' = ended /\ conf' = conf /\ status # "succeeded"
                   /\ Retried(hook, TRUE)
                   /\ move_debuggable(run, debug, hook[1], "retry_wait")
                \/ /\ st' = ended /\ conf' = conf
                   /\ \E s \in Steps : s > hook[1] /\ move_debuggable(run, debug, s, "running")
      BY <1>b, <2>3
    <3> DEFINE ended == [st EXCEPT ![hook] = status]
    <3>2. CASE fail_run("failed", ended, conf)
      BY <2>3, <3>2
         DEF IInv, TypeOK, Matching, Behind, Sent, OneAttemptInFlight, Latest,
             Fresh, InSections, InAdvance, InReview, InReconcile, InClaim,
             InSend, InMark, InExpire, OnAttempt, OnLatest, ApplyHook,
             fail_run, EndSteps, EndReviews
    <3>3. CASE /\ st' = ended /\ conf' = conf /\ Retried(hook, TRUE)
               /\ move_debuggable(run, debug, hook[1], "retry_wait")
      BY SMTT(30), <2>3, <3>3, <1>c, <1>e
         DEF IInv, TypeOK, Matching, Behind, Sent, OneAttemptInFlight, Latest,
             Fresh, InSections, InAdvance, InReview, InReconcile, InClaim,
             InSend, InMark, InExpire, OnAttempt, OnLatest, ApplyHook,
             move_debuggable, move_run, Stored, Retried
    <3>4. CASE /\ st' = ended /\ conf' = conf
               /\ \E s \in Steps : s > hook[1] /\ move_debuggable(run, debug, s, "running")
      <4>1. PICK s \in Steps : s > hook[1] /\ move_debuggable(run, debug, s, "running")
        BY <3>4
      <4>2. \A b \in Attempt : st[b] # "none" => b[1] # s
        BY <2>3, <4>1, <1>c, <1>d, AttemptFacts
      <4>3. \A r \in Steps : conf[r] # "none" => r # s
        BY <2>3, <4>1, <1>c, <1>d, AttemptFacts
      <4>4. QED
        BY SMTT(30), <2>3, <3>4, <4>1, <4>2, <4>3
           DEF IInv, TypeOK, Matching, Behind, Sent, OneAttemptInFlight,
               Latest, Fresh, InSections, InAdvance, InReview, InReconcile,
               InClaim, InSend, InMark, InExpire, OnAttempt, OnLatest,
               ApplyHook, move_debuggable, move_run, Stored
    <3>5. QED BY <3>1, <3>2, <3>3, <3>4
  <2>4. QED BY <1>a, <2>1, <2>2, <2>3
<1>3. Behind'
  BY <1>0, <1>1, ForwardBehind
     DEF IInv, TypeOK, TypeRun, ApplyHook
<1>4. Sent'
  BY DEF IInv, TypeOK, Sent, ApplyHook, Stored, EndSteps, EndReviews,
         fail_run, move_run, move_debuggable, Retried, NoErrorBranch,
         handle_step_error, Unavailable, DropResult, TakeResult,
         apply_step_result
<1>5. InSections'
  <2>1. CASE st[hook] \notin ActiveStep /\ UNCHANGED <<runVars, st, conf, missed>>
    BY SMTT(30), <2>1
       DEF IInv, TypeOK, Matching, Behind, Sent, OneAttemptInFlight, Latest,
           Fresh, InSections, InAdvance, InReview, InReconcile, InClaim,
           InSend, InMark, InExpire, OnAttempt, OnLatest, ApplyHook
  <2>2. CASE st[hook] \in ActiveStep /\ DropResult(hook, run) /\ (run \in Ended \/ missed' # {})
    <3>1. UNCHANGED <<prog, run, cur, ctl, conf, row, performed, pausing, cancel>>
      BY <2>2 DEF DropResult, ApplyHook
    <3>2. /\ st' = [st EXCEPT ![hook] = "cancelled"] /\ Active' = Active \ {hook}
      BY <2>2 DEF DropResult, IInv, TypeOK
    <3>3. run \in Ended => run \in Ended
      BY DEF IInv, InSections, InReconcile, ApplyHook
    <3>4. QED
      BY SMTT(30), <2>2, <3>1, <3>2, <3>3
         DEF IInv, TypeOK, Matching, Behind, Sent, OneAttemptInFlight, Latest,
             Fresh, InSections, InAdvance, InReview, InReconcile, InClaim,
             InSend, InMark, InExpire, OnAttempt, OnLatest, ApplyHook
  <2>3. CASE /\ st[hook] \in ActiveStep /\ UNCHANGED missed /\ run \notin Ended /\ ~ pausing
             /\ TakeResult(hook, run, debug)
    <3>1. PICK status \in {"failed", "timed_out", "succeeded"} :
            LET ended == [st EXCEPT ![hook] = status]
            IN  \/ fail_run("failed", ended, conf)
                \/ /\ st' = ended /\ conf' = conf /\ status # "succeeded"
                   /\ Retried(hook, TRUE)
                   /\ move_debuggable(run, debug, hook[1], "retry_wait")
                \/ /\ st' = ended /\ conf' = conf
                   /\ \E s \in Steps : s > hook[1] /\ move_debuggable(run, debug, s, "running")
      BY <1>b, <2>3
    <3> DEFINE ended == [st EXCEPT ![hook] = status]
    <3>2. CASE fail_run("failed", ended, conf)
      BY SMTT(30), <2>3, <3>2
         DEF IInv, TypeOK, Matching, Behind, Sent, OneAttemptInFlight, Latest,
             Fresh, InSections, InAdvance, InReview, InReconcile, InClaim,
             InSend, InMark, InExpire, OnAttempt, OnLatest, ApplyHook,
             fail_run, EndSteps, EndReviews
    <3>3. CASE /\ st' = ended /\ conf' = conf /\ Retried(hook, TRUE)
               /\ move_debuggable(run, debug, hook[1], "retry_wait")
      BY SMTT(30), <2>3, <3>3, <1>c, <1>e
         DEF IInv, TypeOK, Matching, Behind, Sent, OneAttemptInFlight, Latest,
             Fresh, InSections, InAdvance, InReview, InReconcile, InClaim,
             InSend, InMark, InExpire, OnAttempt, OnLatest, ApplyHook,
             move_debuggable, move_run, Stored, Retried
    <3>4. CASE /\ st' = ended /\ conf' = conf
               /\ \E s \in Steps : s > hook[1] /\ move_debuggable(run, debug, s, "running")
      <4>1. PICK s \in Steps : s > hook[1] /\ move_debuggable(run, debug, s, "running")
        BY <3>4
      <4>2. \A b \in Attempt : st[b] # "none" => b[1] # s
        BY <2>3, <4>1, <1>c, <1>d, AttemptFacts
      <4>3. \A r \in Steps : conf[r] # "none" => r # s
        BY <2>3, <4>1, <1>c, <1>d, AttemptFacts
      <4>4. QED
        BY SMTT(30), <2>3, <3>4, <4>1, <4>2, <4>3
           DEF IInv, TypeOK, Matching, Behind, Sent, OneAttemptInFlight,
               Latest, Fresh, InSections, InAdvance, InReview, InReconcile,
               InClaim, InSend, InMark, InExpire, OnAttempt, OnLatest,
               ApplyHook, move_debuggable, move_run, Stored
    <3>5. QED BY <3>1, <3>2, <3>3, <3>4
  <2>4. QED BY <1>a, <2>1, <2>2, <2>3
<1>6. QED BY <1>1, <1>2, <1>3, <1>4, <1>5 DEF IInv

LEMMA GiveUpKeeps == ASSUME IInv, NEW a \in Attempt, GiveUp(a) PROVE IInv'
<1>1. TypeOK' BY  DEF IInv, TypeOK, GiveUp, Between
<1>2. Matching' /\ OneAttemptInFlight'
  BY DEF IInv, TypeOK, Matching, OneAttemptInFlight, Latest, Fresh, GiveUp,
         Between
<1>3. Behind' BY DEF IInv, TypeOK, Behind, GiveUp, Between
<1>4. Sent' BY DEF IInv, TypeOK, Sent, GiveUp, Between
<1>5. InSections'
  BY SMTT(30) DEF IInv, TypeOK, Matching, Latest, Fresh, InSections, InAdvance,
         InReview, InReconcile, InClaim, InSend, InMark, InExpire, OnAttempt,
         OnLatest, GiveUp, Between
<1>6. QED BY <1>1, <1>2, <1>3, <1>4, <1>5 DEF IInv

LEMMA wake_offline_runsKeeps == ASSUME IInv, wake_offline_runs PROVE IInv'
<1>1. TypeOK' BY  DEF IInv, TypeOK, wake_offline_runs, Between
<1>2. Matching' /\ OneAttemptInFlight'
  BY DEF IInv, TypeOK, Matching, OneAttemptInFlight, Latest, Fresh,
         wake_offline_runs, Between
<1>3. Behind' BY DEF IInv, TypeOK, Behind, wake_offline_runs, Between
<1>4. Sent' BY DEF IInv, TypeOK, Sent, wake_offline_runs, Between
<1>5. InSections'
  BY DEF IInv, TypeOK, Matching, Latest, Fresh, InSections, InAdvance,
         InReview, InReconcile, InClaim, InSend, InMark, InExpire, OnAttempt,
         OnLatest, wake_offline_runs, Between
<1>6. QED BY <1>1, <1>2, <1>3, <1>4, <1>5 DEF IInv

LEMMA CrashKeeps == ASSUME IInv, Crash PROVE IInv'
<1>1. TypeOK' BY SeenTypes, EventsAssumption DEF IInv, TypeOK, Crash
<1>2. Matching' /\ OneAttemptInFlight'
  BY DEF IInv, TypeOK, Matching, OneAttemptInFlight, Latest, Fresh, Crash
<1>3. Behind' BY DEF IInv, TypeOK, Behind, Crash
<1>4. Sent' BY DEF IInv, TypeOK, Sent, Crash
<1>5. InSections' BY IdleSections DEF Crash
<1>6. QED BY <1>1, <1>2, <1>3, <1>4, <1>5 DEF IInv

LEMMA TickKeeps == ASSUME IInv, Tick PROVE IInv'
<1>1. TypeOK' BY  DEF IInv, TypeOK, Tick
<1>2. Matching' /\ OneAttemptInFlight'
  BY DEF IInv, TypeOK, Matching, OneAttemptInFlight, Latest, Fresh, Tick
<1>3. Behind' BY DEF IInv, TypeOK, Behind, Tick
<1>4. Sent' BY DEF IInv, TypeOK, Sent, Tick
<1>5. InSections'
  BY DEF IInv, TypeOK, Matching, Latest, Fresh, InSections, InAdvance,
         InReview, InReconcile, InClaim, InSend, InMark, InExpire, OnAttempt,
         OnLatest, Tick
<1>6. QED BY <1>1, <1>2, <1>3, <1>4, <1>5 DEF IInv

LEMMA CancelReadKeeps == ASSUME IInv, CancelRead PROVE IInv'
<1>1. TypeOK' BY EventsAssumption DEF IInv, TypeOK, CancelRead
<1>2. Matching' /\ OneAttemptInFlight'
  BY DEF IInv, TypeOK, Matching, OneAttemptInFlight, Latest, Fresh, CancelRead
<1>3. Behind' BY DEF IInv, TypeOK, Behind, CancelRead
<1>4. Sent' BY DEF IInv, TypeOK, Sent, CancelRead
<1>5. InSections'
  BY SMTT(30) DEF IInv, TypeOK, Matching, Latest, Fresh, InSections, InAdvance,
         InReview, InReconcile, InClaim, InSend, InMark, InExpire, OnAttempt,
         OnLatest, CancelRead
<1>6. QED BY <1>1, <1>2, <1>3, <1>4, <1>5 DEF IInv

LEMMA CancelWriteKeeps == ASSUME IInv, CancelWrite PROVE IInv'
<1>1. TypeOK' BY  DEF IInv, TypeOK, CancelWrite, EndSteps, EndReviews
<1>2. Matching' /\ OneAttemptInFlight'
  BY DEF IInv, TypeOK, Matching, OneAttemptInFlight, Latest, Fresh,
         CancelWrite, EndSteps, EndReviews
<1>3. Behind'
  <2>1. /\ TypeOK /\ cur' = cur /\ cur \in Steps /\ cur \in Nat /\ prog' = prog
        /\ \A a \in Attempt : st'[a] # "none" => st[a] # "none"
        /\ \A r \in Steps : conf'[r] # "none" => conf[r] # "none"
    BY StepsAssumption
       DEF IInv, TypeOK, Sent, CancelWrite, EndSteps, EndReviews
  <2>2. cur' >= cur BY <2>1
  <2>3. QED BY <2>1, <2>2, ForwardBehind DEF IInv
<1>4. Sent' BY DEF IInv, TypeOK, Sent, CancelWrite, EndSteps, EndReviews
<1>5. InSections'
  BY SMTT(30) DEF IInv, TypeOK, Matching, Behind, Sent, OneAttemptInFlight, Latest,
         Fresh, InSections, InAdvance, InReview, InReconcile, InClaim, InSend,
         InMark, InExpire, OnAttempt, OnLatest, CancelWrite, EndSteps,
         EndReviews
<1>6. QED BY <1>1, <1>2, <1>3, <1>4, <1>5 DEF IInv

LEMMA PauseCheckKeeps == ASSUME IInv, PauseCheck PROVE IInv'
<1>1. TypeOK' BY EventsAssumption DEF IInv, TypeOK, PauseCheck
<1>2. Matching' /\ OneAttemptInFlight'
  BY DEF IInv, TypeOK, Matching, OneAttemptInFlight, Latest, Fresh, PauseCheck
<1>3. Behind' BY DEF IInv, TypeOK, Behind, PauseCheck
<1>4. Sent' BY DEF IInv, TypeOK, Sent, PauseCheck
<1>5. InSections'
  BY SMTT(30) DEF IInv, TypeOK, Matching, Latest, Fresh, InSections, InAdvance,
         InReview, InReconcile, InClaim, InSend, InMark, InExpire, OnAttempt,
         OnLatest, PauseCheck
<1>6. QED BY <1>1, <1>2, <1>3, <1>4, <1>5 DEF IInv

LEMMA PauseWriteKeeps == ASSUME IInv, PauseWrite PROVE IInv'
<1>1. TypeOK'
  <2>1. (ctl \in [from : RunStatuses, clock : 0 .. 2])'
    BY DEF IInv, TypeOK, PauseWrite
  <2>2. TypeOK /\ run' = "paused" /\ pausing' = FALSE
        /\ UNCHANGED <<prog, cur, debug, clock, st, row, performed, conf, conn,
                       hook, cancel, missed, events>>
    BY DEF IInv, PauseWrite
  <2>3. run' \in RunStatuses /\ pausing' \in BOOLEAN
    BY <2>2 DEF RunStatuses
  <2>4. QED BY <2>1, <2>2, <2>3 DEF TypeOK
<1>2. Matching' /\ OneAttemptInFlight'
  BY DEF IInv, TypeOK, Matching, OneAttemptInFlight, Latest, Fresh, PauseWrite
<1>3. Behind' BY DEF IInv, TypeOK, Behind, PauseWrite
<1>4. Sent' BY DEF IInv, TypeOK, Sent, PauseWrite
<1>5. InSections'
  BY SMTT(30) DEF IInv, TypeOK, Matching, Latest, Fresh, InSections, InAdvance,
         InReview, InReconcile, InClaim, InSend, InMark, InExpire, OnAttempt,
         OnLatest, PauseWrite
<1>6. QED BY <1>1, <1>2, <1>3, <1>4, <1>5 DEF IInv

LEMMA ResumeKeeps == ASSUME IInv, Resume PROVE IInv'
<1>1. TypeOK' BY  DEF IInv, TypeOK, Resume, NoControl
<1>2. Matching' /\ OneAttemptInFlight'
  BY DEF IInv, TypeOK, Matching, OneAttemptInFlight, Latest, Fresh, Resume,
         NoControl
<1>3. Behind' BY DEF IInv, TypeOK, Behind, Resume, NoControl
<1>4. Sent' BY DEF IInv, TypeOK, Sent, Resume, NoControl
<1>5. InSections'
  BY SMTT(30) DEF IInv, TypeOK, Matching, Latest, Fresh, InSections, InAdvance,
         InReview, InReconcile, InClaim, InSend, InMark, InExpire, OnAttempt,
         OnLatest, Resume, NoControl
<1>6. QED BY <1>1, <1>2, <1>3, <1>4, <1>5 DEF IInv

LEMMA respondKeeps ==
  ASSUME IInv, NEW s \in Steps, NEW approved \in BOOLEAN, respond_ai_interaction(s, approved)
  PROVE IInv'
<1>0. /\ TypeOK /\ TypeRun'
      /\ st' \in [Attempt -> StepStatuses] /\ conf' \in [Steps -> ReviewStatuses]
  <2> DEFINE granted == approved /\ ~ StepLate
             decided == [conf EXCEPT ![s] = IF granted THEN "approved" ELSE "denied"]
             to == IF granted THEN prog[s].next ELSE prog[s].alt
  <2>1. TypeOK /\ decided \in [Steps -> ReviewStatuses] /\ cur = s /\ prog[s].kind = "ai"
    BY DEF IInv, TypeOK, Matching, Behind, respond_ai_interaction
  <2>2. CASE to = 0 /\ run \in Ended /\ conf' = decided /\ UNCHANGED <<runVars, st>>
    BY <2>1, <2>2 DEF TypeOK, TypeRun
  <2>3. CASE fail_run("cancelled", st, decided)
    <3>1. TypeOK BY <2>1
    <3>2. QED BY <3>1, <2>1, <2>3, EndTypes DEF TypeOK
  <2>4. CASE to # 0 /\ conf' = decided /\ st' = st /\ move_run(run, to, "running")
    <3>1. to \in Steps /\ run \in RunStatuses
      BY <2>1, <2>4, StepFacts
         DEF TypeOK
    <3>2. TypeRun' BY <2>1, <2>4, <3>1, MoveTypes
    <3>3. QED BY <2>1, <2>4, <3>2 DEF TypeOK
  <2>5. QED BY <2>2, <2>3, <2>4 DEF respond_ai_interaction
<1>1. TypeOK' BY <1>0 DEF TypeOK, TypeRun, respond_ai_interaction
<1>2. Matching' /\ OneAttemptInFlight'
  BY StepFacts
     DEF IInv, TypeOK, Behind, Sent, Matching, OneAttemptInFlight, Latest,
         Fresh, respond_ai_interaction, Stored, EndSteps, EndReviews,
         fail_run, move_run
<1>3. Behind'
  <2>0. /\ TypeOK /\ cur = s /\ cur \in Nat /\ cur' \in Steps /\ prog' = prog
        /\ prog[s].kind = "ai"
    BY <1>1, StepsAssumption
       DEF IInv, TypeOK, Matching, Behind, respond_ai_interaction
  <2>1. cur' = cur \/ cur' = prog[s].next \/ (prog[s].alt # 0 /\ cur' = prog[s].alt)
    BY DEF respond_ai_interaction, move_run, fail_run
  <2>2. cur' >= cur
    <3>1. cur' = cur \/ cur' > cur BY <2>0, <2>1, StepFacts
    <3>2. cur' \in Nat BY <2>0, StepsAssumption
    <3>3. QED BY <2>0, <3>1, <3>2
  <2>3. /\ \A a \in Attempt : st'[a] # "none" => st[a] # "none"
        /\ \A r \in Steps : conf'[r] # "none" => conf[r] # "none"
    BY <2>0 DEF TypeOK, respond_ai_interaction, fail_run, EndSteps, EndReviews
  <2>4. QED BY <2>0, <2>2, <2>3, ForwardBehind DEF IInv
<1>4. Sent'
  BY DEF IInv, TypeOK, Sent, respond_ai_interaction, Stored, EndSteps,
         EndReviews, fail_run, move_run
<1>5. InSections'
  BY DEF IInv, TypeOK, Matching, Latest, Fresh, InSections, InAdvance,
         InReview, InReconcile, InClaim, InSend, InMark, InExpire, OnAttempt,
         OnLatest, respond_ai_interaction, Stored, EndSteps, EndReviews,
         fail_run, move_run
<1>6. QED BY <1>1, <1>2, <1>3, <1>4, <1>5 DEF IInv

-----------------------------------------------------------------------------
(* The invariant holds at first, and every step keeps it.                  *)
LEMMA InitKeeps == Init => IInv
<1> SUFFICES ASSUME Init PROVE IInv OBVIOUS
<1>0. Active = {} /\ Pending = {} BY DEF Init
<1>1. TypeOK
  <2>1. Idle \in [pc : Sections, on : (Steps \cup {0}) \X (0 .. MaxTry),
                  seen : RunStatuses, dbg : BOOLEAN]
    BY TryAssumption
  <2>2. 0 \in 0 .. MaxEvents[prog] BY EventsAssumption DEF Init
  <2>3. ctl \in [from : RunStatuses, clock : 0 .. 2] /\ cur \in Steps
    BY StepsAssumption DEF Init, NoControl
  <2>4. /\ st \in [Attempt -> StepStatuses] /\ row \in [Attempt -> RowStatuses]
        /\ conf \in [Steps -> ReviewStatuses]
        /\ cancel \in [pc : {"idle", "read"}, on : SUBSET Attempt]
    BY DEF Init
  <2>5. conn \in [pc : Sections, on : (Steps \cup {0}) \X (0 .. MaxTry),
                   seen : RunStatuses, dbg : BOOLEAN]
    BY <2>1 DEF Init
  <2>6. events \in 0 .. MaxEvents[prog] BY <2>2 DEF Init
  <2>7. run \in RunStatuses /\ debug \in BOOLEAN /\ pausing \in BOOLEAN
    BY DEF Init
  <2>8. prog \in Programs /\ clock \in 0 .. 2 BY DEF Init
  <2>9. /\ performed \subseteq Attempt /\ missed \subseteq Attempt
        /\ hook \in Attempt \cup {NoAttempt}
    BY DEF Init
  <2>10. QED BY <2>3, <2>4, <2>5, <2>6, <2>7, <2>8, <2>9 DEF TypeOK
<1>2. Matching /\ OneAttemptInFlight
  <2>1. Eff \in Ready BY DEF Init, NoControl
  <2>2. Fresh BY StepsAssumption DEF Init, Fresh
  <2>3. QED BY <1>0, <2>1, <2>2 DEF Init, Matching, OneAttemptInFlight
<1>3. Behind /\ Sent /\ InSections
  BY StepsAssumption DEF Init, Behind, Sent, InSections, InAdvance, InReview,
     InReconcile, InClaim, InSend, InMark, InExpire
<1>4. QED BY <1>1, <1>2, <1>3 DEF IInv

LEMMA AdvanceWriteKeeps == ASSUME IInv, AdvanceWrite PROVE IInv'
<1>1. CASE ~ pausing
  BY <1>1, Advance_lateKeeps, Advance_failsKeeps, Advance_escapeKeeps,
     Advance_endKeeps, Advance_branchKeeps, Advance_cardKeeps,
     Advance_delayKeeps, Advance_mcpKeeps, Advance_aiKeeps
     DEF AdvanceWrite, advance_run
<1>2. CASE pausing
  <2>1. TypeOK' BY <1>2, SeenTypes DEF IInv, TypeOK, AdvanceWrite
  <2>2. InSections' BY IdleSections DEF AdvanceWrite
  <2>3. QED BY <1>2, <2>1, <2>2
        DEF IInv, AdvanceWrite, Matching, OneAttemptInFlight, Behind, Sent,
            Fresh, Latest
<1>3. QED BY <1>1, <1>2

LEMMA StutterKeeps == ASSUME IInv, UNCHANGED vars PROVE IInv'
<1>1. TypeOK' /\ Matching' /\ OneAttemptInFlight'
  BY DEF vars, IInv, TypeOK, Matching, OneAttemptInFlight, Fresh, Latest
<1>2. Behind' /\ Sent' BY DEF vars, IInv, Behind, Sent
<1>3. InSections'
  BY DEF vars, IInv, InSections, InAdvance, InReview, InReconcile, InClaim,
     InSend, InMark, InExpire, OnAttempt, OnLatest, Fresh, Latest
<1>4. QED BY <1>1, <1>2, <1>3 DEF IInv

LEMMA NextKeeps == ASSUME IInv, [Next]_vars PROVE IInv'
<1>1. CASE Advance
  BY <1>1, AdvanceReadKeeps, AdvanceWriteKeeps DEF Advance
<1>2. CASE Reconciling
  BY <1>2, ReconcileKeeps, ReconcileLateKeeps, ReconcileApplyKeeps
     DEF Reconciling
<1>3. CASE Expiring BY <1>3, ExpireReadKeeps, ExpireWriteKeeps DEF Expiring
<1>4. CASE Reviewing BY <1>4, ReviewReadKeeps, ReviewWriteKeeps DEF Reviewing
<1>5. CASE Dispatching
  BY <1>5, ClaimKeeps, ClaimLateKeeps, ClaimRefusedKeeps, ClaimOfflineKeeps,
     SendKeeps, SkipSendKeeps, SendFailsKeeps, MarkReadKeeps, MarkWriteKeeps
     DEF Dispatching
<1>6. CASE Answering
  BY <1>6, RecordAnswerKeeps, ApplyHookKeeps, wake_offline_runsKeeps,
     PerformKeeps, GiveUpKeeps DEF Answering
<1>7. CASE Requests
  BY <1>7, CancelReadKeeps, CancelWriteKeeps, PauseCheckKeeps,
     PauseWriteKeeps, ResumeKeeps, respondKeeps DEF Requests
<1>8. CASE Crash \/ Tick BY <1>8, CrashKeeps, TickKeeps
<1>9. CASE UNCHANGED vars BY <1>9, StutterKeeps
<1>10. QED
  BY <1>1, <1>2, <1>3, <1>4, <1>5, <1>6, <1>7, <1>8, <1>9 DEF Next, Done

(* The invariant holds in every reachable state.                           *)
THEOREM Invariance == Spec => []IInv
<1>1. Init => IInv BY InitKeeps
<1>2. IInv /\ [Next]_vars => IInv' BY NextKeeps
<1>3. QED BY <1>1, <1>2, PTL DEF Spec

(* Every variable keeps its type, whatever the handlers write.             *)
THEOREM TypeCorrect == Spec => []TypeOK
<1>1. IInv => TypeOK BY DEF IInv
<1>2. QED BY <1>1, Invariance, PTL

(* One run never has two attempts with the device, for any compiled card:  *)
(* advance, reconcile, retry, claim and mark-as-sent cannot be crossed so  *)
(* that a second one is dispatched.                                        *)
THEOREM NeverTwoInFlight == Spec => []OneAttemptInFlight
<1>1. IInv => OneAttemptInFlight BY DEF IInv
<1>2. QED BY <1>1, Invariance, PTL

(* The status of a run agrees with its attempts and its reviews.           *)
THEOREM StatusIsTrue == Spec => []StatusMatchesWork
<1>1. IInv => StatusMatchesWork
  BY DEF IInv, TypeOK, Matching, StatusMatchesWork
<1>2. QED BY <1>1, Invariance, PTL

(* A destructive step without an idempotency key is carried out at most    *)
(* once in a run, whatever is lost, crashes or comes late.                 *)
THEOREM UnsafeOnce == Spec => []UnsafeStepOnce
<1>1. ASSUME IInv, NEW a \in performed, NEW b \in performed,
             a[1] = b[1], ~ prog[a[1]].safe
      PROVE  a = b
  <2>1. a \in Attempt /\ b \in Attempt BY <1>1 DEF IInv, TypeOK
  <2>2. st[a] # "none" /\ st[b] # "none" BY <1>1, <2>1 DEF IInv, Sent
  <2>3. a[2] = 1 /\ b[2] = 1 BY <1>1, <2>1, <2>2 DEF IInv, Behind
  <2>4. QED BY <1>1, <2>1, <2>3
<1>2. IInv => UnsafeStepOnce BY <1>1 DEF UnsafeStepOnce
<1>3. QED BY <1>2, Invariance, PTL

(* No step is attempted more often than its retry policy allows.           *)
THEOREM PolicyKept == Spec => []AttemptsWithinPolicy
<1>1. IInv => AttemptsWithinPolicy BY DEF IInv, Behind, AttemptsWithinPolicy
<1>2. QED BY <1>1, Invariance, PTL
-----------------------------------------------------------------------------
(* What a step may do to a run that has ended.                             *)
Overwrites ==
  \/ conn.pc # "idle" /\ conn.seen \notin Ended /\ conn' = Idle
  \/ cancel.pc = "read" /\ run' = "cancelled"

(* By action: who can change the status of a run that has ended.           *)
LEMMA EndedStep ==
  ASSUME IInv, [Next]_vars, run \in Ended, run' # run
  PROVE  Overwrites
<1>0. TypeOK /\ Pending = {} BY DEF IInv, Matching
<1>1. CASE Advance
  <2>1. AdvanceWrite BY <1>1 DEF Advance, AdvanceRead
  <2>2. conn.pc = "advance" /\ conn.seen \in Ready /\ conn' = Idle
    BY <2>1 DEF AdvanceWrite, IInv, InSections, InAdvance
  <2>3. QED BY <2>2 DEF Overwrites
<1>2. CASE Reconciling
  <2>1. ReconcileLate \/ ReconcileApply BY <1>2 DEF Reconciling, Reconcile
  <2>2. conn.pc \in {"late", "apply"} /\ conn' = Idle
    BY <2>1 DEF ReconcileLate, ReconcileApply
  <2>3. conn.seen \notin Ended
    BY <2>1 DEF ReconcileLate, ReconcileApply, fail_step_dispatch,
       apply_step_result, Unavailable, DropResult
  <2>4. QED BY <2>2, <2>3 DEF Overwrites
<1>3. CASE Expiring
  <2>1. ExpireWrite BY <1>3 DEF Expiring, ExpireRead
  <2>2. QED BY <2>1 DEF ExpireWrite, IInv, InSections, InExpire, Overwrites
<1>4. CASE Reviewing
  <2>1. ReviewWrite BY <1>4 DEF Reviewing, ReviewRead
  <2>2. QED BY <2>1 DEF ReviewWrite, IInv, InSections, InReview, Overwrites
<1>5. CASE Dispatching
  <2>1. \/ ClaimLate \/ ClaimRefused \/ ClaimOffline \/ MarkWrite
    BY <1>5 DEF Dispatching, Claim, Send, SkipSend, SendFails, MarkRead
  <2>2. conn.pc \in {"claimed", "overdue", "mark"} /\ conn' = Idle
    BY <2>1 DEF ClaimLate, ClaimRefused, ClaimOffline, MarkWrite
  <2>3. conn.seen \notin Ended
    BY <2>2 DEF IInv, InSections, InClaim, InMark
  <2>4. QED BY <2>2, <2>3 DEF Overwrites
<1>6. CASE Answering
  <2>1. ApplyHook
    BY <1>6
       DEF Answering, RecordAnswer, wake_offline_runs, Perform, GiveUp
  <2>2. run' = run
    BY <2>1 DEF ApplyHook, apply_step_result, Unavailable, DropResult
  <2>3. QED BY <2>2
<1>7. CASE Requests
  <2>1. CancelWrite \/ PauseWrite
    BY <1>0, <1>7
       DEF Requests, CancelRead, PauseCheck, Resume, respond_ai_interaction
  <2>2. CASE PauseWrite BY <2>2 DEF PauseWrite, IInv, Matching
  <2>3. CASE CancelWrite BY <2>3 DEF CancelWrite, Overwrites
  <2>4. QED BY <2>1, <2>2, <2>3
<1>8. CASE Crash \/ Tick BY <1>8 DEF Crash, Tick
<1>9. CASE UNCHANGED vars BY <1>9 DEF vars
<1>10. QED
  BY <1>1, <1>2, <1>3, <1>4, <1>5, <1>6, <1>7, <1>8, <1>9 DEF Next, Done

(* A run that has ended is not brought back by a late result, a late       *)
(* answer, a wake-up or a resume: only what had read it before may still   *)
(* overwrite it.                                                           *)
THEOREM EndedStays == Spec => EndedOnlyOverwritten
<1>1. IInv /\ [Next]_vars =>
        [(run \in Ended /\ run' # run) =>
           \/ conn.pc # "idle" /\ conn.seen \notin Ended /\ conn' = Idle
           \/ cancel.pc = "read" /\ run' = "cancelled"]_vars
  BY EndedStep DEF Overwrites
<1>2. QED BY <1>1, Invariance, PTL DEF Spec, EndedOnlyOverwritten

(* By action: only the expiry of a review overwrites an approval.          *)
LEMMA ApprovalStep ==
  ASSUME IInv, [Next]_vars, NEW s \in Steps,
         conf[s] = "approved", conf'[s] # "approved"
  PROVE  UNCHANGED <<run, cur>>
<1>0. TypeOK /\ cur \in Steps /\ conf \in [Steps -> ReviewStatuses]
  BY DEF IInv, TypeOK
<1>a. ASSUME NEW status, NEW steps, fail_run(status, steps, conf)
      PROVE  conf'[s] = "approved"
  BY <1>a DEF fail_run, EndReviews
<1>b. ASSUME NEW a, NEW seen, NEW dbg, NEW code, NEW retryable,
             handle_step_error(a, seen, dbg, code, retryable)
      PROVE  conf'[s] = "approved"
  BY <1>a, <1>b DEF handle_step_error
<1>1. CASE Advance
  <2>1. AdvanceWrite /\ ~ pausing /\ advance_run
    BY <1>1 DEF Advance, AdvanceRead, AdvanceWrite
  <2>2. CASE Advance_ai
    BY <2>1, <2>2, <1>0
       DEF AdvanceWrite, Advance_ai, IInv, InSections, InAdvance, Fresh
  <2>3. CASE Advance_late \/ Advance_fails
    BY <1>a, <2>3 DEF Advance_late, Advance_fails
  <2>4. QED BY <2>1, <2>2, <2>3 DEF advance_run, Advance_escape, Advance_end,
            Advance_branch, Advance_card, Advance_delay, Advance_mcp
<1>2. CASE Reconciling
  BY <1>2, <1>b DEF Reconciling, Reconcile, ReconcileLate, ReconcileApply,
     fail_step_dispatch, apply_step_result, DropResult, TakeResult
<1>3. CASE Expiring BY <1>3, <1>a DEF Expiring, ExpireRead, ExpireWrite
<1>4. CASE Reviewing
  <2>1. ReviewWrite BY <1>4 DEF Reviewing, ReviewRead
  <2>2. CASE conn.on[1] # s
    <3>1. conf' # [conf EXCEPT ![conn.on[1]] = "expired"] BY <1>0, <2>2
    <3>2. fail_run("cancelled", st, [conf EXCEPT ![conn.on[1]] = "expired"])
      BY <2>1, <3>1 DEF ReviewWrite
    <3>3. QED BY <1>0, <2>2, <3>2 DEF fail_run, EndReviews
  <2>3. CASE conn.on[1] = s
    <3>1. conn.seen # "waiting_ai"
      BY <2>1, <2>3 DEF ReviewWrite, IInv, InSections, InReview
    <3>2. QED BY <2>1, <3>1 DEF ReviewWrite, MovesWaiting
  <2>4. QED BY <2>2, <2>3
<1>5. CASE Dispatching
  BY <1>5, <1>b DEF Dispatching, Claim, ClaimLate, ClaimRefused, ClaimOffline,
     Send, SkipSend, SendFails, MarkRead, MarkWrite, fail_step_dispatch
<1>6. CASE Answering
  BY <1>6, <1>b DEF Answering, RecordAnswer, wake_offline_runs, Perform,
     GiveUp, ApplyHook, apply_step_result, DropResult, TakeResult
<1>7. CASE Requests
  <2>1. CASE CancelWrite BY <2>1 DEF CancelWrite, EndReviews
  <2>2. ASSUME NEW r \in Steps, NEW approved \in BOOLEAN, respond_ai_interaction(r, approved)
        PROVE  conf'[s] = "approved"
    BY <1>0, <2>2 DEF respond_ai_interaction, fail_run, EndReviews
  <2>3. QED BY <1>7, <2>1, <2>2
        DEF Requests, CancelRead, PauseCheck, PauseWrite, Resume
<1>8. CASE Crash \/ Tick BY <1>8 DEF Crash, Tick
<1>9. CASE UNCHANGED vars BY <1>9 DEF vars
<1>10. QED
  BY <1>1, <1>2, <1>3, <1>4, <1>5, <1>6, <1>7, <1>8, <1>9 DEF Next, Done

(* A decision that has been taken is never undone by the expiry of its     *)
(* review: the run that went on with it neither moves nor ends.            *)
THEOREM ApprovalIsKept == Spec => ApprovalStands
<1>1. IInv /\ [Next]_vars =>
        [\A s \in Steps : (conf[s] = "approved" /\ conf'[s] # "approved") =>
           UNCHANGED <<run, cur>>]_vars
  BY ApprovalStep
<1>2. QED BY <1>1, Invariance, PTL DEF Spec, ApprovalStands
=============================================================================
