-------------------------- MODULE ChatRunQueueProofs --------------------------
(***************************************************************************)
(* Theorems about ChatRunQueue, for every set of rows, processes and       *)
(* dispatcher threads and every value of the bounds.                       *)
(***************************************************************************)
EXTENDS ChatRunQueue, FiniteSetTheorems, TLAPS

------------------------------------------------------------------------------
(* Well-typed records *)

\* Writing a status, a stop flag or a lease keeps a row well typed.
LEMMA RowTypes ==
  ASSUME NEW x \in Row
  PROVE  /\ \A s \in KnownStatuses : [x EXCEPT !.status = s] \in Row
         /\ \A s \in KnownStatuses, b \in BOOLEAN : [x EXCEPT !.stop = b, !.status = s] \in Row
         /\ \A b \in BOOLEAN : [x EXCEPT !.stop = b] \in Row
         /\ \A l \in {"none", "live", "lapsed"} : [x EXCEPT !.lease = l] \in Row
BY DEF Row

\* A claim writes a well-typed row and its thread starts in a well-typed state.
LEMMA ClaimTypes ==
  ASSUME row \in [Runs -> Row], NEW w \in Workers, NEW r \in Runs,
         row[r].attempt < MaxAttempts
  PROVE  /\ ClaimedRow(w, r) \in Row
         /\ <<r, row[r].attempt + 1>> \in Execs
<1>1. row[r] \in Row
  OBVIOUS
<1>2. row[r].attempt + 1 \in 1..MaxAttempts /\ row[r].attempt + 1 \in 0..MaxAttempts
  BY <1>1, BoundsAssumption DEF Row
<1>3. ASSUME NEW x \in Row, NEW n \in 0..MaxAttempts
      PROVE  [x EXCEPT !.status = "running", !.owner = w, !.lease = "live", !.attempt = n] \in Row
  BY <1>3 DEF Row, KnownStatuses, ActiveStatuses
<1>4. ClaimedRow(w, r) \in Row
  BY <1>1, <1>2, <1>3 DEF ClaimedRow
<1>5. <<r, row[r].attempt + 1>> \in Execs
  BY <1>2 DEF Execs, Attempts
<1>6. QED
  BY <1>4, <1>5

\* The row of a key not yet inserted is well typed.
LEMMA NoRowTypes == NoRow \in Row
BY BoundsAssumption DEF NoRow, Row

\* The state of a thread that does not exist is well typed.
LEMMA NoExecTypes == NoExec \in Exec
BY BoundsAssumption DEF NoExec, Exec, Phases, Goals

\* What a requeue writes is well typed.
LEMMA BackToQueueTypes ==
  ASSUME row \in [Runs -> Row], NEW S
  PROVE  BackToQueue(S) \in [Runs -> Row]
<1>1. ASSUME NEW x \in Row
      PROVE  [x EXCEPT !.status = "queued", !.owner = NoWorker, !.lease = "none"] \in Row
  BY <1>1 DEF Row, KnownStatuses, ActiveStatuses
<1>2. QED
  BY <1>1 DEF BackToQueue

------------------------------------------------------------------------------
(* The inductive invariant *)

\* A thread that is about to commit a status has read an active one, from
\* which set_status allows the status it will write.
WritesChecked ==
  \A e \in Execs : exec[e].pc = "commit" =>
    exec[e].seen \in ActiveStatuses /\ ValidTransition(exec[e].seen, exec[e].write)

\* Target of an allowed transition is a known status.
LEMMA TransitionTypes ==
  ASSUME NEW c, NEW t, ValidTransition(c, t)
  PROVE  c \in ActiveStatuses /\ t \in KnownStatuses
BY DEF ValidTransition, AllowedTransitions, KnownStatuses, ActiveStatuses, TerminalStatuses

\* A step that replaces the state of one thread by a well-typed one.
LEMMA OneThreadMoves ==
  ASSUME exec \in [Execs -> Exec], WritesChecked,
         NEW e \in Execs, NEW x \in Exec,
         exec' = [exec EXCEPT ![e] = x],
         x.pc = "commit" => x.seen \in ActiveStatuses /\ ValidTransition(x.seen, x.write)
  PROVE  exec' \in [Execs -> Exec] /\ WritesChecked'
<1>1. exec' \in [Execs -> Exec]
  OBVIOUS
<1>2. ASSUME NEW f \in Execs, exec'[f].pc = "commit"
      PROVE  exec'[f].seen \in ActiveStatuses /\ ValidTransition(exec'[f].seen, exec'[f].write)
  <2>1. CASE f = e
    <3>1. exec'[f] = x
      BY <2>1
    <3>2. QED
      BY <1>2, <3>1
  <2>2. CASE f # e
    <3>1. exec'[f] = exec[f]
      BY <2>2
    <3>2. QED
      BY <1>2, <3>1 DEF WritesChecked
  <2>3. QED
    BY <2>1, <2>2
<1>3. QED
  BY <1>1, <1>2 DEF WritesChecked, ValidTransition

\* The same for a step that leaves the thread outside "commit".
LEMMA OneThreadMovesOn ==
  ASSUME exec \in [Execs -> Exec], WritesChecked,
         NEW e \in Execs,
         exec' = [exec EXCEPT ![e] = exec'[e]],
         exec'[e] \in Exec, exec'[e].pc # "commit"
  PROVE  exec' \in [Execs -> Exec] /\ WritesChecked'
BY OneThreadMoves

\* The program starts with well-typed rows and no pending write.
LEMMA InitInv == Init => TypeOK /\ WritesChecked
<1> SUFFICES ASSUME Init
             PROVE  TypeOK /\ WritesChecked
  OBVIOUS
<1>1. row \in [Runs -> Row] /\ exec \in [Execs -> Exec]
  BY NoRowTypes, NoExecTypes DEF Init
<1>2. TypeOK
  BY <1>1, BoundsAssumption DEF Init, TypeOK, Reapers
<1>3. WritesChecked
  BY DEF Init, WritesChecked, NoExec
<1>4. QED
  BY <1>2, <1>3

\* Every step keeps the types, and every status write checked against a read.
LEMMA NextInv == TypeOK /\ WritesChecked /\ [Next]_vars => TypeOK' /\ WritesChecked'
<1> SUFFICES ASSUME TypeOK, WritesChecked, [Next]_vars
             PROVE  TypeOK' /\ WritesChecked'
  OBVIOUS
<1>rx. row \in [Runs -> Row] /\ exec \in [Execs -> Exec]
  BY DEF TypeOK
<1>0. ASSUME UNCHANGED exec
      PROVE  WritesChecked'
  BY <1>0 DEF WritesChecked, ValidTransition
<1>run. \A e \in Execs : RunOf(e) \in Runs
  BY DEF Execs, RunOf
<1>1. ASSUME NEW r \in Runs, Create(r)
      PROVE  TypeOK' /\ WritesChecked'
  <2>1. [NoRow EXCEPT !.status = "queued"] \in Row
    BY NoRowTypes, RowTypes DEF KnownStatuses, ActiveStatuses
  <2>2. row' \in [Runs -> Row]
    BY <1>1, <1>rx, <2>1 DEF Create
  <2>3. QED
    BY <1>0, <1>1, <2>2 DEF TypeOK, Create
<1>2. ASSUME NEW r \in Runs, StopRead(r)
      PROVE  TypeOK' /\ WritesChecked'
  BY <1>0, <1>2 DEF TypeOK, StopRead
<1>3. ASSUME NEW r \in Runs, StopCommit(r)
      PROVE  TypeOK' /\ WritesChecked'
  <2>1. row' \in [Runs -> Row]
    <3>1. row[r] \in Row
      BY <1>rx
    <3>2. [row[r] EXCEPT !.stop = TRUE, !.status = "stopped"] \in Row
      BY <3>1 DEF Row, KnownStatuses, TerminalStatuses
    <3>3. row' = [row EXCEPT ![r] = [row[r] EXCEPT !.stop = TRUE, !.status = "stopped"]]
      BY <1>3, <1>rx DEF StopCommit
    <3> QED
      BY <1>rx, <3>2, <3>3
  <2>2. clobbered' \in BOOLEAN /\ stopping' \in [Runs -> ActiveStatuses \union {"none"}]
    BY <1>3 DEF TypeOK, StopCommit
  <2>3. QED
    BY <1>0, <1>3, <2>1, <2>2 DEF TypeOK, StopCommit
<1>4. ASSUME NEW r \in Runs, FlagStop(r)
      PROVE  TypeOK' /\ WritesChecked'
  <2>1. row' \in [Runs -> Row]
    BY <1>4, <1>rx DEF FlagStop, Row
  <2>2. QED
    BY <1>0, <1>4, <2>1 DEF TypeOK, FlagStop
<1>5. ASSUME NEW r \in Runs, LeaseLapses(r)
      PROVE  TypeOK' /\ WritesChecked'
  <2>1. row' \in [Runs -> Row]
    BY <1>5, <1>rx DEF LeaseLapses, Row
  <2>2. delays' \in Nat
    BY <1>5 DEF LeaseLapses, TypeOK
  <2>3. QED
    BY <1>0, <1>5, <2>1, <2>2 DEF TypeOK, LeaseLapses
<1>snap. ASSUME NEW S \in SUBSET Runs
         PROVE  Snapshot(S) \in SUBSET (Runs \X (0..MaxAttempts))
  <2>1. \A r \in Runs : row[r].attempt \in 0..MaxAttempts
    BY <1>rx DEF Row
  <2>2. QED
    BY <2>1 DEF Snapshot
<1>6. CASE ReapRead
  <2>1. requeue' \in [Reapers -> SUBSET (Runs \X (0..MaxAttempts))]
    BY <1>6, <1>snap DEF ReapRead, TypeOK
  <2>2. QED
    BY <1>0, <1>6, <2>1 DEF TypeOK, ReapRead
<1>7. ASSUME NEW p \in Reapers, RequeueCommit(p)
      PROVE  TypeOK' /\ WritesChecked'
  <2>1. row' \in [Runs -> Row]
    BY <1>7, <1>rx, BackToQueueTypes DEF RequeueCommit
  <2>2. clobbered' \in BOOLEAN /\ requeue' \in [Reapers -> SUBSET (Runs \X (0..MaxAttempts))]
    BY <1>7 DEF TypeOK, RequeueCommit
  <2>3. QED
    BY <1>0, <1>7, <2>1, <2>2 DEF TypeOK, RequeueCommit
<1>8. ASSUME NEW w \in Workers, NEW d \in Dispatchers,
             \/ SweepBegins(w, d) \/ NoFreeSlot(w, d) \/ AcquireSlot(w, d)
             \/ ClaimNothing(w, d) \/ ClaimFails(w, d)
      PROVE  TypeOK' /\ WritesChecked'
  <2>1. free' \in [Workers -> Nat]
    <3>1. free \in [Workers -> Nat]
      BY DEF TypeOK
    <3>2. CASE AcquireSlot(w, d)
      <4>1. free[w] - 1 \in Nat
        BY <3>1, <3>2 DEF AcquireSlot, HasSlot
      <4>2. QED
        BY <3>1, <3>2, <4>1 DEF AcquireSlot
    <3>3. CASE ClaimNothing(w, d) \/ ClaimFails(w, d)
      BY <3>1, <3>3 DEF ClaimNothing, ClaimFails, ReleasedSlot
    <3>4. QED
      BY <1>8, <3>1, <3>2, <3>3 DEF SweepBegins, NoFreeSlot
  <2>2. disp' \in [Workers -> [Dispatchers -> {"idle", "sweep", "slot"}]]
    <3>1. disp \in [Workers -> [Dispatchers -> {"idle", "sweep", "slot"}]]
      BY DEF TypeOK
    <3>2. PICK s \in {"idle", "sweep", "slot"} : disp' = [disp EXCEPT ![w][d] = s]
      BY <1>8 DEF SweepBegins, NoFreeSlot, AcquireSlot, ClaimNothing, ClaimFails
    <3>3. QED
      BY <3>1, <3>2
  <2>3. faults' \in Nat
    BY <1>8 DEF TypeOK, SweepBegins, NoFreeSlot, AcquireSlot, ClaimNothing, ClaimFails, Fault
  <2>4. UNCHANGED <<row, exec, proc, active, requeue, stopping, delays, clobbered>>
    BY <1>8 DEF SweepBegins, NoFreeSlot, AcquireSlot, ClaimNothing, ClaimFails
  <2>5. QED
    BY <1>0, <2>1, <2>2, <2>3, <2>4 DEF TypeOK
<1>9. ASSUME NEW w \in Workers, NEW d \in Dispatchers, NEW r \in Runs, Claim(w, d, r)
      PROVE  TypeOK' /\ WritesChecked'
  <2> DEFINE e == <<r, row[r].attempt + 1>>
             x == [NoExec EXCEPT !.pc = "claimed", !.worker = w, !.late = row[r].stop]
  <2>1. ClaimedRow(w, r) \in Row /\ e \in Execs
    BY <1>9, <1>rx, ClaimTypes DEF Claim
  <2>2. row[r].stop \in BOOLEAN
    BY <1>rx DEF Row
  <2>3. ASSUME NEW y \in Exec
        PROVE  /\ [y EXCEPT !.pc = "claimed", !.worker = w, !.late = row[r].stop] \in Exec
               /\ [y EXCEPT !.pc = "claimed", !.worker = w, !.late = row[r].stop].pc = "claimed"
    BY <2>2 DEF Exec, Phases
  <2>4. x \in Exec /\ x.pc # "commit"
    BY <2>3, NoExecTypes
  <2>5. row' \in [Runs -> Row]
    BY <1>9, <1>rx, <2>1 DEF Claim
  <2>6. exec' \in [Execs -> Exec] /\ WritesChecked'
    <3>1. exec' = [exec EXCEPT ![e] = x]
      BY <1>9 DEF Claim
    <3> HIDE DEF e, x
    <3>2. QED
      BY <1>rx, <2>1, <2>4, <3>1, OneThreadMoves
  <2>7. disp' \in [Workers -> [Dispatchers -> {"idle", "sweep", "slot"}]]
    BY <1>9 DEF Claim, TypeOK
  <2>8. QED
    BY <1>9, <2>5, <2>6, <2>7 DEF Claim, TypeOK
<1>11. ASSUME NEW e \in Execs, Register(e)
       PROVE  TypeOK' /\ WritesChecked'
  <2>1. exec' \in [Execs -> Exec] /\ WritesChecked'
    <3>1. exec' = [exec EXCEPT ![e].pc = "registered"]
      BY <1>11 DEF Register, SetPc
    <3>2. exec' = [exec EXCEPT ![e] = exec'[e]] /\ exec'[e] \in Exec /\ exec'[e].pc = "registered"
      BY <3>1, <1>rx DEF Exec, Phases
    <3>3. QED
      BY <3>2, <1>rx, OneThreadMovesOn
  <2>2. active' \in [Workers -> SUBSET Runs]
    BY <1>11, <1>run DEF Register, TypeOK
  <2>3. QED
    BY <1>11, <2>1, <2>2 DEF Register, TypeOK
<1>12. ASSUME NEW e \in Execs,
              \/ LoadFails(e) \/ StartWorker(e) \/ StepLimit(e)
              \/ TurnStops(e) \/ TurnCompletes(e) \/ TurnFails(e)
       PROVE  TypeOK' /\ WritesChecked'
  <2>1. PICK g \in Goals : exec' = [exec EXCEPT ![e].pc = "setting", ![e].goal = g]
    BY <1>12 DEF LoadFails, StartWorker, StepLimit, TurnStops, TurnCompletes, TurnFails,
                 SetGoal, StartGoal, Goals
  <2>2. exec' \in [Execs -> Exec] /\ WritesChecked'
    <3>1. exec' = [exec EXCEPT ![e] = exec'[e]] /\ exec'[e] \in Exec /\ exec'[e].pc = "setting"
      BY <2>1, <1>rx DEF Exec, Phases
    <3>2. QED
      BY <3>1, <1>rx, OneThreadMovesOn
  <2>3. UNCHANGED <<row, proc, disp, free, active, requeue, stopping, faults, delays, clobbered>>
    BY <1>12 DEF LoadFails, StartWorker, StepLimit, TurnStops, TurnCompletes, TurnFails
  <2>4. QED
    BY <2>2, <2>3 DEF TypeOK
<1>13. ASSUME NEW e \in Execs, TurnContinues(e)
       PROVE  TypeOK' /\ WritesChecked'
  <2>1. exec' \in [Execs -> Exec] /\ WritesChecked'
    <3>1. exec' = [exec EXCEPT ![e].pc = "check"]
      BY <1>13 DEF TurnContinues, SetPc
    <3>2. exec' = [exec EXCEPT ![e] = exec'[e]] /\ exec'[e] \in Exec /\ exec'[e].pc = "check"
      BY <3>1, <1>rx DEF Exec, Phases
    <3>3. QED
      BY <3>2, <1>rx, OneThreadMovesOn
  <2>2. QED
    BY <1>13, <2>1 DEF TurnContinues, TypeOK
<1>14. ASSUME NEW e \in Execs, WriteRead(e)
       PROVE  TypeOK' /\ WritesChecked'
  <2> DEFINE c == row[RunOf(e)].status
             t == Target(RunOf(e), exec[e].goal)
  <2>1. ASSUME Accepted(e)
        PROVE  exec' \in [Execs -> Exec] /\ WritesChecked'
    <3>1. ValidTransition(c, t)
      BY <2>1 DEF Accepted
    <3>2. c \in ActiveStatuses /\ t \in KnownStatuses
      BY <3>1, TransitionTypes
    <3>3. exec' = [exec EXCEPT ![e].pc = "commit", ![e].seen = c, ![e].write = t]
      BY <1>14, <2>1 DEF WriteRead
    <3> HIDE DEF c, t
    <3> DEFINE x == [exec[e] EXCEPT !.pc = "commit", !.seen = c, !.write = t]
    <3>4. x \in Exec /\ x.pc = "commit" /\ x.seen = c /\ x.write = t
      BY <1>rx, <3>2 DEF Exec, Phases
    <3>5. exec' = [exec EXCEPT ![e] = x]
      BY <3>3
    <3> HIDE DEF x
    <3>6. QED
      BY <1>rx, <3>1, <3>2, <3>4, <3>5, OneThreadMoves
  <2>2. ASSUME ~Accepted(e)
        PROVE  exec' \in [Execs -> Exec] /\ WritesChecked'
    <3>1. AfterWrite(e) \in Phases \ {"commit"}
      BY DEF AfterWrite, Phases
    <3>2. exec' = [exec EXCEPT ![e].pc = AfterWrite(e)]
      BY <1>14, <2>2 DEF WriteRead
    <3>3. exec' = [exec EXCEPT ![e] = exec'[e]] /\ exec'[e] \in Exec /\ exec'[e].pc # "commit"
      BY <1>rx, <3>1, <3>2 DEF Exec
    <3>4. QED
      BY <1>rx, <3>3, OneThreadMovesOn
  <2>3. exec' \in [Execs -> Exec] /\ WritesChecked'
    BY <1>14, <2>1, <2>2
  <2>4. QED
    BY <1>14, <2>3 DEF WriteRead, TypeOK
<1>15. ASSUME NEW e \in Execs, WriteCommit(e)
       PROVE  TypeOK' /\ WritesChecked'
  <2>1. exec[e].write \in KnownStatuses
    BY <1>15, TransitionTypes DEF WriteCommit, WritesChecked
  <2>2. row' \in [Runs -> Row]
    BY <1>15, <1>rx, <1>run, <2>1, RowTypes DEF WriteCommit
  <2>3. AfterWrite(e) \in Phases \ {"commit"}
    BY DEF AfterWrite, Phases
  <2>4. exec' \in [Execs -> Exec] /\ WritesChecked'
    <3>1. exec' = [exec EXCEPT ![e].pc = AfterWrite(e), ![e].write = "none", ![e].seen = "none"]
      BY <1>15 DEF WriteCommit
    <3>2. exec' = [exec EXCEPT ![e] = exec'[e]] /\ exec'[e] \in Exec /\ exec'[e].pc # "commit"
      BY <1>rx, <2>3, <3>1 DEF Exec
    <3>3. QED
      BY <1>rx, <3>2, OneThreadMovesOn
  <2>5. clobbered' \in BOOLEAN
    BY <1>15 DEF WriteCommit, TypeOK
  <2>6. QED
    BY <1>15, <2>2, <2>4, <2>5 DEF WriteCommit, TypeOK
<1>16. ASSUME NEW e \in Execs, WriteFails(e)
       PROVE  TypeOK' /\ WritesChecked'
  <2>1. exec' \in [Execs -> Exec] /\ WritesChecked'
    <3>1. \/ exec' = [exec EXCEPT ![e].pc = "closing", ![e].write = "none", ![e].seen = "none"]
          \/ exec' = [exec EXCEPT ![e].pc = "setting", ![e].write = "none", ![e].seen = "none",
                                  ![e].goal = "crashed"]
      BY <1>16 DEF WriteFails
    <3>2. exec' = [exec EXCEPT ![e] = exec'[e]] /\ exec'[e] \in Exec /\ exec'[e].pc # "commit"
      BY <1>rx, <3>1 DEF Exec, Phases, Goals
    <3>3. QED
      BY <1>rx, <3>2, OneThreadMovesOn
  <2>2. QED
    BY <1>16, <2>1 DEF WriteFails, Fault, TypeOK
<1>17. ASSUME NEW e \in Execs, StepBegins(e)
       PROVE  TypeOK' /\ WritesChecked'
  <2>1. exec[e].step + 1 \in 0..MaxSteps
    BY <1>17, <1>rx, BoundsAssumption DEF StepBegins, StepLeft, Exec
  <2>2. exec' \in [Execs -> Exec] /\ WritesChecked'
    <3> DEFINE n == exec[e].step + 1
    <3>1. \/ exec' = [exec EXCEPT ![e].step = n, ![e].pc = "setting", ![e].goal = "stopped"]
          \/ exec' = [exec EXCEPT ![e].step = n, ![e].pc = "turn"]
      BY <1>17 DEF StepBegins
    <3>2. n \in 0..MaxSteps
      BY <2>1
    <3> HIDE DEF n
    <3>3. exec' = [exec EXCEPT ![e] = exec'[e]] /\ exec'[e] \in Exec /\ exec'[e].pc # "commit"
      BY <1>rx, <3>1, <3>2 DEF Exec, Phases, Goals
    <3>4. QED
      BY <1>rx, <3>3, OneThreadMovesOn
  <2>3. QED
    BY <1>17, <2>2 DEF StepBegins, TypeOK
<1>18. ASSUME NEW e \in Execs, Release(e)
       PROVE  TypeOK' /\ WritesChecked'
  <2>1. NoExec.pc # "commit"
    BY DEF NoExec
  <2>2. exec' \in [Execs -> Exec] /\ WritesChecked'
    BY <1>18, <1>rx, <2>1, NoExecTypes, OneThreadMoves DEF Release
  <2>3. free' \in [Workers -> Nat] /\ active' \in [Workers -> SUBSET Runs]
    <3>1. free \in [Workers -> Nat] /\ active \in [Workers -> SUBSET Runs]
      BY DEF TypeOK
    <3>2. /\ free' = [free EXCEPT ![exec[e].worker] = @ + 1]
          /\ active' = [active EXCEPT ![exec[e].worker] = @ \ {RunOf(e)}]
      BY <1>18 DEF Release, ReleasedSlot
    <3>3. CASE exec[e].worker \in Workers
      BY <3>1, <3>2, <3>3
    <3>4. CASE exec[e].worker \notin Workers
      BY <3>1, <3>2, <3>4
    <3>5. QED
      BY <3>3, <3>4
  <2>4. QED
    BY <1>18, <2>2, <2>3 DEF Release, TypeOK
<1>19. ASSUME NEW e \in Execs, Tick(e)
       PROVE  TypeOK' /\ WritesChecked'
  <2>1. row' \in [Runs -> Row]
    BY <1>19, <1>rx, <1>run, RowTypes DEF Tick
  <2>2. QED
    BY <1>0, <1>19, <2>1 DEF Tick, TypeOK
<1>20. ASSUME NEW w \in Workers, Boot(w) \/ BootDone(w) \/ DrainDeadline(w) \/ Sigterm(w)
       PROVE  TypeOK' /\ WritesChecked'
  <2>1. requeue' \in [Reapers -> SUBSET (Runs \X (0..MaxAttempts))]
    <3>1. requeue \in [Reapers -> SUBSET (Runs \X (0..MaxAttempts))]
      BY DEF TypeOK
    <3>2. \/ requeue' = requeue
          \/ \E S \in SUBSET Runs : requeue' = [requeue EXCEPT ![w] = Snapshot(S)]
      BY <1>20 DEF Boot, BootDone, DrainDeadline, Sigterm, Running
    <3>3. QED
      BY <1>snap, <3>1, <3>2
  <2>2. proc' \in [Workers -> {"boot", "up", "draining", "exiting", "down"}]
    BY <1>20 DEF Boot, BootDone, DrainDeadline, Sigterm, TypeOK
  <2>3. faults' \in Nat
    BY <1>20 DEF Boot, BootDone, DrainDeadline, Sigterm, Fault, TypeOK
  <2>4. UNCHANGED <<row, exec, disp, free, active, stopping, delays, clobbered>>
    BY <1>20 DEF Boot, BootDone, DrainDeadline, Sigterm
  <2>5. QED
    BY <1>0, <2>1, <2>2, <2>3, <2>4 DEF TypeOK
<1>21. ASSUME NEW w \in Workers, Crash(w) \/ Drained(w) \/ Exit(w)
       PROVE  TypeOK' /\ WritesChecked'
  <2>1. ProcessGone(w) /\ UNCHANGED <<row, stopping, delays, clobbered>>
    BY <1>21 DEF Crash, Drained, Exit
  <2>2. faults' \in Nat
    BY <1>21 DEF Crash, Drained, Exit, Fault, TypeOK
  <2>3. exec' \in [Execs -> Exec]
    BY <1>rx, <2>1, NoExecTypes DEF ProcessGone
  <2>4. WritesChecked'
    <3>1. ASSUME NEW f \in Execs, exec'[f].pc = "commit"
          PROVE  exec'[f] = exec[f]
      BY <2>1, <3>1 DEF ProcessGone, NoExec
    <3>2. QED
      BY <3>1 DEF WritesChecked, ValidTransition
  <2>5. /\ proc' \in [Workers -> {"boot", "up", "draining", "exiting", "down"}]
        /\ disp' \in [Workers -> [Dispatchers -> {"idle", "sweep", "slot"}]]
    BY <2>1 DEF ProcessGone, TypeOK
  <2>6. /\ free' \in [Workers -> Nat]
        /\ active' \in [Workers -> SUBSET Runs]
        /\ requeue' \in [Reapers -> SUBSET (Runs \X (0..MaxAttempts))]
    BY <2>1, BoundsAssumption DEF ProcessGone, Reapers, TypeOK
  <2>7. QED
    BY <2>1, <2>2, <2>3, <2>4, <2>5, <2>6 DEF TypeOK
<1>22. CASE UNCHANGED vars
  BY <1>0, <1>22 DEF vars, TypeOK
<1>23. QED
  BY <1>1, <1>2, <1>3, <1>4, <1>5, <1>6, <1>7, <1>8, <1>9, <1>11, <1>12, <1>13,
     <1>14, <1>15, <1>16, <1>17, <1>18, <1>19, <1>20, <1>21, <1>22
     DEF Next, DispatchStep, ExecStep, ProcessStep

\* Whatever the gateway, the dispatchers, the threads and the reapers do, every
\* variable keeps the type its column, set or counter has in the code.
THEOREM TypeCorrect == Spec => []TypeOK
<1>1. Spec => [](TypeOK /\ WritesChecked)
  BY InitInv, NextInv, PTL DEF Spec
<1>2. QED
  BY <1>1, PTL

------------------------------------------------------------------------------
(* The lifecycle *)

\* A step that does not touch the rows respects the lifecycle.
LEMMA SameRows == row' = row => \A r \in Runs : LegalStatusChange(r)
BY DEF LegalStatusChange

\* A step that writes one status, along an edge, respects the lifecycle.
LEMMA OneStatus ==
  ASSUME NEW r \in Runs,
         \A q \in Runs \ {r} : row'[q].status = row[q].status,
         \/ ValidTransition(row[r].status, row'[r].status)
         \/ row[r].status = "absent" /\ row'[r].status = "queued"
         \/ row'[r].status = row[r].status
  PROVE  \A q \in Runs : LegalStatusChange(q)
BY DEF LegalStatusChange

\* Every step moves a status along AllowedTransitions, lost updates apart.
LEMMA NextLegal ==
  TypeOK /\ WritesChecked /\ [Next]_vars => clobbered' \/ \A r \in Runs : LegalStatusChange(r)
<1> SUFFICES ASSUME TypeOK, WritesChecked, [Next]_vars, ~clobbered'
             PROVE  \A r \in Runs : LegalStatusChange(r)
  OBVIOUS
<1>rx. row \in [Runs -> Row] /\ exec \in [Execs -> Exec]
  BY DEF TypeOK
<1>run. \A e \in Execs : RunOf(e) \in Runs
  BY DEF Execs, RunOf
<1>1. ASSUME NEW r \in Runs, Create(r)
      PROVE  \A q \in Runs : LegalStatusChange(q)
  <2>1. \A x \in Row : [x EXCEPT !.status = "queued"].status = "queued"
    BY DEF Row
  <2>2. row' = [row EXCEPT ![r] = [NoRow EXCEPT !.status = "queued"]]
        /\ row[r].status = "absent"
    BY <1>1 DEF Create
  <2>3. row'[r].status = "queued"
    BY <1>rx, <2>1, <2>2, NoRowTypes
  <2>4. QED
    BY <1>rx, <2>2, <2>3, OneStatus
<1>2. ASSUME NEW r \in Runs, StopCommit(r)
      PROVE  \A q \in Runs : LegalStatusChange(q)
  <2>1. row[r].status = stopping[r] /\ stopping[r] \in ActiveStatuses
    BY <1>2 DEF StopCommit, TypeOK
  <2>2. row'[r].status = "stopped" /\ \A q \in Runs \ {r} : row'[q].status = row[q].status
    BY <1>2, <1>rx DEF StopCommit, Row
  <2>3. ValidTransition(row[r].status, row'[r].status)
    BY <2>1, <2>2 DEF ValidTransition, AllowedTransitions, ActiveStatuses
  <2>4. QED
    BY <2>2, <2>3, OneStatus
<1>3. ASSUME NEW r \in Runs, FlagStop(r) \/ LeaseLapses(r)
      PROVE  \A q \in Runs : LegalStatusChange(q)
  <2>1. \A q \in Runs : row'[q].status = row[q].status
    BY <1>3, <1>rx DEF FlagStop, LeaseLapses, Row
  <2>2. QED
    BY <2>1 DEF LegalStatusChange
<1>4. ASSUME NEW p \in Reapers, RequeueCommit(p)
      PROVE  \A q \in Runs : LegalStatusChange(q)
  <2>1. \A e \in requeue[p] : row[RunOf(e)].status = "running"
    BY <1>4 DEF RequeueCommit, Unchanged
  <2>2. row' = BackToQueue(requeue[p])
    BY <1>4 DEF RequeueCommit
  <2>3. ASSUME NEW q \in Runs
        PROVE  LegalStatusChange(q)
    <3>1. CASE \E a \in 0..MaxAttempts : <<q, a>> \in requeue[p]
      <4>1. row[q].status = "running"
        BY <2>1, <3>1 DEF RunOf
      <4>2. row'[q] = [row[q] EXCEPT !.status = "queued", !.owner = NoWorker, !.lease = "none"]
        BY <2>2, <3>1 DEF BackToQueue
      <4>3. row'[q].status = "queued"
        BY <1>rx, <4>2 DEF Row
      <4>4. QED
        BY <4>1, <4>3 DEF LegalStatusChange, ValidTransition, AllowedTransitions
    <3>2. CASE ~ \E a \in 0..MaxAttempts : <<q, a>> \in requeue[p]
      BY <2>2, <3>2 DEF BackToQueue, LegalStatusChange
    <3>3. QED
      BY <3>1, <3>2
  <2>4. QED
    BY <2>3
<1>5. ASSUME NEW w \in Workers, NEW d \in Dispatchers, NEW r \in Runs, Claim(w, d, r)
      PROVE  \A q \in Runs : LegalStatusChange(q)
  <2>1. row[r].status = "queued" /\ row' = [row EXCEPT ![r] = ClaimedRow(w, r)]
    BY <1>5 DEF Claim, Claimable
  <2>2. ClaimedRow(w, r).status = "running"
    BY <1>rx DEF ClaimedRow, Row
  <2>3. row'[r].status = "running" /\ \A q \in Runs \ {r} : row'[q] = row[q]
    BY <1>rx, <2>1, <2>2
  <2>4. ValidTransition(row[r].status, row'[r].status)
    BY <2>1, <2>3 DEF ValidTransition, AllowedTransitions
  <2>5. QED
    BY <2>3, <2>4, OneStatus
<1>6. ASSUME NEW e \in Execs, WriteCommit(e)
      PROVE  \A q \in Runs : LegalStatusChange(q)
  <2>1. CASE StatusChanges(e)
    <3>1. ValidTransition(row[RunOf(e)].status, exec[e].write)
      BY <1>6, <2>1 DEF WriteCommit, WritesChecked
    <3>2. /\ row'[RunOf(e)].status = exec[e].write
          /\ \A q \in Runs \ {RunOf(e)} : row'[q] = row[q]
      BY <1>6, <1>rx, <1>run, <2>1 DEF WriteCommit, Row
    <3>3. QED
      BY <1>run, <3>1, <3>2, OneStatus
  <2>2. CASE ~StatusChanges(e)
    BY <1>6, <2>2, SameRows DEF WriteCommit
  <2>3. QED
    BY <2>1, <2>2
<1>7. ASSUME NEW e \in Execs, Tick(e)
      PROVE  \A q \in Runs : LegalStatusChange(q)
  <2>1. \A q \in Runs : row'[q].status = row[q].status
    BY <1>7, <1>rx DEF Tick, Row
  <2>2. QED
    BY <2>1 DEF LegalStatusChange
<1>8. CASE UNCHANGED row
  BY <1>8, SameRows
<1>9. QED
  <2>1. ASSUME NEW r \in Runs, StopRead(r)
        PROVE  UNCHANGED row
    BY <2>1 DEF StopRead
  <2>2. ReapRead => UNCHANGED row
    BY DEF ReapRead
  <2>3. ASSUME NEW w \in Workers, NEW d \in Dispatchers,
               \/ SweepBegins(w, d) \/ NoFreeSlot(w, d) \/ AcquireSlot(w, d)
               \/ ClaimNothing(w, d) \/ ClaimFails(w, d)
        PROVE  UNCHANGED row
    BY <2>3 DEF SweepBegins, NoFreeSlot, AcquireSlot, ClaimNothing, ClaimFails
  <2>4. ASSUME NEW e \in Execs, ExecStep(e) \/ WriteFails(e)
        PROVE  UNCHANGED row \/ WriteCommit(e)
    BY <2>4 DEF ExecStep, Register, LoadFails, StartWorker, WriteRead, StepBegins, StepLimit,
                TurnStops, TurnCompletes, TurnContinues, TurnFails, Release, WriteFails
  <2>5. ASSUME NEW w \in Workers, ProcessStep(w) \/ Crash(w) \/ Sigterm(w)
        PROVE  UNCHANGED row
    BY <2>5 DEF ProcessStep, Boot, BootDone, Drained, DrainDeadline, Exit, Crash, Sigterm
  <2>6. UNCHANGED vars => UNCHANGED row
    BY DEF vars
  <2>7. QED
    BY <1>1, <1>2, <1>3, <1>4, <1>5, <1>6, <1>7, <1>8, <2>1, <2>2, <2>3, <2>4, <2>5, <2>6
       DEF Next, DispatchStep

\* Stop requests, claims, status writes and requeues follow the edges of
\* chat_run_state.ALLOWED_TRANSITIONS as long as no UPDATE overwrites a row that
\* changed since it was read: the check in set_status is enough without races.
THEOREM LifecycleRespected == Spec => LifecycleUnlessClobbered
<1>1. Spec => [](TypeOK /\ WritesChecked)
  BY InitInv, NextInv, PTL DEF Spec
<1>2. TypeOK /\ WritesChecked /\ [Next]_vars => [clobbered' \/ \A r \in Runs : LegalStatusChange(r)]_vars
  BY NextLegal
<1>3. QED
  BY <1>1, <1>2, PTL DEF Spec, LifecycleUnlessClobbered

------------------------------------------------------------------------------
(* A stop is not lost *)

StopRaised(r) == row[r].stop /\ row[r].status # "absent"

\* A thread claimed with the stop flag up finds the flag up at every later
\* look, so it never passes the check at the head of the loop.
LateClaimsSeeStop ==
  \A e \in Execs : exec[e].late => StopRaised(RunOf(e)) /\ exec[e].pc # "turn"

\* No writer of a row takes its stop flag down: not the requeue, not the claim.
LEMMA StopSticks ==
  ASSUME TypeOK, WritesChecked, [Next]_vars, NEW r \in Runs, StopRaised(r)
  PROVE  StopRaised(r)'
<1>rx. row \in [Runs -> Row] /\ exec \in [Execs -> Exec]
  BY DEF TypeOK
<1>run. \A e \in Execs : RunOf(e) \in Runs
  BY DEF Execs, RunOf
<1>1. ASSUME NEW q \in Runs, Create(q)
      PROVE  StopRaised(r)'
  BY <1>1, <1>rx DEF Create, StopRaised
<1>2. ASSUME NEW q \in Runs, StopCommit(q) \/ FlagStop(q) \/ LeaseLapses(q)
      PROVE  StopRaised(r)'
  BY <1>2, <1>rx DEF StopCommit, FlagStop, LeaseLapses, StopRaised, Row
<1>3. ASSUME NEW p \in Reapers, RequeueCommit(p)
      PROVE  StopRaised(r)'
  <2>1. ASSUME NEW x \in Row
        PROVE  LET y == [x EXCEPT !.status = "queued", !.owner = NoWorker, !.lease = "none"]
               IN  y.stop = x.stop /\ y.status = "queued"
    BY <2>1 DEF Row
  <2>2. row' = BackToQueue(requeue[p])
    BY <1>3 DEF RequeueCommit
  <2>3. \/ row'[r] = row[r]
        \/ row'[r].stop = row[r].stop /\ row'[r].status = "queued"
    <3>1. \/ row'[r] = row[r]
          \/ row'[r] = [row[r] EXCEPT !.status = "queued", !.owner = NoWorker, !.lease = "none"]
      BY <2>2 DEF BackToQueue
    <3> DEFINE y == [row[r] EXCEPT !.status = "queued", !.owner = NoWorker, !.lease = "none"]
    <3>2. row[r] \in Row
      BY <1>rx
    <3>3. y.stop = row[r].stop /\ y.status = "queued"
      BY <2>1, <3>2
    <3>4. QED
      BY <3>1, <3>3
  <2>4. QED
    BY <2>3 DEF StopRaised
<1>4. ASSUME NEW w \in Workers, NEW d \in Dispatchers, NEW q \in Runs, Claim(w, d, q)
      PROVE  StopRaised(r)'
  <2>1. ClaimedRow(w, q).status = "running" /\ ClaimedRow(w, q).stop = row[q].stop
    BY <1>rx DEF ClaimedRow, Row
  <2>2. row' = [row EXCEPT ![q] = ClaimedRow(w, q)]
    BY <1>4 DEF Claim
  <2>3. QED
    BY <1>rx, <2>1, <2>2 DEF StopRaised
<1>5. ASSUME NEW e \in Execs, WriteCommit(e)
      PROVE  StopRaised(r)'
  <2>1. exec[e].write \in KnownStatuses
    BY <1>5, TransitionTypes DEF WriteCommit, WritesChecked
  <2>2. exec[e].write # "absent"
    BY <2>1 DEF KnownStatuses, ActiveStatuses, TerminalStatuses
  <2>3. row' = row \/ row' = [row EXCEPT ![RunOf(e)].status = exec[e].write]
    BY <1>5 DEF WriteCommit
  <2>4. row'[r].stop = row[r].stop /\ row'[r].status \in {row[r].status, exec[e].write}
    BY <1>rx, <1>run, <2>3 DEF Row
  <2>5. QED
    BY <2>2, <2>4 DEF StopRaised
<1>6. ASSUME NEW e \in Execs, Tick(e)
      PROVE  StopRaised(r)'
  BY <1>6, <1>rx, <1>run DEF Tick, StopRaised, Row
<1>7. CASE UNCHANGED row
  BY <1>7 DEF StopRaised
<1>8. QED
  <2>1. ASSUME NEW q \in Runs, StopRead(q)
        PROVE  UNCHANGED row
    BY <2>1 DEF StopRead
  <2>2. ReapRead => UNCHANGED row
    BY DEF ReapRead
  <2>3. ASSUME NEW w \in Workers, NEW d \in Dispatchers,
               \/ SweepBegins(w, d) \/ NoFreeSlot(w, d) \/ AcquireSlot(w, d)
               \/ ClaimNothing(w, d) \/ ClaimFails(w, d)
        PROVE  UNCHANGED row
    BY <2>3 DEF SweepBegins, NoFreeSlot, AcquireSlot, ClaimNothing, ClaimFails
  <2>4. ASSUME NEW e \in Execs, ExecStep(e) \/ WriteFails(e)
        PROVE  UNCHANGED row \/ WriteCommit(e)
    BY <2>4 DEF ExecStep, Register, LoadFails, StartWorker, WriteRead, StepBegins, StepLimit,
                TurnStops, TurnCompletes, TurnContinues, TurnFails, Release, WriteFails
  <2>5. ASSUME NEW w \in Workers, ProcessStep(w) \/ Crash(w) \/ Sigterm(w)
        PROVE  UNCHANGED row
    BY <2>5 DEF ProcessStep, Boot, BootDone, Drained, DrainDeadline, Exit, Crash, Sigterm
  <2>6. UNCHANGED vars => UNCHANGED row
    BY DEF vars
  <2>7. QED
    BY <1>1, <1>2, <1>3, <1>4, <1>5, <1>6, <1>7, <2>1, <2>2, <2>3, <2>4, <2>5, <2>6
       DEF Next, DispatchStep

\* A thread is late from its claim on, and enters a turn only from the check.
LEMMA LateFromClaim ==
  ASSUME TypeOK, WritesChecked, [Next]_vars, NEW e \in Execs, exec'[e].late
  PROVE  \/ /\ exec[e].late
            /\ exec'[e].pc = "turn" => exec[e].pc = "turn" \/ ~row[RunOf(e)].stop
         \/ StopRaised(RunOf(e)) /\ exec'[e].pc # "turn"
<1> DEFINE Kept == /\ exec[e].late
                   /\ exec'[e].pc = "turn" => exec[e].pc = "turn" \/ ~row[RunOf(e)].stop
           Started == StopRaised(RunOf(e)) /\ exec'[e].pc # "turn"
<1>rx. row \in [Runs -> Row] /\ exec \in [Execs -> Exec]
  BY DEF TypeOK
<1>1. ASSUME UNCHANGED exec
      PROVE  Kept
  BY <1>1
<1>2. ASSUME NEW w \in Workers, NEW d \in Dispatchers, NEW r \in Runs, Claim(w, d, r)
      PROVE  Kept \/ Started
  <2> DEFINE f == <<r, row[r].attempt + 1>>
             x == [NoExec EXCEPT !.pc = "claimed", !.worker = w, !.late = row[r].stop]
  <2>1. \A y \in Exec :
          LET z == [y EXCEPT !.pc = "claimed", !.worker = w, !.late = row[r].stop]
          IN  z.pc = "claimed" /\ z.late = row[r].stop
    BY DEF Exec
  <2>2. x.pc = "claimed" /\ x.late = row[r].stop
    BY <2>1, NoExecTypes
  <2>3. exec' = [exec EXCEPT ![f] = x] /\ row[r].status = "queued"
    BY <1>2 DEF Claim, Claimable
  <2> HIDE DEF x
  <2>4. CASE e = f
    <3>1. exec'[e] = x /\ RunOf(e) = r
      BY <1>rx, <2>3, <2>4 DEF RunOf
    <3>2. QED
      BY <2>2, <2>3, <3>1 DEF StopRaised
  <2>5. CASE e # f
    <3>1. exec'[e] = exec[e]
      BY <1>rx, <2>3, <2>5
    <3>2. QED
      BY <3>1
  <2>6. QED
    BY <2>4, <2>5
<1>3. ASSUME NEW f \in Execs, ExecStep(f) \/ WriteFails(f), ~StepBegins(f)
      PROVE  Kept
  <2>1. CASE Release(f)
    <3>1. NoExec.late = FALSE /\ exec' = [exec EXCEPT ![f] = NoExec]
      BY <2>1 DEF Release, NoExec
    <3>2. e # f
      BY <1>rx, <3>1
    <3>3. QED
      BY <1>rx, <3>1, <3>2
  <2>2. CASE WriteRead(f)
    <3>1. AfterWrite(f) # "turn"
      BY DEF AfterWrite
    <3> DEFINE s == row[RunOf(f)].status
               t == Target(RunOf(f), exec[f].goal)
    <3>2. \/ exec' = [exec EXCEPT ![f].pc = "commit", ![f].seen = s, ![f].write = t]
          \/ exec' = [exec EXCEPT ![f].pc = AfterWrite(f)]
      BY <2>2 DEF WriteRead
    <3> HIDE DEF s, t
    <3>3. QED
      BY <1>rx, <3>1, <3>2 DEF Exec
  <2>3. CASE WriteCommit(f)
    <3>1. AfterWrite(f) # "turn"
      BY DEF AfterWrite
    <3>2. exec' = [exec EXCEPT ![f].pc = AfterWrite(f), ![f].write = "none", ![f].seen = "none"]
      BY <2>3 DEF WriteCommit
    <3>3. QED
      BY <1>rx, <3>1, <3>2 DEF Exec
  <2>4. CASE Register(f) \/ TurnContinues(f)
    BY <1>rx, <2>4 DEF Register, TurnContinues, SetPc, Exec
  <2>5. CASE \/ LoadFails(f) \/ StartWorker(f) \/ StepLimit(f)
             \/ TurnStops(f) \/ TurnCompletes(f) \/ TurnFails(f)
    <3>1. PICK g \in Goals : exec' = [exec EXCEPT ![f].pc = "setting", ![f].goal = g]
      BY <2>5 DEF LoadFails, StartWorker, StepLimit, TurnStops, TurnCompletes, TurnFails,
                  SetGoal, StartGoal, Goals
    <3>2. QED
      BY <1>rx, <3>1 DEF Exec
  <2>6. CASE WriteFails(f)
    BY <1>rx, <2>6 DEF WriteFails, Exec
  <2>7. QED
    BY <1>3, <2>1, <2>2, <2>3, <2>4, <2>5, <2>6 DEF ExecStep
<1>4. ASSUME NEW f \in Execs, StepBegins(f)
      PROVE  Kept
  <2>1. CASE row[RunOf(f)].stop
    <3>1. exec' = [exec EXCEPT ![f].step = @ + 1, ![f].pc = "setting", ![f].goal = "stopped"]
      BY <1>4, <2>1 DEF StepBegins
    <3>2. QED
      BY <1>rx, <3>1 DEF Exec
  <2>2. CASE ~row[RunOf(f)].stop
    <3>1. exec' = [exec EXCEPT ![f].step = @ + 1, ![f].pc = "turn"]
      BY <1>4, <2>2 DEF StepBegins
    <3>2. QED
      BY <1>rx, <2>2, <3>1 DEF Exec
  <2>3. QED
    BY <2>1, <2>2
<1>5. ASSUME NEW w \in Workers, Crash(w) \/ Drained(w) \/ Exit(w)
      PROVE  Kept
  <2>1. exec'[e] \in {NoExec, exec[e]}
    BY <1>5 DEF Crash, Drained, Exit, ProcessGone
  <2>2. QED
    BY <2>1 DEF NoExec
<1>6. QED
  <2>1. ASSUME NEW r \in Runs,
               StopRead(r) \/ Create(r) \/ StopCommit(r) \/ FlagStop(r) \/ LeaseLapses(r)
        PROVE  UNCHANGED exec
    BY <2>1 DEF StopRead, Create, StopCommit, FlagStop, LeaseLapses
  <2>2. ReapRead => UNCHANGED exec
    BY DEF ReapRead
  <2>3. ASSUME NEW w \in Workers, NEW d \in Dispatchers,
               \/ SweepBegins(w, d) \/ NoFreeSlot(w, d) \/ AcquireSlot(w, d)
               \/ ClaimNothing(w, d) \/ ClaimFails(w, d)
        PROVE  UNCHANGED exec
    BY <2>3 DEF SweepBegins, NoFreeSlot, AcquireSlot, ClaimNothing, ClaimFails
  <2>4. ASSUME NEW p \in Reapers, RequeueCommit(p)
        PROVE  UNCHANGED exec
    BY <2>4 DEF RequeueCommit
  <2>5. ASSUME NEW f \in Execs, Tick(f)
        PROVE  UNCHANGED exec
    BY <2>5 DEF Tick
  <2>6. ASSUME NEW w \in Workers, Boot(w) \/ BootDone(w) \/ DrainDeadline(w) \/ Sigterm(w)
        PROVE  UNCHANGED exec
    BY <2>6 DEF Boot, BootDone, DrainDeadline, Sigterm
  <2>7. UNCHANGED vars => UNCHANGED exec
    BY DEF vars
  <2> HIDE DEF Kept, Started
  <2>8. Kept \/ Started
    BY <1>1, <1>2, <1>3, <1>4, <1>5, <2>1, <2>2, <2>3, <2>4, <2>5, <2>6, <2>7
       DEF Next, DispatchStep, ProcessStep
  <2>9. QED
    BY <2>8 DEF Kept, Started

\* Every step keeps the stop flag in front of a thread claimed late.
LEMMA NextLate ==
  TypeOK /\ WritesChecked /\ LateClaimsSeeStop /\ [Next]_vars => LateClaimsSeeStop'
<1> SUFFICES ASSUME TypeOK, WritesChecked, LateClaimsSeeStop, [Next]_vars,
                    NEW e \in Execs, exec'[e].late
             PROVE  StopRaised(RunOf(e))' /\ exec'[e].pc # "turn"
  BY DEF LateClaimsSeeStop
<1>1. StopRaised(RunOf(e)) /\ exec'[e].pc # "turn"
  BY LateFromClaim DEF LateClaimsSeeStop, StopRaised
<1>2. RunOf(e) \in Runs
  BY DEF Execs, RunOf
<1>3. QED
  BY <1>1, <1>2, StopSticks

\* A stop raised before a run is claimed is honoured by start_worker_run or by
\* the first check of the loop, through every requeue and every race: no model
\* turn is spent on the run.
THEOREM StoppedBeforeClaim == Spec => []LateClaimNeverInfers
<1>1. Init => LateClaimsSeeStop
  BY DEF Init, LateClaimsSeeStop, NoExec
<1>2. LateClaimsSeeStop => LateClaimNeverInfers
  BY DEF LateClaimsSeeStop, LateClaimNeverInfers
<1>3. QED
  BY InitInv, NextInv, NextLate, <1>1, <1>2, PTL DEF Spec
==============================================================================
