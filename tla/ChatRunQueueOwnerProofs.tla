------------------------ MODULE ChatRunQueueOwnerProofs ------------------------
(***************************************************************************)
(* Who owns a run: two threads drive one run only through one of the three *)
(* leaks the lease protocol has (a late heartbeat, a drain deadline, an    *)
(* UPDATE of a row that changed since it was read), for every number of    *)
(* rows, processes and attempts.                                           *)
(***************************************************************************)
EXTENDS ChatRunQueueSlotProofs

\* Nothing has gone wrong yet: no lost update, no heartbeat later than a lease.
Undisturbed == ~clobbered /\ delays = MaxDelays

\* A live thread whose process is not past its drain deadline.
Healthy(e) == Live(e) /\ proc[exec[e].worker] # "exiting"

\* Row r is the one thread e claimed: no claim after it, same owner, the lease
\* ahead of the clock, not given back to the queue.
Owns(e) ==
  /\ row[RunOf(e)].attempt = e[2]
  /\ row[RunOf(e)].owner = exec[e].worker
  /\ row[RunOf(e)].lease = "live"
  /\ row[RunOf(e)].status \notin {"absent", "queued"}

\* Only the transactions that give runs back write "queued".
NoThreadRequeues == \A e \in Execs : exec[e].write # "queued"

\* A thread belongs to a process.
ThreadsPlaced == \A e \in Execs : Live(e) => exec[e].worker \in Workers

\* Nobody has read a claim that has not happened.
ReadsPast == \A p \in Reapers : \A x \in requeue[p] : x[2] <= row[RunOf(x)].attempt

\* Healthy threads own their rows ...
HealthyOwns == Undisturbed => \A e \in Execs : Healthy(e) => Owns(e)

\* ... and no transaction under way is about to take one away.
HealthySpared ==
  Undisturbed => \A p \in Reapers : \A e \in Execs : Healthy(e) => e \notin requeue[p]

OwnerInv ==
  /\ delays <= MaxDelays
  /\ NoThreadRequeues
  /\ ThreadsPlaced
  /\ ReadsPast
  /\ HealthyOwns
  /\ HealthySpared

\* Two healthy threads of one row would both be its latest claim.
LEMMA OwnersDiffer == TypeOK /\ OwnerInv => SingleExecution
<1> SUFFICES ASSUME TypeOK, OwnerInv, Undisturbed,
                    NEW e \in Execs, NEW f \in Execs,
                    RunOf(e) = RunOf(f), Healthy(e), Healthy(f)
             PROVE  e = f
  BY DEF SingleExecution, Undisturbed, Healthy
<1>1. row[RunOf(e)].attempt = e[2] /\ row[RunOf(f)].attempt = f[2]
  BY DEF OwnerInv, HealthyOwns, Owns
<1>2. e[1] = f[1] /\ e[2] = f[2]
  BY <1>1 DEF RunOf
<1>3. QED
  BY <1>2 DEF Execs

------------------------------------------------------------------------------
(* What a step does to the threads and their processes *)

\* The thread that the next claim of row r starts.
NextExec(r) == <<r, row[r].attempt + 1>>

\* The shape of a claim: the thread it starts, the row it writes.
LEMMA ClaimShape ==
  ASSUME TypeOK, NEW w \in Workers, NEW d \in Dispatchers, NEW r \in Runs, Claim(w, d, r)
  PROVE  /\ NextExec(r) \in Execs
         /\ exec'[NextExec(r)].pc = "claimed" /\ exec'[NextExec(r)].worker = w
         /\ exec'[NextExec(r)].write = "none"
         /\ \A f \in Execs : f # NextExec(r) => exec'[f] = exec[f]
         /\ row'[r].status = "running" /\ row'[r].owner = w /\ row'[r].lease = "live"
         /\ row'[r].attempt = row[r].attempt + 1
         /\ \A q \in Runs : q # r => row'[q] = row[q]
         /\ row[r].status = "queued"
         /\ UNCHANGED <<proc, requeue, delays, clobbered>>
<1> DEFINE e == NextExec(r)
           x == [NoExec EXCEPT !.pc = "claimed", !.worker = w, !.late = row[r].stop]
<1>t. row \in [Runs -> Row] /\ exec \in [Execs -> Exec]
  BY DEF TypeOK
<1>1. /\ row' = [row EXCEPT ![r] = ClaimedRow(w, r)]
      /\ exec' = [exec EXCEPT ![e] = x]
      /\ row[r].attempt < MaxAttempts
      /\ row[r].status = "queued"
      /\ UNCHANGED <<proc, requeue, delays, clobbered>>
  BY DEF Claim, Claimable, NextExec
<1>2. e \in Execs
  BY <1>t, <1>1, ClaimTypes DEF NextExec
<1>3. \A y \in Exec :
        LET z == [y EXCEPT !.pc = "claimed", !.worker = w, !.late = row[r].stop]
        IN  z.pc = "claimed" /\ z.worker = w /\ z.write = y.write
  BY DEF Exec
<1>4. x.pc = "claimed" /\ x.worker = w /\ x.write = "none"
  <2>1. NoExec.write = "none"
    BY DEF NoExec
  <2>2. QED
    BY <1>3, <2>1, NoExecTypes
<1>5. \A y \in Row :
        LET z == [y EXCEPT !.status = "running", !.owner = w, !.lease = "live", !.attempt = @ + 1]
        IN  /\ z.status = "running" /\ z.owner = w /\ z.lease = "live"
            /\ z.attempt = y.attempt + 1
  BY DEF Row
<1>6. /\ ClaimedRow(w, r).status = "running" /\ ClaimedRow(w, r).owner = w
      /\ ClaimedRow(w, r).lease = "live" /\ ClaimedRow(w, r).attempt = row[r].attempt + 1
  BY <1>t, <1>5 DEF ClaimedRow
<1> HIDE DEF e, x
<1>7. exec'[e] = x /\ \A f \in Execs \ {e} : exec'[f] = exec[f]
  BY <1>t, <1>1, <1>2
<1>8. row'[r] = ClaimedRow(w, r) /\ \A q \in Runs \ {r} : row'[q] = row[q]
  BY <1>t, <1>1
<1>9. QED
  BY <1>1, <1>2, <1>4, <1>6, <1>7, <1>8 DEF e

\* A process that is gone leaves no thread; those of the others are not touched.
LEMMA GoneThreads ==
  ASSUME NEW w \in Workers, ProcessGone(w), NEW e \in Execs
  PROVE  \/ exec'[e] = NoExec
         \/ exec'[e] = exec[e] /\ exec[e].worker # w
BY DEF ProcessGone

\* Outside the end of a process, a live thread has lived before, in the same
\* process, or has just been claimed.
LEMMA LiveBefore ==
  ASSUME TypeOK, [Next]_vars, NEW e \in Execs, Live(e)'
  PROVE  \/ Live(e) /\ exec'[e].worker = exec[e].worker
         \/ \E w \in Workers, d \in Dispatchers, r \in Runs :
              Claim(w, d, r) /\ e = NextExec(r)
<1> DEFINE Same == Live(e) /\ exec'[e].worker = exec[e].worker
<1>t. exec \in [Execs -> Exec]
  BY DEF TypeOK
<1>0. NoExec.pc = "none"
  BY DEF NoExec
<1>1. CASE UNCHANGED <<exec, disp, free>>
  BY <1>1 DEF Live
<1>2. ASSUME NEW w \in Workers, NEW d \in Dispatchers, NEW r \in Runs, Claim(w, d, r),
             e # NextExec(r)
      PROVE  Same
  <2>1. exec'[e] = exec[e]
    BY <1>2, ClaimShape
  <2>2. QED
    BY <2>1 DEF Live
<1>3. ASSUME NEW w \in Workers, NEW d \in Dispatchers,
             DispatchStep(w, d) \/ ClaimFails(w, d), ~ \E r \in Runs : Claim(w, d, r)
      PROVE  Same
  BY <1>3 DEF DispatchStep, SweepBegins, NoFreeSlot, AcquireSlot, ClaimNothing, ClaimFails, Live
<1>4. ASSUME NEW f \in Execs, ExecStep(f) \/ WriteFails(f), ~Release(f)
      PROVE  Same
  BY <1>4, ThreadGoesOn DEF Live
<1>5. ASSUME NEW f \in Execs, Release(f)
      PROVE  Same
  <2>1. exec' = [exec EXCEPT ![f] = NoExec]
    BY <1>5 DEF Release
  <2>2. QED
    BY <1>0, <1>t, <2>1 DEF Live
<1>6. ASSUME NEW w \in Workers, Crash(w) \/ Drained(w) \/ Exit(w)
      PROVE  Same
  <2>1. ProcessGone(w)
    BY <1>6 DEF Crash, Drained, Exit
  <2>2. QED
    BY <1>0, <2>1, GoneThreads DEF Live
<1>7. QED
  BY <1>1, <1>2, <1>3, <1>4, <1>5, <1>6, OtherSteps

\* No process comes back from "exiting" but by its end.
LEMMA ExitingStays ==
  ASSUME TypeOK, [Next]_vars, NEW v \in Workers, proc[v] = "exiting"
  PROVE  proc'[v] = "exiting" \/ ProcessGone(v)
<1>t. proc \in [Workers -> {"boot", "up", "draining", "exiting", "down"}]
  BY DEF TypeOK
<1>1. ASSUME NEW w \in Workers, ProcessStep(w) \/ Crash(w) \/ Sigterm(w)
      PROVE  proc'[v] = "exiting" \/ ProcessGone(v)
  <2>1. CASE Boot(w) \/ BootDone(w) \/ Sigterm(w)
    <3>1. proc[w] # "exiting" /\ \E s : proc' = [proc EXCEPT ![w] = s]
      BY <2>1 DEF Boot, BootDone, Sigterm
    <3>2. QED
      BY <1>t, <3>1
  <2>2. CASE DrainDeadline(w)
    BY <1>t, <2>2 DEF DrainDeadline
  <2>3. CASE Crash(w) \/ Drained(w) \/ Exit(w)
    <3>1. ProcessGone(w)
      BY <2>3 DEF Crash, Drained, Exit
    <3>2. w # v => proc'[v] = proc[v]
      BY <1>t, <3>1 DEF ProcessGone
    <3>3. QED
      BY <3>1, <3>2
  <2>4. QED
    BY <1>1, <2>1, <2>2, <2>3 DEF ProcessStep
<1>2. CASE UNCHANGED proc
  BY <1>2
<1>3. QED
  <2>1. ASSUME NEW q \in Runs,
               StopRead(q) \/ Create(q) \/ StopCommit(q) \/ FlagStop(q) \/ LeaseLapses(q)
        PROVE  UNCHANGED proc
    BY <2>1 DEF StopRead, Create, StopCommit, FlagStop, LeaseLapses
  <2>2. ReapRead => UNCHANGED proc
    BY DEF ReapRead
  <2>3. ASSUME NEW p \in Reapers, RequeueCommit(p)
        PROVE  UNCHANGED proc
    BY <2>3 DEF RequeueCommit
  <2>4. ASSUME NEW w \in Workers, NEW d \in Dispatchers, DispatchStep(w, d) \/ ClaimFails(w, d)
        PROVE  UNCHANGED proc
    BY <2>4 DEF DispatchStep, SweepBegins, NoFreeSlot, AcquireSlot, Claim, ClaimNothing, ClaimFails
  <2>5. ASSUME NEW f \in Execs, ExecStep(f) \/ WriteFails(f) \/ Tick(f)
        PROVE  UNCHANGED proc
    BY <2>5 DEF ExecStep, Register, LoadFails, StartWorker, WriteRead, WriteCommit, StepBegins,
                StepLimit, TurnStops, TurnCompletes, TurnContinues, TurnFails, Release,
                WriteFails, Tick
  <2>6. UNCHANGED vars => UNCHANGED proc
    BY DEF vars
  <2>7. QED
    BY <1>1, <1>2, <2>1, <2>2, <2>3, <2>4, <2>5, <2>6 DEF Next

\* A healthy thread was healthy before the step, or the step claimed it.
LEMMA HealthyBefore ==
  ASSUME TypeOK, ThreadsPlaced, [Next]_vars, NEW e \in Execs, Healthy(e)'
  PROVE  \/ Healthy(e) /\ exec'[e].worker = exec[e].worker
         \/ \E w \in Workers, d \in Dispatchers, r \in Runs :
              Claim(w, d, r) /\ e = NextExec(r)
<1> SUFFICES ASSUME Live(e), exec'[e].worker = exec[e].worker
             PROVE  proc[exec[e].worker] # "exiting"
  BY LiveBefore DEF Healthy
<1>1. exec[e].worker \in Workers
  BY DEF ThreadsPlaced
<1>2. proc'[exec[e].worker] # "exiting" /\ exec'[e].pc # "none"
  BY DEF Healthy, Live
<1>3. ~ProcessGone(exec[e].worker)
  <2>1. NoExec.pc = "none"
    BY DEF NoExec
  <2>2. QED
    BY <1>1, <1>2, <2>1, GoneThreads
<1>4. QED
  BY <1>1, <1>2, <1>3, ExitingStays

\* What has been disturbed stays so ...
LEMMA ClobberedStays ==
  ASSUME [Next]_vars, clobbered
  PROVE  clobbered'
<1>1. ASSUME NEW q \in Runs, StopCommit(q)
      PROVE  clobbered'
  BY <1>1 DEF StopCommit
<1>2. ASSUME NEW p \in Reapers, RequeueCommit(p)
      PROVE  clobbered'
  BY <1>2 DEF RequeueCommit
<1>3. ASSUME NEW e \in Execs, WriteCommit(e)
      PROVE  clobbered'
  BY <1>3 DEF WriteCommit
<1>4. ASSUME clobbered' = clobbered
      PROVE  clobbered'
  BY <1>4, Zenon
<1>5. QED
  <2>1. ASSUME NEW q \in Runs, StopRead(q) \/ Create(q) \/ FlagStop(q) \/ LeaseLapses(q)
        PROVE  clobbered' = clobbered
    BY <2>1 DEF StopRead, Create, FlagStop, LeaseLapses
  <2>2. ReapRead => clobbered' = clobbered
    BY DEF ReapRead
  <2>3. ASSUME NEW w \in Workers, NEW d \in Dispatchers, DispatchStep(w, d) \/ ClaimFails(w, d)
        PROVE  clobbered' = clobbered
    BY <2>3 DEF DispatchStep, SweepBegins, NoFreeSlot, AcquireSlot, Claim, ClaimNothing, ClaimFails
  <2>4. ASSUME NEW f \in Execs, ExecStep(f) \/ WriteFails(f) \/ Tick(f), ~WriteCommit(f)
        PROVE  clobbered' = clobbered
    BY <2>4 DEF ExecStep, Register, LoadFails, StartWorker, WriteRead, StepBegins,
                StepLimit, TurnStops, TurnCompletes, TurnContinues, TurnFails, Release,
                WriteFails, Tick
  <2>5. ASSUME NEW w \in Workers, ProcessStep(w) \/ Crash(w) \/ Sigterm(w)
        PROVE  clobbered' = clobbered
    BY <2>5 DEF ProcessStep, Boot, BootDone, Drained, DrainDeadline, Exit, Crash, Sigterm
  <2>6. UNCHANGED vars => clobbered' = clobbered
    BY DEF vars
  <2>7. QED
    BY <1>1, <1>2, <1>3, <1>4, <2>1, <2>2, <2>3, <2>4, <2>5, <2>6 DEF Next

\* ... and delays are only used up.
LEMMA DelaysUsedUp ==
  ASSUME [Next]_vars
  PROVE  \/ delays' = delays
         \/ delays' = delays - 1 /\ \E r \in Runs : LeaseLapses(r)
<1>1. ASSUME NEW q \in Runs, LeaseLapses(q)
      PROVE  delays' = delays \/ delays' = delays - 1
  BY <1>1 DEF LeaseLapses
<1>2. ASSUME NEW q \in Runs, StopRead(q) \/ Create(q) \/ StopCommit(q) \/ FlagStop(q)
      PROVE  delays' = delays
  BY <1>2 DEF StopRead, Create, StopCommit, FlagStop
<1>3. ReapRead => delays' = delays
  BY DEF ReapRead
<1>4. ASSUME NEW p \in Reapers, RequeueCommit(p)
      PROVE  delays' = delays
  BY <1>4 DEF RequeueCommit
<1>5. ASSUME NEW w \in Workers, NEW d \in Dispatchers, DispatchStep(w, d) \/ ClaimFails(w, d)
      PROVE  delays' = delays
  BY <1>5 DEF DispatchStep, SweepBegins, NoFreeSlot, AcquireSlot, Claim, ClaimNothing, ClaimFails
<1>6. ASSUME NEW f \in Execs, ExecStep(f) \/ WriteFails(f) \/ Tick(f)
      PROVE  delays' = delays
  BY <1>6 DEF ExecStep, Register, LoadFails, StartWorker, WriteRead, WriteCommit, StepBegins,
              StepLimit, TurnStops, TurnCompletes, TurnContinues, TurnFails, Release,
              WriteFails, Tick
<1>7. ASSUME NEW w \in Workers, ProcessStep(w) \/ Crash(w) \/ Sigterm(w)
      PROVE  delays' = delays
  BY <1>7 DEF ProcessStep, Boot, BootDone, Drained, DrainDeadline, Exit, Crash, Sigterm
<1>8. UNCHANGED vars => delays' = delays
  BY DEF vars
<1>9. QED
  BY <1>1, <1>2, <1>3, <1>4, <1>5, <1>6, <1>7, <1>8 DEF Next

\* So a state that is undisturbed comes after none that is not.
LEMMA UndisturbedBefore ==
  ASSUME TypeOK, delays <= MaxDelays, [Next]_vars
  PROVE  /\ delays' <= MaxDelays
         /\ Undisturbed' => Undisturbed /\ delays' = delays
<1>1. delays \in Nat /\ MaxDelays \in Nat
  BY BoundsAssumption DEF TypeOK
<1>2. delays' = delays \/ delays' = delays - 1
  BY DelaysUsedUp
<1>3. delays' <= MaxDelays /\ (delays' = MaxDelays => delays = MaxDelays)
  BY <1>1, <1>2
<1>4. ~clobbered' => ~clobbered
  BY ClobberedStays
<1>5. QED
  BY <1>3, <1>4 DEF Undisturbed

------------------------------------------------------------------------------
(* What a step does to the rows *)

\* A pending write of a thread never says "queued": Target has no such goal.
LEMMA NextNoRequeue ==
  ASSUME TypeOK, NoThreadRequeues, [Next]_vars
  PROVE  NoThreadRequeues'
<1> SUFFICES ASSUME NEW e \in Execs
             PROVE  exec'[e].write # "queued"
  BY DEF NoThreadRequeues
<1>t. exec \in [Execs -> Exec]
  BY DEF TypeOK
<1>0. exec[e].write # "queued" /\ NoExec.write = "none"
  BY DEF NoThreadRequeues, NoExec
<1>1. CASE UNCHANGED exec
  BY <1>0, <1>1
<1>2. ASSUME NEW w \in Workers, NEW d \in Dispatchers, NEW r \in Runs, Claim(w, d, r)
      PROVE  exec'[e].write # "queued"
  <2>1. exec'[e].write = "none" \/ exec'[e] = exec[e]
    BY <1>2, ClaimShape
  <2>2. QED
    BY <1>0, <2>1
<1>3. ASSUME NEW f \in Execs, WriteRead(f)
      PROVE  exec'[e].write # "queued"
  <2> DEFINE c == row[RunOf(f)].status
             t == Target(RunOf(f), exec[f].goal)
  <2>1. t # "queued"
    <3>1. exec[f].goal \in Goals
      BY <1>t DEF Exec
    <3>2. QED
      BY <3>1 DEF Target, Goals
  <2>2. \/ exec' = [exec EXCEPT ![f].pc = "commit", ![f].seen = c, ![f].write = t]
        \/ exec' = [exec EXCEPT ![f].pc = AfterWrite(f)]
    BY <1>3 DEF WriteRead
  <2> HIDE DEF c, t
  <2>3. exec'[e].write \in {t, exec[e].write}
    BY <1>t, <2>2 DEF Exec
  <2>4. QED
    BY <1>0, <2>1, <2>3
<1>4. ASSUME NEW f \in Execs, WriteCommit(f) \/ WriteFails(f)
      PROVE  exec'[e].write # "queued"
  <2>1. \/ exec' = [exec EXCEPT ![f].pc = AfterWrite(f), ![f].write = "none", ![f].seen = "none"]
        \/ exec' = [exec EXCEPT ![f].pc = "closing", ![f].write = "none", ![f].seen = "none"]
        \/ exec' = [exec EXCEPT ![f].pc = "setting", ![f].write = "none", ![f].seen = "none",
                                ![f].goal = "crashed"]
    BY <1>4 DEF WriteCommit, WriteFails
  <2>2. exec'[e].write \in {"none", exec[e].write}
    BY <1>t, <2>1 DEF Exec
  <2>3. QED
    BY <1>0, <2>2
<1>5. ASSUME NEW f \in Execs, Register(f) \/ TurnContinues(f)
      PROVE  exec'[e].write # "queued"
  <2>1. exec'[e].write = exec[e].write
    BY <1>t, <1>5 DEF Register, TurnContinues, SetPc, Exec
  <2>2. QED
    BY <1>0, <2>1
<1>6. ASSUME NEW f \in Execs,
             \/ LoadFails(f) \/ StartWorker(f) \/ StepLimit(f)
             \/ TurnStops(f) \/ TurnCompletes(f) \/ TurnFails(f)
      PROVE  exec'[e].write # "queued"
  <2>1. PICK g \in Goals : exec' = [exec EXCEPT ![f].pc = "setting", ![f].goal = g]
    BY <1>6 DEF LoadFails, StartWorker, StepLimit, TurnStops, TurnCompletes, TurnFails,
                SetGoal, StartGoal, Goals
  <2>2. exec'[e].write = exec[e].write
    BY <1>t, <2>1 DEF Exec
  <2>3. QED
    BY <1>0, <2>2
<1>7. ASSUME NEW f \in Execs, StepBegins(f)
      PROVE  exec'[e].write # "queued"
  <2>1. \/ exec' = [exec EXCEPT ![f].step = @ + 1, ![f].pc = "setting", ![f].goal = "stopped"]
        \/ exec' = [exec EXCEPT ![f].step = @ + 1, ![f].pc = "turn"]
    BY <1>7 DEF StepBegins
  <2>2. exec'[e].write = exec[e].write
    BY <1>t, <2>1 DEF Exec
  <2>3. QED
    BY <1>0, <2>2
<1>8. ASSUME NEW f \in Execs, Release(f)
      PROVE  exec'[e].write # "queued"
  <2>1. exec'[e] \in {NoExec, exec[e]}
    BY <1>t, <1>8 DEF Release
  <2>2. QED
    BY <1>0, <2>1
<1>9. ASSUME NEW w \in Workers, Crash(w) \/ Drained(w) \/ Exit(w)
      PROVE  exec'[e].write # "queued"
  <2>1. exec'[e] \in {NoExec, exec[e]}
    BY <1>9 DEF Crash, Drained, Exit, ProcessGone
  <2>2. QED
    BY <1>0, <2>1
<1>10. ASSUME NEW w \in Workers, NEW d \in Dispatchers,
              DispatchStep(w, d) \/ ClaimFails(w, d), ~ \E r \in Runs : Claim(w, d, r)
       PROVE  UNCHANGED exec
  BY <1>10 DEF DispatchStep, SweepBegins, NoFreeSlot, AcquireSlot, ClaimNothing, ClaimFails
<1>11. QED
  BY <1>1, <1>2, <1>3, <1>4, <1>5, <1>6, <1>7, <1>8, <1>9, <1>10, OtherSteps DEF ExecStep

\* What a transaction that gives runs back has read: running rows whose lease
\* is not ahead of the clock, or the rows its own process still owns.
LEMMA NextRequeue ==
  ASSUME TypeOK, [Next]_vars, NEW p \in Reapers, NEW x \in requeue'[p], x \notin requeue[p]
  PROVE  /\ x[2] = row[RunOf(x)].attempt
         /\ \/ row[RunOf(x)].lease # "live"
            \/ p \in Workers /\ DrainDeadline(p) /\ row[RunOf(x)].owner = p
         /\ UNCHANGED <<row, exec>>
<1>t. requeue \in [Reapers -> SUBSET (Runs \X (0..MaxAttempts))]
  BY DEF TypeOK
<1>w. Workers \subseteq Reapers /\ Gateway \in Reapers
  BY DEF Reapers
<1>s. ASSUME NEW S \in SUBSET Runs, x \in Snapshot(S)
      PROVE  RunOf(x) \in S /\ x[2] = row[RunOf(x)].attempt
  BY <1>s DEF Snapshot, RunOf
<1>l. ASSUME NEW S \in SUBSET Runs, StaleRows(S), NEW r \in S
      PROVE  row[r].lease # "live"
  BY <1>l DEF StaleRows
<1>1. CASE ReapRead
  <2>1. PICK S \in SUBSET Runs :
               StaleRows(S) /\ requeue' = [requeue EXCEPT ![Gateway] = Snapshot(S)]
    BY <1>1 DEF ReapRead
  <2>2. x \in Snapshot(S)
    BY <1>t, <1>w, <2>1
  <2>3. QED
    BY <1>1, <1>s, <1>l, <2>1, <2>2 DEF ReapRead
<1>2. ASSUME NEW w \in Workers, Boot(w)
      PROVE  /\ x[2] = row[RunOf(x)].attempt
             /\ row[RunOf(x)].lease # "live"
             /\ UNCHANGED <<row, exec>>
  <2>1. PICK S \in SUBSET Runs :
               StaleRows(S) /\ requeue' = [requeue EXCEPT ![w] = Snapshot(S)]
    BY <1>2 DEF Boot
  <2>2. x \in Snapshot(S)
    BY <1>t, <1>w, <2>1
  <2>3. QED
    BY <1>2, <1>s, <1>l, <2>1, <2>2 DEF Boot
<1>3. ASSUME NEW w \in Workers, DrainDeadline(w)
      PROVE  /\ x[2] = row[RunOf(x)].attempt
             /\ p \in Workers /\ DrainDeadline(p) /\ row[RunOf(x)].owner = p
             /\ UNCHANGED <<row, exec>>
  <2> DEFINE S == {r \in active[w] \intersect Running : row[r].owner = w}
  <2>1. requeue' = [requeue EXCEPT ![w] = Snapshot(S)] /\ UNCHANGED <<row, exec>>
    BY <1>3 DEF DrainDeadline
  <2>2. S \in SUBSET Runs
    BY DEF Running
  <2>3. \A r \in S : row[r].owner = w
    OBVIOUS
  <2> HIDE DEF S
  <2>4. p = w /\ x \in Snapshot(S)
    BY <1>t, <1>w, <2>1
  <2>5. QED
    BY <1>3, <1>s, <2>1, <2>2, <2>3, <2>4
<1>4. ASSUME NEW q \in Reapers, RequeueCommit(q)
      PROVE  FALSE
  BY <1>t, <1>4 DEF RequeueCommit
<1>5. ASSUME NEW w \in Workers, Crash(w) \/ Drained(w) \/ Exit(w)
      PROVE  FALSE
  <2>1. requeue' = [requeue EXCEPT ![w] = {}]
    BY <1>5 DEF Crash, Drained, Exit, ProcessGone
  <2>2. QED
    BY <1>t, <2>1
<1>6. ASSUME UNCHANGED requeue
      PROVE  FALSE
  BY <1>6
<1>7. QED
  <2>1. ASSUME NEW q \in Runs,
               StopRead(q) \/ Create(q) \/ StopCommit(q) \/ FlagStop(q) \/ LeaseLapses(q)
        PROVE  UNCHANGED requeue
    BY <2>1 DEF StopRead, Create, StopCommit, FlagStop, LeaseLapses
  <2>2. ASSUME NEW w \in Workers, NEW d \in Dispatchers, DispatchStep(w, d) \/ ClaimFails(w, d)
        PROVE  UNCHANGED requeue
    BY <2>2 DEF DispatchStep, SweepBegins, NoFreeSlot, AcquireSlot, Claim, ClaimNothing, ClaimFails
  <2>3. ASSUME NEW f \in Execs, ExecStep(f) \/ WriteFails(f) \/ Tick(f)
        PROVE  UNCHANGED requeue
    BY <2>3 DEF ExecStep, Register, LoadFails, StartWorker, WriteRead, WriteCommit, StepBegins,
                StepLimit, TurnStops, TurnCompletes, TurnContinues, TurnFails, Release,
                WriteFails, Tick
  <2>4. ASSUME NEW w \in Workers, BootDone(w) \/ Sigterm(w)
        PROVE  UNCHANGED requeue
    BY <2>4 DEF BootDone, Sigterm
  <2>5. UNCHANGED vars => UNCHANGED requeue
    BY DEF vars
  <2>6. QED
    BY <1>1, <1>2, <1>3, <1>4, <1>5, <1>6, <2>1, <2>2, <2>3, <2>4, <2>5
       DEF Next, ProcessStep

\* A row that a healthy thread owns stays its row: the next claim takes queued
\* rows, a requeue spares it, a lease that lapses is a delay, and no thread or
\* stop request writes "queued".
LEMMA NextOwns ==
  ASSUME TypeOK, WritesChecked, OwnerInv, [Next]_vars, Undisturbed', Undisturbed,
         NEW e \in Execs, Healthy(e), exec'[e].worker = exec[e].worker
  PROVE  Owns(e)'
<1>t. row \in [Runs -> Row] /\ exec \in [Execs -> Exec] /\ row[RunOf(e)] \in Row
  BY DEF TypeOK, Execs, RunOf
<1>run. \A f \in Execs : RunOf(f) \in Runs
  BY DEF Execs, RunOf
<1>0. /\ Owns(e)
      /\ \A p \in Reapers : e \notin requeue[p]
  BY DEF OwnerInv, HealthyOwns, HealthySpared
<1>k. ASSUME row'[RunOf(e)].attempt = row[RunOf(e)].attempt,
             row'[RunOf(e)].owner = row[RunOf(e)].owner,
             row'[RunOf(e)].lease = row[RunOf(e)].lease,
             row'[RunOf(e)].status \notin {"absent", "queued"}
      PROVE  Owns(e)'
  BY <1>0, <1>k DEF Owns
<1>1. ASSUME row'[RunOf(e)] = row[RunOf(e)]
      PROVE  Owns(e)'
  BY <1>0, <1>1, <1>k DEF Owns
<1>2. ASSUME NEW r \in Runs, Create(r)
      PROVE  Owns(e)'
  <2>1. r # RunOf(e)
    BY <1>0, <1>2 DEF Create, Owns
  <2>2. row'[RunOf(e)] = row[RunOf(e)]
    BY <1>2, <1>t, <1>run, <2>1 DEF Create
  <2>3. QED
    BY <1>1, <2>2
<1>3. ASSUME NEW r \in Runs, StopCommit(r)
      PROVE  Owns(e)'
  <2>1. CASE r = RunOf(e)
    <3>1. row' = [row EXCEPT ![r].stop = TRUE, ![r].status = "stopped"]
      BY <1>3 DEF StopCommit
    <3>2. /\ row'[r].attempt = row[r].attempt /\ row'[r].owner = row[r].owner
          /\ row'[r].lease = row[r].lease /\ row'[r].status = "stopped"
      BY <1>t, <3>1 DEF Row
    <3>3. QED
      BY <1>k, <2>1, <3>2
  <2>2. CASE r # RunOf(e)
    <3>1. row'[RunOf(e)] = row[RunOf(e)]
      BY <1>3, <1>t, <1>run, <2>2 DEF StopCommit
    <3>2. QED
      BY <1>1, <3>1
  <2>3. QED
    BY <2>1, <2>2
<1>4. ASSUME NEW r \in Runs, FlagStop(r)
      PROVE  Owns(e)'
  <2>1. row' = [row EXCEPT ![r].stop = TRUE]
    BY <1>4 DEF FlagStop
  <2>2. /\ row'[RunOf(e)].attempt = row[RunOf(e)].attempt
        /\ row'[RunOf(e)].owner = row[RunOf(e)].owner
        /\ row'[RunOf(e)].lease = row[RunOf(e)].lease
        /\ row'[RunOf(e)].status = row[RunOf(e)].status
    BY <1>t, <1>run, <2>1 DEF Row
  <2>3. QED
    BY <1>0, <1>k, <2>2 DEF Owns
<1>5. ASSUME NEW r \in Runs, LeaseLapses(r)
      PROVE  Owns(e)'
  <2>1. r # RunOf(e)
    <3>1. SUFFICES ASSUME r = RunOf(e)
                   PROVE  FALSE
      OBVIOUS
    <3>2. delays' = delays - 1
      BY <1>5, <3>1 DEF LeaseLapses, Healthy
    <3>3. delays \in Nat /\ delays' = MaxDelays /\ delays = MaxDelays
      BY DEF TypeOK, Undisturbed
    <3>4. QED
      BY <3>2, <3>3
  <2>2. row'[RunOf(e)] = row[RunOf(e)]
    BY <1>5, <1>t, <1>run, <2>1 DEF LeaseLapses
  <2>3. QED
    BY <1>1, <2>2
<1>6. ASSUME NEW p \in Reapers, RequeueCommit(p)
      PROVE  Owns(e)'
  <2>1. \A x \in requeue[p] : Unchanged(x)
    BY <1>6 DEF RequeueCommit, Undisturbed
  <2>2. ~ \E a \in 0..MaxAttempts : <<RunOf(e), a>> \in requeue[p]
    <3>1. SUFFICES ASSUME NEW a \in 0..MaxAttempts, <<RunOf(e), a>> \in requeue[p]
                   PROVE  FALSE
      OBVIOUS
    <3>2. row[RunOf(e)].attempt = a
      <4>1. Unchanged(<<RunOf(e), a>>)
        BY <2>1, <3>1
      <4>2. QED
        BY <4>1 DEF Unchanged, RunOf
    <3>3. e = <<RunOf(e), a>>
      <4>1. a = e[2]
        BY <1>0, <3>2 DEF Owns
      <4>2. e = <<e[1], e[2]>>
        BY DEF Execs
      <4>3. QED
        BY <4>1, <4>2 DEF RunOf
    <3>4. QED
      BY <1>0, <3>1, <3>3
  <2>3. row' = BackToQueue(requeue[p])
    BY <1>6 DEF RequeueCommit
  <2>4. row'[RunOf(e)] = row[RunOf(e)]
    BY <1>run, <2>2, <2>3 DEF BackToQueue
  <2>5. QED
    BY <1>1, <2>4
<1>7. ASSUME NEW w \in Workers, NEW d \in Dispatchers, NEW r \in Runs, Claim(w, d, r)
      PROVE  Owns(e)'
  <2>1. r # RunOf(e)
    BY <1>0, <1>7, ClaimShape DEF Owns
  <2>2. row'[RunOf(e)] = row[RunOf(e)]
    BY <1>7, <1>run, <2>1, ClaimShape
  <2>3. QED
    BY <1>1, <2>2
<1>8. ASSUME NEW f \in Execs, WriteCommit(f)
      PROVE  Owns(e)'
  <2>1. exec[f].write \in KnownStatuses \ {"queued"}
    BY <1>8, TransitionTypes DEF WriteCommit, WritesChecked, OwnerInv, NoThreadRequeues
  <2>2. exec[f].write \notin {"absent", "queued"}
    BY <2>1 DEF KnownStatuses, ActiveStatuses, TerminalStatuses
  <2>3. row' = row \/ row' = [row EXCEPT ![RunOf(f)].status = exec[f].write]
    BY <1>8 DEF WriteCommit
  <2>4. /\ row'[RunOf(e)].attempt = row[RunOf(e)].attempt
        /\ row'[RunOf(e)].owner = row[RunOf(e)].owner
        /\ row'[RunOf(e)].lease = row[RunOf(e)].lease
        /\ row'[RunOf(e)].status \in {row[RunOf(e)].status, exec[f].write}
    BY <1>t, <1>run, <2>3 DEF Row
  <2>5. QED
    BY <1>0, <1>k, <2>2, <2>4 DEF Owns
<1>9. ASSUME NEW f \in Execs, Tick(f)
      PROVE  Owns(e)'
  <2>1. row' = [row EXCEPT ![RunOf(f)].lease = "live"] /\ row[RunOf(f)].lease # "live"
    BY <1>9 DEF Tick
  <2>2. RunOf(f) # RunOf(e)
    BY <1>0, <2>1 DEF Owns
  <2>3. row'[RunOf(e)] = row[RunOf(e)]
    BY <1>t, <1>run, <2>1, <2>2
  <2>4. QED
    BY <1>1, <2>3
<1>10. CASE UNCHANGED row
  BY <1>1, <1>10
<1>11. QED
  <2>1. ASSUME NEW q \in Runs, StopRead(q)
        PROVE  UNCHANGED row
    BY <2>1 DEF StopRead
  <2>2. ReapRead => UNCHANGED row
    BY DEF ReapRead
  <2>3. ASSUME NEW w \in Workers, NEW d \in Dispatchers,
               DispatchStep(w, d) \/ ClaimFails(w, d), ~ \E r \in Runs : Claim(w, d, r)
        PROVE  UNCHANGED row
    BY <2>3 DEF DispatchStep, SweepBegins, NoFreeSlot, AcquireSlot, ClaimNothing, ClaimFails
  <2>4. ASSUME NEW f \in Execs, ExecStep(f) \/ WriteFails(f)
        PROVE  UNCHANGED row \/ WriteCommit(f)
    BY <2>4 DEF ExecStep, Register, LoadFails, StartWorker, WriteRead, StepBegins, StepLimit,
                TurnStops, TurnCompletes, TurnContinues, TurnFails, Release, WriteFails
  <2>5. ASSUME NEW w \in Workers, ProcessStep(w) \/ Crash(w) \/ Sigterm(w)
        PROVE  UNCHANGED row
    BY <2>5 DEF ProcessStep, Boot, BootDone, Drained, DrainDeadline, Exit, Crash, Sigterm
  <2>6. UNCHANGED vars => UNCHANGED row
    BY DEF vars
  <2>7. QED
    BY <1>2, <1>3, <1>4, <1>5, <1>6, <1>7, <1>8, <1>9, <1>10, <2>1, <2>2, <2>3, <2>4, <2>5,
       <2>6 DEF Next

------------------------------------------------------------------------------
(* One healthy thread per run *)

\* Every step keeps the inductive invariant.
LEMMA NextOwner ==
  ASSUME TypeOK, WritesChecked, AttemptsFresh, OwnerInv, [Next]_vars
  PROVE  OwnerInv'
<1>t. row \in [Runs -> Row] /\ requeue \in [Reapers -> SUBSET (Runs \X (0..MaxAttempts))]
  BY DEF TypeOK
<1>1. delays' <= MaxDelays /\ (Undisturbed' => Undisturbed)
  BY UndisturbedBefore DEF OwnerInv
<1>2. NoThreadRequeues'
  BY NextNoRequeue DEF OwnerInv
<1>3. ThreadsPlaced'
  <2> SUFFICES ASSUME NEW e \in Execs, Live(e)'
               PROVE  exec'[e].worker \in Workers
    BY DEF ThreadsPlaced, Live
  <2>1. CASE Live(e) /\ exec'[e].worker = exec[e].worker
    BY <2>1 DEF OwnerInv, ThreadsPlaced
  <2>2. ASSUME NEW w \in Workers, NEW d \in Dispatchers, NEW r \in Runs,
               Claim(w, d, r), e = NextExec(r)
        PROVE  exec'[e].worker \in Workers
    BY <2>2, ClaimShape
  <2>3. QED
    BY <2>1, <2>2, LiveBefore
<1>4. ReadsPast'
  <2> SUFFICES ASSUME NEW p \in Reapers, NEW x \in requeue'[p]
               PROVE  x[2] <= row'[RunOf(x)].attempt
    BY DEF ReadsPast
  <2>1. x \in Runs \X (0..MaxAttempts)
    BY NextInv DEF TypeOK
  <2>2. RunOf(x) \in Runs /\ x[2] \in Nat /\ row[RunOf(x)].attempt \in Nat
    BY <1>t, <2>1, BoundsAssumption DEF RunOf, Row
  <2>3. x[2] <= row[RunOf(x)].attempt
    <3>1. CASE x \in requeue[p]
      BY <3>1 DEF OwnerInv, ReadsPast
    <3>2. CASE x \notin requeue[p]
      <4>1. x[2] = row[RunOf(x)].attempt
        BY <3>2, NextRequeue
      <4>2. QED
        BY <2>2, <4>1
    <3>3. QED
      BY <3>1, <3>2
  <2>4. row'[RunOf(x)].attempt \in {row[RunOf(x)].attempt, row[RunOf(x)].attempt + 1}
    BY <2>2, NextAttempts
  <2>5. QED
    BY <2>2, <2>3, <2>4
<1>5. ASSUME Undisturbed', NEW e \in Execs, Healthy(e)'
      PROVE  Owns(e)' /\ \A p \in Reapers : e \notin requeue'[p]
  <2>0. Undisturbed
    BY <1>1, <1>5
  <2>1. CASE Healthy(e) /\ exec'[e].worker = exec[e].worker
    <3>1. Owns(e)'
      BY <1>5, <2>0, <2>1, NextOwns
    <3>2. ASSUME NEW p \in Reapers, e \in requeue'[p]
          PROVE  FALSE
      <4>1. Owns(e) /\ e \notin requeue[p]
        BY <2>0, <2>1 DEF OwnerInv, HealthyOwns, HealthySpared
      <4>2. p \in Workers /\ DrainDeadline(p) /\ row[RunOf(e)].owner = p
        BY <3>2, <4>1, NextRequeue DEF Owns
      <4>3. exec[e].worker = p /\ proc'[p] = "exiting"
        BY <4>1, <4>2 DEF Owns, DrainDeadline, TypeOK
      <4>4. QED
        BY <1>5, <2>1, <4>3 DEF Healthy
    <3>3. QED
      BY <3>1, <3>2
  <2>2. ASSUME NEW w \in Workers, NEW d \in Dispatchers, NEW r \in Runs,
               Claim(w, d, r), e = NextExec(r)
        PROVE  Owns(e)' /\ \A p \in Reapers : e \notin requeue'[p]
    <3>1. RunOf(e) = r /\ e[2] = row[r].attempt + 1 /\ row[r].attempt \in Nat
      BY <1>t, <2>2, BoundsAssumption DEF NextExec, RunOf, Row
    <3>2. Owns(e)'
      BY <2>2, <3>1, ClaimShape DEF Owns
    <3>3. ASSUME NEW p \in Reapers, e \in requeue'[p]
          PROVE  FALSE
      <4>1. e \in requeue[p]
        BY <2>2, <3>3, ClaimShape
      <4>2. e[2] <= row[r].attempt
        BY <3>1, <4>1 DEF OwnerInv, ReadsPast
      <4>3. QED
        BY <3>1, <4>2
    <3>4. QED
      BY <3>2, <3>3
  <2>3. QED
    BY <1>5, <2>1, <2>2, HealthyBefore DEF OwnerInv
<1>6. HealthyOwns' /\ HealthySpared'
  BY <1>5 DEF HealthyOwns, HealthySpared
<1>7. QED
  BY <1>1, <1>2, <1>3, <1>4, <1>6 DEF OwnerInv

\* Nothing runs and nothing is under way at first.
LEMMA InitOwner == Init => OwnerInv
<1> SUFFICES ASSUME Init
             PROVE  OwnerInv
  OBVIOUS
<1>1. \A e \in Execs : exec[e].write = "none" /\ ~Live(e) /\ ~Healthy(e)
  BY DEF Init, NoExec, Live, Healthy
<1>2. \A p \in Reapers : requeue[p] = {}
  BY DEF Init
<1>3. delays <= MaxDelays
  BY BoundsAssumption DEF Init
<1>4. QED
  BY <1>1, <1>2, <1>3
     DEF OwnerInv, NoThreadRequeues, ThreadsPlaced, ReadsPast, HealthyOwns, HealthySpared

\* As long as no heartbeat is late and no UPDATE loses a change, the claim with
\* SKIP LOCKED, the reapers and the drain never put two threads on one run, but
\* for the time a process past its drain deadline takes to exit.
THEOREM OneThreadPerRun == Spec => []SingleExecution
<1> DEFINE IInv == TypeOK /\ WritesChecked /\ AttemptsFresh /\ OwnerInv
<1>1. Init => IInv
  BY InitInv, InitSlots, InitOwner
<1>2. IInv /\ [Next]_vars => IInv'
  BY NextInv, NextFresh, NextOwner
<1>3. IInv => SingleExecution
  BY OwnersDiffer
<1>4. QED
  BY <1>1, <1>2, <1>3, PTL DEF Spec
==============================================================================
