------------------------- MODULE DispatchQueueProofs -------------------------
(***************************************************************************)
(* Theorems about DispatchQueue, for every set of tasks and every value of *)
(* the bounds: the rows of a device refine DeviceSlot, outcomes are final  *)
(* and pollers agree with the rows they have read.                         *)
(***************************************************************************)
EXTENDS DispatchQueue, TLAPS

------------------------------------------------------------------------------
(* Types *)

JobType == [pc : Jobs, op : Handlers, task : Tasks \union {NoTask},
            seen : Statuses, write : Statuses]

\* A job built from well-typed parts is a well-typed job with these parts.
LEMMA JobTypes ==
  \A pc \in Jobs, op \in Handlers, t \in Tasks \union {NoTask}, s \in Statuses, w \in Statuses :
    Job(pc, op, t, s, w) \in JobType
BY DEF Job, JobType

\* The parts of a job are what it was built from.
LEMMA JobParts ==
  ASSUME NEW pc, NEW op, NEW t, NEW s, NEW w
  PROVE  /\ Job(pc, op, t, s, w).pc = pc
         /\ Job(pc, op, t, s, w).op = op
         /\ Job(pc, op, t, s, w).task = t
         /\ Job(pc, op, t, s, w).seen = s
         /\ Job(pc, op, t, s, w).write = w
BY DEF Job

\* The jobs without a task are well typed and want no row.
LEMMA IdleTypes ==
  /\ Idle \in JobType /\ Idle.pc = "idle"
  /\ Resuming \in JobType /\ Resuming.pc = "resume"
BY JobTypes, JobParts DEF Idle, Resuming, Jobs, Handlers, Statuses

\* After a handler has gone on, the loop is idle or about to resume the queue.
LEMMA GoesOnTypes ==
  ASSUME NEW op, NEW t \in Tasks, NEW done, HandlerGoesOn(op, t, done),
         wake \subseteq Tasks \union {Registered}
  PROVE  /\ loop' \in JobType
         /\ loop'.pc \in {"idle", "resume"}
         /\ wake' \subseteq Tasks \union {Registered}
BY IdleTypes DEF HandlerGoesOn

\* The status a lease renewal leaves in `due` is one of its values.
LEMMA RenewedTypes ==
  ASSUME due \in [Tasks -> {"no", "lease", "deadline"}], NEW t \in Tasks
  PROVE  Renewed(t) \in [Tasks -> {"no", "lease", "deadline"}]
BY DEF Renewed

\* What a row was seen in, and what is written to it, are statuses.
LEMMA StatusTypes ==
  /\ ActiveStatuses \subseteq Statuses
  /\ TerminalStatuses \subseteq Statuses
  /\ \A t \in Tasks : InsertedStatus \in {"pending", "queued"}
BY DEF ActiveStatuses, TerminalStatuses, Statuses, InsertedStatus

------------------------------------------------------------------------------
(* The inductive invariant *)

\* What a job may rely on until its commit.  A commit of the gateway in between
\* ends a row: it takes no device and inserts nothing.
JobsSound ==
  /\ loop.pc \in {"insert", "claim", "finalize", "commit"} => loop.task \in Tasks
  /\ loop.pc = "insert" =>
       /\ status[loop.task] = "absent"
       /\ loop.write = "queued" \/ (loop.write = "pending" /\ Pending = {})
  /\ loop.pc = "claim" => Pending = {} /\ loop.seen = "queued"
  /\ loop.pc = "finalize" => loop.write \in TerminalStatuses /\ loop.op # "requeue"
  /\ loop.pc = "commit" =>
       \/ loop.op = "requeue" /\ loop.seen = "pending" /\ loop.write = "queued"
       \/ /\ loop.write \in TerminalStatuses
          /\ loop.seen \in ActiveStatuses
          /\ CanTransition(loop.seen, loop.write)

\* The device serves one task.
OnePending == \A s, t \in Pending : s = t

\* The gateway cancels rows that exist.
CancelsRows == \A t \in Tasks : cancelling[t] # "none" => status[t] # "absent"

IInv == TypeOK /\ JobsSound /\ OnePending /\ CancelsRows

\* Nothing is dispatched at first.
LEMMA InitIInv == Init => IInv
<1> SUFFICES ASSUME Init
             PROVE  IInv
  OBVIOUS
<1>1. loop \in JobType /\ loop.pc = "idle"
  BY IdleTypes DEF Init
<1>2. TypeOK
  <2>1. "absent" \in Statuses /\ loop \in JobType
    BY <1>1 DEF Statuses
  <2>2. faults \in Nat /\ cancels \in Nat
    BY BoundsAssumption DEF Init
  <2>3. /\ status \in [Tasks -> Statuses]
        /\ due \in [Tasks -> {"no", "lease", "deadline"}]
        /\ device \in [Tasks -> {"none", "running", "answered", "acked"}]
        /\ caller \in [Tasks -> {"none", "waiting", "gaveup"} \union TerminalStatuses]
        /\ cancelling \in [Tasks -> {"none"} \union ActiveStatuses]
    BY <2>1 DEF Init
  <2>4. saved \in [Tasks -> 0..2]
    BY DEF Init
  <2>5. /\ stale = {} /\ emitting = {} /\ wake = {} /\ requests = {}
        /\ online = FALSE /\ clobbered = FALSE /\ botched = FALSE /\ skipped = FALSE
    BY DEF Init
  <2>6. /\ stale \subseteq Tasks \X ActiveStatuses
        /\ emitting \subseteq Tasks \X {"dispatch", "resume"}
        /\ wake \subseteq Tasks \union {Registered}
        /\ requests \subseteq {"expire", "cancel"} \X Tasks
    BY <2>5
  <2>7. mine \in [Tasks -> BOOLEAN]
    BY DEF Init
  <2>8. QED
    BY <2>1, <2>2, <2>3, <2>4, <2>5, <2>6, <2>7 DEF TypeOK, JobType
<1>3. JobsSound /\ OnePending /\ CancelsRows
  BY <1>1 DEF Init, JobsSound, OnePending, CancelsRows, Pending
<1>4. QED
  BY <1>2, <1>3 DEF IInv

\* A step that moves neither the loop nor a row keeps the jobs sound.
LEMMA QuietSteps ==
  ASSUME JobsSound, OnePending, UNCHANGED <<status, loop>>
  PROVE  JobsSound' /\ OnePending'
BY DEF JobsSound, OnePending, Pending, CanTransition

\* A step that ends rows, or puts a pending row back, takes no device.
LEMMA EndingSteps ==
  ASSUME OnePending, status \in [Tasks -> Statuses],
         NEW t \in Tasks, NEW s \in Statuses \ {"pending"},
         status' = [status EXCEPT ![t] = s]
  PROVE  Pending' \subseteq Pending /\ OnePending'
BY DEF OnePending, Pending
------------------------------------------------------------------------------
(* Every step keeps the types *)

\* A fault is counted.
LEMMA FaultTypes == ASSUME faults \in Nat, Fault PROVE faults' \in Nat
BY DEF Fault

\* Marking one task in a function over the tasks keeps its range.
LEMMA OneTaskTypes ==
  ASSUME NEW S, NEW f \in [Tasks -> S], NEW t, NEW v \in S
  PROVE  [f EXCEPT ![t] = v] \in [Tasks -> S]
OBVIOUS

\* What every step leaves well typed.
LEMMA NextTypes == IInv /\ [Next]_vars => TypeOK'
<1> SUFFICES ASSUME IInv, [Next]_vars
             PROVE  TypeOK'
  OBVIOUS
<1> USE DEF JobType
<1>0. TypeOK /\ JobsSound
  BY DEF IInv
<1>st. {"absent", "queued", "pending", "timeout", "error", "cancelled", "completed"} \subseteq Statuses
  BY DEF Statuses, ActiveStatuses, TerminalStatuses
<1>jb. /\ {"insert", "claim", "finalize", "commit", "sweep", "boot"} \subseteq Jobs
       /\ {"none", "result", "expire", "cancel", "sendfail", "requeue"} \subseteq Handlers
  BY DEF Jobs, Handlers
<1>1. ASSUME Insert
      PROVE  TypeOK'
  <2>1. status' \in [Tasks -> Statuses]
    BY <1>0, <1>st, <1>jb, <1>1 DEF TypeOK, Insert
  <2>2. mine' \in [Tasks -> BOOLEAN]
    BY <1>0, <1>st, <1>jb, <1>1 DEF TypeOK, Insert
  <2>3. caller' \in [Tasks -> {"none", "waiting", "gaveup"} \union TerminalStatuses]
    BY <1>0, <1>st, <1>jb, <1>1 DEF TypeOK, Insert
  <2>4. loop' \in JobType
    BY <1>0, <1>st, <1>jb, <1>1, IdleTypes DEF TypeOK, Insert
  <2>5. emitting' \subseteq Tasks \X {"dispatch", "resume"}
    BY <1>0, <1>st, <1>jb, <1>1 DEF TypeOK, Insert, JobsSound
  <2>6. QED
    BY <1>0, <1>1, <2>1, <2>2, <2>3, <2>4, <2>5 DEF TypeOK, Insert, rowVars, userVars
<1>2. ASSUME ResumeNothing
      PROVE  TypeOK'
  BY <1>0, <1>st, <1>2, IdleTypes, StatusTypes DEF TypeOK, ResumeNothing, rowVars, userVars
<1>3. ASSUME ClaimCommit
      PROVE  TypeOK'
  <2>1. status' \in [Tasks -> Statuses]
    BY <1>0, <1>st, <1>jb, <1>3 DEF TypeOK, ClaimCommit
  <2>2. mine' \in [Tasks -> BOOLEAN]
    BY <1>0, <1>st, <1>jb, <1>3 DEF TypeOK, ClaimCommit
  <2>3. due' \in [Tasks -> {"no", "lease", "deadline"}]
    BY <1>0, <1>st, <1>jb, <1>3, RenewedTypes DEF TypeOK, ClaimCommit, JobsSound
  <2>4. clobbered' \in BOOLEAN
    BY <1>0, <1>st, <1>jb, <1>3 DEF TypeOK, ClaimCommit
  <2>5. loop' \in JobType
    BY <1>0, <1>st, <1>jb, <1>3, IdleTypes DEF TypeOK, ClaimCommit
  <2>6. emitting' \subseteq Tasks \X {"dispatch", "resume"}
    BY <1>0, <1>st, <1>jb, <1>3 DEF TypeOK, ClaimCommit, JobsSound
  <2>7. QED
    BY <1>0, <1>3, <2>1, <2>2, <2>3, <2>4, <2>5, <2>6 DEF TypeOK, ClaimCommit, rowVars, userVars
<1>4. ASSUME FinalizeRead
      PROVE  TypeOK'
  <2>1. loop.task \in Tasks
    BY <1>0, <1>st, <1>jb, <1>4 DEF TypeOK, FinalizeRead, JobsSound
  <2>2. loop' \in JobType /\ wake' \subseteq Tasks \union {Registered}
    <3>1. /\ loop.op \in Handlers /\ loop.write \in Statuses /\ status[loop.task] \in Statuses
          /\ loop.task \in Tasks \union {NoTask} /\ "commit" \in Jobs
      BY <1>0, <1>jb, <2>1 DEF TypeOK
    <3>2. CASE Finalizable(loop.task, loop.write)
      <4>1. loop' = Job("commit", loop.op, loop.task, status[loop.task], loop.write) /\ wake' = wake
        BY <1>4, <3>2 DEF FinalizeRead
      <4>2. QED
        BY <1>0, <3>1, <4>1, JobTypes DEF TypeOK
    <3>3. CASE ~Finalizable(loop.task, loop.write)
      <4>1. HandlerGoesOn(loop.op, loop.task, FALSE)
        BY <1>4, <3>3 DEF FinalizeRead
      <4>2. QED
        BY <1>0, <2>1, <4>1, GoesOnTypes DEF TypeOK
    <3>4. QED
      BY <3>2, <3>3
  <2>3. QED
    BY <1>0, <1>4, <2>1, <2>2 DEF TypeOK, FinalizeRead, rowVars, userVars
<1>5. ASSUME Commit
      PROVE  TypeOK'
  <2>1. loop.task \in Tasks
    BY <1>0, <1>st, <1>jb, <1>5 DEF TypeOK, Commit, JobsSound
  <2>2. loop' \in JobType /\ wake' \subseteq Tasks \union {Registered}
    BY <1>0, <1>st, <1>jb, <1>5, <2>1, GoesOnTypes DEF TypeOK, Commit
  <2>3. status' \in [Tasks -> Statuses]
    BY <1>0, <1>st, <1>jb, <1>5 DEF TypeOK, Commit
  <2>4. due' \in [Tasks -> {"no", "lease", "deadline"}]
    BY <1>0, <1>st, <1>jb, <1>5, <2>1, RenewedTypes DEF TypeOK, Commit
  <2>5. clobbered' \in BOOLEAN
    BY <1>0, <1>st, <1>jb, <1>5 DEF TypeOK, Commit
  <2>6. QED
    BY <1>0, <1>5, <2>1, <2>2, <2>3, <2>4, <2>5 DEF TypeOK, Commit, rowVars, userVars
<1>6. ASSUME SweepRead
      PROVE  TypeOK'
  <2>1. loop' \in JobType
    BY <1>0, <1>st, <1>jb, <1>6, JobTypes DEF TypeOK, SweepRead
  <2>2. stale' \subseteq Tasks \X ActiveStatuses
    BY <1>0, <1>st, <1>jb, <1>6 DEF TypeOK, SweepRead, Orphans, Active
  <2>3. QED
    BY <1>0, <1>6, <2>1, <2>2 DEF TypeOK, SweepRead, rowVars, userVars
<1>7. ASSUME SweepCommit
      PROVE  TypeOK'
  <2>1. loop' \in JobType
    BY <1>0, <1>st, <1>jb, <1>7, IdleTypes DEF TypeOK, SweepCommit
  <2>2. status' \in [Tasks -> Statuses]
    BY <1>0, <1>st, <1>jb, <1>7 DEF TypeOK, SweepCommit
  <2>3. due' \in [Tasks -> {"no", "lease", "deadline"}]
    BY <1>0, <1>st, <1>jb, <1>7, RenewedTypes DEF TypeOK, SweepCommit
  <2>4. clobbered' \in BOOLEAN
    BY <1>0, <1>st, <1>jb, <1>7 DEF TypeOK, SweepCommit
  <2>5. stale' \subseteq Tasks \X ActiveStatuses /\ skipped' \in BOOLEAN
    BY <1>0, <1>st, <1>jb, <1>7 DEF TypeOK, SweepCommit
  <2>6. QED
    BY <1>0, <1>7, <2>1, <2>2, <2>3, <2>4, <2>5 DEF TypeOK, SweepCommit, rowVars, userVars
<1>8. ASSUME BootSweepsNothing
      PROVE  TypeOK'
  <2>1. loop' \in JobType
    BY <1>0, <1>st, <1>jb, <1>8, IdleTypes DEF TypeOK, BootSweepsNothing
  <2>2. faults' \in Nat /\ botched' \in BOOLEAN
    BY <1>0, <1>st, <1>jb, <1>8, FaultTypes DEF TypeOK, BootSweepsNothing
  <2>3. QED
    BY <1>0, <1>8, <2>1, <2>2 DEF TypeOK, BootSweepsNothing, rowVars, userVars
<1>9. ASSUME CommitFails
      PROVE  TypeOK'
  <2>1. loop.task \in Tasks
    BY <1>0, <1>st, <1>jb, <1>9 DEF TypeOK, CommitFails, JobsSound
  <2>2. loop' \in JobType /\ wake' \subseteq Tasks \union {Registered}
    BY <1>0, <1>st, <1>jb, <1>9, <2>1, GoesOnTypes DEF TypeOK, CommitFails
  <2>3. faults' \in Nat /\ botched' \in BOOLEAN
    BY <1>0, <1>st, <1>jb, <1>9, FaultTypes DEF TypeOK, CommitFails
  <2>4. QED
    BY <1>0, <1>9, <2>1, <2>2, <2>3 DEF TypeOK, CommitFails, rowVars, userVars
<1>10. ASSUME Registers
      PROVE  TypeOK'
  <2>1. faults' \in Nat /\ online' \in BOOLEAN
    BY <1>0, <1>st, <1>jb, <1>10, FaultTypes DEF TypeOK, Registers
  <2>2. emitting' \subseteq Tasks \X {"dispatch", "resume"}
    BY <1>0, <1>st, <1>jb, <1>10 DEF TypeOK, Registers
  <2>3. wake' \subseteq Tasks \union {Registered}
    BY <1>0, <1>st, <1>jb, <1>10 DEF TypeOK, Registers
  <2>4. QED
    BY <1>0, <1>10, <2>1, <2>2, <2>3 DEF TypeOK, Registers, rowVars, userVars
<1>11. ASSUME Disconnects
      PROVE  TypeOK'
  <2>1. faults' \in Nat /\ online' \in BOOLEAN
    BY <1>0, <1>st, <1>jb, <1>11, FaultTypes DEF TypeOK, Disconnects
  <2>2. emitting' \subseteq Tasks \X {"dispatch", "resume"}
    BY <1>0, <1>st, <1>jb, <1>11 DEF TypeOK, Disconnects
  <2>3. QED
    BY <1>0, <1>11, <2>1, <2>2 DEF TypeOK, Disconnects, rowVars, userVars
<1>12. ASSUME Restart
      PROVE  TypeOK'
  <2>1. loop' \in JobType
    BY <1>0, <1>st, <1>jb, <1>12, JobTypes DEF TypeOK, Restart
  <2>2. faults' \in Nat /\ online' \in BOOLEAN
    BY <1>0, <1>st, <1>jb, <1>12, FaultTypes DEF TypeOK, Restart
  <2>3. mine' \in [Tasks -> BOOLEAN]
    BY <1>0, <1>st, <1>jb, <1>12 DEF TypeOK, Restart
  <2>4. /\ stale' \subseteq Tasks \X ActiveStatuses
        /\ emitting' \subseteq Tasks \X {"dispatch", "resume"}
        /\ wake' \subseteq Tasks \union {Registered}
        /\ requests' \subseteq {"expire", "cancel"} \X Tasks
    BY <1>0, <1>st, <1>jb, <1>12 DEF TypeOK, Restart
  <2>5. QED
    BY <1>0, <1>12, <2>1, <2>2, <2>3, <2>4 DEF TypeOK, Restart, rowVars, userVars
<1>13. ASSUME NEW t \in Tasks, ResumeFinds(t)
      PROVE  TypeOK'
  <2>1. loop' \in JobType
    BY <1>0, <1>st, <1>jb, <1>13, JobTypes DEF TypeOK, ResumeFinds
  <2>2. skipped' \in BOOLEAN
    BY <1>0, <1>st, <1>jb, <1>13 DEF TypeOK, ResumeFinds
  <2>3. QED
    BY <1>0, <1>13, <2>1, <2>2 DEF TypeOK, ResumeFinds, rowVars, userVars
<1>14. ASSUME NEW t \in Tasks, Enqueue(t)
      PROVE  TypeOK'
  <2>1. loop' \in JobType
    BY <1>0, <1>st, <1>jb, <1>14, JobTypes DEF TypeOK, Enqueue, InsertedStatus
  <2>2. QED
    BY <1>0, <1>14, <2>1 DEF TypeOK, Enqueue, rowVars, userVars
<1>15. ASSUME NEW t \in Tasks, DeviceAnswers(t)
      PROVE  TypeOK'
  BY <1>0, <1>st, <1>15, StatusTypes DEF TypeOK, DeviceAnswers, rowVars, userVars
<1>16. ASSUME NEW t \in Tasks, Progress(t)
      PROVE  TypeOK'
  <2>1. due' \in [Tasks -> {"no", "lease", "deadline"}]
    BY <1>0, <1>st, <1>jb, <1>16, RenewedTypes DEF TypeOK, Progress
  <2>2. QED
    BY <1>0, <1>16, <2>1 DEF TypeOK, Progress, rowVars, userVars
<1>17. ASSUME NEW t \in Tasks, DuplicateResult(t)
      PROVE  TypeOK'
  <2>1. device' \in [Tasks -> {"none", "running", "answered", "acked"}]
    BY <1>0, <1>st, <1>jb, <1>17 DEF TypeOK, DuplicateResult, Answered
  <2>2. QED
    BY <1>0, <1>17, <2>1 DEF TypeOK, DuplicateResult, rowVars, userVars
<1>18. ASSUME NEW t \in Tasks, ResultArrives(t)
      PROVE  TypeOK'
  <2>1. device' \in [Tasks -> {"none", "running", "answered", "acked"}]
    BY <1>0, <1>st, <1>jb, <1>18 DEF TypeOK, ResultArrives, Answered
  <2>2. saved[t] + 1 \in 0..2
    BY <1>0, <1>st, <1>jb, <1>18 DEF TypeOK, ResultArrives
  <2>3. saved' \in [Tasks -> 0..2]
    BY <1>0, <1>st, <1>jb, <1>18, <2>2 DEF TypeOK, ResultArrives
  <2>4. loop' \in JobType
    BY <1>0, <1>st, <1>jb, <1>18, JobTypes DEF TypeOK, ResultArrives, Finalize
  <2>5. faults' \in Nat /\ botched' \in BOOLEAN
    BY <1>0, <1>st, <1>jb, <1>18, FaultTypes DEF TypeOK, ResultArrives
  <2>6. QED
    BY <1>0, <1>18, <2>1, <2>2, <2>3, <2>4, <2>5 DEF TypeOK, ResultArrives, rowVars, userVars
<1>19. ASSUME NEW t \in Tasks, PollerReads(t)
      PROVE  TypeOK'
  <2>1. caller' \in [Tasks -> {"none", "waiting", "gaveup"} \union TerminalStatuses]
    BY <1>0, <1>st, <1>jb, <1>19 DEF TypeOK, PollerReads, Ended
  <2>2. QED
    BY <1>0, <1>19, <2>1 DEF TypeOK, PollerReads, rowVars, userVars
<1>20. ASSUME NEW t \in Tasks, PollerGivesUp(t)
      PROVE  TypeOK'
  <2>1. caller' \in [Tasks -> {"none", "waiting", "gaveup"} \union TerminalStatuses]
    BY <1>0, <1>st, <1>jb, <1>20 DEF TypeOK, PollerGivesUp
  <2>2. faults' \in Nat
    BY <1>0, <1>st, <1>jb, <1>20, FaultTypes DEF TypeOK, PollerGivesUp
  <2>3. requests' \subseteq {"expire", "cancel"} \X Tasks
    BY <1>0, <1>st, <1>jb, <1>20 DEF TypeOK, PollerGivesUp
  <2>4. QED
    BY <1>0, <1>20, <2>1, <2>2, <2>3 DEF TypeOK, PollerGivesUp, rowVars, userVars
<1>21. ASSUME NEW t \in Tasks, CancelRead(t)
      PROVE  TypeOK'
  <2>1. cancelling' \in [Tasks -> {"none"} \union ActiveStatuses]
    BY <1>0, <1>st, <1>jb, <1>21 DEF TypeOK, CancelRead
  <2>2. cancels' \in Nat
    BY <1>0, <1>st, <1>jb, <1>21 DEF TypeOK, CancelRead
  <2>3. QED
    BY <1>0, <1>21, <2>1, <2>2 DEF TypeOK, CancelRead, rowVars, userVars
<1>22. ASSUME NEW t \in Tasks, CancelCommit(t)
      PROVE  TypeOK'
  <2>1. status' \in [Tasks -> Statuses]
    BY <1>0, <1>st, <1>jb, <1>22 DEF TypeOK, CancelCommit
  <2>2. due' \in [Tasks -> {"no", "lease", "deadline"}]
    BY <1>0, <1>st, <1>jb, <1>22, RenewedTypes DEF TypeOK, CancelCommit
  <2>3. cancelling' \in [Tasks -> {"none"} \union ActiveStatuses]
    BY <1>0, <1>st, <1>jb, <1>22 DEF TypeOK, CancelCommit
  <2>4. clobbered' \in BOOLEAN /\ skipped' \in BOOLEAN
    BY <1>0, <1>st, <1>jb, <1>22 DEF TypeOK, CancelCommit
  <2>5. requests' \subseteq {"expire", "cancel"} \X Tasks
    BY <1>0, <1>st, <1>jb, <1>22 DEF TypeOK, CancelCommit
  <2>6. QED
    BY <1>0, <1>22, <2>1, <2>2, <2>3, <2>4, <2>5 DEF TypeOK, CancelCommit, rowVars, userVars
<1>23. ASSUME NEW t \in Tasks, LeaseLapses(t)
      PROVE  TypeOK'
  BY <1>0, <1>st, <1>23, StatusTypes DEF TypeOK, LeaseLapses, rowVars, userVars
<1>24. ASSUME NEW t \in Tasks, DeadlinePasses(t)
      PROVE  TypeOK'
  BY <1>0, <1>st, <1>24, StatusTypes DEF TypeOK, DeadlinePasses, rowVars, userVars
<1>25. ASSUME NEW t \in Tasks, NEW h \in {"dispatch", "resume"}, Sent(t, h)
      PROVE  TypeOK'
  <2>1. faults' \in Nat
    BY <1>0, <1>st, <1>jb, <1>25, FaultTypes DEF TypeOK, Sent
  <2>2. device' \in [Tasks -> {"none", "running", "answered", "acked"}]
    BY <1>0, <1>st, <1>jb, <1>25 DEF TypeOK, Sent, Delivered
  <2>3. emitting' \subseteq Tasks \X {"dispatch", "resume"}
    BY <1>0, <1>st, <1>jb, <1>25 DEF TypeOK, Sent
  <2>4. QED
    BY <1>0, <1>25, <2>1, <2>2, <2>3 DEF TypeOK, Sent, rowVars, userVars
<1>26. ASSUME NEW t \in Tasks, NEW h \in {"dispatch", "resume"}, SendFails(t, h)
      PROVE  TypeOK'
  <2>1. faults' \in Nat
    BY <1>0, <1>st, <1>jb, <1>26, FaultTypes DEF TypeOK, SendFails
  <2>2. skipped' \in BOOLEAN
    BY <1>0, <1>st, <1>jb, <1>26 DEF TypeOK, SendFails
  <2>3. emitting' \subseteq Tasks \X {"dispatch", "resume"}
    BY <1>0, <1>st, <1>jb, <1>26 DEF TypeOK, SendFails
  <2>4. loop' \in JobType
    BY <1>0, <1>st, <1>jb, <1>26, JobTypes, IdleTypes DEF TypeOK, SendFails, Finalize
  <2>5. QED
    BY <1>0, <1>26, <2>1, <2>2, <2>3, <2>4 DEF TypeOK, SendFails, rowVars, userVars
<1>27. ASSUME NEW t \in Tasks, NEW kind \in {"expire", "cancel"}, RequestArrives(t, kind)
      PROVE  TypeOK'
  <2>1. loop' \in JobType
    BY <1>0, <1>st, <1>jb, <1>27, JobTypes DEF TypeOK, RequestArrives, Finalize
  <2>2. requests' \subseteq {"expire", "cancel"} \X Tasks
    BY <1>0, <1>st, <1>jb, <1>27 DEF TypeOK, RequestArrives
  <2>3. QED
    BY <1>0, <1>27, <2>1, <2>2 DEF TypeOK, RequestArrives, rowVars, userVars
<1>28. ASSUME NEW h \in Tasks \union {Registered}, ResumeBegins(h)
      PROVE  TypeOK'
  BY <1>0, <1>st, <1>28, IdleTypes DEF TypeOK, ResumeBegins, rowVars, userVars
<1>29. ASSUME ClaimFails \/ \E h \in Tasks \union {Registered} : HandlerFails(h)
      PROVE  TypeOK'
  <2>1. /\ faults' \in Nat
        /\ loop' \in JobType
        /\ wake' \subseteq Tasks \union {Registered}
    BY <1>0, <1>jb, <1>29, FaultTypes, IdleTypes DEF TypeOK, ClaimFails, HandlerFails
  <2>2. skipped' = (skipped \/ Stranded)
    BY <1>29 DEF ClaimFails, HandlerFails
  <2>3. skipped' \in BOOLEAN
    BY <1>0, <2>2 DEF TypeOK
  <2>4. /\ UNCHANGED <<rowVars, stale, online, emitting, userVars, requests, cancelling>>
        /\ UNCHANGED <<cancels, clobbered, botched>>
    BY <1>29 DEF ClaimFails, HandlerFails
  <2>5. QED
    BY <1>0, <2>1, <2>3, <2>4 DEF TypeOK, JobType, rowVars, userVars
<1>30. ASSUME UNCHANGED vars
      PROVE  TypeOK'
  BY <1>0, <1>30 DEF TypeOK, vars
<1>31. QED
  BY <1>1, <1>2, <1>3, <1>4, <1>5, <1>6, <1>7, <1>8, <1>9, <1>10, <1>11, <1>12, <1>13, <1>14, <1>15, <1>16, <1>17, <1>18, <1>19, <1>20, <1>21, <1>22, <1>23, <1>24, <1>25, <1>26, <1>27, <1>28, <1>29, <1>30 DEF Next, LoopStep
------------------------------------------------------------------------------
(* Every step keeps the jobs sound *)

\* A loop between two jobs, or about to sweep, relies on nothing.
LEMMA RestingLoop ==
  ASSUME loop'.pc \in {"idle", "resume", "sweep", "boot"}
  PROVE  JobsSound'
BY DEF JobsSound

\* The steps of the device, the poller and the clocks move neither a row nor the loop.
LEMMA OtherSteps ==
  ASSUME NEW t \in Tasks,
         \/ DeviceAnswers(t) \/ Progress(t) \/ DuplicateResult(t)
         \/ PollerReads(t) \/ PollerGivesUp(t) \/ LeaseLapses(t) \/ DeadlinePasses(t)
  PROVE  UNCHANGED <<status, loop, cancelling, clobbered>>
BY DEF DeviceAnswers, Progress, DuplicateResult, PollerReads, PollerGivesUp, LeaseLapses,
       DeadlinePasses, rowVars, userVars

\* Nor do the steps of the connection.
LEMMA ConnectionSteps ==
  ASSUME Registers \/ Disconnects \/ \E t \in Tasks, h \in {"dispatch", "resume"} : Sent(t, h)
  PROVE  UNCHANGED <<status, loop, cancelling, clobbered>>
BY DEF Registers, Disconnects, Sent, rowVars, userVars

\* Every step keeps what a job relies on.
LEMMA NextJobs == IInv /\ [Next]_vars => JobsSound'
<1> SUFFICES ASSUME IInv, [Next]_vars
             PROVE  JobsSound'
  OBVIOUS
<1>0. TypeOK /\ JobsSound /\ OnePending /\ CancelsRows
  BY DEF IInv
<1>q. ASSUME UNCHANGED <<status, loop>> PROVE JobsSound'
  BY <1>0, <1>q, QuietSteps
<1>ty. status \in [Tasks -> Statuses] /\ loop \in JobType /\ cancelling \in [Tasks -> {"none"} \union ActiveStatuses]
  BY <1>0 DEF TypeOK, JobType
<1>st. {"absent", "queued", "pending", "timeout", "error", "cancelled", "completed"} \subseteq Statuses
  BY DEF Statuses, ActiveStatuses, TerminalStatuses
<1>1. CASE Insert
  BY <1>1, IdleTypes, RestingLoop DEF Insert
<1>2. CASE ResumeNothing \/ ClaimFails \/ ClaimCommit \/ SweepCommit \/ BootSweepsNothing
  BY <1>2, IdleTypes, RestingLoop
     DEF ResumeNothing, ClaimFails, ClaimCommit, SweepCommit, BootSweepsNothing
<1>3. ASSUME NEW t \in Tasks, ResumeFinds(t)
      PROVE  JobsSound'
  <2>1. /\ loop'.pc = "claim" /\ loop'.task = t /\ loop'.seen = status[t]
    BY <1>3, JobParts DEF ResumeFinds
  <2>2. status[t] = "queued" /\ Pending' = {}
    BY <1>3 DEF ResumeFinds, Queued, DeviceBusy, Pending, rowVars
  <2>3. QED
    BY <2>1, <2>2 DEF JobsSound
<1>4. ASSUME NEW t \in Tasks, Enqueue(t)
      PROVE  JobsSound'
  <2>1. /\ loop'.pc = "insert" /\ loop'.task = t /\ loop'.write = InsertedStatus
    BY <1>4, JobParts DEF Enqueue
  <2>2. status'[t] = "absent" /\ Pending' = Pending
    BY <1>4 DEF Enqueue, Pending, rowVars
  <2>3. InsertedStatus = "queued" \/ (InsertedStatus = "pending" /\ Pending = {})
    BY DEF InsertedStatus, Active, Pending, ActiveStatuses
  <2>4. QED
    BY <2>1, <2>2, <2>3 DEF JobsSound
<1>5. CASE FinalizeRead
  <2>1. /\ loop.task \in Tasks /\ loop.write \in TerminalStatuses /\ loop.pc = "finalize"
    BY <1>0, <1>5 DEF JobsSound, FinalizeRead
  <2>2. CASE Finalizable(loop.task, loop.write)
    <3>1. loop' = Job("commit", loop.op, loop.task, status[loop.task], loop.write)
      BY <1>5, <2>2 DEF FinalizeRead
    <3>2. /\ loop'.pc = "commit" /\ loop'.task = loop.task
          /\ loop'.seen = status[loop.task] /\ loop'.write = loop.write
      BY <3>1, JobParts
    <3>3. QED
      BY <2>1, <2>2, <3>2 DEF JobsSound, Finalizable, CanTransition
  <2>3. CASE ~Finalizable(loop.task, loop.write)
    BY <1>0, <1>5, <2>1, <2>3, GoesOnTypes, RestingLoop DEF FinalizeRead, TypeOK
  <2>4. QED
    BY <2>2, <2>3
<1>6. CASE Commit \/ CommitFails
  <2>1. loop.task \in Tasks
    BY <1>0, <1>6 DEF JobsSound, Commit, CommitFails
  <2>2. \E done \in BOOLEAN : HandlerGoesOn(loop.op, loop.task, done)
    BY <1>6 DEF Commit, CommitFails
  <2>3. QED
    BY <1>0, <2>1, <2>2, GoesOnTypes, RestingLoop DEF TypeOK
<1>7. CASE SweepRead \/ Restart
  BY <1>7, JobParts, RestingLoop DEF SweepRead, Restart
<1>8. ASSUME NEW t \in Tasks, ResultArrives(t)
      PROVE  JobsSound'
  <2>1. PICK w \in {"completed", "error"} : loop' = Finalize("result", t, w)
    BY <1>8 DEF ResultArrives
  <2>2. loop'.pc = "finalize" /\ loop'.task = t /\ loop'.write = w /\ loop'.op = "result"
    BY <2>1, JobParts DEF Finalize
  <2>3. QED
    BY <2>2 DEF JobsSound, TerminalStatuses
<1>9. ASSUME NEW t \in Tasks, NEW kind \in {"expire", "cancel"}, RequestArrives(t, kind)
      PROVE  JobsSound'
  <2>1. loop' = Finalize(kind, t, IF kind = "expire" THEN "timeout" ELSE "cancelled")
    BY <1>9 DEF RequestArrives
  <2>2. /\ loop'.pc = "finalize" /\ loop'.task = t /\ loop'.op = kind
        /\ loop'.write \in {"timeout", "cancelled"}
    BY <2>1, JobParts DEF Finalize
  <2>3. QED
    BY <2>2 DEF JobsSound, TerminalStatuses
<1>10. ASSUME NEW t \in Tasks, NEW h \in {"dispatch", "resume"}, SendFails(t, h)
       PROVE  JobsSound'
  <2>1. CASE h = "dispatch"
    <3>1. loop' = Finalize("sendfail", t, "error")
      BY <1>10, <2>1 DEF SendFails
    <3>2. /\ loop'.pc = "finalize" /\ loop'.task = t /\ loop'.op = "sendfail"
          /\ loop'.write = "error"
      BY <3>1, JobParts DEF Finalize
    <3>3. QED
      BY <3>2 DEF JobsSound, TerminalStatuses
  <2>2. CASE h # "dispatch" /\ status[t] = "pending"
    <3>1. loop' = Job("commit", "requeue", t, "pending", "queued")
      BY <1>10, <2>2 DEF SendFails
    <3>2. /\ loop'.pc = "commit" /\ loop'.task = t /\ loop'.op = "requeue"
          /\ loop'.seen = "pending" /\ loop'.write = "queued"
      BY <3>1, JobParts
    <3>3. QED
      BY <3>2 DEF JobsSound
  <2>3. CASE h # "dispatch" /\ status[t] # "pending"
    BY <1>10, <2>3, IdleTypes, RestingLoop DEF SendFails
  <2>4. QED
    BY <2>1, <2>2, <2>3
<1>11. ASSUME NEW h \in Tasks \union {Registered}, ResumeBegins(h)
       PROVE  JobsSound'
  BY <1>11, IdleTypes, RestingLoop DEF ResumeBegins
<1>16. ASSUME NEW h \in Tasks \union {Registered}, HandlerFails(h)
       PROVE  JobsSound'
  BY <1>q, <1>16 DEF HandlerFails, rowVars
<1>12. ASSUME NEW t \in Tasks, CancelCommit(t)
       PROVE  JobsSound'
  <2>1. UNCHANGED loop /\ status' = [status EXCEPT ![t] = "cancelled"] /\ status[t] # "absent"
    BY <1>0, <1>12 DEF CancelCommit, CancelsRows
  <2>2. Pending' \subseteq Pending
    BY <1>0, <1>ty, <1>st, <2>1, EndingSteps
  <2>3. loop.pc = "insert" => loop.task \in Tasks /\ status'[loop.task] = status[loop.task]
    BY <1>0, <1>ty, <2>1 DEF JobsSound
  <2>4. QED
    BY <1>0, <2>1, <2>2, <2>3 DEF JobsSound, CanTransition
<1>13. ASSUME NEW t \in Tasks, CancelRead(t)
       PROVE  JobsSound'
  BY <1>q, <1>13 DEF CancelRead, rowVars
<1>14. CASE UNCHANGED vars
  BY <1>q, <1>14 DEF vars
<1>15. QED
  BY <1>q, <1>1, <1>2, <1>3, <1>4, <1>5, <1>6, <1>7, <1>8, <1>9, <1>10, <1>11, <1>12, <1>13,
     <1>14, <1>16, OtherSteps, ConnectionSteps DEF Next, LoopStep
------------------------------------------------------------------------------
(* What a step does to the rows *)

\* Five steps write a status; every other step leaves the rows alone.
LEMMA WritingSteps ==
  ASSUME [Next]_vars
  PROVE  \/ UNCHANGED status
         \/ Insert \/ ClaimCommit \/ Commit \/ SweepCommit
         \/ \E t \in Tasks : CancelCommit(t)
BY OtherSteps, ConnectionSteps
   DEF Next, LoopStep, vars, rowVars, ResumeNothing, ResumeFinds, FinalizeRead, SweepRead,
       BootSweepsNothing, Enqueue, ResultArrives, CancelRead, SendFails, RequestArrives,
       ResumeBegins, HandlerFails, ClaimFails, CommitFails, Restart

\* A step takes the device for one task when no task has it ...
Takes == Pending = {} /\ \E t \in Tasks : Pending' = {t}

\* ... or lets tasks go.
LetsGo == Pending' \subseteq Pending

\* No step does anything else to the device.
LEMMA NextPending == IInv /\ [Next]_vars => Takes \/ LetsGo
<1> SUFFICES ASSUME IInv, [Next]_vars
             PROVE  Takes \/ LetsGo
  OBVIOUS
<1>0. TypeOK /\ JobsSound /\ OnePending /\ CancelsRows
  BY DEF IInv
<1>ty. status \in [Tasks -> Statuses]
  BY <1>0 DEF TypeOK
<1>st. {"queued", "timeout", "cancelled"} \union TerminalStatuses \subseteq Statuses \ {"pending"}
  BY DEF Statuses, ActiveStatuses, TerminalStatuses
<1>tk. ASSUME NEW t \in Tasks, Pending = {}, status' = [status EXCEPT ![t] = "pending"]
       PROVE  Takes
  <2>1. Pending' = {t}
    BY <1>ty, <1>tk DEF Pending
  <2>2. QED
    BY <1>tk, <2>1 DEF Takes
<1>lg. ASSUME NEW t \in Tasks, NEW x \in Statuses \ {"pending"}, status' = [status EXCEPT ![t] = x]
       PROVE  LetsGo
  BY <1>0, <1>ty, <1>lg, EndingSteps DEF LetsGo
<1>1. CASE UNCHANGED status
  BY <1>1 DEF LetsGo, Pending
<1>2. CASE Insert
  <2>1. /\ loop.task \in Tasks /\ status' = [status EXCEPT ![loop.task] = loop.write]
        /\ loop.write = "queued" \/ (loop.write = "pending" /\ Pending = {})
    BY <1>0, <1>2 DEF Insert, JobsSound
  <2>2. QED
    BY <1>tk, <1>lg, <1>st, <2>1
<1>3. CASE ClaimCommit
  <2>1. /\ loop.task \in Tasks /\ status' = [status EXCEPT ![loop.task] = "pending"]
        /\ Pending = {}
    BY <1>0, <1>3 DEF ClaimCommit, JobsSound
  <2>2. QED
    BY <1>tk, <2>1
<1>4. CASE Commit
  <2>1. /\ loop.task \in Tasks /\ status' = [status EXCEPT ![loop.task] = loop.write]
        /\ loop.write = "queued" \/ loop.write \in TerminalStatuses
    BY <1>0, <1>4 DEF Commit, JobsSound
  <2>2. QED
    BY <1>lg, <1>st, <2>1
<1>5. CASE SweepCommit
  BY <1>5 DEF SweepCommit, LetsGo, Pending
<1>6. ASSUME NEW t \in Tasks, CancelCommit(t)
      PROVE  LetsGo
  BY <1>6, <1>lg, <1>st DEF CancelCommit
<1>7. QED
  BY <1>1, <1>2, <1>3, <1>4, <1>5, <1>6, WritingSteps

\* Rows are never deleted, so a cancellation still finds the one it has read.
LEMMA NextCancels == IInv /\ [Next]_vars => CancelsRows'
<1> SUFFICES ASSUME IInv, [Next]_vars
             PROVE  CancelsRows'
  OBVIOUS
<1>0. TypeOK /\ JobsSound /\ CancelsRows
  BY DEF IInv
<1>ty. /\ status \in [Tasks -> Statuses]
       /\ cancelling \in [Tasks -> {"none"} \union ActiveStatuses]
  BY <1>0 DEF TypeOK
<1>1. ASSUME NEW t \in Tasks PROVE status[t] # "absent" => status'[t] # "absent"
  <2>1. CASE UNCHANGED status
    BY <2>1
  <2>2. CASE Insert
    BY <1>0, <1>ty, <2>2 DEF Insert, JobsSound
  <2>3. CASE ClaimCommit
    BY <1>ty, <2>3 DEF ClaimCommit
  <2>4. CASE Commit
    <3>1. loop.write # "absent"
      BY <1>0, <2>4 DEF Commit, JobsSound, TerminalStatuses
    <3>2. QED
      BY <1>ty, <2>4, <3>1 DEF Commit
  <2>5. CASE SweepCommit
    BY <2>5 DEF SweepCommit
  <2>6. ASSUME NEW u \in Tasks, CancelCommit(u)
        PROVE  status[t] # "absent" => status'[t] # "absent"
    BY <1>ty, <2>6 DEF CancelCommit
  <2>7. QED
    BY <2>1, <2>2, <2>3, <2>4, <2>5, <2>6, WritingSteps
<1>2. ASSUME NEW t \in Tasks, cancelling'[t] # "none"
      PROVE  cancelling[t] # "none" \/ status[t] \in ActiveStatuses
  <2>1. ASSUME NEW u \in Tasks, CancelRead(u)
        PROVE  cancelling[t] # "none" \/ status[t] \in ActiveStatuses
    BY <1>2, <1>ty, <2>1 DEF CancelRead
  <2>2. ASSUME NEW u \in Tasks, CancelCommit(u)
        PROVE  cancelling[t] # "none"
    BY <1>2, <1>ty, <2>2 DEF CancelCommit
  <2>3. CASE UNCHANGED cancelling
    BY <1>2, <2>3
  <2>4. QED
    BY <2>1, <2>2, <2>3, OtherSteps, ConnectionSteps
       DEF Next, LoopStep, vars, Insert, ResumeNothing, ResumeFinds, ClaimCommit, FinalizeRead,
           Commit, SweepRead, SweepCommit, BootSweepsNothing, Enqueue, ResultArrives, SendFails,
           RequestArrives, ResumeBegins, HandlerFails, ClaimFails, CommitFails, Restart
<1>3. QED
  BY <1>0, <1>1, <1>2 DEF CancelsRows, ActiveStatuses

\* IInv is inductive.
LEMMA NextIInv == IInv /\ [Next]_vars => IInv'
<1> SUFFICES ASSUME IInv, [Next]_vars
             PROVE  IInv'
  OBVIOUS
<1>1. OnePending'
  BY NextPending DEF IInv, OnePending, Takes, LetsGo
<1>2. QED
  BY <1>1, NextTypes, NextJobs, NextCancels DEF IInv

------------------------------------------------------------------------------
(* Theorems *)

\* IInv holds in every reachable state.
LEMMA Sound == Spec => []IInv
BY InitIInv, NextIInv, PTL DEF Spec

\* The columns of the rows and the state of the handlers keep their types.
THEOREM TypeCorrect == Spec => []TypeOK
<1>1. IInv => TypeOK
  BY DEF IInv
<1>2. QED
  BY <1>1, Sound, PTL

\* The rows of a device implement DeviceSlot: enqueue_dispatch_row and
\* claim_next_queued make a row pending only when no row of the device is, and
\* every other write lets the device go.
THEOREM DeviceServesOneTask == Spec => OneTaskAtATime
<1>1. Init => Slot!Init
  BY DEF Init, Slot!Init, Pending
<1>2. IInv /\ [Next]_vars => [Slot!Next]_Pending
  <2> SUFFICES ASSUME IInv, [Next]_vars
               PROVE  [Slot!Next]_Pending
    OBVIOUS
  <2>1. CASE Takes
    BY <2>1 DEF Takes, Slot!Next, Slot!Take
  <2>2. CASE LetsGo
    <3>1. Pending' = Pending \/ (Pending # {} /\ Pending' = {})
      BY <2>2 DEF LetsGo, IInv, OnePending
    <3>2. QED
      BY <3>1 DEF Slot!Next, Slot!GiveBack
  <2>3. QED
    BY <2>1, <2>2, NextPending
<1>3. QED
  BY <1>1, <1>2, Sound, PTL DEF Spec, OneTaskAtATime, Slot!Spec

\* What a step may do to the outcome of a task.
FinalFor(t) ==
  \/ status[t] = "absent"
  \/ CanTransition(status[t], status'[t])
  \/ status[t] = "pending" /\ status'[t] = "queued" /\ loop.op = "requeue"

\* A row that still is what its UPDATE has read moves along a legal edge.
LEMMA NextFinal == IInv /\ [Next]_vars => clobbered' \/ \A t \in Tasks : FinalFor(t)
<1> SUFFICES ASSUME IInv, [Next]_vars, ~clobbered',
                    NEW t \in Tasks
             PROVE  FinalFor(t)
  OBVIOUS
<1>0. JobsSound
  BY DEF IInv
<1>ty. /\ status \in [Tasks -> Statuses]
       /\ cancelling \in [Tasks -> {"none"} \union ActiveStatuses]
       /\ stale \subseteq Tasks \X ActiveStatuses
  BY DEF IInv, TypeOK
<1>same. ASSUME status'[t] = status[t] PROVE FinalFor(t)
  BY <1>same DEF FinalFor, CanTransition
<1>end. \A x \in ActiveStatuses : CanTransition(x, "timeout") /\ CanTransition(x, "cancelled")
  BY DEF CanTransition, LegalTransitions, ActiveStatuses
<1>1. CASE UNCHANGED status
  BY <1>1, <1>same
<1>2. CASE Insert
  <2>1. status[loop.task] = "absent" /\ status' = [status EXCEPT ![loop.task] = loop.write]
    BY <1>0, <1>2 DEF Insert, JobsSound
  <2>2. QED
    BY <1>ty, <1>same, <2>1 DEF FinalFor
<1>3. CASE ClaimCommit
  <2>1. status[loop.task] = "queued" /\ status' = [status EXCEPT ![loop.task] = "pending"]
    BY <1>0, <1>3 DEF ClaimCommit, JobsSound
  <2>2. CanTransition("queued", "pending")
    BY DEF CanTransition, LegalTransitions, ActiveStatuses
  <2>3. QED
    BY <1>ty, <1>same, <2>1, <2>2 DEF FinalFor
<1>4. CASE Commit
  <2>1. status[loop.task] = loop.seen /\ status' = [status EXCEPT ![loop.task] = loop.write]
    BY <1>4 DEF Commit
  <2>2. \/ loop.op = "requeue" /\ loop.seen = "pending" /\ loop.write = "queued"
        \/ CanTransition(loop.seen, loop.write)
    BY <1>0, <1>4 DEF Commit, JobsSound
  <2>3. CASE t = loop.task
    <3>1. status[t] = loop.seen /\ status'[t] = loop.write
      BY <1>ty, <2>1, <2>3
    <3>2. QED
      BY <2>2, <3>1 DEF FinalFor
  <2>4. CASE t # loop.task
    BY <1>ty, <1>same, <2>1, <2>4
  <2>5. QED
    BY <2>3, <2>4
<1>5. CASE SweepCommit
  <2>1. CASE Swept(t)
    <3>1. <<t, status[t]>> \in stale /\ status'[t] = "timeout"
      BY <1>5, <2>1 DEF SweepCommit
    <3>2. status[t] \in ActiveStatuses
      BY <1>ty, <3>1
    <3>3. QED
      BY <1>end, <3>1, <3>2 DEF FinalFor
  <2>2. CASE ~Swept(t)
    BY <1>5, <1>same, <2>2 DEF SweepCommit
  <2>3. QED
    BY <2>1, <2>2
<1>6. ASSUME NEW u \in Tasks, CancelCommit(u)
      PROVE  FinalFor(t)
  <2>1. status[u] \in ActiveStatuses /\ status' = [status EXCEPT ![u] = "cancelled"]
    BY <1>6, <1>ty DEF CancelCommit
  <2>2. CASE t = u
    BY <1>end, <1>ty, <2>1, <2>2 DEF FinalFor
  <2>3. CASE t # u
    BY <1>same, <1>ty, <2>1, <2>3
  <2>4. QED
    BY <2>2, <2>3
<1>7. QED
  BY <1>1, <1>2, <1>3, <1>4, <1>5, <1>6, WritingSteps

\* Terminal rows are immutable unless an UPDATE of the gateway and one of the
\* connector cross: finalize_dispatch_row, requeue_pending and the sweep all look
\* at the status they are about to replace.
THEOREM OutcomesAreFinal == Spec => OutcomesFinal
<1>1. IInv /\ [Next]_vars =>
        [clobbered' \/ \A t \in Tasks :
           \/ status[t] = "absent"
           \/ CanTransition(status[t], status'[t])
           \/ status[t] = "pending" /\ status'[t] = "queued" /\ loop.op = "requeue"]_vars
  BY NextFinal DEF FinalFor
<1>2. QED
  BY <1>1, Sound, PTL DEF Spec, OutcomesFinal

\* The history variable is never reset, and a poller is told an outcome once.
LEMMA NextCaller ==
  ASSUME IInv, [Next]_vars, ~clobbered',
         NEW t \in Tasks, caller'[t] \in TerminalStatuses
  PROVE  /\ ~clobbered
         /\ caller'[t] = caller[t] \/ (caller'[t] = status[t] /\ UNCHANGED status)
<1>ty. caller \in [Tasks -> {"none", "waiting", "gaveup"} \union TerminalStatuses]
  BY DEF IInv, TypeOK
<1>1. ~clobbered
  BY OtherSteps, ConnectionSteps
     DEF Next, LoopStep, vars, Insert, ResumeNothing, ResumeFinds, ClaimCommit, FinalizeRead,
         Commit, SweepRead, SweepCommit, BootSweepsNothing, Enqueue, ResultArrives, CancelRead,
         CancelCommit, SendFails, RequestArrives, ResumeBegins, HandlerFails, ClaimFails,
         CommitFails, Restart
<1>2. CASE Insert
  BY <1>ty, <1>2, <1>1 DEF Insert, TerminalStatuses
<1>3. ASSUME NEW u \in Tasks, PollerReads(u)
      PROVE  caller'[t] = caller[t] \/ (caller'[t] = status[t] /\ UNCHANGED status)
  BY <1>ty, <1>3 DEF PollerReads, rowVars
<1>4. ASSUME NEW u \in Tasks, PollerGivesUp(u)
      PROVE  caller'[t] = caller[t]
  BY <1>ty, <1>4 DEF PollerGivesUp, TerminalStatuses
<1>5. CASE UNCHANGED caller
  BY <1>1, <1>5
<1>6. QED
  BY <1>1, <1>2, <1>3, <1>4, <1>5
     DEF Next, LoopStep, vars, userVars, ResumeNothing, ResumeFinds, ClaimCommit, FinalizeRead,
         Commit, SweepRead, SweepCommit, BootSweepsNothing, Enqueue, ResultArrives, CancelRead,
         CancelCommit, SendFails, RequestArrives, ResumeBegins, HandlerFails, ClaimFails,
         CommitFails, Restart, Sent, Registers, Disconnects, DeviceAnswers, Progress,
         DuplicateResult, LeaseLapses, DeadlinePasses

\* What a poller of the ai runtime read off a terminal row stays true of the row:
\* no late answer, expiry or cancellation replaces it, crossing UPDATEs apart.
THEOREM PollersAgreeWithRows == Spec => []PollersAgree
<1>1. Init => PollersAgree
  BY DEF Init, PollersAgree, TerminalStatuses
<1>2. IInv /\ PollersAgree /\ [Next]_vars => PollersAgree'
  <2> SUFFICES ASSUME IInv, PollersAgree, [Next]_vars, ~clobbered',
                      NEW t \in Tasks, caller'[t] \in TerminalStatuses
               PROVE  status'[t] = caller'[t]
    BY DEF PollersAgree
  <2>1. ~clobbered
    BY NextCaller
  <2>2. CASE caller'[t] = status[t] /\ UNCHANGED status
    BY <2>2
  <2>3. CASE caller'[t] = caller[t]
    <3>1. status[t] = caller'[t] /\ status[t] \in TerminalStatuses
      BY <2>1, <2>3 DEF PollersAgree
    <3>2. FinalFor(t)
      BY NextFinal
    <3>3. QED
      BY <3>1, <3>2 DEF FinalFor, CanTransition, ActiveStatuses, TerminalStatuses
  <2>4. QED
    BY <2>2, <2>3, NextCaller
<1>3. QED
  BY <1>1, <1>2, Sound, PTL DEF Spec
==============================================================================
