------------------------ MODULE DispatchQueueFlowProofs ------------------------
(***************************************************************************)
(* Why the queue of a device never stalls and a task leaves one message,   *)
(* for every set of tasks and every value of the bounds.                   *)
(*                                                                         *)
(* Both go beyond the invariant of DispatchQueueProofs: the first needs to *)
(* know, at every step, which handler owes the queue a resume (Owed); the  *)
(* second that a task which waits in the queue is unknown to its device    *)
(* (Untold, SentOnce), so a row that may be put back has no answer yet.    *)
(***************************************************************************)
EXTENDS DispatchQueueProofs

------------------------------------------------------------------------------
(* The queue is resumed *)

\* The handler of the event loop goes on to resume the queue, whatever fails.
Resumes ==
  \/ loop.pc \in {"insert", "resume", "claim"}
  \/ loop.pc \in {"finalize", "commit"} /\ loop.op \in {"result", "sendfail"}
  \/ loop.pc = "finalize" /\ loop.op = "cancel" /\ status[loop.task] = "cancelled"

\* A cancellation that the gateway has committed is on its way.
Notified == \E t \in Tasks : <<"cancel", t>> \in requests /\ status[t] = "cancelled"

\* Tasks that wait for a connected device have somebody who will look at the
\* queue, or the device was freed where nobody does.
Owed ==
  online /\ Queued # {} /\ Pending = {} => skipped \/ wake # {} \/ Resumes \/ Notified

\* A send that failed frees the device, and so does a sweep.
Freed == loop.pc = "commit" /\ loop.op = "requeue" => skipped

\* The device connects after the boot sweep.
BootsOffline == loop.pc = "boot" => ~online

\* Every row is finalized on behalf of a handler.
Handled == loop.pc \in {"finalize", "commit"} => loop.op # "none"

FlowInv == Owed /\ Freed /\ BootsOffline /\ Handled

------------------------------------------------------------------------------
(* A task leaves one message *)

\* The task of row t may be, or may again be, in the queue.
Waits(t) ==
  \/ status[t] \in {"absent", "queued"}
  \/ loop.task = t /\ loop.pc = "claim"
  \/ loop.task = t /\ loop.pc = "commit" /\ loop.op = "requeue"

\* A device knows nothing of the tasks that wait, and nothing is on its way.
Untold ==
  \A t \in Tasks : Waits(t) =>
    device[t] = "none" /\ <<t, "dispatch">> \notin emitting /\ <<t, "resume">> \notin emitting

\* What a resume is about to send was not sent before.
SentOnce ==
  \A t \in Tasks : <<t, "resume">> \in emitting =>
    device[t] = "none" /\ <<t, "dispatch">> \notin emitting

\* A message is the device's answer.
SavedAnswers == \A t \in Tasks : saved[t] > 0 => device[t] \in {"answered", "acked"}

\* A connector that starts owns no row.
BootsAnew == loop.pc = "boot" => \A t \in Tasks : ~mine[t]

\* The row has ended, or the handler of the answer, or else the boot sweep, is
\* about to end it.
Ending(t) ==
  \/ Ended(t)
  \/ loop.pc \in {"finalize", "commit"} /\ loop.op = "result" /\ loop.task = t
  \/ loop.pc = "boot"
  \/ loop.pc = "sweep" /\ Swept(t)

\* A message is saved once, and the row it belongs to is ended.
Recorded == \A t \in Tasks : saved[t] > 0 => saved[t] = 1 /\ Ending(t)

DeviceInv == Untold /\ SentOnce /\ SavedAnswers
AnswerInv == DeviceInv /\ BootsAnew /\ (botched \/ Recorded)

------------------------------------------------------------------------------
(* Every step keeps the queue going *)

\* Steps that take nothing from the queue's helpers keep the queue going.
LEMMA QuietFlow ==
  ASSUME FlowInv, UNCHANGED <<status, loop, online, skipped>>,
         wake \subseteq wake', requests \subseteq requests'
  PROVE  FlowInv'
BY DEF FlowInv, Owed, Freed, BootsOffline, Handled, Resumes, Notified, Queued, Pending

\* A step that ends with the device busy, gone, or no task waiting for it, and
\* neither a requeue nor a boot sweep ahead, keeps it going too.
LEMMA SettledFlow ==
  ASSUME \/ skipped' \/ wake' # {} \/ ~online' \/ Queued' = {} \/ Pending' # {} \/ Resumes',
         loop'.pc = "commit" /\ loop'.op = "requeue" => skipped',
         loop'.pc = "boot" => ~online',
         loop'.pc \in {"finalize", "commit"} => loop'.op # "none"
  PROVE  FlowInv'
BY DEF FlowInv, Owed, Freed, BootsOffline, Handled

\* The handler that goes on resumes the queue, or had nothing to do with it.
LEMMA GoesOnFlow ==
  ASSUME IInv, NEW op, NEW t \in Tasks, NEW done, HandlerGoesOn(op, t, done)
  PROVE  /\ loop'.pc \in {"idle", "resume"}
         /\ wake \subseteq wake'
         /\ op = "sendfail" \/ (op = "expire" /\ done) => loop'.pc = "resume"
         /\ op = "result" => wake' # {}
         /\ op = "cancel" /\ (done \/ status[t] = "cancelled") => wake' # {}
BY IdleTypes DEF HandlerGoesOn, ResumesNow, ResumesLater

LEMMA NextFlow == IInv /\ FlowInv /\ [Next]_vars => FlowInv'
<1> SUFFICES ASSUME IInv, FlowInv, [Next]_vars
             PROVE  FlowInv'
  OBVIOUS
<1>0. TypeOK /\ JobsSound /\ OnePending /\ CancelsRows /\ Owed /\ Freed /\ BootsOffline /\ Handled
  BY DEF IInv, FlowInv
<1>ty. /\ status \in [Tasks -> Statuses]
       /\ loop \in JobType
       /\ wake \subseteq Tasks \union {Registered}
  BY <1>0 DEF TypeOK, JobType
<1>1. ASSUME Insert PROVE FlowInv'
  <2>1. /\ loop.task \in Tasks /\ status' = [status EXCEPT ![loop.task] = loop.write]
        /\ loop.write \in {"pending", "queued"}
        /\ loop' = IF loop.write = "pending" THEN Idle ELSE Resuming
    BY <1>0, <1>1 DEF Insert, JobsSound
  <2>2. Pending' # {} \/ loop'.pc = "resume"
    BY <1>ty, <2>1, IdleTypes DEF Pending
  <2>3. loop'.pc \in {"idle", "resume"}
    BY <2>1, IdleTypes
  <2>4. QED
    BY <2>2, <2>3, SettledFlow DEF Resumes
<1>2. ASSUME ResumeNothing PROVE FlowInv'
  <2>1. loop'.pc = "idle"
    BY <1>2, IdleTypes DEF ResumeNothing
  <2>2. ~online' \/ Pending' # {} \/ Queued' = {}
    BY <1>2 DEF ResumeNothing, DeviceBusy, Pending, Queued, rowVars
  <2>3. QED
    BY <2>1, <2>2, SettledFlow
<1>3. ASSUME ClaimCommit PROVE FlowInv'
  <2>1. loop'.pc = "idle" /\ loop.task \in Tasks /\ status' = [status EXCEPT ![loop.task] = "pending"]
    BY <1>0, <1>3, IdleTypes DEF ClaimCommit, JobsSound
  <2>2. Pending' # {}
    BY <1>ty, <2>1 DEF Pending
  <2>3. QED
    BY <2>1, <2>2, SettledFlow
<1>4. ASSUME FinalizeRead PROVE FlowInv'
  <2>1. /\ loop.task \in Tasks /\ loop.pc = "finalize" /\ loop.op # "requeue"
        /\ UNCHANGED <<status, online, requests, skipped>>
    BY <1>0, <1>4 DEF JobsSound, FinalizeRead, rowVars
  <2>2. CASE Finalizable(loop.task, loop.write)
    <3>1. loop' = Job("commit", loop.op, loop.task, status[loop.task], loop.write) /\ wake' = wake
      BY <1>4, <2>2 DEF FinalizeRead
    <3>2. loop'.pc = "commit" /\ loop'.op = loop.op
      BY <3>1, JobParts
    <3>3. status[loop.task] # "cancelled"
      BY <2>2 DEF Finalizable, ActiveStatuses
    <3>4. Resumes => Resumes'
      BY <2>1, <3>2, <3>3 DEF Resumes
    <3>5. Owed'
      BY <1>0, <2>1, <3>1, <3>4 DEF Owed, Notified, Queued, Pending
    <3>6. QED
      BY <1>0, <2>1, <3>2, <3>5 DEF FlowInv, Freed, BootsOffline, Handled
  <2>3. CASE ~Finalizable(loop.task, loop.write)
    <3>1. HandlerGoesOn(loop.op, loop.task, FALSE)
      BY <1>4, <2>3 DEF FinalizeRead
    <3>2. /\ loop'.pc \in {"idle", "resume"} /\ wake \subseteq wake'
          /\ Resumes => loop'.pc = "resume" \/ wake' # {}
      BY <2>1, <3>1, GoesOnFlow DEF Resumes
    <3>3. QED
      BY <1>0, <2>1, <3>2
         DEF FlowInv, Owed, Freed, BootsOffline, Handled, Resumes, Notified, Queued, Pending
  <2>4. QED
    BY <2>2, <2>3
<1>5. ASSUME Commit PROVE FlowInv'
  <2>1. /\ loop.task \in Tasks /\ loop.pc = "commit" /\ skipped' = skipped
        /\ HandlerGoesOn(loop.op, loop.task, TRUE)
    BY <1>0, <1>5 DEF JobsSound, Commit
  <2>2. loop.op \in {"none", "requeue", "sendfail", "expire", "result", "cancel"}
    BY <1>ty DEF JobType, Handlers
  <2>3. loop.op = "none" => FALSE
    BY <1>0, <2>1 DEF Handled
  <2>4. QED
    BY <1>0, <2>1, <2>2, <2>3, GoesOnFlow, SettledFlow DEF Freed, Resumes
<1>6. ASSUME CommitFails PROVE FlowInv'
  <2>1. /\ loop.task \in Tasks /\ loop.pc = "commit"
        /\ HandlerGoesOn(loop.op, loop.task, FALSE)
        /\ UNCHANGED <<status, online, requests, skipped>>
    BY <1>0, <1>6 DEF JobsSound, CommitFails, rowVars
  <2>2. /\ loop'.pc \in {"idle", "resume"} /\ wake \subseteq wake'
        /\ Resumes => loop'.pc = "resume" \/ wake' # {}
    BY <2>1, GoesOnFlow DEF Resumes
  <2>3. QED
    BY <1>0, <2>1, <2>2
       DEF FlowInv, Owed, Freed, BootsOffline, Handled, Resumes, Notified, Queued, Pending
<1>7. ASSUME SweepRead PROVE FlowInv'
  <2>1. loop'.pc = "sweep" /\ UNCHANGED <<status, online, wake, requests, skipped>>
    BY <1>7, JobParts DEF SweepRead, rowVars
  <2>2. Resumes => loop.pc = "idle" \/ loop.pc = "boot"
    BY <1>7, IdleTypes DEF SweepRead
  <2>3. ~Resumes
    BY <2>2 DEF Resumes
  <2>4. QED
    BY <1>0, <2>1, <2>3
       DEF FlowInv, Owed, Freed, BootsOffline, Handled, Notified, Queued, Pending
<1>8. ASSUME SweepCommit PROVE FlowInv'
  BY <1>8, IdleTypes, SettledFlow DEF SweepCommit
<1>9. ASSUME BootSweepsNothing PROVE FlowInv'
  <2>1. loop'.pc = "idle" /\ ~online'
    BY <1>0, <1>9, IdleTypes DEF BootSweepsNothing, BootsOffline
  <2>2. QED
    BY <2>1, SettledFlow
<1>10. ASSUME Registers PROVE FlowInv'
  <2>1. loop'.pc = "idle" /\ wake' # {}
    BY <1>10, IdleTypes DEF Registers
  <2>2. QED
    BY <2>1, SettledFlow
<1>11. ASSUME Disconnects \/ Restart PROVE FlowInv'
  <2>1. ~online' /\ loop'.pc \in {"idle", "boot"}
    BY <1>11, IdleTypes, JobParts DEF Disconnects, Restart
  <2>2. QED
    BY <2>1, SettledFlow
<1>12. ASSUME NEW t \in Tasks, ResumeFinds(t) PROVE FlowInv'
  <2>1. loop'.pc = "claim"
    BY <1>12, JobParts DEF ResumeFinds
  <2>2. QED
    BY <2>1, SettledFlow DEF Resumes
<1>13. ASSUME NEW t \in Tasks, Enqueue(t) PROVE FlowInv'
  <2>1. loop'.pc = "insert"
    BY <1>13, JobParts DEF Enqueue
  <2>2. QED
    BY <2>1, SettledFlow DEF Resumes
<1>14. ASSUME NEW t \in Tasks,
              \/ DeviceAnswers(t) \/ Progress(t) \/ DuplicateResult(t) \/ PollerReads(t)
              \/ PollerGivesUp(t) \/ CancelRead(t) \/ LeaseLapses(t) \/ DeadlinePasses(t)
       PROVE  FlowInv'
  <2>1. /\ UNCHANGED <<status, loop, online, skipped, wake>>
        /\ requests \subseteq requests'
    BY <1>14 DEF DeviceAnswers, Progress, DuplicateResult, PollerReads, PollerGivesUp,
         CancelRead, LeaseLapses, DeadlinePasses, rowVars, userVars
  <2>2. QED
    BY <2>1, QuietFlow
<1>15. ASSUME NEW t \in Tasks, ResultArrives(t) PROVE FlowInv'
  <2>1. loop'.pc = "finalize" /\ loop'.op = "result"
    BY <1>15, JobParts DEF ResultArrives, Finalize
  <2>2. QED
    BY <2>1, SettledFlow DEF Resumes
<1>16. ASSUME NEW t \in Tasks, CancelCommit(t) PROVE FlowInv'
  <2>1. /\ status' = [status EXCEPT ![t] = "cancelled"] /\ status[t] # "absent"
        /\ UNCHANGED <<loop, online, wake>>
        /\ requests \subseteq requests' /\ (skipped => skipped')
        /\ <<"cancel", t>> \in requests' \/ skipped'
    BY <1>0, <1>16 DEF CancelCommit, CancelsRows
  <2>2. status'[t] = "cancelled"
    BY <1>ty, <2>1
  <2>3. skipped' \/ Notified'
    BY <2>1, <2>2 DEF Notified
  <2>4. QED
    BY <1>0, <2>1, <2>3 DEF FlowInv, Owed, Freed, BootsOffline, Handled
<1>17. ASSUME NEW t \in Tasks, NEW h \in {"dispatch", "resume"}, Sent(t, h) PROVE FlowInv'
  <2>1. UNCHANGED <<status, loop, online, skipped, wake, requests>>
    BY <1>17 DEF Sent, rowVars
  <2>2. QED
    BY <2>1, QuietFlow
<1>18. ASSUME NEW t \in Tasks, NEW h \in {"dispatch", "resume"}, SendFails(t, h) PROVE FlowInv'
  <2>1. CASE h = "dispatch"
    <3>1. loop'.pc = "finalize" /\ loop'.op = "sendfail"
      BY <1>18, <2>1, JobParts DEF SendFails, Finalize
    <3>2. QED
      BY <3>1, SettledFlow DEF Resumes
  <2>2. CASE h = "resume"
    <3>1. skipped' /\ loop'.pc \in {"commit", "idle"} /\ (loop'.pc = "commit" => loop'.op = "requeue")
      <4>1. skipped' /\ (loop' = Job("commit", "requeue", t, "pending", "queued") \/ loop' = Idle)
        BY <1>18, <2>2 DEF SendFails
      <4>2. QED
        BY <4>1, JobParts, IdleTypes
    <3>2. QED
      BY <3>1, SettledFlow
  <2>3. QED
    BY <2>1, <2>2
<1>19. ASSUME NEW t \in Tasks, NEW kind \in {"expire", "cancel"}, RequestArrives(t, kind)
       PROVE  FlowInv'
  <2>1. /\ loop = Idle /\ loop'.pc = "finalize" /\ loop'.op = kind /\ loop'.task = t
        /\ requests' = requests \ {<<kind, t>>}
        /\ UNCHANGED <<status, online, wake, skipped>>
    BY <1>19, JobParts DEF RequestArrives, Finalize, rowVars
  <2>2. ~Resumes
    BY <2>1, IdleTypes DEF Resumes
  <2>3. Notified => Notified' \/ Resumes'
    <3>1. ASSUME NEW u \in Tasks, <<"cancel", u>> \in requests, status[u] = "cancelled"
          PROVE  Notified' \/ Resumes'
      <4>1. CASE kind = "cancel" /\ u = t
        BY <2>1, <3>1, <4>1 DEF Resumes
      <4>2. CASE kind = "expire" \/ u # t
        BY <2>1, <3>1, <4>2 DEF Notified
      <4>3. QED
        BY <4>1, <4>2
    <3>2. QED
      BY <3>1 DEF Notified
  <2>4. QED
    BY <1>0, <2>1, <2>2, <2>3 DEF FlowInv, Owed, Freed, BootsOffline, Handled, Queued, Pending
<1>20. ASSUME NEW h \in Tasks \union {Registered}, ResumeBegins(h) PROVE FlowInv'
  <2>1. loop'.pc = "resume"
    BY <1>20, IdleTypes DEF ResumeBegins
  <2>2. QED
    BY <2>1, SettledFlow DEF Resumes
<1>21. ASSUME ClaimFails \/ \E h \in Tasks \union {Registered} : HandlerFails(h)
       PROVE  FlowInv'
  <2>1. /\ loop'.pc = "idle" /\ skipped' = (skipped \/ Stranded)
        /\ UNCHANGED <<status, online>>
    BY <1>21, IdleTypes DEF ClaimFails, HandlerFails, rowVars
  <2>2. skipped' \/ ~online' \/ Queued' = {} \/ Pending' # {}
    BY <2>1 DEF Stranded, Queued, Pending
  <2>3. QED
    BY <2>1, <2>2, SettledFlow
<1>22. ASSUME UNCHANGED vars PROVE FlowInv'
  BY <1>22, QuietFlow DEF vars
<1>23. QED
  BY <1>1, <1>2, <1>3, <1>4, <1>5, <1>6, <1>7, <1>8, <1>9, <1>10, <1>11, <1>12, <1>13, <1>14,
     <1>15, <1>16, <1>17, <1>18, <1>19, <1>20, <1>21, <1>22 DEF Next, LoopStep

\* The queue is empty at first, and the handlers idle.
LEMMA InitFlow == Init => FlowInv
<1> SUFFICES ASSUME Init
             PROVE  FlowInv
  OBVIOUS
<1>1. loop.pc = "idle" /\ ~online
  BY IdleTypes DEF Init
<1>2. QED
  BY <1>1 DEF FlowInv, Owed, Freed, BootsOffline, Handled

\* No queued task waits for a connected and idle device once the handlers have
\* run: resume_device_dispatch_queue is called by every path that frees the
\* device, except the sweep, a failed send and a cancellation the connector was
\* not told of, and it looks at the queue unless its claim or the handler before
\* it raised.
THEOREM QueueIsResumed == Spec => []QueueNeverStalls
<1>1. FlowInv => QueueNeverStalls
  <2>1. SUFFICES ASSUME FlowInv, online, Queued # {}, Pending = {}, loop = Idle,
                        wake = {}, requests = {}
                 PROVE  skipped
    BY DEF QueueNeverStalls, Stranded
  <2>2. ~Resumes /\ ~Notified
    BY <2>1, IdleTypes DEF Resumes, Notified
  <2>3. QED
    BY <2>1, <2>2 DEF FlowInv, Owed
<1>2. Spec => []FlowInv
  BY InitFlow, NextFlow, Sound, PTL DEF Spec
<1>3. QED
  BY <1>1, <1>2, PTL

------------------------------------------------------------------------------
(* Every step keeps the tasks that wait unknown to the device *)

\* A step that sends nothing and puts no task back.
LEMMA QuietDevice ==
  ASSUME DeviceInv, UNCHANGED <<device, saved>>, emitting' \subseteq emitting,
         \A t \in Tasks : Waits(t)' => Waits(t)
  PROVE  DeviceInv'
BY DEF DeviceInv, Untold, SentOnce, SavedAnswers

\* A step of the loop that leaves the rows alone makes no task wait, unless it
\* is about to claim one or to put one back.
LEMMA NothingNewWaits ==
  ASSUME UNCHANGED status, loop' = loop \/ loop'.pc \notin {"claim", "commit"}
                           \/ (loop'.pc = "commit" /\ loop'.op # "requeue")
  PROVE  \A t \in Tasks : Waits(t)' => Waits(t)
BY DEF Waits

LEMMA NextDevice == IInv /\ DeviceInv /\ [Next]_vars => DeviceInv'
<1> SUFFICES ASSUME IInv, DeviceInv, [Next]_vars
             PROVE  DeviceInv'
  OBVIOUS
<1>0. TypeOK /\ JobsSound /\ Untold /\ SentOnce /\ SavedAnswers
  BY DEF IInv, DeviceInv
<1>ty. /\ status \in [Tasks -> Statuses]
       /\ device \in [Tasks -> {"none", "running", "answered", "acked"}]
       /\ saved \in [Tasks -> 0..2]
  BY <1>0 DEF TypeOK
<1>1. ASSUME Insert PROVE DeviceInv'
  <2> DEFINE t == loop.task
  <2>1. /\ t \in Tasks /\ status' = [status EXCEPT ![t] = loop.write] /\ status[t] = "absent"
        /\ emitting' \subseteq emitting \union {<<t, "dispatch">>}
        /\ loop.write \in {"queued", "pending"}
        /\ loop.write = "queued" => emitting' \subseteq emitting
        /\ loop'.pc \in {"idle", "resume"} /\ UNCHANGED <<device, saved>>
    BY <1>0, <1>1, IdleTypes DEF Insert, JobsSound
  <2>2. Waits(t)
    BY <2>1 DEF Waits
  <2>3. ASSUME NEW u \in Tasks, Waits(u)' PROVE Waits(u) /\ (u = t => loop.write = "queued")
    BY <1>ty, <2>1, <2>2, <2>3 DEF Waits
  <2>4. Untold'
    BY <1>0, <2>1, <2>3 DEF Untold
  <2>5. SentOnce'
    BY <1>0, <2>1, <2>2 DEF Untold, SentOnce
  <2>6. QED
    BY <1>0, <2>1, <2>4, <2>5 DEF DeviceInv, SavedAnswers
<1>2. ASSUME ResumeNothing \/ SweepRead \/ BootSweepsNothing PROVE DeviceInv'
  <2>1. /\ loop'.pc \in {"idle", "sweep"} /\ UNCHANGED <<status, device, saved, emitting>>
    BY <1>2, IdleTypes, JobParts DEF ResumeNothing, SweepRead, BootSweepsNothing, rowVars, userVars
  <2>2. QED
    BY <2>1, NothingNewWaits, QuietDevice
<1>3. ASSUME ClaimCommit PROVE DeviceInv'
  <2> DEFINE t == loop.task
  <2>1. /\ t \in Tasks /\ status' = [status EXCEPT ![t] = "pending"]
        /\ emitting' = emitting \union {<<t, "resume">>}
        /\ loop'.pc = "idle" /\ UNCHANGED <<device, saved>>
    BY <1>0, <1>3, IdleTypes DEF ClaimCommit, JobsSound, userVars
  <2>2. Waits(t)
    BY <1>3 DEF ClaimCommit, Waits
  <2>3. ASSUME NEW u \in Tasks, Waits(u)' PROVE Waits(u) /\ u # t
    BY <1>ty, <2>1, <2>3 DEF Waits
  <2>4. Untold'
    BY <1>0, <2>1, <2>3 DEF Untold
  <2>5. SentOnce'
    BY <1>0, <2>1, <2>2 DEF Untold, SentOnce
  <2>6. QED
    BY <1>0, <2>1, <2>4, <2>5 DEF DeviceInv, SavedAnswers
<1>4. ASSUME FinalizeRead PROVE DeviceInv'
  <2>1. /\ loop.task \in Tasks /\ loop.op # "requeue"
        /\ UNCHANGED <<status, device, saved, emitting>>
    BY <1>0, <1>4 DEF JobsSound, FinalizeRead, rowVars, userVars
  <2>2. loop'.pc \notin {"claim", "commit"} \/ (loop'.pc = "commit" /\ loop'.op # "requeue")
    <3>1. \/ HandlerGoesOn(loop.op, loop.task, FALSE)
          \/ loop' = Job("commit", loop.op, loop.task, status[loop.task], loop.write)
      BY <1>4 DEF FinalizeRead
    <3>2. ASSUME HandlerGoesOn(loop.op, loop.task, FALSE)
          PROVE  loop'.pc \in {"idle", "resume"}
      BY <1>0, <2>1, <3>2, GoesOnTypes DEF TypeOK
    <3>3. ASSUME loop' = Job("commit", loop.op, loop.task, status[loop.task], loop.write)
          PROVE  loop'.pc = "commit" /\ loop'.op = loop.op
      BY <3>3, JobParts
    <3>4. QED
      BY <2>1, <3>1, <3>2, <3>3
  <2>3. QED
    BY <2>1, <2>2, NothingNewWaits, QuietDevice
<1>5. ASSUME Commit PROVE DeviceInv'
  <2> DEFINE t == loop.task
  <2>1. /\ t \in Tasks /\ status' = [status EXCEPT ![t] = loop.write] /\ loop.pc = "commit"
        /\ UNCHANGED <<device, saved, emitting>> /\ loop'.pc \in {"idle", "resume"}
    BY <1>0, <1>5, GoesOnTypes DEF Commit, JobsSound, TypeOK, userVars
  <2>2. loop.write \in {"absent", "queued"} => Waits(t)
    BY <1>0, <2>1 DEF JobsSound, Waits, TerminalStatuses
  <2>3. ASSUME NEW u \in Tasks, Waits(u)' PROVE Waits(u)
    BY <1>ty, <2>1, <2>2, <2>3 DEF Waits
  <2>4. QED
    BY <2>1, <2>3, QuietDevice
<1>6. ASSUME CommitFails PROVE DeviceInv'
  <2>1. loop'.pc \in {"idle", "resume"} /\ UNCHANGED <<status, device, saved, emitting>>
    BY <1>0, <1>6, GoesOnTypes DEF CommitFails, JobsSound, TypeOK, rowVars, userVars
  <2>2. QED
    BY <2>1, NothingNewWaits, QuietDevice
<1>7. ASSUME SweepCommit PROVE DeviceInv'
  <2>1. /\ loop'.pc = "idle" /\ UNCHANGED <<device, saved, emitting>>
        /\ \A t \in Tasks : status'[t] \in {status[t], "timeout"}
    BY <1>7, IdleTypes DEF SweepCommit, userVars
  <2>2. \A t \in Tasks : Waits(t)' => Waits(t)
    BY <2>1 DEF Waits
  <2>3. QED
    BY <2>1, <2>2, QuietDevice
<1>8. ASSUME Registers \/ Disconnects \/ Restart PROVE DeviceInv'
  <2>1. /\ UNCHANGED <<status, device, saved>> /\ emitting' \subseteq emitting
        /\ loop'.pc \in {"idle", "boot"}
    BY <1>8, IdleTypes, JobParts DEF Registers, Disconnects, Restart, rowVars, userVars
  <2>2. QED
    BY <2>1, NothingNewWaits, QuietDevice
<1>9. ASSUME NEW t \in Tasks, ResumeFinds(t) PROVE DeviceInv'
  <2>1. /\ UNCHANGED <<status, device, saved, emitting>> /\ status[t] = "queued"
        /\ loop'.pc = "claim" /\ loop'.task = t
    BY <1>9, JobParts DEF ResumeFinds, Queued, rowVars, userVars
  <2>2. \A u \in Tasks : Waits(u)' => Waits(u)
    BY <2>1 DEF Waits
  <2>3. QED
    BY <2>1, <2>2, QuietDevice
<1>10. ASSUME NEW t \in Tasks, Enqueue(t) PROVE DeviceInv'
  <2>1. loop'.pc = "insert" /\ UNCHANGED <<status, device, saved, emitting>>
    BY <1>10, JobParts DEF Enqueue, rowVars, userVars
  <2>2. QED
    BY <2>1, NothingNewWaits, QuietDevice
<1>11. ASSUME NEW t \in Tasks, DeviceAnswers(t) PROVE DeviceInv'
  <2>1. /\ device[t] = "running" /\ device' = [device EXCEPT ![t] = "answered"]
        /\ UNCHANGED <<status, loop, saved, emitting>>
    BY <1>11 DEF DeviceAnswers, rowVars
  <2>2. \A u \in Tasks : Waits(u)' => Waits(u)
    BY <2>1 DEF Waits
  <2>3. QED
    BY <1>0, <1>ty, <2>1, <2>2 DEF DeviceInv, Untold, SentOnce, SavedAnswers
<1>12. ASSUME NEW t \in Tasks, DuplicateResult(t) PROVE DeviceInv'
  <2>1. /\ device[t] = "answered" /\ device' \in Answered(t)
        /\ UNCHANGED <<status, loop, saved, emitting>>
    BY <1>12 DEF DuplicateResult, rowVars
  <2>2. \A u \in Tasks : Waits(u)' => Waits(u)
    BY <2>1 DEF Waits
  <2>3. \A u \in Tasks : device'[u] = device[u] \/ (u = t /\ device'[u] = "acked")
    BY <1>ty, <2>1 DEF Answered
  <2>4. QED
    BY <1>0, <2>1, <2>2, <2>3 DEF DeviceInv, Untold, SentOnce, SavedAnswers
<1>13. ASSUME NEW t \in Tasks, ResultArrives(t) PROVE DeviceInv'
  <2>1. /\ device[t] = "answered" /\ device' \in Answered(t)
        /\ saved' = [saved EXCEPT ![t] = @ + 1]
        /\ UNCHANGED <<status, emitting>>
    BY <1>13 DEF ResultArrives, rowVars
  <2>2. loop'.pc = "finalize"
    BY <1>13, JobParts DEF ResultArrives, Finalize
  <2>3. \A u \in Tasks : Waits(u)' => Waits(u)
    BY <2>1, <2>2, NothingNewWaits
  <2>4. \A u \in Tasks : \/ device'[u] = device[u]
                         \/ u = t /\ device'[u] = "acked"
    BY <1>ty, <2>1 DEF Answered
  <2>5. \A u \in Tasks : u # t => saved'[u] = saved[u]
    BY <1>ty, <2>1
  <2>6. QED
    BY <1>0, <2>1, <2>3, <2>4, <2>5 DEF DeviceInv, Untold, SentOnce, SavedAnswers
<1>14. ASSUME NEW t \in Tasks,
              \/ Progress(t) \/ PollerReads(t) \/ PollerGivesUp(t) \/ CancelRead(t)
              \/ LeaseLapses(t) \/ DeadlinePasses(t)
       PROVE  DeviceInv'
  <2>1. UNCHANGED <<status, loop, device, saved, emitting>>
    BY <1>14 DEF Progress, PollerReads, PollerGivesUp, CancelRead, LeaseLapses, DeadlinePasses,
         rowVars, userVars
  <2>2. QED
    BY <2>1, NothingNewWaits, QuietDevice
<1>15. ASSUME NEW t \in Tasks, CancelCommit(t) PROVE DeviceInv'
  <2>1. /\ status' = [status EXCEPT ![t] = "cancelled"]
        /\ UNCHANGED <<loop, device, saved, emitting>>
    BY <1>15 DEF CancelCommit, userVars
  <2>2. \A u \in Tasks : Waits(u)' => Waits(u)
    BY <1>ty, <2>1 DEF Waits
  <2>3. QED
    BY <2>1, <2>2, QuietDevice
<1>16. ASSUME NEW t \in Tasks, NEW h \in {"dispatch", "resume"}, Sent(t, h) PROVE DeviceInv'
  <2>1. /\ <<t, h>> \in emitting /\ emitting' = emitting \ {<<t, h>>}
        /\ device' = Delivered(t) \/ device' = device
        /\ UNCHANGED <<status, loop, saved>>
    BY <1>16 DEF Sent, rowVars
  <2>2. \A u \in Tasks : Waits(u)' => Waits(u) /\ u # t
    BY <1>0, <2>1 DEF Waits, Untold
  <2>3. \A u \in Tasks : device'[u] = device[u] \/ (u = t /\ device[u] = "none")
    BY <1>ty, <2>1 DEF Delivered
  <2>4. Untold'
    BY <1>0, <2>1, <2>2, <2>3 DEF Untold
  <2>5. SentOnce'
    BY <1>0, <2>1, <2>3 DEF SentOnce
  <2>6. SavedAnswers'
    BY <1>0, <2>1, <2>3 DEF SavedAnswers
  <2>7. QED
    BY <2>4, <2>5, <2>6 DEF DeviceInv
<1>17. ASSUME NEW t \in Tasks, NEW h \in {"dispatch", "resume"}, SendFails(t, h)
       PROVE  DeviceInv'
  <2>1. /\ <<t, h>> \in emitting /\ emitting' = emitting \ {<<t, h>>}
        /\ UNCHANGED <<status, device, saved>>
    BY <1>17 DEF SendFails, rowVars, userVars
  <2>2. \/ loop'.pc \in {"finalize", "idle"}
        \/ h = "resume" /\ loop'.pc = "commit" /\ loop'.task = t
    <3>1. \/ h = "dispatch" /\ loop' = Finalize("sendfail", t, "error")
          \/ h = "resume" /\ loop' = Job("commit", "requeue", t, "pending", "queued")
          \/ loop' = Idle
      BY <1>17 DEF SendFails
    <3>2. QED
      BY <3>1, JobParts, IdleTypes DEF Finalize
  <2>3. \A u \in Tasks : Waits(u)' => Waits(u) \/ (h = "resume" /\ u = t)
    BY <2>1, <2>2 DEF Waits
  <2>4. QED
    BY <1>0, <2>1, <2>3 DEF DeviceInv, Untold, SentOnce, SavedAnswers
<1>18. ASSUME NEW t \in Tasks, NEW kind \in {"expire", "cancel"}, RequestArrives(t, kind)
       PROVE  DeviceInv'
  <2>1. loop'.pc = "finalize" /\ UNCHANGED <<status, device, saved, emitting>>
    BY <1>18, JobParts DEF RequestArrives, Finalize, rowVars, userVars
  <2>2. QED
    BY <2>1, NothingNewWaits, QuietDevice
<1>19. ASSUME NEW h \in Tasks \union {Registered}, ResumeBegins(h) PROVE DeviceInv'
  <2>1. loop'.pc = "resume" /\ UNCHANGED <<status, device, saved, emitting>>
    BY <1>19, IdleTypes DEF ResumeBegins, rowVars, userVars
  <2>2. QED
    BY <2>1, NothingNewWaits, QuietDevice
<1>20. ASSUME ClaimFails \/ \E h \in Tasks \union {Registered} : HandlerFails(h)
       PROVE  DeviceInv'
  <2>1. loop'.pc = "idle" /\ UNCHANGED <<status, device, saved, emitting>>
    BY <1>20, IdleTypes DEF ClaimFails, HandlerFails, rowVars, userVars
  <2>2. QED
    BY <2>1, NothingNewWaits, QuietDevice
<1>21. ASSUME UNCHANGED vars PROVE DeviceInv'
  <2>1. UNCHANGED <<status, loop, device, saved, emitting>>
    BY <1>21 DEF vars, rowVars, userVars
  <2>2. QED
    BY <2>1, NothingNewWaits, QuietDevice
<1>22. QED
  BY <1>1, <1>2, <1>3, <1>4, <1>5, <1>6, <1>7, <1>8, <1>9, <1>10, <1>11, <1>12, <1>13, <1>14,
     <1>15, <1>16, <1>17, <1>18, <1>19, <1>20, <1>21 DEF Next, LoopStep

------------------------------------------------------------------------------
(* Every step keeps the messages recorded *)

\* A restarted connector owns no row until its boot sweep.
LEMMA NextBoots == IInv /\ BootsAnew /\ [Next]_vars => BootsAnew'
<1> SUFFICES ASSUME IInv, BootsAnew, [Next]_vars, loop'.pc = "boot"
             PROVE  \A t \in Tasks : ~mine'[t]
  BY DEF BootsAnew
<1>1. CASE Restart
  BY <1>1 DEF Restart
<1>2. CASE UNCHANGED <<loop, mine>>
  BY <1>2 DEF BootsAnew
<1>3. CASE loop'.pc # "boot"
  BY <1>3
<1>4. ASSUME Insert \/ ClaimCommit \/ ClaimFails \/ ResumeNothing \/ BootSweepsNothing
             \/ SweepCommit \/ SweepRead
      PROVE  loop'.pc # "boot"
  BY <1>4, IdleTypes, JobParts
     DEF Insert, ClaimCommit, ClaimFails, ResumeNothing, BootSweepsNothing, SweepCommit, SweepRead
<1>5. ASSUME FinalizeRead \/ Commit \/ CommitFails
      PROVE  loop'.pc # "boot"
  <2>1. loop.task \in Tasks /\ wake \subseteq Tasks \union {Registered}
    BY <1>5 DEF IInv, JobsSound, TypeOK, FinalizeRead, Commit, CommitFails
  <2>2. \/ loop' = Job("commit", loop.op, loop.task, status[loop.task], loop.write)
        \/ \E done \in BOOLEAN : HandlerGoesOn(loop.op, loop.task, done)
    BY <1>5 DEF FinalizeRead, Commit, CommitFails
  <2>3. ASSUME NEW done \in BOOLEAN, HandlerGoesOn(loop.op, loop.task, done)
        PROVE  loop'.pc # "boot"
    BY <2>1, <2>3, GoesOnTypes
  <2>4. QED
    BY <2>2, <2>3, JobParts
<1>6. ASSUME NEW t \in Tasks,
             \/ ResumeFinds(t) \/ Enqueue(t) \/ ResultArrives(t)
             \/ (\E h \in {"dispatch", "resume"} : SendFails(t, h))
             \/ (\E kind \in {"expire", "cancel"} : RequestArrives(t, kind))
      PROVE  loop'.pc # "boot"
  BY <1>6, IdleTypes, JobParts
     DEF ResumeFinds, Enqueue, ResultArrives, SendFails, RequestArrives, Finalize
<1>7. ASSUME NEW h \in Tasks \union {Registered}, ResumeBegins(h)
      PROVE  loop'.pc # "boot"
  BY <1>7, IdleTypes DEF ResumeBegins
<1>8. ASSUME NEW t \in Tasks,
             \/ DeviceAnswers(t) \/ Progress(t) \/ DuplicateResult(t) \/ PollerReads(t)
             \/ PollerGivesUp(t) \/ CancelRead(t) \/ CancelCommit(t) \/ LeaseLapses(t)
             \/ DeadlinePasses(t) \/ (\E h \in {"dispatch", "resume"} : Sent(t, h))
      PROVE  UNCHANGED <<loop, mine>>
  BY <1>8 DEF DeviceAnswers, Progress, DuplicateResult, PollerReads, PollerGivesUp, CancelRead,
       CancelCommit, LeaseLapses, DeadlinePasses, Sent, rowVars
<1>9. ASSUME \/ Registers \/ Disconnects \/ UNCHANGED vars
             \/ \E h \in Tasks \union {Registered} : HandlerFails(h)
      PROVE  UNCHANGED <<loop, mine>>
  BY <1>9 DEF Registers, Disconnects, HandlerFails, vars, rowVars
<1>10. QED
  BY <1>1, <1>2, <1>3, <1>4, <1>5, <1>6, <1>7, <1>8, <1>9 DEF Next, LoopStep

\* A row that is neither waiting nor ended is with the device.
LEMMA NotWaiting ==
  ASSUME TypeOK, NEW t \in Tasks, ~Waits(t)
  PROVE  status[t] = "pending" \/ Ended(t)
BY DEF TypeOK, Statuses, ActiveStatuses, Waits, Ended

\* A task with a message does not wait.
LEMMA SavedNotWaiting ==
  ASSUME TypeOK, DeviceInv, NEW t \in Tasks, saved[t] > 0
  PROVE  ~Waits(t)
BY DEF DeviceInv, Untold, SavedAnswers

\* The step leaves row t as it is or ends it.
EndsOrKeeps(t) == status'[t] = status[t] \/ status'[t] \in TerminalStatuses

\* A row with a message keeps its status, or ends.
LEMMA SavedRowsEnd ==
  ASSUME IInv, DeviceInv, [Next]_vars, NEW t \in Tasks, saved[t] > 0
  PROVE  EndsOrKeeps(t)
<1>0. /\ TypeOK /\ JobsSound /\ status \in [Tasks -> Statuses]
      /\ {"timeout", "cancelled"} \subseteq TerminalStatuses
  BY DEF IInv, TypeOK, TerminalStatuses
<1>w. ~Waits(t)
  BY <1>0, SavedNotWaiting
<1>1. CASE UNCHANGED status
  BY <1>1 DEF EndsOrKeeps
<1>2. CASE Insert
  <2>1. /\ loop.task \in Tasks /\ status[loop.task] = "absent"
        /\ status' = [status EXCEPT ![loop.task] = loop.write]
    BY <1>0, <1>2 DEF Insert, JobsSound
  <2>2. t # loop.task
    BY <1>w, <2>1 DEF Waits
  <2>3. QED
    BY <1>0, <2>1, <2>2 DEF EndsOrKeeps
<1>3. CASE ClaimCommit
  <2>1. status' = [status EXCEPT ![loop.task] = "pending"] /\ t # loop.task
    BY <1>3, <1>w DEF ClaimCommit, Waits
  <2>2. QED
    BY <1>0, <2>1 DEF EndsOrKeeps
<1>4. CASE Commit
  <2>1. /\ loop.pc = "commit" /\ status' = [status EXCEPT ![loop.task] = loop.write]
        /\ loop.write \in TerminalStatuses \/ loop.op = "requeue"
    BY <1>0, <1>4 DEF Commit, JobsSound
  <2>2. t # loop.task \/ loop.write \in TerminalStatuses
    BY <1>w, <2>1 DEF Waits
  <2>3. QED
    BY <1>0, <2>1, <2>2 DEF EndsOrKeeps
<1>5. CASE SweepCommit
  BY <1>0, <1>5 DEF SweepCommit, EndsOrKeeps
<1>6. ASSUME NEW u \in Tasks, CancelCommit(u)
      PROVE  EndsOrKeeps(t)
  BY <1>0, <1>6 DEF CancelCommit, EndsOrKeeps
<1>7. QED
  BY <1>1, <1>2, <1>3, <1>4, <1>5, <1>6, WritingSteps

\* A failure that was swallowed is remembered.
LEMMA BotchedSticks == [Next]_vars => botched' \in {botched, TRUE}
BY DEF Next, LoopStep, vars, Insert, ResumeNothing, ResumeFinds, ClaimCommit, FinalizeRead,
       Commit, SweepRead, SweepCommit, BootSweepsNothing, Enqueue, DeviceAnswers, Progress,
       DuplicateResult, ResultArrives, PollerReads, PollerGivesUp, CancelRead, CancelCommit,
       LeaseLapses, DeadlinePasses, Sent, SendFails, RequestArrives, ResumeBegins, HandlerFails,
       ClaimFails, CommitFails,
       Registers, Disconnects, Restart

\* Messages are saved where an answer arrives.
LEMMA SavingSteps ==
  ASSUME [Next]_vars
  PROVE  saved' = saved \/ \E t \in Tasks : ResultArrives(t)
BY DEF Next, LoopStep, vars, userVars, Insert, ResumeNothing, ResumeFinds, ClaimCommit,
       FinalizeRead, Commit, SweepRead, SweepCommit, BootSweepsNothing, Enqueue, DeviceAnswers,
       Progress, DuplicateResult, PollerReads, PollerGivesUp, CancelRead, CancelCommit,
       LeaseLapses, DeadlinePasses, Sent, SendFails, RequestArrives, ResumeBegins, HandlerFails,
       ClaimFails, CommitFails,
       Registers, Disconnects, Restart

\* Seven steps move a loop that is ending rows.
LEMMA EndingLoop ==
  ASSUME [Next]_vars, loop.pc \in {"finalize", "commit", "boot", "sweep"}
  PROVE  \/ UNCHANGED <<loop, stale>>
         \/ FinalizeRead \/ Commit \/ CommitFails \/ SweepRead \/ SweepCommit
         \/ BootSweepsNothing \/ Restart
BY IdleTypes
   DEF Next, LoopStep, vars, rowVars, userVars, Insert, ResumeNothing, ResumeFinds, ClaimCommit,
       Enqueue, DeviceAnswers, Progress, DuplicateResult, ResultArrives, PollerReads,
       PollerGivesUp, CancelRead, CancelCommit, LeaseLapses, DeadlinePasses, Sent, SendFails,
       RequestArrives, ResumeBegins, HandlerFails, ClaimFails, Registers, Disconnects

\* A row that waits to be ended goes on to be.
LEMMA EndingGoesOn ==
  ASSUME IInv, DeviceInv, BootsAnew, [Next]_vars, ~botched',
         NEW t \in Tasks, saved[t] > 0, Ending(t)
  PROVE  Ending(t)'
<1>0. /\ TypeOK /\ JobsSound /\ status \in [Tasks -> Statuses]
      /\ status[t] = "pending" \/ Ended(t)
  BY SavedNotWaiting, NotWaiting DEF IInv, TypeOK
<1>1. CASE Ended(t)
  BY <1>1, SavedRowsEnd DEF Ending, Ended, EndsOrKeeps
<1>2. CASE status[t] = "pending" /\ loop.pc \in {"finalize", "commit", "boot", "sweep"}
  <2>1. CASE UNCHANGED <<loop, stale>>
    BY <1>2, <2>1, SavedRowsEnd DEF Ending, Ended, EndsOrKeeps, Swept
  <2>2. CASE Restart
    BY <2>2, JobParts DEF Restart, Ending
  <2>3. CASE FinalizeRead
    <3>1. /\ loop.pc = "finalize" /\ loop.task = t /\ loop.op = "result"
          /\ loop.write \in TerminalStatuses
      BY <1>0, <1>2, <2>3 DEF FinalizeRead, Ending, JobsSound, Ended, TerminalStatuses
    <3>2. Finalizable(t, loop.write)
      BY <1>2, <3>1 DEF Finalizable, CanTransition, ActiveStatuses, LegalTransitions,
         TerminalStatuses
    <3>3. loop' = Job("commit", loop.op, t, status[t], loop.write)
      BY <2>3, <3>1, <3>2 DEF FinalizeRead
    <3>4. QED
      BY <3>1, <3>3, JobParts DEF Ending
  <2>4. CASE Commit
    <3>1. /\ loop.pc = "commit" /\ loop.task = t /\ loop.op = "result"
          /\ loop.write \in TerminalStatuses
      BY <1>0, <1>2, <2>4 DEF Commit, Ending, JobsSound, Ended, TerminalStatuses
    <3>2. status'[t] = loop.write
      BY <1>0, <2>4, <3>1 DEF Commit
    <3>3. QED
      BY <3>1, <3>2 DEF Ending, Ended
  <2>5. CASE CommitFails
    BY <2>5 DEF CommitFails
  <2>6. CASE SweepRead
    <3>1. loop.pc = "boot"
      BY <1>2, <2>6, IdleTypes DEF SweepRead
    <3>2. t \in Orphans
      BY <1>2, <3>1 DEF BootsAnew, Orphans, Active, ActiveStatuses
    <3>3. <<t, "pending">> \in stale' /\ loop'.pc = "sweep"
      BY <1>2, <2>6, <3>2, JobParts DEF SweepRead
    <3>4. QED
      BY <3>3 DEF Ending, Swept, ActiveStatuses
  <2>7. CASE SweepCommit
    <3>1. Swept(t)
      BY <1>2, <2>7 DEF SweepCommit, Ending, Ended, TerminalStatuses
    <3>2. status'[t] = "timeout"
      BY <2>7, <3>1 DEF SweepCommit
    <3>3. QED
      BY <3>2 DEF Ending, Ended, TerminalStatuses
  <2>8. CASE BootSweepsNothing
    <3>1. loop.pc = "boot" /\ Orphans = {}
      BY <2>8 DEF BootSweepsNothing
    <3>2. t \in Orphans
      BY <1>2, <3>1 DEF BootsAnew, Orphans, Active, ActiveStatuses
    <3>3. QED
      BY <3>1, <3>2
  <2>9. QED
    BY <1>2, <2>1, <2>2, <2>3, <2>4, <2>5, <2>6, <2>7, <2>8, EndingLoop
<1>3. QED
  BY <1>0, <1>1, <1>2 DEF Ending

LEMMA NextAnswers == IInv /\ AnswerInv /\ [Next]_vars => AnswerInv'
<1> SUFFICES ASSUME IInv, AnswerInv, [Next]_vars, ~botched'
             PROVE  Recorded'
  BY NextDevice, NextBoots DEF AnswerInv
<1>0. /\ DeviceInv /\ BootsAnew /\ saved \in [Tasks -> 0..2]
      /\ \A t \in Tasks : saved[t] > 0 => saved[t] = 1 /\ Ending(t)
  BY BotchedSticks DEF IInv, TypeOK, AnswerInv, Recorded
<1>1. \A t \in Tasks : saved[t] > 0 => Ending(t)'
  BY <1>0, EndingGoesOn
<1>2. CASE saved' = saved
  BY <1>0, <1>1, <1>2 DEF Recorded
<1>3. ASSUME NEW u \in Tasks, ResultArrives(u)
      PROVE  Recorded'
  <2>1. /\ loop = Idle /\ ~Ended(u) /\ saved' = [saved EXCEPT ![u] = @ + 1]
        /\ \E write \in {"completed", "error"} : loop' = Finalize("result", u, write)
    BY <1>3 DEF ResultArrives, RecordedOutcome
  <2>2. ~Ending(u)
    BY <2>1, IdleTypes DEF Ending
  <2>3. saved[u] = 0
    BY <1>0, <2>2
  <2>4. Ending(u)'
    BY <2>1, JobParts DEF Ending, Finalize
  <2>5. saved'[u] = 1 /\ \A t \in Tasks : t # u => saved'[t] = saved[t]
    BY <1>0, <2>1, <2>3
  <2>6. QED
    BY <1>0, <1>1, <2>4, <2>5 DEF Recorded
<1>4. QED
  BY <1>2, <1>3, SavingSteps

LEMMA InitAnswers == Init => AnswerInv
BY IdleTypes DEF Init, AnswerInv, DeviceInv, Untold, SentOnce, SavedAnswers, BootsAnew, Recorded

\* An answer that the device repeats adds no second message to the chat, unless
\* the row could not be written: what dispatch_has_recorded_outcome looks at is
\* true from the first answer on, through lost acknowledgements, cancellations
\* and restarts.
THEOREM AnswerSavedOnce == Spec => []OneMessagePerTask
<1>1. AnswerInv /\ TypeOK => OneMessagePerTask
  BY DEF AnswerInv, Recorded, OneMessagePerTask, TypeOK
<1>2. Spec => []AnswerInv
  BY InitAnswers, NextAnswers, Sound, PTL DEF Spec
<1>3. QED
  BY <1>1, <1>2, TypeCorrect, PTL
==============================================================================
