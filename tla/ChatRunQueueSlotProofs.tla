------------------------ MODULE ChatRunQueueSlotProofs ------------------------
(***************************************************************************)
(* The run slots of a process: the semaphore _run_slots never leaks a slot *)
(* and never hands out one too many, for every number of slots, dispatcher *)
(* threads, processes and rows.                                            *)
(***************************************************************************)
EXTENDS ChatRunQueueProofs

\* Claims number the threads of a row upwards, so a claim never reuses the
\* index of a thread that still runs.
AttemptsFresh ==
  /\ \A r \in Runs : row[r].status = "absent" => row[r].attempt = 0
  /\ \A e \in Execs : Live(e) => e[2] <= row[RunOf(e)].attempt

ThreadsFinite == \A w \in Workers : IsFiniteSet(Threads(w))

------------------------------------------------------------------------------
(* Counting *)

\* A process has finitely many dispatcher threads, so finitely many hold a slot.
LEMMA HoldersFinite == \A w \in Workers : IsFiniteSet(SlotHolders(w))
BY BoundsAssumption, FS_Subset DEF SlotHolders

\* A set that changes by one element.
LEMMA PlusOne ==
  ASSUME NEW S, IsFiniteSet(S), NEW x, x \notin S
  PROVE  /\ IsFiniteSet(S \union {x})
         /\ Cardinality(S \union {x}) = Cardinality(S) + 1
         /\ Cardinality(S) \in Nat
BY FS_AddElement, FS_CardinalityType

\* A set that loses one element.
LEMMA MinusOne ==
  ASSUME NEW S, IsFiniteSet(S), NEW x \in S
  PROVE  /\ IsFiniteSet(S \ {x})
         /\ Cardinality(S \ {x}) = Cardinality(S) - 1
         /\ Cardinality(S) \in Nat
BY FS_RemoveElement, FS_CardinalityType

\* The sets a step leaves alone.
LEMMA SameCount ==
  ASSUME NEW w \in Workers, ThreadsFinite, SlotsConserved,
         free'[w] = free[w], SlotHolders(w)' = SlotHolders(w), Threads(w)' = Threads(w)
  PROVE  /\ IsFiniteSet(Threads(w))'
         /\ (free[w] + Cardinality(SlotHolders(w)) + Cardinality(Threads(w)) = MaxConcurrent)'
BY DEF ThreadsFinite, SlotsConserved

\* A process that is gone holds no slot.
LEMMA EmptyCount ==
  ASSUME NEW w \in Workers,
         free'[w] = MaxConcurrent, SlotHolders(w)' = {}, Threads(w)' = {}
  PROVE  /\ IsFiniteSet(Threads(w))'
         /\ (free[w] + Cardinality(SlotHolders(w)) + Cardinality(Threads(w)) = MaxConcurrent)'
BY FS_EmptySet, BoundsAssumption

\* A dispatcher that takes a slot moves it from the free ones to the held ones.
LEMMA AcquireCount ==
  ASSUME TypeOK, ThreadsFinite, SlotsConserved,
         NEW w \in Workers, NEW d \in Dispatchers, disp[w][d] # "slot",
         free'[w] = free[w] - 1, SlotHolders(w)' = SlotHolders(w) \union {d},
         Threads(w)' = Threads(w)
  PROVE  /\ IsFiniteSet(Threads(w))'
         /\ (free[w] + Cardinality(SlotHolders(w)) + Cardinality(Threads(w)) = MaxConcurrent)'
<1>1. d \notin SlotHolders(w)
  BY DEF SlotHolders
<1>2. /\ Cardinality(SlotHolders(w) \union {d}) = Cardinality(SlotHolders(w)) + 1
      /\ Cardinality(SlotHolders(w)) \in Nat
  BY <1>1, HoldersFinite, PlusOne
<1>3. IsFiniteSet(Threads(w)) /\ Cardinality(Threads(w)) \in Nat /\ free[w] \in Nat
  BY FS_CardinalityType DEF ThreadsFinite, TypeOK
<1>4. free[w] + Cardinality(SlotHolders(w)) + Cardinality(Threads(w)) = MaxConcurrent
  BY DEF SlotsConserved
<1>5. QED
  BY <1>2, <1>3, <1>4

\* A dispatcher that found nothing to claim gives its slot back.
LEMMA GiveBackCount ==
  ASSUME TypeOK, ThreadsFinite, SlotsConserved,
         NEW w \in Workers, NEW d \in Dispatchers, disp[w][d] = "slot",
         free'[w] = free[w] + 1, SlotHolders(w)' = SlotHolders(w) \ {d},
         Threads(w)' = Threads(w)
  PROVE  /\ IsFiniteSet(Threads(w))'
         /\ (free[w] + Cardinality(SlotHolders(w)) + Cardinality(Threads(w)) = MaxConcurrent)'
<1>1. d \in SlotHolders(w)
  BY DEF SlotHolders
<1>2. /\ Cardinality(SlotHolders(w) \ {d}) = Cardinality(SlotHolders(w)) - 1
      /\ Cardinality(SlotHolders(w)) \in Nat
  BY <1>1, HoldersFinite, MinusOne
<1>3. IsFiniteSet(Threads(w)) /\ Cardinality(Threads(w)) \in Nat /\ free[w] \in Nat
  BY FS_CardinalityType DEF ThreadsFinite, TypeOK
<1>4. free[w] + Cardinality(SlotHolders(w)) + Cardinality(Threads(w)) = MaxConcurrent
  BY DEF SlotsConserved
<1>5. QED
  BY <1>2, <1>3, <1>4

\* A claim hands the slot of the dispatcher to the thread it starts.
LEMMA ClaimCount ==
  ASSUME TypeOK, ThreadsFinite, SlotsConserved,
         NEW w \in Workers, NEW d \in Dispatchers, disp[w][d] = "slot",
         NEW e, e \notin Threads(w),
         free'[w] = free[w], SlotHolders(w)' = SlotHolders(w) \ {d},
         Threads(w)' = Threads(w) \union {e}
  PROVE  /\ IsFiniteSet(Threads(w))'
         /\ (free[w] + Cardinality(SlotHolders(w)) + Cardinality(Threads(w)) = MaxConcurrent)'
<1>1. d \in SlotHolders(w)
  BY DEF SlotHolders
<1>2. /\ Cardinality(SlotHolders(w) \ {d}) = Cardinality(SlotHolders(w)) - 1
      /\ Cardinality(SlotHolders(w)) \in Nat
  BY <1>1, HoldersFinite, MinusOne
<1>3. /\ IsFiniteSet(Threads(w) \union {e})
      /\ Cardinality(Threads(w) \union {e}) = Cardinality(Threads(w)) + 1
      /\ Cardinality(Threads(w)) \in Nat
  BY PlusOne DEF ThreadsFinite
<1>4. free[w] + Cardinality(SlotHolders(w)) + Cardinality(Threads(w)) = MaxConcurrent
  BY DEF SlotsConserved
<1>5. free[w] \in Nat
  BY DEF TypeOK
<1>6. QED
  BY <1>2, <1>3, <1>4, <1>5

\* A thread that ends gives its slot back.
LEMMA ReleaseCount ==
  ASSUME TypeOK, ThreadsFinite, SlotsConserved,
         NEW w \in Workers, NEW e \in Threads(w),
         free'[w] = free[w] + 1, SlotHolders(w)' = SlotHolders(w),
         Threads(w)' = Threads(w) \ {e}
  PROVE  /\ IsFiniteSet(Threads(w))'
         /\ (free[w] + Cardinality(SlotHolders(w)) + Cardinality(Threads(w)) = MaxConcurrent)'
<1>1. Cardinality(SlotHolders(w)) \in Nat
  BY HoldersFinite, FS_CardinalityType
<1>2. /\ IsFiniteSet(Threads(w) \ {e})
      /\ Cardinality(Threads(w) \ {e}) = Cardinality(Threads(w)) - 1
      /\ Cardinality(Threads(w)) \in Nat
  BY MinusOne DEF ThreadsFinite
<1>3. free[w] + Cardinality(SlotHolders(w)) + Cardinality(Threads(w)) = MaxConcurrent
  BY DEF SlotsConserved
<1>4. free[w] \in Nat
  BY DEF TypeOK
<1>5. QED
  BY <1>1, <1>2, <1>3, <1>4

------------------------------------------------------------------------------
(* What a step does to the threads of a process *)

\* The steps of a thread, but for the last one, neither end nor move a thread.
LEMMA ThreadGoesOn ==
  ASSUME TypeOK, NEW e \in Execs, ExecStep(e) \/ WriteFails(e), ~Release(e)
  PROVE  /\ \A f \in Execs :
           exec'[f].worker = exec[f].worker /\ (exec'[f].pc = "none" <=> exec[f].pc = "none")
         /\ UNCHANGED <<disp, free>>
         /\ row' = row \/ WriteCommit(e)
<1>rx. exec \in [Execs -> Exec]
  BY DEF TypeOK
<1> DEFINE Same == \A f \in Execs :
           exec'[f].worker = exec[f].worker /\ (exec'[f].pc = "none" <=> exec[f].pc = "none")
<1>0. AfterWrite(e) \in {"check", "closing"}
  BY DEF AfterWrite
<1>1. CASE WriteRead(e)
  <2> DEFINE s == row[RunOf(e)].status
             t == Target(RunOf(e), exec[e].goal)
  <2>1. exec[e].pc = "setting"
    BY <1>1 DEF WriteRead
  <2>2. \/ exec' = [exec EXCEPT ![e].pc = "commit", ![e].seen = s, ![e].write = t]
        \/ exec' = [exec EXCEPT ![e].pc = AfterWrite(e)]
    BY <1>1 DEF WriteRead
  <2> HIDE DEF s, t
  <2>3. Same
    BY <1>rx, <1>0, <2>1, <2>2 DEF Exec
  <2>4. QED
    BY <1>1, <2>3 DEF WriteRead
<1>2. CASE WriteCommit(e)
  <2>1. exec[e].pc = "commit"
    BY <1>2 DEF WriteCommit
  <2>2. exec' = [exec EXCEPT ![e].pc = AfterWrite(e), ![e].write = "none", ![e].seen = "none"]
    BY <1>2 DEF WriteCommit
  <2>3. Same
    BY <1>rx, <1>0, <2>1, <2>2 DEF Exec
  <2>4. QED
    BY <1>2, <2>3 DEF WriteCommit
<1>3. CASE Register(e) \/ TurnContinues(e)
  <2>1. Same
    BY <1>rx, <1>3 DEF Register, TurnContinues, SetPc, Exec
  <2>2. QED
    BY <1>3, <2>1 DEF Register, TurnContinues
<1>4. CASE \/ LoadFails(e) \/ StartWorker(e) \/ StepLimit(e)
           \/ TurnStops(e) \/ TurnCompletes(e) \/ TurnFails(e)
  <2>1. PICK g \in Goals : exec' = [exec EXCEPT ![e].pc = "setting", ![e].goal = g]
    BY <1>4 DEF LoadFails, StartWorker, StepLimit, TurnStops, TurnCompletes, TurnFails,
                SetGoal, StartGoal, Goals
  <2>2. exec[e].pc # "none"
    BY <1>4 DEF LoadFails, StartWorker, StepLimit, TurnStops, TurnCompletes, TurnFails
  <2>3. Same
    BY <1>rx, <2>1, <2>2 DEF Exec
  <2>4. QED
    BY <1>4, <2>3 DEF LoadFails, StartWorker, StepLimit, TurnStops, TurnCompletes, TurnFails
<1>5. CASE WriteFails(e)
  <2>1. Same
    BY <1>rx, <1>5 DEF WriteFails, Exec
  <2>2. QED
    BY <1>5, <2>1 DEF WriteFails
<1>6. CASE StepBegins(e)
  <2>1. /\ exec[e].pc = "check"
        /\ \/ exec' = [exec EXCEPT ![e].step = @ + 1, ![e].pc = "setting", ![e].goal = "stopped"]
           \/ exec' = [exec EXCEPT ![e].step = @ + 1, ![e].pc = "turn"]
    BY <1>6 DEF StepBegins
  <2>2. Same
    BY <1>rx, <2>1 DEF Exec
  <2>3. QED
    BY <1>6, <2>2 DEF StepBegins
<1>7. QED
  BY <1>1, <1>2, <1>3, <1>4, <1>5, <1>6 DEF ExecStep

\* Steps outside the threads.
LEMMA OtherSteps ==
  ASSUME [Next]_vars,
         ~ \E w \in Workers, d \in Dispatchers : DispatchStep(w, d) \/ ClaimFails(w, d),
         ~ \E e \in Execs : ExecStep(e) \/ WriteFails(e),
         ~ \E w \in Workers : Crash(w) \/ Drained(w) \/ Exit(w)
  PROVE  UNCHANGED <<exec, disp, free>>
<1>1. ASSUME NEW r \in Runs,
             Create(r) \/ StopRead(r) \/ StopCommit(r) \/ FlagStop(r) \/ LeaseLapses(r)
      PROVE  UNCHANGED <<exec, disp, free>>
  BY <1>1 DEF Create, StopRead, StopCommit, FlagStop, LeaseLapses
<1>2. ReapRead => UNCHANGED <<exec, disp, free>>
  BY DEF ReapRead
<1>3. ASSUME NEW p \in Reapers, RequeueCommit(p)
      PROVE  UNCHANGED <<exec, disp, free>>
  BY <1>3 DEF RequeueCommit
<1>4. ASSUME NEW e \in Execs, Tick(e)
      PROVE  UNCHANGED <<exec, disp, free>>
  BY <1>4 DEF Tick
<1>5. ASSUME NEW w \in Workers, Boot(w) \/ BootDone(w) \/ DrainDeadline(w) \/ Sigterm(w)
      PROVE  UNCHANGED <<exec, disp, free>>
  BY <1>5 DEF Boot, BootDone, DrainDeadline, Sigterm
<1>6. UNCHANGED vars => UNCHANGED <<exec, disp, free>>
  BY DEF vars
<1>7. QED
  BY <1>1, <1>2, <1>3, <1>4, <1>5, <1>6 DEF Next, ProcessStep

\* Threads that keep their worker and go on are the same set.
LEMMA SameThreads ==
  ASSUME NEW w,
         \A f \in Execs :
           exec'[f].worker = exec[f].worker /\ (exec'[f].pc = "none" <=> exec[f].pc = "none")
  PROVE  Threads(w)' = Threads(w)
<1>1. Threads(w) = {f \in Execs : exec[f].pc # "none" /\ exec[f].worker = w}
  BY DEF Threads, Live
<1>2. Threads(w)' = {f \in Execs : exec'[f].pc # "none" /\ exec'[f].worker = w}
  BY DEF Threads, Live
<1>3. QED
  BY <1>1, <1>2

\* Every step of a process conserves its slots.
LEMMA NextSlots ==
  ASSUME TypeOK, AttemptsFresh, ThreadsFinite, SlotsConserved, [Next]_vars
  PROVE  ThreadsFinite' /\ SlotsConserved'
<1> SUFFICES ASSUME NEW v \in Workers
             PROVE  /\ IsFiniteSet(Threads(v))'
                    /\ (free[v] + Cardinality(SlotHolders(v)) + Cardinality(Threads(v)) = MaxConcurrent)'
  BY DEF ThreadsFinite, SlotsConserved
<1>t. /\ exec \in [Execs -> Exec]
      /\ free \in [Workers -> Nat]
      /\ disp \in [Workers -> [Dispatchers -> {"idle", "sweep", "slot"}]]
      /\ row \in [Runs -> Row]
  BY DEF TypeOK
<1>0. CASE UNCHANGED <<exec, disp, free>>
  <2>1. SlotHolders(v)' = SlotHolders(v) /\ Threads(v)' = Threads(v) /\ free'[v] = free[v]
    BY <1>0 DEF SlotHolders, Threads, Live
  <2>2. QED
    BY <2>1, SameCount
<1>h. ASSUME NEW w \in Workers, NEW d \in Dispatchers, NEW s, disp' = [disp EXCEPT ![w][d] = s]
      PROVE  /\ w # v => SlotHolders(v)' = SlotHolders(v)
             /\ s # "slot" => SlotHolders(w)' = SlotHolders(w) \ {d}
             /\ s = "slot" => SlotHolders(w)' = SlotHolders(w) \union {d}
  BY <1>t, <1>h DEF SlotHolders
<1>1. ASSUME NEW w \in Workers, NEW d \in Dispatchers, SweepBegins(w, d) \/ NoFreeSlot(w, d)
      PROVE  /\ IsFiniteSet(Threads(v))'
             /\ (free[v] + Cardinality(SlotHolders(v)) + Cardinality(Threads(v)) = MaxConcurrent)'
  <2>1. /\ disp[w][d] # "slot"
        /\ \E s : s # "slot" /\ disp' = [disp EXCEPT ![w][d] = s]
        /\ UNCHANGED <<exec, free>>
    BY <1>1 DEF SweepBegins, NoFreeSlot
  <2>2. d \notin SlotHolders(w)
    BY <2>1 DEF SlotHolders
  <2>3. SlotHolders(v)' = SlotHolders(v)
    <3>1. PICK s : s # "slot" /\ disp' = [disp EXCEPT ![w][d] = s]
      BY <2>1
    <3>2. /\ w # v => SlotHolders(v)' = SlotHolders(v)
          /\ SlotHolders(w)' = SlotHolders(w) \ {d}
      BY <1>h, <3>1
    <3>3. SlotHolders(w) \ {d} = SlotHolders(w)
      BY <2>2
    <3>4. QED
      BY <3>2, <3>3
  <2>4. Threads(v)' = Threads(v) /\ free'[v] = free[v]
    BY <2>1 DEF Threads, Live
  <2>5. QED
    BY <2>3, <2>4, SameCount
<1>2. ASSUME NEW w \in Workers, NEW d \in Dispatchers, AcquireSlot(w, d)
      PROVE  /\ IsFiniteSet(Threads(v))'
             /\ (free[v] + Cardinality(SlotHolders(v)) + Cardinality(Threads(v)) = MaxConcurrent)'
  <2>1. /\ disp[w][d] # "slot"
        /\ disp' = [disp EXCEPT ![w][d] = "slot"]
        /\ free' = [free EXCEPT ![w] = @ - 1]
        /\ UNCHANGED exec
    BY <1>2 DEF AcquireSlot
  <2>2. Threads(v)' = Threads(v)
    BY <2>1 DEF Threads, Live
  <2>3. CASE v = w
    BY <1>t, <1>h, <2>1, <2>2, <2>3, AcquireCount
  <2>4. CASE v # w
    BY <1>t, <1>h, <2>1, <2>2, <2>4, SameCount
  <2>5. QED
    BY <2>3, <2>4
<1>3. ASSUME NEW w \in Workers, NEW d \in Dispatchers, ClaimNothing(w, d) \/ ClaimFails(w, d)
      PROVE  /\ IsFiniteSet(Threads(v))'
             /\ (free[v] + Cardinality(SlotHolders(v)) + Cardinality(Threads(v)) = MaxConcurrent)'
  <2>1. /\ disp[w][d] = "slot"
        /\ disp' = [disp EXCEPT ![w][d] = "idle"]
        /\ free' = [free EXCEPT ![w] = @ + 1]
        /\ UNCHANGED exec
    BY <1>3 DEF ClaimNothing, ClaimFails, ReleasedSlot
  <2>2. Threads(v)' = Threads(v)
    BY <2>1 DEF Threads, Live
  <2>3. CASE v = w
    <3>1. SlotHolders(w)' = SlotHolders(w) \ {d}
      <4>1. PICK s : s # "slot" /\ disp' = [disp EXCEPT ![w][d] = s]
        BY <2>1
      <4>2. QED
        BY <1>h, <4>1
    <3>2. free'[v] = free[v] + 1
      BY <1>t, <2>1, <2>3
    <3>3. QED
      BY <2>1, <2>2, <2>3, <3>1, <3>2, GiveBackCount
  <2>4. CASE v # w
    BY <1>t, <1>h, <2>1, <2>2, <2>4, SameCount
  <2>5. QED
    BY <2>3, <2>4
<1>4. ASSUME NEW w \in Workers, NEW d \in Dispatchers, NEW r \in Runs, Claim(w, d, r)
      PROVE  /\ IsFiniteSet(Threads(v))'
             /\ (free[v] + Cardinality(SlotHolders(v)) + Cardinality(Threads(v)) = MaxConcurrent)'
  <2> DEFINE e == <<r, row[r].attempt + 1>>
             x == [NoExec EXCEPT !.pc = "claimed", !.worker = w, !.late = row[r].stop]
  <2>1. /\ disp[w][d] = "slot"
        /\ disp' = [disp EXCEPT ![w][d] = "sweep"]
        /\ exec' = [exec EXCEPT ![e] = x]
        /\ UNCHANGED free
        /\ row[r].attempt < MaxAttempts
    BY <1>4 DEF Claim
  <2>2. e \in Execs
    BY <1>t, <2>1, ClaimTypes
  <2>3. \A y \in Exec :
          LET z == [y EXCEPT !.pc = "claimed", !.worker = w, !.late = row[r].stop]
          IN  z.pc = "claimed" /\ z.worker = w
    BY DEF Exec
  <2>4. x.pc = "claimed" /\ x.worker = w
    BY <2>3, NoExecTypes
  <2>5. ~Live(e)
    <3>1. row[r].attempt \in Nat
      BY <1>t, BoundsAssumption DEF Row
    <3>2. Live(e) => row[r].attempt + 1 <= row[r].attempt
      BY <2>2 DEF AttemptsFresh, RunOf
    <3>3. QED
      BY <3>1, <3>2
  <2> HIDE DEF x, e
  <2>6. Threads(w)' = Threads(w) \union {e} /\ (v # w => Threads(v)' = Threads(v))
    BY <1>t, <2>1, <2>2, <2>4, <2>5 DEF Threads, Live
  <2>7. e \notin Threads(w)
    BY <2>5 DEF Threads
  <2>8. CASE v = w
    <3>1. SlotHolders(w)' = SlotHolders(w) \ {d}
      <4>1. PICK s : s # "slot" /\ disp' = [disp EXCEPT ![w][d] = s]
        BY <2>1
      <4>2. QED
        BY <1>h, <4>1
    <3>2. QED
      BY <2>1, <2>6, <2>7, <2>8, <3>1, ClaimCount
  <2>9. CASE v # w
    BY <1>t, <1>h, <2>1, <2>6, <2>9, SameCount
  <2>10. QED
    BY <2>8, <2>9
<1>5. ASSUME NEW e \in Execs, ExecStep(e) \/ WriteFails(e), ~Release(e)
      PROVE  /\ IsFiniteSet(Threads(v))'
             /\ (free[v] + Cardinality(SlotHolders(v)) + Cardinality(Threads(v)) = MaxConcurrent)'
  <2>1. Threads(v)' = Threads(v) /\ UNCHANGED <<disp, free>>
    BY <1>5, ThreadGoesOn, SameThreads
  <2>2. SlotHolders(v)' = SlotHolders(v)
    BY <2>1 DEF SlotHolders
  <2>3. QED
    BY <2>1, <2>2, SameCount
<1>6. ASSUME NEW e \in Execs, Release(e)
      PROVE  /\ IsFiniteSet(Threads(v))'
             /\ (free[v] + Cardinality(SlotHolders(v)) + Cardinality(Threads(v)) = MaxConcurrent)'
  <2>1. /\ exec[e].pc = "closing"
        /\ exec' = [exec EXCEPT ![e] = NoExec]
        /\ free' = [free EXCEPT ![exec[e].worker] = @ + 1]
        /\ UNCHANGED disp
    BY <1>6 DEF Release, ReleasedSlot
  <2>2. NoExec.pc = "none"
    BY DEF NoExec
  <2>3. SlotHolders(v)' = SlotHolders(v)
    BY <2>1 DEF SlotHolders
  <2>4. CASE exec[e].worker = v
    <3>1. e \in Threads(v) /\ Threads(v)' = Threads(v) \ {e}
      BY <1>t, <2>1, <2>2, <2>4 DEF Threads, Live
    <3>2. free'[v] = free[v] + 1
      BY <1>t, <2>1, <2>4
    <3>3. QED
      BY <2>3, <3>1, <3>2, ReleaseCount
  <2>5. CASE exec[e].worker # v
    <3>1. Threads(v)' = Threads(v)
      BY <1>t, <2>1, <2>2, <2>5 DEF Threads, Live
    <3>2. free'[v] = free[v]
      BY <1>t, <2>1, <2>5
    <3>3. QED
      BY <2>3, <3>1, <3>2, SameCount
  <2>6. QED
    BY <2>4, <2>5
<1>7. ASSUME NEW w \in Workers, Crash(w) \/ Drained(w) \/ Exit(w)
      PROVE  /\ IsFiniteSet(Threads(v))'
             /\ (free[v] + Cardinality(SlotHolders(v)) + Cardinality(Threads(v)) = MaxConcurrent)'
  <2>1. ProcessGone(w)
    BY <1>7 DEF Crash, Drained, Exit
  <2>2. NoExec.pc = "none" /\ NoExec.worker = NoWorker
    BY DEF NoExec
  <2>3. CASE v = w
    <3>1. Threads(v)' = {}
      BY <2>1, <2>2, <2>3, WorkersAssumption DEF ProcessGone, Threads, Live
    <3>2. SlotHolders(v)' = {} /\ free'[v] = MaxConcurrent
      BY <1>t, <2>1, <2>3 DEF ProcessGone, SlotHolders
    <3>3. QED
      BY <3>1, <3>2, EmptyCount
  <2>4. CASE v # w
    <3>1. Threads(v)' = Threads(v)
      BY <2>1, <2>2, <2>4, WorkersAssumption DEF ProcessGone, Threads, Live
    <3>2. SlotHolders(v)' = SlotHolders(v) /\ free'[v] = free[v]
      BY <1>t, <2>1, <2>4 DEF ProcessGone, SlotHolders
    <3>3. QED
      BY <3>1, <3>2, SameCount
  <2>5. QED
    BY <2>3, <2>4
<1>8. QED
  BY <1>0, <1>1, <1>2, <1>3, <1>4, <1>5, <1>6, <1>7, OtherSteps DEF DispatchStep

------------------------------------------------------------------------------
(* Freshness of the claims *)

\* Only a claim counts the attempts of a row up, and nothing counts them down.
LEMMA NextAttempts ==
  ASSUME TypeOK, WritesChecked, AttemptsFresh, [Next]_vars, NEW r \in Runs
  PROVE  /\ row'[r].status = "absent" => row[r].status = "absent"
         /\ \/ row'[r].attempt = row[r].attempt
            \/ row'[r].attempt = row[r].attempt + 1 /\ row'[r].status = "running"
<1> DEFINE Kept == /\ row'[r].status = "absent" => row[r].status = "absent"
                   /\ row'[r].attempt = row[r].attempt
<1>rx. row \in [Runs -> Row] /\ exec \in [Execs -> Exec]
  BY DEF TypeOK
<1>run. \A e \in Execs : RunOf(e) \in Runs
  BY DEF Execs, RunOf
<1>1. ASSUME NEW q \in Runs, Create(q)
      PROVE  Kept
  <2>1. \A x \in Row : LET y == [x EXCEPT !.status = "queued"]
                      IN  y.status = "queued" /\ y.attempt = x.attempt
    BY DEF Row
  <2>2. /\ row' = [row EXCEPT ![q] = [NoRow EXCEPT !.status = "queued"]]
        /\ row[q].attempt = 0
    BY <1>1 DEF Create, AttemptsFresh
  <2>3. NoRow.attempt = 0
    BY DEF NoRow
  <2>4. row'[q].attempt = 0 /\ row'[q].status = "queued"
    BY <1>rx, <2>1, <2>2, <2>3, NoRowTypes
  <2>5. r # q => row'[r] = row[r]
    BY <2>2
  <2>6. QED
    BY <2>2, <2>4, <2>5
<1>2. ASSUME NEW q \in Runs, StopCommit(q) \/ FlagStop(q) \/ LeaseLapses(q)
      PROVE  Kept
  BY <1>2, <1>rx DEF StopCommit, FlagStop, LeaseLapses, Row
<1>3. ASSUME NEW p \in Reapers, RequeueCommit(p)
      PROVE  Kept
  <2>1. ASSUME NEW x \in Row
        PROVE  LET y == [x EXCEPT !.status = "queued", !.owner = NoWorker, !.lease = "none"]
               IN  y.attempt = x.attempt /\ y.status = "queued"
    BY <2>1 DEF Row
  <2> DEFINE y == [row[r] EXCEPT !.status = "queued", !.owner = NoWorker, !.lease = "none"]
  <2>2. row'[r] = row[r] \/ row'[r] = y
    BY <1>3 DEF RequeueCommit, BackToQueue
  <2>3. y.attempt = row[r].attempt /\ y.status = "queued"
    BY <1>rx, <2>1
  <2>4. QED
    BY <2>2, <2>3
<1>4. ASSUME NEW w \in Workers, NEW d \in Dispatchers, NEW q \in Runs, Claim(w, d, q)
      PROVE  Kept \/ (row'[r].attempt = row[r].attempt + 1 /\ row'[r].status = "running")
  <2>1. /\ ClaimedRow(w, q).status = "running"
        /\ ClaimedRow(w, q).attempt = row[q].attempt + 1
    BY <1>rx DEF ClaimedRow, Row
  <2>2. row' = [row EXCEPT ![q] = ClaimedRow(w, q)]
    BY <1>4 DEF Claim
  <2>3. QED
    BY <1>rx, <2>1, <2>2
<1>5. ASSUME NEW e \in Execs, WriteCommit(e)
      PROVE  Kept
  <2>1. exec[e].write \in KnownStatuses
    BY <1>5, TransitionTypes DEF WriteCommit, WritesChecked
  <2>2. exec[e].write # "absent"
    BY <2>1 DEF KnownStatuses, ActiveStatuses, TerminalStatuses
  <2>3. row' = row \/ row' = [row EXCEPT ![RunOf(e)].status = exec[e].write]
    BY <1>5 DEF WriteCommit
  <2>4. row'[r].attempt = row[r].attempt /\ row'[r].status \in {row[r].status, exec[e].write}
    BY <1>rx, <1>run, <2>3 DEF Row
  <2>5. QED
    BY <2>2, <2>4
<1>6. ASSUME NEW e \in Execs, Tick(e)
      PROVE  Kept
  BY <1>6, <1>rx, <1>run DEF Tick, Row
<1>7. ASSUME UNCHANGED row
      PROVE  Kept
  BY <1>7
<1>8. QED
  <2>1. ASSUME NEW q \in Runs, StopRead(q)
        PROVE  UNCHANGED row
    BY <2>1 DEF StopRead
  <2>2. ReapRead => UNCHANGED row
    BY DEF ReapRead
  <2>3. ASSUME NEW w \in Workers, NEW d \in Dispatchers,
               \/ SweepBegins(w, d) \/ NoFreeSlot(w, d) \/ AcquireSlot(w, d)
               \/ ClaimNothing(w, d) \/ ClaimFails(w, d)
        PROVE  UNCHANGED row
    BY <2>3 DEF SweepBegins, NoFreeSlot, AcquireSlot, ClaimNothing, ClaimFails
  <2>4. ASSUME NEW e \in Execs, ExecStep(e) \/ WriteFails(e)
        PROVE  UNCHANGED row \/ WriteCommit(e)
    BY <2>4 DEF ExecStep, Register, LoadFails, StartWorker, WriteRead, StepBegins, StepLimit,
                TurnStops, TurnCompletes, TurnContinues, TurnFails, Release, WriteFails
  <2>5. ASSUME NEW w \in Workers, ProcessStep(w) \/ Crash(w) \/ Sigterm(w)
        PROVE  UNCHANGED row
    BY <2>5 DEF ProcessStep, Boot, BootDone, Drained, DrainDeadline, Exit, Crash, Sigterm
  <2>6. UNCHANGED vars => UNCHANGED row
    BY DEF vars
  <2> HIDE DEF Kept
  <2>7. Kept \/ (row'[r].attempt = row[r].attempt + 1 /\ row'[r].status = "running")
    BY <1>1, <1>2, <1>3, <1>4, <1>5, <1>6, <1>7, <2>1, <2>2, <2>3, <2>4, <2>5, <2>6
       DEF Next, DispatchStep
  <2>8. QED
    BY <2>7 DEF Kept

\* A thread that lives after a step lived before it or was claimed by it.
LEMMA NextLive ==
  ASSUME TypeOK, [Next]_vars, NEW e \in Execs, Live(e)'
  PROVE  \/ Live(e)
         \/ /\ e[2] = row[RunOf(e)].attempt + 1
            /\ row'[RunOf(e)].attempt = e[2]
<1>t. exec \in [Execs -> Exec] /\ row \in [Runs -> Row]
  BY DEF TypeOK
<1>0. NoExec.pc = "none"
  BY DEF NoExec
<1>1. CASE UNCHANGED <<exec, disp, free>>
  BY <1>1 DEF Live
<1>2. ASSUME NEW w \in Workers, NEW d \in Dispatchers,
             DispatchStep(w, d) \/ ClaimFails(w, d)
      PROVE  \/ Live(e)
             \/ /\ e[2] = row[RunOf(e)].attempt + 1
                /\ row'[RunOf(e)].attempt = e[2]
  <2>1. CASE \E r \in Runs : Claim(w, d, r)
    <3>1. PICK r \in Runs : Claim(w, d, r)
      BY <2>1
    <3>2. /\ row' = [row EXCEPT ![r] = ClaimedRow(w, r)]
          /\ \E x : exec' = [exec EXCEPT ![<<r, row[r].attempt + 1>>] = x]
      BY <3>1 DEF Claim
    <3>3. ClaimedRow(w, r).attempt = row[r].attempt + 1
      BY <1>t DEF ClaimedRow, Row
    <3>4. CASE e = <<r, row[r].attempt + 1>>
      BY <1>t, <3>2, <3>3, <3>4 DEF RunOf
    <3>5. CASE e # <<r, row[r].attempt + 1>>
      BY <1>t, <3>2, <3>5 DEF Live
    <3>6. QED
      BY <3>4, <3>5
  <2>2. CASE ~ \E r \in Runs : Claim(w, d, r)
    BY <1>2, <2>2 DEF DispatchStep, SweepBegins, NoFreeSlot, AcquireSlot, ClaimNothing,
                      ClaimFails, Live
  <2>3. QED
    BY <2>1, <2>2
<1>3. ASSUME NEW f \in Execs, ExecStep(f) \/ WriteFails(f), ~Release(f)
      PROVE  Live(e)
  BY <1>3, ThreadGoesOn DEF Live
<1>4. ASSUME NEW f \in Execs, Release(f)
      PROVE  Live(e)
  <2>1. exec' = [exec EXCEPT ![f] = NoExec]
    BY <1>4 DEF Release
  <2>2. QED
    BY <1>0, <1>t, <2>1 DEF Live
<1>5. ASSUME NEW w \in Workers, Crash(w) \/ Drained(w) \/ Exit(w)
      PROVE  Live(e)
  <2>1. exec'[e] \in {NoExec, exec[e]}
    BY <1>5 DEF Crash, Drained, Exit, ProcessGone
  <2>2. QED
    BY <1>0, <2>1 DEF Live
<1>6. QED
  BY <1>1, <1>2, <1>3, <1>4, <1>5, OtherSteps

\* Every step keeps the next attempt of a row free of threads.
LEMMA NextFresh ==
  ASSUME TypeOK, WritesChecked, AttemptsFresh, [Next]_vars
  PROVE  AttemptsFresh'
<1>1. ASSUME NEW r \in Runs, row'[r].status = "absent"
      PROVE  row'[r].attempt = 0
  <2>1. row[r].status = "absent" /\ row'[r].attempt = row[r].attempt
    BY <1>1, NextAttempts
  <2>2. QED
    BY <2>1 DEF AttemptsFresh
<1>2. ASSUME NEW e \in Execs, Live(e)'
      PROVE  e[2] <= row'[RunOf(e)].attempt
  <2>1. RunOf(e) \in Runs /\ e[2] \in Nat
    BY BoundsAssumption DEF Execs, Attempts, RunOf
  <2>2. row[RunOf(e)].attempt \in Nat
    BY <2>1, BoundsAssumption DEF TypeOK, Row
  <2>3. CASE Live(e)
    <3>1. e[2] <= row[RunOf(e)].attempt
      BY <2>3 DEF AttemptsFresh
    <3>2. row'[RunOf(e)].attempt \in {row[RunOf(e)].attempt, row[RunOf(e)].attempt + 1}
      BY <2>1, NextAttempts
    <3>3. QED
      BY <2>1, <2>2, <3>1, <3>2
  <2>4. CASE ~Live(e)
    BY <1>2, <2>1, <2>4, NextLive
  <2>5. QED
    BY <2>3, <2>4
<1>3. QED
  BY <1>1, <1>2 DEF AttemptsFresh, Live

\* All slots are free at first.
LEMMA InitSlots == Init => AttemptsFresh /\ ThreadsFinite /\ SlotsConserved
<1> SUFFICES ASSUME Init
             PROVE  AttemptsFresh /\ ThreadsFinite /\ SlotsConserved
  OBVIOUS
<1>1. \A w \in Workers : Threads(w) = {} /\ SlotHolders(w) = {} /\ free[w] = MaxConcurrent
  BY DEF Init, Threads, Live, NoExec, SlotHolders
<1>2. AttemptsFresh
  BY DEF Init, AttemptsFresh, Live, NoExec, NoRow
<1>3. QED
  BY <1>1, <1>2, FS_EmptySet, BoundsAssumption DEF ThreadsFinite, SlotsConserved

\* Through failed claims, empty sweeps, early returns and restarts, the
\* semaphore, the sweeping dispatchers and the running threads of a process
\* share exactly ai_runtime_max_concurrent slots.
THEOREM NoSlotLeaks == Spec => []SlotsConserved
<1> DEFINE IInv == TypeOK /\ WritesChecked /\ AttemptsFresh /\ ThreadsFinite /\ SlotsConserved
<1>1. Init => IInv
  BY InitInv, InitSlots
<1>2. IInv /\ [Next]_vars => IInv'
  BY NextInv, NextFresh, NextSlots
<1>3. IInv => SlotsConserved
  OBVIOUS
<1>4. QED
  BY <1>1, <1>2, <1>3, PTL DEF Spec
==============================================================================
