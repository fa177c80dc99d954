---------------------------- MODULE ChatSession ----------------------------
(***************************************************************************)
(* One conversation of an AI: the messages users send to it, the runs that *)
(* answer them, and the processes that start, feed and end those runs.     *)
(*                                                                         *)
(*   gateway, bots  start a run with a message, inject a message into the  *)
(*                  run in progress, stop and resume runs                  *)
(*   ai runtime     the threads of the runs: they rebuild the conversation *)
(*                  from the stored messages, take injected ones between   *)
(*                  turns, and after their run look for messages left over *)
(*   other AIs      wake the conversation, and end runs they take for dead *)
(*                                                                         *)
(* "One run per conversation" is a query before an insert in a later       *)
(* transaction, and taking the injected messages is a query and a later    *)
(* UPDATE: each is a read step and a commit step here, and everything else *)
(* may happen in between.  A status write is one step: its two halves, the *)
(* leases and the slots are the subject of ChatRunQueue.  Runs are queued  *)
(* for the worker pool (ai_dispatch_mode "remote"), but a wake also starts *)
(* a thread of its own, all of them in one process.                        *)
(***************************************************************************)
EXTENDS RunStatus, Naturals, FiniteSets

CONSTANTS
  Runs,         \* the ChatRun rows of the conversation, numbered as they are inserted
  Messages,     \* the user messages, numbered as their senders begin
  NoRun, NoMsg, \* stand for NULL
  MaxSteps,     \* max_steps of a run: model turns it may take
  Budgets       \* bounds: how many messages come from web clients and how many through
                \* bots, how many wakes, stops and resumes there are, how often the pool
                \* claims the row of a wake's own thread (doubles), and how many faults
                \* there are: polls, crashes and failed loads

ASSUME RunsAssumption == Runs \subseteq Nat /\ NoRun \notin Runs
ASSUME MessagesAssumption ==
  Messages \subseteq Nat /\ IsFiniteSet(Messages) /\ NoMsg \notin Messages
Bounds ==
  [{"clients", "bots", "wakes", "doubles", "stops", "resumes", "faults"} -> Nat]
ASSUME BoundsAssumption ==
  MaxSteps \in Nat \ {0} /\ Budgets \subseteq Bounds

VARIABLES
  status,     \* ChatRun.status of every row, "absent" before it
  stop,       \* ChatRun.stop_requested
  kwargs,     \* ChatRun.worker_kwargs_json: model_user_content of a row
  note,       \* a message: not saved, plain history, or tagged for injection
  at,         \* ChatMessage.created_at as an arrival number, 0 before it
  thread,     \* the threads of the runs
  backstop,   \* resume_orphaned_injects in progress, after a run or in a bot
  request,    \* the request that carries a message
  resuming,   \* the resume request in progress
  waking,     \* the wake in progress
  shown,      \* history: messages that were sent to the model
  takes,      \* history: how often a message was taken out of the queue, up to 2
  passed,     \* history: messages a run is known to have passed over
  lapses,     \* history: which known gaps of the protocol were met
  budget      \* bound: what is left of one of Budgets

rows     == <<status, stop, kwargs>>
messages == <<note, at>>
users    == <<request, resuming, waking>>
history  == <<shown, takes, passed, lapses>>
vars == <<rows, messages, thread, backstop, users, history, budget>>
-----------------------------------------------------------------------------
(* A row may be executed twice: by a thread of the worker pool that claims *)
(* it, and by the thread that a wake starts for the row it inserts.        *)
Threads  == Runs \X {"pool", "own"}
Callers  == Threads \cup (Messages \X {"bot"})   \* of resume_orphaned_injects
RunOf(t) == t[1]

\* A row whose thread stops, a thread whose row ended or has another thread, ...
Lapses == {"crossed", "straggled", "doubled", "late", "cut", "unserved"}

Absent  == {r \in Runs : status[r] = "absent"}
Present == Runs \ Absent
Live    == {r \in Runs : status[r] \in ActiveStatuses}
Plain   == {m \in Messages : note[m] = "plain"}
Pending == {m \in Messages : note[m] = "pending"}
Sent    == {m \in Messages : at[m] # 0}

Alive(t) == thread[t].pc # "none"
ThreadsOf(r) == {t \in Threads : RunOf(t) = r /\ Alive(t)}
Latest(S) == {m \in S : \A n \in S : at[n] <= at[m]}

(* The bounds.                                                             *)
Spend(kind) == budget[kind] > 0 /\ budget' = [budget EXCEPT ![kind] = @ - 1]

NoThread   == [pc |-> "none", steps |-> 0, convo |-> {}, got |-> {}, prompt |-> NoMsg]
NoBackstop == [pc |-> "none", seen |-> {}, got |-> {}]
NoRequest  == [pc |-> "none", found |-> NoRun, seen |-> {}]
NotWaking  == [found |-> NoRun, seen |-> {}, dead |-> {}, busy |-> FALSE]
-----------------------------------------------------------------------------
Init ==
  /\ status = [r \in Runs |-> "absent"]
  /\ stop = [r \in Runs |-> FALSE]
  /\ kwargs = [r \in Runs |-> NoMsg]
  /\ note = [m \in Messages |-> "none"]
  /\ at = [m \in Messages |-> 0]
  /\ thread = [t \in Threads |-> NoThread]
  /\ backstop = [c \in Callers |-> NoBackstop]
  /\ request = [m \in Messages |-> NoRequest]
  /\ resuming = NoRequest
  /\ waking = NotWaking
  /\ shown = {} /\ passed = {} /\ lapses = {}
  /\ takes = [m \in Messages |-> 0]
  /\ budget \in Budgets
-----------------------------------------------------------------------------
(***************************************************************************)
(* Shared pieces of the code.                                              *)
(***************************************************************************)
\* Mutant: a queued run does not count as live.
OnlyRunning == {r \in Runs : status[r] = "running"}
\* find_live_active_run, _reject_active_run and the queries of the bots.
LiveRuns == Live

(* _save_message: the message gets the next place in the history.          *)
Saved(m, tag) ==
  /\ note' = [note EXCEPT ![m] = tag]
  /\ at' = [at EXCEPT ![m] = Cardinality(Sent) + 1]

(* A starter inserts the next row with `text` as its prompt.  It looked    *)
(* for a live run in an earlier step: crossed, if a row was inserted since.*)
NextRow(r) == status[r] = "absent" /\ \A s \in Absent : r <= s
Insert(seen, text, r) ==
  /\ NextRow(r)
  /\ status' = [status EXCEPT ![r] = "queued"]
  /\ kwargs' = [kwargs EXCEPT ![r] = text]
  /\ lapses' = IF seen = Present THEN lapses ELSE lapses \cup {"crossed"}
  /\ UNCHANGED stop

\* _run_set_status with set_status: a requested stop wins over the goal, and
\* a write the lifecycle does not allow leaves the row alone.
Written(r, goal) ==
  LET target == IF stop[r] THEN "stopped" ELSE goal
  IN IF ValidTransition(status[r], target) THEN target ELSE status[r]

SetStatus(r, goal) ==
  /\ status' = [status EXCEPT ![r] = Written(r, goal)]
  /\ UNCHANGED <<stop, kwargs>>

\* Mutant: the rows are read, and their tags kept.
Kept(got) == note
(* pop_pending_injects and resume_orphaned_injects, once the rows `got`    *)
(* have been read: their tags are cleared.                                 *)
Cleared(got) == [m \in Messages |-> IF m \in got THEN "plain" ELSE note[m]]
Untag(got) ==
  /\ note' = Cleared(got)
  /\ takes' = [m \in Messages |-> IF m \in got /\ takes[m] < 2
                                  THEN takes[m] + 1 ELSE takes[m]]
  /\ UNCHANGED at
-----------------------------------------------------------------------------
(***************************************************************************)
(* Users: the web client starts a run or, told that one is active, injects *)
(* into it; a bot decides that itself, after it has saved the message.     *)
(***************************************************************************)
NewSender(m, kind) ==
  /\ request[m].pc = "none"
  /\ \A n \in Messages : n < m => request[n].pc # "none"
  /\ Spend(kind)

Asks(m, pc, r) ==
  request' = [request EXCEPT ![m] = [pc |-> pc, found |-> r, seen |-> Present]]
Continues(m, pc) == request' = [request EXCEPT ![m].pc = pc]
Done(m) == request' = [request EXCEPT ![m] = [NoRequest EXCEPT !.pc = "done"]]

\* start_chat_run: the query, ...
SendLooks(m) ==
  /\ NewSender(m, "clients")
  /\ LiveRuns = {}
  /\ Asks(m, "sends", NoRun)
  /\ UNCHANGED <<rows, messages, thread, backstop, resuming, waking, history>>

\* ... the message, ...
SendSaves(m) ==
  /\ request[m].pc = "sends"
  /\ Saved(m, "plain")
  /\ Continues(m, "inserts")
  /\ UNCHANGED <<rows, thread, backstop, resuming, waking, history, budget>>

\* ... and the run, whose prompt is the message.
SendInserts(m, r) ==
  /\ request[m].pc = "inserts"
  /\ Insert(request[m].seen, m, r)
  /\ Done(m)
  /\ UNCHANGED <<messages, thread, backstop, resuming, waking, shown, takes,
                 passed, budget>>

\* inject_chat_message: the query, which answers "active" for the run it finds, ...
InjectLooks(m, r) ==
  /\ NewSender(m, "clients")
  /\ r \in LiveRuns
  /\ Asks(m, "injects", r)
  /\ UNCHANGED <<rows, messages, thread, backstop, resuming, waking, history>>

\* ... and queue_pending_inject: late, if that run has ended since.
InjectSaves(m) ==
  /\ request[m].pc = "injects"
  /\ Saved(m, "pending")
  /\ Done(m)
  /\ lapses' = IF request[m].found \in Live THEN lapses ELSE lapses \cup {"late"}
  /\ UNCHANGED <<rows, thread, backstop, resuming, waking, shown, takes, passed,
                 budget>>

\* The handler of a bot saves the message as ordinary history, ...
BotSaves(m) ==
  /\ NewSender(m, "bots")
  /\ Saved(m, "plain")
  /\ Continues(m, "botlooks")
  /\ UNCHANGED <<rows, thread, backstop, resuming, waking, history>>

\* ... looks for a live run, ...
BotLooks(m) ==
  /\ request[m].pc = "botlooks"
  /\ Asks(m, IF LiveRuns = {} THEN "botinserts" ELSE "botmarks", NoRun)
  /\ UNCHANGED <<rows, messages, thread, backstop, resuming, waking, history, budget>>

\* ... and marks the message for injection, with a backstop of its own, ...
BotMarks(m) ==
  /\ request[m].pc = "botmarks"
  /\ note' = [note EXCEPT ![m] = "pending"]
  /\ backstop' = [backstop EXCEPT ![<<m, "bot">>].pc = "looks"]
  /\ Done(m)
  /\ UNCHANGED <<rows, at, thread, resuming, waking, history, budget>>

\* ... or inserts a run, ...
BotInserts(m, r) ==
  /\ request[m].pc = "botinserts"
  /\ Insert(request[m].seen, NoMsg, r)
  /\ request' = [request EXCEPT ![m].pc = "extras", ![m].found = r]
  /\ UNCHANGED <<messages, thread, backstop, resuming, waking, shown, takes,
                 passed, budget>>

\* ... whose prompt it adds in a transaction of its own.
BotExtras(m) ==
  /\ request[m].pc = "extras"
  /\ kwargs' = [kwargs EXCEPT ![request[m].found] = m]
  /\ Done(m)
  /\ UNCHANGED <<status, stop, messages, thread, backstop, resuming, waking,
                 history, budget>>

\* The one of WeChat looks again, and drops the message if a run has come up.
BotGivesUp(m) ==
  /\ request[m].pc = "botinserts"
  /\ LiveRuns # {}
  /\ Done(m)
  /\ passed' = passed \cup {m}
  /\ UNCHANGED <<rows, messages, thread, backstop, resuming, waking, shown, takes,
                 lapses, budget>>

\* request_stop of a run that has not ended.  Without a thread nobody is left
\* to look after its messages: unserved.
StopRun(r) ==
  /\ Spend("stops")
  /\ status[r] \in ActiveStatuses
  /\ stop' = [stop EXCEPT ![r] = TRUE]
  /\ status' = [status EXCEPT ![r] = "stopped"]
  /\ lapses' = lapses \cup {IF ThreadsOf(r) = {} THEN "unserved" ELSE "straggled"}
  /\ UNCHANGED <<kwargs, messages, thread, backstop, users, shown, takes, passed>>

\* resume_chat_run: a new row with the prompt of the stopped one.
ResumeLooks(r) ==
  /\ Spend("resumes")
  /\ resuming.found = NoRun
  /\ status[r] = "stopped"
  /\ LiveRuns = {}
  /\ resuming' = [resuming EXCEPT !.found = r, !.seen = Present]
  /\ UNCHANGED <<rows, messages, thread, backstop, request, waking, history>>

ResumeInserts(r) ==
  /\ resuming.found # NoRun
  /\ Insert(resuming.seen, kwargs[resuming.found], r)
  /\ resuming' = NoRequest
  /\ UNCHANGED <<messages, thread, backstop, request, waking, shown, takes, passed,
                 budget>>
-----------------------------------------------------------------------------
(***************************************************************************)
(* Other AIs.  _get_live_active_run takes a run for dead when its thread   *)
(* was not started by this process, as the worker pool's never are, unless *)
(* it is queued and young.  It ends those it meets before the first run it *)
(* takes for alive, and commits that itself only if there is none.         *)
(***************************************************************************)
Owned(r) == Alive(<<r, "own">>)
MayPassForAlive(r) == Owned(r) \/ status[r] = "queued"

LooksDead(dead, found) ==
  /\ dead \subseteq {r \in Live : ~ Owned(r)}
  /\ IF found = NoRun THEN dead = Live
     ELSE found \in Live \ dead /\ MayPassForAlive(found)

Ended(S) == [r \in Runs |-> IF r \in S THEN "error" ELSE status[r]]

\* A thread goes on although its row has ended.
Overtaken(S) == IF \E r \in S : ThreadsOf(r) # {} THEN {"straggled"} ELSE {}

\* wake_idle_target_for_message: one at a time (_WAKE_LOCK).
WakeLooks(dead, found) ==
  /\ Spend("wakes")
  /\ ~ waking.busy
  /\ LooksDead(dead, found)
  /\ waking' = [found |-> found, seen |-> Present, busy |-> TRUE,
                dead |-> IF found = NoRun THEN {} ELSE dead]
  /\ status' = IF found = NoRun THEN Ended(dead) ELSE status
  /\ lapses' = IF found = NoRun THEN lapses \cup Overtaken(dead) ELSE lapses
  /\ UNCHANGED <<stop, kwargs, messages, thread, backstop, request, resuming,
                 shown, takes, passed>>

\* It ends the run it found (_mark_run_interrupted), inserts its own and
\* starts a thread for it.
WakeInserts(r) ==
  LET over == waking.dead \cup ({waking.found} \ {NoRun})
  IN /\ waking.busy
     /\ NextRow(r)
     /\ status' = [s \in Runs |-> IF s = r THEN "queued"
                                  ELSE IF s = waking.found THEN "stopped"
                                  ELSE Ended(waking.dead)[s]]
     /\ stop' = [s \in Runs |-> stop[s] \/ s = waking.found]
     /\ thread' = [thread EXCEPT ![<<r, "own">>].pc = "begins"]
     /\ lapses' = lapses \cup Overtaken(over)
                         \cup (IF waking.seen = Present THEN {} ELSE {"crossed"})
     /\ waking' = NotWaking
     /\ UNCHANGED <<kwargs, messages, backstop, request, resuming, shown, takes,
                    passed, budget>>

\* wait_for_reply asks every half second whether the addressee still works.
Poll ==
  /\ Spend("faults")
  /\ Live # {} /\ LooksDead(Live, NoRun)
  /\ status' = Ended(Live)
  /\ lapses' = lapses \cup Overtaken(Live)
                 \cup (IF \E r \in Live : ThreadsOf(r) = {} THEN {"unserved"} ELSE {})
  /\ UNCHANGED <<stop, kwargs, messages, thread, backstop, users, shown, takes,
                 passed>>
-----------------------------------------------------------------------------
(***************************************************************************)
(* The threads of the runs.                                                *)
(***************************************************************************)
Moves(t, pc) == thread' = [thread EXCEPT ![t].pc = pc]

\* Mutant: only a completed run looks after its messages.
AfterSuccess(r) == IF status'[r] = "completed" THEN "looks" ELSE "none"
\* The finally block of run_worker, whatever has happened before.
Afterwards(r) == "looks"

\* The run of a thread ends; what follows is its backstop.
Ends(t, goal) ==
  /\ SetStatus(RunOf(t), goal)
  /\ thread' = [thread EXCEPT ![t] = NoThread]
  /\ backstop' = [backstop EXCEPT ![t].pc = Afterwards(RunOf(t))]
  /\ UNCHANGED <<messages, users, history, budget>>

\* A dispatcher claims a queued row; doubled, if it has a thread already.
Claim(r) ==
  LET t == <<r, "pool">>
  IN /\ status[r] = "queued"
     /\ ~ Alive(t) /\ backstop[t].pc = "none"
     /\ status' = [status EXCEPT ![r] = "running"]
     /\ Moves(t, "begins")
     /\ IF Owned(r) THEN Spend("doubles") /\ lapses' = lapses \cup {"doubled"}
                    ELSE UNCHANGED <<lapses, budget>>
     /\ UNCHANGED <<stop, kwargs, messages, backstop, users, shown, takes, passed>>

\* _load_worker_kwargs: without a prompt of its own a run of the pool takes
\* the latest message of a user, tagged or not.
Prompts(t) ==
  IF t[2] = "own" THEN {NoMsg}
  ELSE IF kwargs[RunOf(t)] # NoMsg \/ Sent = {} THEN {kwargs[RunOf(t)]}
  ELSE Latest(Sent)

\* ... and may fail; the run is not even started then, and has no backstop.
LoadFails(t) ==
  /\ Spend("faults")
  /\ thread[t].pc = "begins" /\ t[2] = "pool"
  /\ status' = [status EXCEPT ![RunOf(t)] =
                  IF ValidTransition(@, "error") THEN "error" ELSE @]
  /\ thread' = [thread EXCEPT ![t] = NoThread]
  /\ lapses' = lapses \cup {"unserved"}
  /\ UNCHANGED <<stop, kwargs, messages, backstop, users, shown, takes, passed>>

\* start_worker_run: a stopped run ends here, ...
Refuses(t) ==
  /\ thread[t].pc = "begins" /\ stop[RunOf(t)]
  /\ Ends(t, "stopped")

\* ... any other is marked running.
Begins(t) ==
  /\ thread[t].pc = "begins" /\ ~ stop[RunOf(t)]
  /\ SetStatus(RunOf(t), "running")
  /\ \E p \in Prompts(t) :
       thread' = [thread EXCEPT ![t].pc = "builds", ![t].prompt = p]
  /\ UNCHANGED <<messages, backstop, users, history, budget>>

\* build_conversation_history leaves the tagged messages out and puts the
\* prompt in the place of the latest of the others.
Builds(t) ==
  LET p == thread[t].prompt
      over == IF p = NoMsg THEN {} ELSE Latest(Plain)
      new == IF over = {} THEN {} ELSE {p}
  IN /\ thread[t].pc = "builds"
     /\ thread' = [thread EXCEPT ![t].pc = "top",
                                 ![t].convo = (Plain \ over) \cup new]
     /\ passed' = passed \cup (over \ new)
     /\ UNCHANGED <<rows, messages, backstop, users, shown, takes, lapses, budget>>

\* Mutant: the run may take one step more.
StepOver(t) == thread[t].steps <= MaxSteps
\* can_start_inference_step, without a plan of the AI.
StepLeft(t) == thread[t].steps < MaxSteps

With(t, pc, convo, n) ==
  [thread EXCEPT ![t] = [pc |-> pc, steps |-> n, convo |-> convo, got |-> {},
                         prompt |-> thread[t].prompt]]

\* The model gets the conversation: convo with the messages taken just now.
Asked(t, convo, n) ==
  /\ thread' = With(t, "turn", convo, n)
  /\ shown' = shown \cup convo

\* The top of the loop: no step is left and the run completes, ...
OutOfSteps(t) ==
  /\ thread[t].pc = "top" /\ ~ StepLeft(t)
  /\ passed' = passed \cup (thread[t].convo \ shown)
  /\ Moves(t, "completes")
  /\ UNCHANGED <<rows, messages, backstop, users, shown, takes, lapses, budget>>

\* ... a stop was requested, at any check until the end of the turn, ...
Stops(t) ==
  /\ thread[t].pc \in {"top", "turn"} /\ stop[RunOf(t)]
  /\ thread[t].pc = "top" => StepLeft(t)
  /\ Ends(t, "stopped")

\* ... or the tagged messages are read (pop_pending_injects), before the turn, ...
Reads(t) ==
  /\ thread[t].pc = "top" /\ StepLeft(t) /\ ~ stop[RunOf(t)]
  /\ IF Pending = {}
     THEN Asked(t, thread[t].convo, thread[t].steps + 1)
     ELSE /\ thread' = [thread EXCEPT ![t].pc = "takes", ![t].got = Pending,
                                      ![t].steps = @ + 1]
          /\ UNCHANGED shown
  /\ UNCHANGED <<rows, messages, backstop, users, takes, passed, lapses, budget>>

\* Mutant: the texts of the messages are lost on the way.
Unheard(t) == thread[t].convo
Heard(t) == thread[t].convo \cup thread[t].got

\* ... and their tags cleared.
Takes(t) ==
  /\ thread[t].pc = "takes"
  /\ Untag(thread[t].got)
  /\ Asked(t, Heard(t), thread[t].steps)
  /\ UNCHANGED <<rows, backstop, users, passed, lapses, budget>>

\* The model calls tools, or its answer is to be corrected: the next turn.
Tools(t) ==
  /\ thread[t].pc = "turn"
  /\ Moves(t, "top")
  /\ UNCHANGED <<rows, messages, backstop, users, history, budget>>

\* The turn fails for good (three model errors, a rejected call, an exception).
Fails(t) ==
  /\ thread[t].pc = "turn"
  /\ Ends(t, "error")

\* The same calls again and again: the run completes without a last look.
NoProgress(t) ==
  /\ thread[t].pc = "turn"
  /\ Moves(t, "completes")
  /\ UNCHANGED <<rows, messages, backstop, users, history, budget>>

\* The model has answered: the messages that came meanwhile keep the run
\* going, ...
Answers(t) ==
  /\ thread[t].pc = "turn"
  /\ thread' = [thread EXCEPT ![t].pc = IF Pending = {} THEN "completes" ELSE "again",
                              ![t].got = Pending]
  /\ UNCHANGED <<rows, messages, backstop, users, history, budget>>

Again(t) ==
  /\ thread[t].pc = "again"
  /\ Untag(thread[t].got)
  /\ thread' = With(t, "top", Heard(t), thread[t].steps)
  /\ UNCHANGED <<rows, backstop, users, shown, passed, lapses, budget>>

\* ... and if there are none it has completed.
Completes(t) ==
  /\ thread[t].pc = "completes"
  /\ Ends(t, "completed")

Steps(t) ==
  \/ Refuses(t) \/ Begins(t) \/ Builds(t) \/ OutOfSteps(t) \/ Stops(t)
  \/ Reads(t) \/ Takes(t) \/ Tools(t) \/ Fails(t) \/ NoProgress(t)
  \/ Answers(t) \/ Again(t) \/ Completes(t)
-----------------------------------------------------------------------------
(***************************************************************************)
(* resume_orphaned_injects: only without a live run ...                    *)
(***************************************************************************)
BackstopLooks(c) ==
  /\ backstop[c].pc = "looks"
  /\ backstop' = [backstop EXCEPT ![c] =
                    IF LiveRuns # {} THEN NoBackstop
                    ELSE [pc |-> "reads", seen |-> Present, got |-> {}]]
  /\ UNCHANGED <<rows, messages, thread, users, history, budget>>

\* ... and only with tagged messages ...
BackstopReads(c) ==
  /\ backstop[c].pc = "reads"
  /\ backstop' = [backstop EXCEPT ![c] =
                    IF Pending = {} THEN NoBackstop
                    ELSE [@ EXCEPT !.pc = "adopts", !.got = Pending]]
  /\ UNCHANGED <<rows, messages, thread, users, history, budget>>

\* ... it makes these ordinary history and inserts a run, without a prompt.
BackstopAdopts(c, r) ==
  /\ backstop[c].pc = "adopts"
  /\ Untag(backstop[c].got)
  /\ Insert(backstop[c].seen, NoMsg, r)
  /\ backstop' = [backstop EXCEPT ![c] = NoBackstop]
  /\ UNCHANGED <<thread, users, shown, passed, budget>>

Looks(c) == BackstopLooks(c) \/ BackstopReads(c) \/ \E r \in Runs : BackstopAdopts(c, r)

(* The process of a thread or a backstop dies.  A run that has not ended   *)
(* and has no other thread will be queued again; the messages anybody else *)
(* had taken or was to take are cut off.                                   *)
Crash(c) ==
  /\ Spend("faults")
  /\ \/ c \in Threads /\ Alive(c)
     \/ backstop[c].pc # "none"
  /\ thread' = [t \in Threads |-> IF t = c THEN NoThread ELSE thread[t]]
  /\ backstop' = [backstop EXCEPT ![c] = NoBackstop]
  /\ lapses' = IF c \in Threads /\ RunOf(c) \in Live /\ ThreadsOf(RunOf(c)) = {c}
               THEN lapses ELSE lapses \cup {"cut"}
  /\ UNCHANGED <<rows, messages, users, shown, takes, passed>>

\* Mutant: the reaper leaves the rows of dead threads alone.
NeverStale(r) == FALSE
\* reap_stale_runs: a running row nobody sends heartbeats for.
Stale(r) == ThreadsOf(r) = {} /\ \A t \in Threads : RunOf(t) = r => backstop[t].pc = "none"
Reap(r) ==
  /\ status[r] = "running"
  /\ Stale(r)
  /\ status' = [status EXCEPT ![r] = "queued"]
  /\ UNCHANGED <<stop, kwargs, messages, thread, backstop, users, history, budget>>
-----------------------------------------------------------------------------
UserActs ==
  \/ \E m \in Messages :
       \/ SendLooks(m) \/ SendSaves(m) \/ InjectSaves(m) \/ BotSaves(m)
       \/ BotLooks(m) \/ BotMarks(m) \/ BotExtras(m) \/ BotGivesUp(m)
       \/ \E r \in Runs : SendInserts(m, r) \/ InjectLooks(m, r) \/ BotInserts(m, r)
  \/ \E r \in Runs : StopRun(r) \/ ResumeLooks(r) \/ ResumeInserts(r)

OthersAct ==
  \/ \E dead \in SUBSET Runs, found \in Runs \cup {NoRun} : WakeLooks(dead, found)
  \/ \E r \in Runs : WakeInserts(r)
  \/ Poll

Next ==
  \/ UserActs \/ OthersAct
  \/ \E r \in Runs : Claim(r) \/ Reap(r)
  \/ \E t \in Threads : Steps(t) \/ LoadFails(t)
  \/ \E c \in Callers : Looks(c) \/ Crash(c)

Spec == Init /\ [][Next]_vars

(* The dispatchers and the reaper come round again, a thread whose process *)
(* lives is scheduled, and a wake inserts its row right after it looked.   *)
(* Nothing is assumed of the users, nor that anybody wakes.                *)
Fairness ==
  /\ \A r \in Runs : WF_vars(Claim(r)) /\ WF_vars(Reap(r)) /\ WF_vars(WakeInserts(r))
  /\ \A t \in Threads : WF_vars(Steps(t))
  /\ \A c \in Callers : WF_vars(Looks(c))

LiveSpec == Spec /\ Fairness
-----------------------------------------------------------------------------
(* Every variable has its type.                                            *)
RowsOK ==
  /\ status \in [Runs -> KnownStatuses \cup {"absent"}]
  /\ stop \in [Runs -> BOOLEAN] /\ kwargs \in [Runs -> Messages \cup {NoMsg}]
MessagesOK ==
  /\ note \in [Messages -> {"none", "plain", "pending"}]
  /\ at \in [Messages -> Nat]
ThreadsOK ==
  thread \in [Threads ->
    [pc : {"none", "begins", "builds", "top", "takes", "turn", "again", "completes"},
     steps : 0 .. MaxSteps, convo : SUBSET Messages, got : SUBSET Messages,
     prompt : Messages \cup {NoMsg}]]
BackstopsOK ==
  backstop \in [Callers -> [pc : {"none", "looks", "reads", "adopts"},
                            seen : SUBSET Runs, got : SUBSET Messages]]
RequestsOK ==
  request \in [Messages ->
    [pc : {"none", "sends", "inserts", "injects", "botlooks", "botmarks",
           "botinserts", "extras", "done"},
     found : Runs \cup {NoRun}, seen : SUBSET Runs]]
StartersOK ==
  /\ resuming \in [pc : {"none"}, found : Runs \cup {NoRun}, seen : SUBSET Runs]
  /\ waking \in [found : Runs \cup {NoRun}, seen : SUBSET Runs,
                 dead : SUBSET Runs, busy : BOOLEAN]
HistoryOK ==
  /\ shown \subseteq Messages /\ passed \subseteq Messages
  /\ takes \in [Messages -> 0 .. 2]
  /\ lapses \subseteq Lapses
  /\ budget \in Bounds
TypeOK ==
  /\ RowsOK /\ MessagesOK /\ ThreadsOK /\ BackstopsOK /\ RequestsOK
  /\ StartersOK /\ HistoryOK

(* A conversation has one live run, unless a starter crossed with another: *)
(* the row it did not see was inserted after it had looked.                *)
OneLiveRun == (\E r, s \in Live : r # s) => "crossed" \in lapses

(* A tagged message always has somebody who will take it: a live run, the  *)
(* thread of an ended one, a backstop that has not read yet, or a wake     *)
(* about to start a run.  The gaps: it was saved after its run had ended,  *)
(* a process died over an ended run, or a run ended without a thread.      *)
Takers ==
  \/ Live # {} \/ waking.busy
  \/ \E t \in Threads : Alive(t)
  \/ \E c \in Callers : backstop[c].pc # "none"
PendingHasTaker ==
  Pending # {} => Takers \/ lapses \cap {"late", "cut", "unserved"} # {}

(* A tagged message is taken out of the queue once, unless two threads are *)
(* at work in the conversation.                                            *)
TakenOnce ==
  (\E m \in Messages : takes[m] = 2) =>
    lapses \cap {"crossed", "straggled", "doubled"} # {}

(* When the conversation is quiet, every message of its history has been   *)
(* in front of the model, even if the thread that had taken it crashed.    *)
(* Apart from those a run passed over and those of a thread that stopped,  *)
(* failed or was cut off.                                                  *)
Quiet ==
  /\ Live = {} /\ ~ waking.busy /\ resuming = NoRequest
  /\ \A t \in Threads : ~ Alive(t)
  /\ \A c \in Callers : backstop[c].pc = "none"
  /\ \A m \in Messages : request[m].pc \in {"none", "done"}
NothingLeftUnread ==
  Quiet => \/ Plain \subseteq shown \cup passed \/ "cut" \in lapses
           \/ \E r \in Runs : status[r] \in {"stopped", "error"}

(* A tagged message is taken, unless it fell into one of the gaps.         *)
PendingTaken ==
  \A m \in Messages :
    (m \in Pending) ~> (m \notin Pending \/ lapses \cap {"late", "cut", "unserved"} # {})
=============================================================================
